------------------------------ MODULE FreeLists ------------------------------
(***************************************************************************)
(* The free lists of crates/database, entry by entry, in the pages that    *)
(* store them: a list is a tree of pages whose leaves hold page numbers,   *)
(* with the entries [0, front) kept for a later epoch and [front, back)    *)
(* ready. The allocator stores the pages released by an operation into the *)
(* current list before it ends, and storing them may itself release and    *)
(* obtain pages. Module Snapshots sees the same lists as sets.             *)
(***************************************************************************)
EXTENDS Integers, SequencesExt

CONSTANTS
  FanOut,     \* entries of a page (2048 in the code)
  MaxDepth,   \* depth of the leaves (2 in the code)
  MaxPage,    \* bound: the largest page number the file may reach
  MaxBack,    \* bound: entries of the current list when an operation starts
  Slack,      \* bound: pages one operation may add to the file
  MaxEpoch    \* bound: snapshots taken

ASSUME FanOutAssumption == FanOut \in Nat /\ FanOut > 1
ASSUME MaxDepthAssumption == MaxDepth \in Nat

VARIABLES
  alloc,   \* AllocatorState, the Allocator of the running operation, the pages
  used,    \* pages the callers hold
  epoch    \* snapshots taken

vars == <<alloc, used, epoch>>

-----------------------------------------------------------------------------

Null == 0            \* NULL_PAGE_NR
Panic == -1          \* what a failed assertion returns here

PageNr == 0 .. MaxPage + Slack
ZeroPage == [i \in 0 .. FanOut - 1 |-> Null]

EntriesAt(depth) == FanOut ^ (MaxDepth - depth)

EmptyList == [root |-> Null, front |-> 0, back |-> 0]

HasReady(l) == l.front < l.back

RECURSIVE GetInPage(_, _, _, _)
GetInPage(pages, nr, index, depth) ==
  LET child == pages[nr][index \div EntriesAt(depth)] IN
  IF nr = Null THEN Panic
  ELSE IF depth < MaxDepth THEN GetInPage(pages, child, index % EntriesAt(depth), depth + 1)
  ELSE child

Entry(a, l, index) == GetInPage(a.pages, l.root, index, 0)

\* Pager::enable_write. A number that a failed assertion stands for ends the
\* program; a number beyond the bound ends the run.
EnableWrite(a, nr) ==
  [a EXCEPT !.writable = @ \cup ({nr} \ {Panic}),
            !.panicked = @ \/ nr = Panic]

\* Mutant: no room is made at the back for the page to keep.
ShiftFrontOnly(a) == [a EXCEPT !.cur.front = @ + 1]

\* FreeList::shift_front: the number at the front, or room for one kept page.
HasFront(a) == HasReady(a.cur)
FrontEntry(a) == Entry(a, a.cur, a.cur.front)
ShiftFront(a) ==
  [a EXCEPT !.cur.front = @ + 1, !.cur.back = IF HasFront(a) THEN @ ELSE @ + 1]

\* A page that was obtained, in r.nr, may be changed.
Granted(r) == [r EXCEPT !.a = EnableWrite(@, r.nr)]

\* Allocator::allocate
AllocateFrom(a) ==
  Granted(
    IF a.append # <<>> THEN [nr |-> Last(a.append), a |-> [a EXCEPT !.append = Front(@)]]
    ELSE IF HasReady(a.cur)
    THEN [nr |-> Entry(a, a.cur, a.cur.back - 1), a |-> [a EXCEPT !.cur.back = @ - 1]]
    ELSE IF HasReady(a.prev)
    THEN [nr |-> Entry(a, a.prev, a.prev.back - 1), a |-> [a EXCEPT !.prev.back = @ - 1]]
    ELSE [nr |-> a.last + 1, a |-> [a EXCEPT !.last = @ + 1]])

Keep(a, nr) == [a EXCEPT !.prepend = Append(@, nr)]

\* Allocator::reallocate, once the page it replaces is to be kept
Replacement(a) ==
  IF HasFront(a) THEN Granted([nr |-> FrontEntry(a), a |-> ShiftFront(a)])
                 ELSE AllocateFrom(ShiftFront(a))

ReallocateFrom(a, nr) == Replacement(Keep(a, nr))

\* Mutant: every released page may be handed out at once.
DeallocateAtOnce(a, nr) == [a EXCEPT !.append = Append(@, nr)]

\* Room for one kept page, which may push a ready one to the back.
MakeRoom(a) ==
  IF HasFront(a) THEN [ShiftFront(a) EXCEPT !.append = Append(@, FrontEntry(a))]
                 ELSE ShiftFront(a)

\* Allocator::deallocate
DeallocateFrom(a, nr) ==
  IF nr \in a.writable THEN [a EXCEPT !.append = Append(@, nr)] ELSE MakeRoom(Keep(a, nr))

\* The page obtained as r, with its contents.
Filled(r, contents) == IF r.a.panicked THEN r ELSE [r EXCEPT !.a.pages[r.nr] = contents]

\* The first part of FreeList::set_inner: a page of the path that may be
\* changed, new, as it is, or a copy.
PathPage(a, nr) ==
  IF nr = Null THEN Filled(AllocateFrom(a), ZeroPage)
  ELSE IF nr \in a.writable THEN [nr |-> nr, a |-> a]
  ELSE Filled(ReallocateFrom(a, nr), a.pages[nr])

\* The second part: the entry, or the page below it, is stored in the page,
\* after every page below was obtained.
Link(path, digit, below) ==
  [nr |-> path.nr, a |-> [below.a EXCEPT !.pages[path.nr][digit] = below.nr]]

\* FreeList::set_inner
RECURSIVE SetInner(_, _, _, _)
SetInner(path, index, value, depth) ==
  IF path.a.panicked THEN path
  ELSE IF depth = MaxDepth THEN Link(path, index, [nr |-> value, a |-> path.a])
  ELSE LET digit == index \div EntriesAt(depth) IN
       Link(path, digit, SetInner(PathPage(path.a, path.a.pages[path.nr][digit]),
                                  index % EntriesAt(depth), value, depth + 1))

\* FreeList::set
Rooted(r) == [r.a EXCEPT !.cur.root = r.nr]
SetEntry(a, index, value) ==
  IF a.panicked THEN a ELSE Rooted(SetInner(PathPage(a, a.cur.root), index, value, 0))

\* FreeList::prepend of the pages in a.prepend
PrependAll(a) ==
  LET Step(acc, nr) == [a |-> SetEntry(acc.a, acc.index, nr), index |-> acc.index + 1]
  IN FoldLeft(Step, [a |-> [a EXCEPT !.prepend = <<>>],
                     index |-> a.cur.front - Len(a.prepend)], a.prepend).a

\* FreeList::append of the pages in a.append. The index is read before the
\* entry is set; "stale" remembers that setting it moved the back of the list.
PastBack(a, index) == [a EXCEPT !.cur.back = @ + 1, !.stale = @ \/ a.cur.back # index]
AppendAll(a) ==
  LET Step(acc, nr) == PastBack(SetEntry(acc, acc.cur.back, nr), acc.cur.back)
  IN FoldLeft(Step, [a EXCEPT !.append = <<>>], a.append)

\* Allocator::resolve
RECURSIVE Resolve(_)
Resolve(a) ==
  IF (a.prepend = <<>> /\ a.append = <<>>) \/ a.panicked THEN a
  ELSE Resolve(AppendAll(PrependAll(a)))

\* The bounds an operation starts within.
Roomy == alloc.last <= MaxPage /\ alloc.cur.back <= MaxBack

-----------------------------------------------------------------------------
(* The operations of Lock, each with the resolution of its guard. *)

Allocate ==
  LET r == AllocateFrom(alloc) IN
  /\ ~alloc.panicked
  /\ Roomy
  /\ alloc' = Resolve(r.a)
  /\ used' = used \cup ({r.nr} \ {Panic})
  /\ UNCHANGED epoch

Deallocate(nr) ==
  /\ ~alloc.panicked
  /\ Roomy
  /\ nr \in used
  /\ alloc' = Resolve(DeallocateFrom(alloc, nr))
  /\ used' = used \ {nr}
  /\ UNCHANGED epoch

CopyOnWrite(nr) ==
  LET r == ReallocateFrom(alloc, nr) IN
  /\ ~alloc.panicked
  /\ Roomy
  /\ nr \in used \ alloc.writable
  /\ alloc' = Resolve(r.a)
  /\ used' = (used \ {nr}) \cup ({r.nr} \ {Panic})
  /\ UNCHANGED epoch

\* AllocatorState::swap, and the new bitset of RawDatabase::snapshot
TakeSnapshot ==
  /\ ~alloc.panicked
  /\ epoch < MaxEpoch
  /\ alloc' = [alloc EXCEPT !.cur = [alloc.prev EXCEPT !.front = 0],
                            !.prev = alloc.cur, !.writable = {}]
  /\ epoch' = epoch + 1
  /\ UNCHANGED used

Init ==
  /\ alloc = [cur |-> EmptyList, prev |-> EmptyList, last |-> 1, writable |-> {},
              pages |-> [nr \in PageNr |-> ZeroPage], append |-> <<>>, prepend |-> <<>>,
              stale |-> FALSE, panicked |-> FALSE]
  /\ used = {}
  /\ epoch = 0

Next ==
  \/ Allocate
  \/ \E nr \in PageNr : Deallocate(nr) \/ CopyOnWrite(nr)
  \/ TakeSnapshot

Spec == Init /\ [][Next]_vars

-----------------------------------------------------------------------------
(* The lists as sets. *)

\* The pages that store a list, from the root to the leaves.
NodesOf(l) ==
  LET level[d \in 0 .. MaxDepth] ==
        IF d = 0 THEN {l.root} \ {Null}
        ELSE UNION {Range(alloc.pages[nr]) : nr \in level[d - 1]} \ {Null}
  IN UNION {level[d] : d \in 0 .. MaxDepth}

Entries(l, from, to) == {Entry(alloc, l, i) : i \in from .. to - 1}

AsSets(l) ==
  [nodes |-> NodesOf(l), ready |-> Entries(l, l.front, l.back), kept |-> Entries(l, 0, l.front)]

Sets == INSTANCE Snapshots WITH
  Values <- {Null}, Zero <- Null, Node <- Null,
  MaxPage <- MaxPage + Slack, MaxVersion <- MaxEpoch, MaxOpens <- 0, MaxGrow <- Slack,
  header <- <<>>, content <- [nr \in 1 .. MaxPage + Slack |-> Null], version <- epoch,
  data <- used, cur <- AsSets(alloc.cur), prev <- AsSets(alloc.prev), last <- alloc.last,
  writable <- alloc.writable, phase <- "run", syncing <- FALSE, opens <- 0,
  stale <- alloc.stale

-----------------------------------------------------------------------------

\* A panic ends the program in the middle of an operation.
TypeOK == ~alloc.panicked =>
  /\ alloc.last \in Nat
  /\ alloc.writable \subseteq PageNr
  /\ alloc.pages \in [PageNr -> [0 .. FanOut - 1 -> PageNr]]
  /\ \A l \in {alloc.cur, alloc.prev} : l.root \in PageNr /\ l.front <= l.back
  /\ alloc.append = <<>> /\ alloc.prepend = <<>>
  /\ used \subseteq PageNr
  /\ epoch \in 0 .. MaxEpoch

\* Variables keep their types, and as long as no append met a list it moves
\* itself, every page has one owner: the entries of both lists, the pages that
\* store them and the pages in use are all different and none is lost
\* (free_list.rs and allocator.rs).
OneOwner ==
  /\ TypeOK
  /\ ~alloc.stale =>
    /\ Sets!PagesAccounted
    /\ \A l \in {alloc.cur, alloc.prev} :
         Cardinality(Entries(l, 0, l.back)) = l.back

\* ... and every operation is one of module Snapshots, which its proofs are
\* about: the stored lists implement the sets of pages. The first stale append
\* comes from a deallocation, where Snapshots allows for it.
ImplementsSets ==
  [][/\ ~alloc'.stale =>
          \/ Sets!Allocate
          \/ \E nr \in used : Sets!Deallocate(nr) \/ Sets!CopyOnWrite(nr)
          \/ /\ AsSets(alloc.cur)' = Sets!Swapped(AsSets(alloc.prev))
             /\ AsSets(alloc.prev)' = AsSets(alloc.cur)
             /\ alloc.writable' = {}
             /\ UNCHANGED <<used, alloc.last>>
     /\ alloc'.stale /\ ~alloc.stale =>
          \E nr \in used : Sets!AppendMoves(nr) /\ used' = used \ {nr}]_vars

=============================================================================
