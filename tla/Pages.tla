-------------------------------- MODULE Pages --------------------------------
(***************************************************************************)
(* The pages of crates/database as its containers see them: Lock and the   *)
(* allocator behind it, as operators on the memory that the containers     *)
(* hand on. A page is a row of cells that each container reads its own     *)
(* way, as the code casts the bytes of a page.                             *)
(*                                                                         *)
(* A free list is the sequences of its entries: "ready" are those in       *)
(* [front, back), "kept" those in [0, front). The pages that store the     *)
(* lists are left out; they are the subject of module FreeLists.           *)
(***************************************************************************)
EXTENDS Integers, SequencesExt

CONSTANTS
  FanOut,   \* cells of a page (2048 page numbers in the code)
  LastNr    \* bound: the greatest page number

ASSUME FanOutAssumption == FanOut \in Nat /\ FanOut > 1
ASSUME LastNrAssumption == LastNr \in Nat

Null == 0     \* NULL_PAGE_NR, the header page

PageNr == 0 .. LastNr
Cell == 0 .. FanOut - 1

ZeroPage == [c \in Cell |-> 0]

EmptyFree == [ready |-> <<>>, kept |-> <<>>]

\* AllocatorState, the pages, and the assertion that failed. The file is new:
\* every page is as it was created, and none may be written.
EmptyMemory ==
  [pages |-> [nr \in PageNr |-> ZeroPage], writable |-> {},
   cur |-> EmptyFree, prev |-> EmptyFree, last |-> 1, panicked |-> "no"]

-----------------------------------------------------------------------------
(* The allocator. Operators that obtain a page return its number with the  *)
(* memory.                                                                 *)

Granted(r) == [r EXCEPT !.m.writable = @ \cup {r.nr}]

\* Allocator::allocate
Obtain(m) ==
  Granted(
    IF m.cur.ready # <<>> THEN [nr |-> Last(m.cur.ready), m |-> [m EXCEPT !.cur.ready = Front(@)]]
    ELSE IF m.prev.ready # <<>>
    THEN [nr |-> Last(m.prev.ready), m |-> [m EXCEPT !.prev.ready = Front(@)]]
    ELSE [nr |-> m.last + 1, m |-> [m EXCEPT !.last = @ + 1]])

Keep(m, nr) == [m EXCEPT !.cur.kept = Append(@, nr)]

\* Allocator::reallocate: room at the front for the page to keep is made by
\* taking the page that is there.
Replace(m, nr) ==
  IF m.cur.ready = <<>> THEN Obtain(Keep(m, nr))
  ELSE Granted([nr |-> Head(m.cur.ready), m |-> [Keep(m, nr) EXCEPT !.cur.ready = Tail(@)]])

\* Mutant: a page a snapshot may need is handed out again at once.
DeallocateAtOnce(m, nr) == [m EXCEPT !.cur.ready = Append(@, nr)]

\* Allocator::deallocate: the page at the front makes room and moves behind.
Deallocate(m, nr) ==
  IF nr \in m.writable THEN [m EXCEPT !.cur.ready = Append(@, nr)]
  ELSE IF m.cur.ready = <<>> THEN Keep(m, nr)
  ELSE [Keep(m, nr) EXCEPT !.cur.ready = Append(Tail(@), Head(@))]

\* Lock::allocate_zeroed
ZeroedPage(m) ==
  LET Zeroed(r) == [r EXCEPT !.m.pages[r.nr] = ZeroPage] IN Zeroed(Obtain(m))

\* Mutant: the copy is not made.
PageMutBlank(m, nr) ==
  IF nr = Null THEN ZeroedPage(m)
  ELSE IF nr \in m.writable THEN [nr |-> nr, m |-> m]
  ELSE Replace(m, nr)

\* Lock::page_mut: the page to change, which may be a new one.
PageMut(m, nr) ==
  LET Copied(r) == [r EXCEPT !.m.pages[r.nr] = m.pages[nr]] IN
  IF nr = Null THEN ZeroedPage(m)
  ELSE IF nr \in m.writable THEN [nr |-> nr, m |-> m]
  ELSE Copied(Replace(m, nr))

\* Lock::page asserts that the number is not that of the header page.
Failed(m, why) == [m EXCEPT !.panicked = why]
Checked(m, nr) == IF nr = Null THEN Failed(m, "null") ELSE m

\* AllocatorState::swap and the new bitset of RawDatabase::snapshot
Sealed(m) ==
  [m EXCEPT !.cur = [ready |-> m.prev.kept \o m.prev.ready, kept |-> <<>>],
            !.prev = m.cur, !.writable = {}]

\* The pages both lists hold.
FreePages(m) ==
  UNION {Range(m.cur.ready), Range(m.cur.kept), Range(m.prev.ready), Range(m.prev.kept)}

FreeCount(m) ==
  Len(m.cur.ready) + Len(m.cur.kept) + Len(m.prev.ready) + Len(m.prev.kept)

=============================================================================
