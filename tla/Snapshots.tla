------------------------------ MODULE Snapshots ------------------------------
(***************************************************************************)
(* The raw database of crates/database: a file of pages behind a header    *)
(* page that names the last two snapshots, an allocator that keeps the     *)
(* pages of these snapshots out of use, and copy-on-write of every page    *)
(* that a snapshot may still need.                                         *)
(*                                                                         *)
(* A free list is seen here as the sets of pages it holds: "ready" are the *)
(* entries [front, back), "kept" the entries [0, front) and "nodes" the    *)
(* pages that store the list itself. Its layout inside those pages is the  *)
(* subject of module FreeLists.                                            *)
(*                                                                         *)
(* FreeList::append reads the index of the entry it stores before it makes *)
(* room for it, and making room may move that index (free_list.rs:86-92).  *)
(* The entry is then stored at a stale index: a page is lost and the list  *)
(* hands out an entry nobody stored. "stale" remembers that this happened; *)
(* the lists are no longer the sets seen here, and the module follows the  *)
(* database only until then.                                               *)
(***************************************************************************)
EXTENDS Integers, FiniteSets

CONSTANTS
  Values,      \* contents of a data page
  Zero,        \* the contents of a page that was zeroed
  Node,        \* the contents of a page of a free list
  MaxPage,     \* bound: the largest page number the file may reach
  MaxVersion,  \* bound: snapshots taken
  MaxOpens,    \* bound: times the file is opened again
  MaxGrow      \* bound: free list pages one operation adds

ASSUME ZeroAssumption == Zero \in Values

ASSUME BoundsAssumption ==
  /\ MaxPage \in Nat
  /\ MaxVersion \in Nat
  /\ MaxOpens \in Nat
  /\ MaxGrow \in Nat

VARIABLES
  header,    \* the two snapshot slots of the header page
  content,   \* contents of every other page, as the page cache holds them
  version,   \* RawDatabase.version
  data,      \* pages that the program's vectors, trees and files refer to
  cur,       \* AllocatorState.current_free
  prev,      \* AllocatorState.previous_free
  last,      \* AllocatorState.last_page
  writable,  \* pages handed out since the last snapshot
  phase,     \* how far RawDatabase::snapshot has come
  syncing,   \* the synchronization thread is inside MappedFile::sync
  opens,     \* times the file was opened again (history)
  stale      \* an append has stored its page at a stale index (history)

fileVars == <<header, content>>
allocVars == <<data, cur, prev, last, writable>>
vars == <<header, content, version, allocVars, phase, syncing, opens, stale>>

-----------------------------------------------------------------------------

Page == 1 .. MaxPage
Slot == {0, 1}

FreeList == [nodes : SUBSET Page, ready : SUBSET Page, kept : SUBSET Page]

EmptyList == [nodes |-> {}, ready |-> {}, kept |-> {}]

\* header.rs State: what a snapshot records. The root file number and length
\* stand for the pages reachable from them.
State == [version : Nat, data : SUBSET Page, cur : FreeList, prev : FreeList,
          last : Nat]

DefaultState ==
  [version |-> 0, data |-> {}, cur |-> EmptyList, prev |-> EmptyList, last |-> 1]

\* A slot whose store was interrupted has a checksum that does not match.
Snapshot == [state : State, sound : BOOLEAN]

SlotOf(v) == v % 2

IsValid(i) == header[i].sound /\ header[i].state.version % 2 = i

\* Mutant: the slots are compared the wrong way round.
OlderSlot ==
  IF IsValid(0) /\ (IsValid(1) => header[0].state.version < header[1].state.version)
  THEN 0 ELSE 1

\* Header::last_snapshot: the valid slot with the greater version, slot 1 when
\* only it is valid.
LastSlot ==
  IF IsValid(0) /\ (IsValid(1) => header[1].state.version < header[0].state.version)
  THEN 0 ELSE 1

LastState == header[LastSlot].state

\* The pages a snapshot needs to be read back: its data and its free lists.
Image(s) == s.data \cup s.cur.nodes \cup s.prev.nodes

-----------------------------------------------------------------------------
(* The allocator. *)

\* Pages come from the ready entries of the current list, then from those of
\* the previous list, and only then from the end of the file. "back" are pages
\* the same call puts into the current list; "moving" are ready pages that it
\* takes off the front of the list and has yet to put back at its end.
Obtainable(T, U, k, back, moving) ==
  /\ T \subseteq cur.ready \cup back
  /\ U \subseteq prev.ready
  /\ U # {} => cur.ready \ moving \subseteq T
  /\ k > 0 => cur.ready \ moving \subseteq T /\ U = prev.ready
  /\ last + k <= MaxPage

Obtained(T, U, k) == T \cup U \cup (last + 1 .. last + k)

\* Allocator::resolve, run when the guard of an operation is dropped, stores
\* the released pages in the current list: the list pages M that are not
\* writable are replaced by copies, N are the copies and the pages the list
\* grows by, and the path to the last entry stored ends up writable.
Resolved(M, N) ==
  /\ M \subseteq cur.nodes \ writable
  /\ Cardinality(N) \in Cardinality(M) .. Cardinality(M) + MaxGrow
  /\ (cur.nodes \ M) \cup N # {}
  /\ N = {} => cur.nodes \cap writable # {}

\* Pages that leave: reused in this epoch when they were handed out in it,
\* kept for two snapshots when an earlier snapshot may need them.
Reusable(P) == P \cap writable
Withheld(P) == P \ writable

\* Mutant: a list page that was replaced by a copy is forgotten.
ListsForgetting(T, U, N, out, M) ==
  /\ cur' = [nodes |-> (cur.nodes \ M) \cup N,
             ready |-> (cur.ready \cup Reusable(out)) \ T,
             kept  |-> cur.kept \cup Withheld(out)]
  /\ prev' = [prev EXCEPT !.ready = @ \ U]

\* The lists after the pages "out" were released and T, U were taken.
Lists(T, U, N, out, M) ==
  /\ cur' = [nodes |-> (cur.nodes \ M) \cup N,
             ready |-> (cur.ready \cup Reusable(out)) \ T,
             kept  |-> cur.kept \cup Withheld(out) \cup M]
  /\ prev' = [prev EXCEPT !.ready = @ \ U]

Filled(N) == [p \in Page |-> IF p \in N THEN Node ELSE content[p]]

\* Lock::allocate_zeroed: one page, and nothing for the guard to resolve.
Allocate ==
  /\ phase = "run"
  /\ \E p \in Page, T \in SUBSET cur.ready, U \in SUBSET prev.ready, k \in {0, 1} :
       /\ Obtainable(T, U, k, {}, {})
       /\ Obtained(T, U, k) = {p}
       /\ Lists(T, U, {}, {}, {})
       /\ last' = last + k
       /\ data' = data \cup {p}
       /\ writable' = writable \cup {p}
       /\ content' = [content EXCEPT ![p] = Zero]
  /\ UNCHANGED <<header, version, phase, syncing, opens>>

\* Making room at the front for a kept page moves the first ready page.
Moving(p) == {{}} \cup (IF p \in writable THEN {} ELSE {{q} : q \in cur.ready})

\* Lock::deallocate with the resolution of its guard.
Deallocate(p) ==
  /\ phase = "run"
  /\ p \in data
  /\ \E M \in SUBSET cur.nodes, T \in SUBSET (cur.ready \cup Reusable({p})),
        U \in SUBSET prev.ready, k \in 0 .. MaxPage, moving \in Moving(p) :
       LET N == Obtained(T, U, k) IN
       /\ Obtainable(T, U, k, Reusable({p}), moving)
       /\ Resolved(M, N)
       /\ Lists(T, U, N, {p}, M)
       /\ last' = last + k
       /\ writable' = writable \cup N
       /\ content' = Filled(N)
  /\ data' = data \ {p}
  /\ UNCHANGED <<header, version, phase, syncing, opens>>

\* Lock::page_mut on a page a snapshot may need: Allocator::reallocate, the
\* resolution, then Pager::copy_page_mut into the page r that replaces p.
CopyOnWrite(p) ==
  /\ phase = "run"
  /\ p \in data \ writable
  /\ \E M \in SUBSET cur.nodes, T \in SUBSET cur.ready,
        U \in SUBSET prev.ready, k \in 0 .. MaxPage :
       \E r \in Obtained(T, U, k) :
         LET N == Obtained(T, U, k) \ {r} IN
         /\ Obtainable(T, U, k, {}, {})
         /\ Resolved(M, N)
         /\ Lists(T, U, N, {p}, M)
         /\ last' = last + k
         /\ writable' = writable \cup Obtained(T, U, k)
         /\ content' = [Filled(N) EXCEPT ![r] = content[p]]
         /\ data' = (data \ {p}) \cup {r}
  /\ UNCHANGED <<header, version, phase, syncing, opens>>

\* Storing the page that a deallocation appends - p itself, or the ready page
\* that p pushes off the front - moves the end of the list when it copies a
\* page of the list with no entry ready, which makes room at the end, or
\* adds one, which is taken from the end.
AppendMoves(p) ==
  /\ phase = "run"
  /\ p \in data
  /\ cur.nodes # {}
  /\ cur.ready = {} => p \in writable /\ ~(cur.nodes \subseteq writable)

AppendStale(p) ==
  /\ AppendMoves(p)
  /\ stale' = TRUE
  /\ UNCHANGED <<header, content, version, allocVars, phase, syncing, opens>>

\* Mutant: the page is changed in place without asking Pager::can_write.
WriteInPlace(p, v) ==
  /\ phase = "run"
  /\ p \in data
  /\ content' = [content EXCEPT ![p] = v]
  /\ UNCHANGED <<header, version, allocVars, phase, syncing, opens>>

\* Lock::page_mut, Lock::try_page_mut: a writable page is changed in place.
Write(p, v) ==
  /\ phase = "run"
  /\ p \in data \cap writable
  /\ content' = [content EXCEPT ![p] = v]
  /\ UNCHANGED <<header, version, allocVars, phase, syncing, opens>>

-----------------------------------------------------------------------------
(* RawDatabase::snapshot and the header page. *)

\* AllocatorState::swap: what was kept in the epoch before becomes ready.
Swapped(l) == [nodes |-> l.nodes, ready |-> l.ready \cup l.kept, kept |-> {}]

\* Mutant: the front of the list is reset, but the lists are not swapped.
SnapshotBeginUnswapped ==
  /\ phase = "run"
  /\ version < MaxVersion
  /\ cur' = Swapped(cur)
  /\ version' = version + 1
  /\ header' = [header EXCEPT ![SlotOf(version + 1)].sound = FALSE]
  /\ phase' = "header"
  /\ UNCHANGED <<content, data, prev, last, writable, syncing, opens>>

\* The lists are swapped, the version counts up and the store into the slot
\* of the new version begins.
SnapshotBegin ==
  /\ phase = "run"
  /\ version < MaxVersion
  /\ cur' = Swapped(prev)
  /\ prev' = cur
  /\ version' = version + 1
  /\ header' = [header EXCEPT ![SlotOf(version + 1)].sound = FALSE]
  /\ phase' = "header"
  /\ UNCHANGED <<content, data, last, writable, syncing, opens>>

CurrentState ==
  [version |-> version, data |-> data, cur |-> cur, prev |-> prev, last |-> last]

\* The store into the slot is complete and every page becomes read-only.
SnapshotHeader ==
  /\ phase = "header"
  /\ header' = [header EXCEPT ![SlotOf(version)] = [state |-> CurrentState, sound |-> TRUE]]
  /\ writable' = {}
  /\ phase' = "barrier"
  /\ UNCHANGED <<content, version, data, cur, prev, last, syncing, opens>>

\* Synchronizer::sync: the call meets the thread at the barrier, which the
\* thread only reaches when its previous sync is done.
SnapshotSync ==
  /\ phase = "barrier"
  /\ ~syncing
  /\ syncing' = TRUE
  /\ phase' = "run"
  /\ UNCHANGED <<header, content, version, allocVars, opens>>

SyncDone ==
  /\ syncing
  /\ syncing' = FALSE
  /\ UNCHANGED <<header, content, version, allocVars, phase, opens>>

\* The process ends, orderly or killed at any point, and RawDatabase::open
\* reads the header page. The kernel still holds what the process stored.
Reopen ==
  /\ opens < MaxOpens
  /\ IsValid(LastSlot)
  /\ version' = LastState.version
  /\ data' = LastState.data
  /\ cur' = LastState.cur
  /\ prev' = LastState.prev
  /\ last' = LastState.last
  /\ writable' = {}
  /\ phase' = "run"
  /\ syncing' = FALSE
  /\ opens' = opens + 1
  /\ UNCHANGED fileVars

-----------------------------------------------------------------------------

\* RawDatabase::create
Init ==
  /\ header = [i \in Slot |-> [state |-> DefaultState, sound |-> TRUE]]
  /\ content = [p \in Page |-> Zero]
  /\ version = 0
  /\ data = {}
  /\ cur = EmptyList
  /\ prev = EmptyList
  /\ last = 1
  /\ writable = {}
  /\ phase = "run"
  /\ syncing = FALSE
  /\ opens = 0
  /\ stale = FALSE

\* The operations while every append stores its page where it belongs.
Operate ==
  \/ Allocate
  \/ \E p \in Page : Deallocate(p)
  \/ \E p \in Page : CopyOnWrite(p)
  \/ \E p \in Page, v \in Values : Write(p, v)
  \/ SnapshotBegin
  \/ SnapshotHeader
  \/ SnapshotSync
  \/ SyncDone
  \/ Reopen

Next ==
  /\ ~stale
  /\ \/ Operate /\ UNCHANGED stale
     \/ \E p \in Page : AppendStale(p)

Spec == Init /\ [][Next]_vars

-----------------------------------------------------------------------------

TypeOK ==
  /\ header \in [Slot -> Snapshot]
  /\ content \in [Page -> Values \cup {Node}]
  /\ version \in Nat
  /\ data \in SUBSET Page
  /\ cur \in FreeList
  /\ prev \in FreeList
  /\ last \in Nat
  /\ writable \in SUBSET Page
  /\ phase \in {"run", "header", "barrier"}
  /\ syncing \in BOOLEAN
  /\ opens \in Nat
  /\ stale \in BOOLEAN

\* Every page from the first one allocated to the last belongs to exactly one
\* owner: no page is handed out twice and none is lost.
Accounted(s) ==
  /\ s.data \cup s.cur.nodes \cup s.cur.ready \cup s.cur.kept
       \cup s.prev.nodes \cup s.prev.ready \cup s.prev.kept = 2 .. s.last
  /\ s.data \cap (s.cur.nodes \cup s.cur.ready \cup s.cur.kept
       \cup s.prev.nodes \cup s.prev.ready \cup s.prev.kept) = {}
  /\ s.cur.nodes \cap (s.cur.ready \cup s.cur.kept
       \cup s.prev.nodes \cup s.prev.ready \cup s.prev.kept) = {}
  /\ s.cur.ready \cap (s.cur.kept \cup s.prev.nodes \cup s.prev.ready \cup s.prev.kept) = {}
  /\ s.cur.kept \cap (s.prev.nodes \cup s.prev.ready \cup s.prev.kept) = {}
  /\ s.prev.nodes \cap (s.prev.ready \cup s.prev.kept) = {}
  /\ s.prev.ready \cap s.prev.kept = {}

\* As long as no append was stale, neither the allocator's moves between its
\* lists, nor copy-on-write, nor a reopening from an older header loses a page
\* or gives it two owners (allocator.rs, Allocator and AllocatorState::swap).
PagesAccounted == ~stale => Accounted(CurrentState)

\* As long as no append was stale, whatever a valid slot of the header page
\* names can still be read back: its pages can neither be written in place nor
\* be handed out by the allocator (lock.rs page_mut, allocator.rs allocate and
\* reallocate).
SnapshotsProtected ==
  ~stale => \A i \in Slot : IsValid(i) =>
    Image(header[i].state) \cap (writable \cup cur.ready \cup prev.ready \cup last + 1 .. MaxPage) = {}

\* As long as no append was stale - later ones may zero the header page itself
\* - the header page names a snapshot to go back to, and it is the one that
\* RawDatabase last completed (header.rs last_snapshot and Header::snapshot).
AlwaysRecoverable ==
  ~stale =>
    /\ IsValid(LastSlot)
    /\ LastState.version = IF phase = "header" THEN version - 1 ELSE version

-----------------------------------------------------------------------------
(* Why the snapshots are protected: the inductive invariant. *)

Base == SlotOf(IF phase = "header" THEN version - 1 ELSE version)

BaseState == header[Base].state

OtherState == header[1 - Base].state

Used == data \cup cur.nodes \cup prev.nodes

\* The slots: the base is valid; the other one is being stored, or was never
\* stored completely, or holds the snapshot just before the base.
SlotsOrdered ==
  /\ phase = "header" => version > 0 /\ ~header[1 - Base].sound
  /\ IsValid(Base)
  /\ BaseState.version = IF phase = "header" THEN version - 1 ELSE version
  /\ IsValid(1 - Base) => OtherState.version = BaseState.version - 1

\* A page of a snapshot that the program gave up waits among the kept pages:
\* of the current list if it was given up since the base was stored, of the
\* previous list if it was given up before that.
GivenUpPagesKept ==
  /\ Image(BaseState) \subseteq Used \cup (IF phase = "header" THEN prev.kept ELSE cur.kept)
  /\ IsValid(1 - Base) =>
       /\ Image(OtherState) \subseteq Used \cup cur.kept \cup prev.kept
       /\ Image(OtherState) \subseteq Image(BaseState) \cup BaseState.prev.kept

\* The states the header names are as well formed as the current one.
SlotsAccounted ==
  \A i \in Slot : IsValid(i) => Accounted(header[i].state) /\ header[i].state.last >= 1

Protecting ==
  /\ last >= 1
  /\ Accounted(CurrentState)
  /\ SlotsOrdered
  /\ GivenUpPagesKept
  /\ SlotsAccounted
  /\ \A i \in Slot : IsValid(i) => Image(header[i].state) \cap writable = {}

IndInv == TypeOK /\ (~stale => Protecting)

-----------------------------------------------------------------------------

View(s) == [p \in Image(s) |-> content[p]]

Store == INSTANCE SnapshotStore WITH
  current <- View(CurrentState),
  saved   <- View(LastState),
  opens   <- opens

\* Until an append is stale the raw database keeps the promise of
\* SnapshotStore: no operation between two snapshots changes what a reopening
\* returns, and a snapshot makes it return what the program saw, bit for bit.
ImplementsStore ==
  Store!Init /\ [][~stale' => Store!Next]_(Store!storeVars)

=============================================================================
