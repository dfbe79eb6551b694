--------------------------- MODULE SnapshotsProofs ---------------------------
(***************************************************************************)
(* Proofs about module Snapshots, for every value of its constants.        *)
(***************************************************************************)
EXTENDS Snapshots, TLAPS

\* What the operations keep while no append was stale.
Sound == TypeOK /\ Protecting

\* A file that was just created satisfies the invariant: slot 0 holds version
\* 0, and the same state in slot 1 does not count because of its parity.
LEMMA InitInvariant == Init => Sound
<1> SUFFICES ASSUME Init PROVE Sound
  OBVIOUS
<1> USE DEF Init
<1>1. TypeOK
  <2>1. EmptyList \in FreeList
    BY DEF EmptyList, FreeList
  <2>2. DefaultState \in State
    BY <2>1, SMT DEF DefaultState, State
  <2>3. [state |-> DefaultState, sound |-> TRUE] \in Snapshot
    BY <2>2 DEF Snapshot
  <2>4. header \in [Slot -> Snapshot]
    BY <2>3
  <2>5. content \in [Page -> Values \cup {Node}]
    BY ZeroAssumption
  <2> QED
    BY <2>1, <2>4, <2>5 DEF TypeOK
<1>2. last >= 1 /\ Accounted(CurrentState)
  BY SMT DEF Accounted, CurrentState, EmptyList
<1>3. Base = 0 /\ IsValid(0) /\ ~IsValid(1)
  BY SMT DEF Base, SlotOf, IsValid, DefaultState, Slot
<1>4. SlotsOrdered
  BY <1>3, SMT DEF SlotsOrdered, BaseState, DefaultState, Slot
<1>5. GivenUpPagesKept
  BY <1>3, SMT DEF GivenUpPagesKept, BaseState, DefaultState, EmptyList, Image, Slot
<1>6. SlotsAccounted
  BY <1>3, SMT DEF SlotsAccounted, Accounted, DefaultState, EmptyList, Slot
<1> QED
  BY <1>1, <1>2, <1>3, <1>4, <1>5, <1>6 DEF Sound, Protecting, Image, DefaultState, EmptyList, Slot

\* What the allocator does, whatever the operation: the pages "out" leave the
\* data, T, U and k new ones are obtained and divided into data "in" and list
\* pages N, and the list pages M are given up.
Moved(T, U, k, out, in, N, M) ==
  /\ phase = "run"
  /\ T \subseteq cur.ready \cup Reusable(out)
  /\ U \subseteq prev.ready
  /\ k \in Nat
  /\ last + k <= MaxPage
  /\ out \subseteq data
  /\ M \subseteq cur.nodes \ writable
  /\ in \cup N = Obtained(T, U, k)
  /\ in \cap N = {}
  /\ Lists(T, U, N, out, M)
  /\ data' = (data \ out) \cup in
  /\ last' = last + k
  /\ writable' = writable \cup in \cup N
  /\ UNCHANGED <<header, version, phase>>

\* The pages the allocator hands out belong to nobody: they are ready, or
\* given up by this very call, or beyond the end of the file.
LEMMA MovedAccounted ==
  ASSUME Sound, NEW T, NEW U, NEW k, NEW out, NEW in, NEW N, NEW M,
         Moved(T, U, k, out, in, N, M)
  PROVE  Accounted(CurrentState)' /\ last' >= 1
<1>1. last \in Nat /\ last >= 1 /\ k \in Nat /\ last' = last + k
  BY DEF Sound, Protecting, TypeOK, Moved
<1>2. 2 .. last' = (2 .. last) \cup (last + 1 .. last + k)
      /\ (2 .. last) \cap (last + 1 .. last + k) = {}
  BY <1>1, SMT
<1> DEFINE F == last + 1 .. last + k
<1>3. 2 .. last' = (2 .. last) \cup F /\ (2 .. last) \cap F = {}
  BY <1>2
<1>4. Obtained(T, U, k) = T \cup U \cup F
  BY DEF Obtained
<1> HIDE DEF F
<1>5. cur'.nodes = (cur.nodes \ M) \cup N
      /\ cur'.ready = (cur.ready \cup Reusable(out)) \ T
      /\ cur'.kept = cur.kept \cup Withheld(out) \cup M
  BY DEF Moved, Lists
<1>6. prev'.nodes = prev.nodes /\ prev'.ready = prev.ready \ U /\ prev'.kept = prev.kept
  BY SMT DEF Moved, Lists, Sound, Protecting, TypeOK, FreeList
<1>7. Accounted(CurrentState)
  BY DEF Sound, Protecting
<1> QED
  <2>1. Accounted(CurrentState')
    BY <1>1, <1>3, <1>4, <1>5, <1>6, <1>7, SMTT(60)
    DEF Accounted, CurrentState, Moved, Reusable, Withheld
  <2> QED
    BY <2>1, <1>1, SMT DEF Accounted, CurrentState

\* A page that a snapshot in the header needs is in use or kept, so the
\* allocator does not hand it out.
LEMMA ImagesNotObtainable ==
  ASSUME Sound, NEW i \in Slot, IsValid(i)
  PROVE  /\ Image(header[i].state) \subseteq Used \cup cur.kept \cup prev.kept
         /\ Image(header[i].state) \cap (cur.ready \cup prev.ready) = {}
         /\ Image(header[i].state) \subseteq 2 .. last
         /\ Image(header[i].state) \cap writable = {}
<1>1. i = Base \/ i = 1 - Base
  <2>1. version \in Nat /\ (phase = "header" => version > 0)
    BY DEF Sound, Protecting, TypeOK, SlotsOrdered
  <2>2. Base \in {0, 1}
    BY <2>1, SMT DEF Base, SlotOf
  <2> QED
    BY <2>2, SMT DEF Slot
<1>2. Image(header[i].state) \subseteq Used \cup cur.kept \cup prev.kept
  BY <1>1 DEF Sound, Protecting, GivenUpPagesKept, BaseState, OtherState
<1>3. Accounted(CurrentState)
  BY DEF Sound, Protecting
<1>4. (Used \cup cur.kept \cup prev.kept) \cap (cur.ready \cup prev.ready) = {}
      /\ Used \cup cur.kept \cup prev.kept \subseteq 2 .. last
  BY <1>3, SMT DEF Accounted, CurrentState, Used
<1> QED
  BY <1>2, <1>4 DEF Sound, Protecting

\* Moving pages between the lists preserves the invariant: what leaves the
\* data or the list and may be named by the header is kept.
LEMMA MovedInvariant ==
  ASSUME Sound, NEW T, NEW U, NEW k, NEW out, NEW in, NEW N, NEW M,
         Moved(T, U, k, out, in, N, M),
         content' \in [Page -> Values \cup {Node}],
         syncing' \in BOOLEAN, opens' \in Nat, UNCHANGED stale
  PROVE  Sound'
<1>1. Accounted(CurrentState)' /\ last' >= 1
  BY MovedAccounted
<1>2. header' = header /\ version' = version /\ phase' = phase /\ phase = "run"
  BY DEF Moved
<1>3. cur'.nodes = (cur.nodes \ M) \cup N
      /\ cur'.ready = (cur.ready \cup Reusable(out)) \ T
      /\ cur'.kept = cur.kept \cup Withheld(out) \cup M
  BY DEF Moved, Lists
<1>4. prev'.nodes = prev.nodes /\ prev'.ready = prev.ready \ U /\ prev'.kept = prev.kept
  BY SMT DEF Moved, Lists, Sound, Protecting, TypeOK, FreeList
<1>5. data' = (data \ out) \cup in /\ out \subseteq data /\ M \subseteq cur.nodes
      /\ writable' = writable \cup in \cup N
  BY DEF Moved
<1>6. in \cup N = T \cup U \cup (last + 1 .. last + k)
  BY DEF Moved, Obtained
<1>7. in \subseteq Page /\ N \subseteq Page /\ out \subseteq Page /\ M \subseteq Page
  <2>1. last \in Nat /\ last >= 1 /\ k \in Nat /\ last + k <= MaxPage /\ MaxPage \in Nat
    BY BoundsAssumption DEF Sound, Protecting, TypeOK, Moved
  <2>2. last + 1 .. last + k \subseteq Page
    BY <2>1, SMT DEF Page
  <2>3. data \subseteq Page /\ cur.ready \subseteq Page /\ prev.ready \subseteq Page
        /\ cur.nodes \subseteq Page
    BY SMT DEF Sound, Protecting, TypeOK, FreeList
  <2>4. T \subseteq Page /\ U \subseteq Page
    BY <2>3 DEF Moved, Reusable
  <2> QED
    BY <2>2, <2>3, <2>4, <1>5, <1>6
<1>8. TypeOK'
  <2>1. cur' \in FreeList
    BY <1>7, SMT DEF Moved, Lists, Sound, Protecting, TypeOK, FreeList, Reusable, Withheld
  <2>2. prev' \in FreeList
    BY <1>7, SMT DEF Moved, Lists, Sound, Protecting, TypeOK, FreeList
  <2>3. last' \in Nat
    BY SMT DEF Moved, Sound, Protecting, TypeOK
  <2> QED
    BY <2>1, <2>2, <2>3, <1>2, <1>5, <1>7 DEF Sound, Protecting, TypeOK
<1>9. Base' = Base /\ BaseState' = BaseState /\ OtherState' = OtherState
      /\ \A i : IsValid(i)' <=> IsValid(i)
  BY <1>2 DEF Base, SlotOf, BaseState, OtherState, IsValid
<1>10. SlotsOrdered'
  BY <1>2, <1>9 DEF SlotsOrdered, Sound, Protecting
<1>11. SlotsAccounted'
  BY <1>2, <1>9 DEF SlotsAccounted, Sound, Protecting
<1>12. GivenUpPagesKept'
  <2>1. out \subseteq Withheld(out) \cup writable
    BY DEF Withheld
  <2>2. Used \cup cur.kept \subseteq Used' \cup cur'.kept \cup writable
    BY <2>1, <1>3, <1>4, <1>5 DEF Used
  <2>3. ASSUME NEW i \in Slot, IsValid(i)
        PROVE  Image(header[i].state) \cap writable = {}
    BY <2>3 DEF Sound, Protecting
  <2>4. Base \in Slot /\ 1 - Base \in Slot
    BY SMT DEF Base, SlotOf, Slot, Sound, Protecting, TypeOK, SlotsOrdered
  <2>5. IsValid(Base)
    BY DEF Sound, Protecting, SlotsOrdered
  <2>6. Image(BaseState) \subseteq Used \cup cur.kept
    BY <1>2 DEF Sound, Protecting, GivenUpPagesKept
  <2>7. Image(BaseState) \subseteq Used' \cup cur'.kept
    BY <2>2, <2>3, <2>4, <2>5, <2>6 DEF BaseState
  <2>8. ASSUME IsValid(1 - Base)
        PROVE  /\ Image(OtherState) \subseteq Used' \cup cur'.kept \cup prev'.kept
               /\ Image(OtherState) \subseteq Image(BaseState) \cup BaseState.prev.kept
    <3>1. /\ Image(OtherState) \subseteq Used \cup cur.kept \cup prev.kept
          /\ Image(OtherState) \subseteq Image(BaseState) \cup BaseState.prev.kept
      BY <2>8 DEF Sound, Protecting, GivenUpPagesKept
    <3>2. Image(OtherState) \cap writable = {}
      BY <2>8, <2>3, <2>4 DEF OtherState
    <3> QED
      BY <3>1, <3>2, <2>2, <1>4
  <2> QED
    BY <2>7, <2>8, <1>2, <1>9 DEF GivenUpPagesKept, Image
<1>13. ASSUME NEW i \in Slot, IsValid(i)
       PROVE  Image(header[i].state) \cap writable' = {}
  <2>1. /\ Image(header[i].state) \cap (cur.ready \cup prev.ready) = {}
        /\ Image(header[i].state) \subseteq 2 .. last
        /\ Image(header[i].state) \cap writable = {}
    BY <1>13, ImagesNotObtainable
  <2>2. (2 .. last) \cap (last + 1 .. last + k) = {}
    BY SMT DEF Sound, Protecting, TypeOK, Moved
  <2>3. T \subseteq cur.ready \cup writable /\ U \subseteq prev.ready
    BY DEF Moved, Reusable
  <2> QED
    BY <2>1, <2>2, <2>3, <1>5, <1>6
<1> QED
  BY <1>1, <1>2, <1>8, <1>9, <1>10, <1>11, <1>12, <1>13 DEF Sound, Protecting, Image

-----------------------------------------------------------------------------

\* The three operations of the allocator are such moves.
LEMMA AllocateInvariant == Sound /\ Allocate /\ UNCHANGED stale => Sound'
<1> SUFFICES ASSUME Sound, Allocate, UNCHANGED stale PROVE Sound'
  OBVIOUS
<1>1. PICK p \in Page, T \in SUBSET cur.ready, U \in SUBSET prev.ready, k \in {0, 1} :
        /\ Obtainable(T, U, k, {}, {})
        /\ Obtained(T, U, k) = {p}
        /\ Lists(T, U, {}, {}, {})
        /\ last' = last + k
        /\ data' = data \cup {p}
        /\ writable' = writable \cup {p}
        /\ content' = [content EXCEPT ![p] = Zero]
  BY DEF Allocate
<1>2. Moved(T, U, k, {}, {p}, {}, {})
  BY <1>1, SMT DEF Allocate, Moved, Obtainable, Reusable
<1>3. content' \in [Page -> Values \cup {Node}]
  BY <1>1, ZeroAssumption DEF Sound, Protecting, TypeOK
<1>4. syncing' \in BOOLEAN /\ opens' \in Nat
  BY DEF Allocate, Sound, Protecting, TypeOK
<1> QED
  BY <1>2, <1>3, <1>4, MovedInvariant

\* A deallocated page is one the list may keep or hand out.
LEMMA DeallocateInvariant ==
  ASSUME NEW p \in Page PROVE Sound /\ Deallocate(p) /\ UNCHANGED stale => Sound'
<1> SUFFICES ASSUME Sound, Deallocate(p), UNCHANGED stale PROVE Sound'
  OBVIOUS
<1>1. PICK M \in SUBSET cur.nodes, T \in SUBSET (cur.ready \cup Reusable({p})),
           U \in SUBSET prev.ready, k \in 0 .. MaxPage, moving \in Moving(p) :
        /\ Obtainable(T, U, k, Reusable({p}), moving)
        /\ Resolved(M, Obtained(T, U, k))
        /\ Lists(T, U, Obtained(T, U, k), {p}, M)
        /\ last' = last + k
        /\ writable' = writable \cup Obtained(T, U, k)
        /\ content' = Filled(Obtained(T, U, k))
  BY DEF Deallocate
<1>2. Moved(T, U, k, {p}, {}, Obtained(T, U, k), M)
  <2>1. k \in Nat
    BY BoundsAssumption, SMT
  <2>2. M \subseteq cur.nodes \ writable
    BY <1>1 DEF Resolved
  <2> QED
    BY <1>1, <2>1, <2>2 DEF Deallocate, Moved, Obtainable
<1>3. content' \in [Page -> Values \cup {Node}]
  BY <1>1 DEF Sound, Protecting, TypeOK, Filled
<1>4. syncing' \in BOOLEAN /\ opens' \in Nat
  BY DEF Deallocate, Sound, Protecting, TypeOK
<1> QED
  BY <1>2, <1>3, <1>4, MovedInvariant

\* Copy-on-write keeps the page it replaces.
LEMMA CopyOnWriteInvariant ==
  ASSUME NEW p \in Page PROVE Sound /\ CopyOnWrite(p) /\ UNCHANGED stale => Sound'
<1> SUFFICES ASSUME Sound, CopyOnWrite(p), UNCHANGED stale PROVE Sound'
  OBVIOUS
<1>1. PICK M \in SUBSET cur.nodes, T \in SUBSET cur.ready,
           U \in SUBSET prev.ready, k \in 0 .. MaxPage :
      \E r \in Obtained(T, U, k) :
        /\ Obtainable(T, U, k, {}, {})
        /\ Resolved(M, Obtained(T, U, k) \ {r})
        /\ Lists(T, U, Obtained(T, U, k) \ {r}, {p}, M)
        /\ last' = last + k
        /\ writable' = writable \cup Obtained(T, U, k)
        /\ content' = [Filled(Obtained(T, U, k) \ {r}) EXCEPT ![r] = content[p]]
        /\ data' = (data \ {p}) \cup {r}
  BY DEF CopyOnWrite
<1>2. PICK r \in Obtained(T, U, k) :
        /\ Obtainable(T, U, k, {}, {})
        /\ Resolved(M, Obtained(T, U, k) \ {r})
        /\ Lists(T, U, Obtained(T, U, k) \ {r}, {p}, M)
        /\ last' = last + k
        /\ writable' = writable \cup Obtained(T, U, k)
        /\ content' = [Filled(Obtained(T, U, k) \ {r}) EXCEPT ![r] = content[p]]
        /\ data' = (data \ {p}) \cup {r}
  BY <1>1
<1>3. Moved(T, U, k, {p}, {r}, Obtained(T, U, k) \ {r}, M)
  <2>1. k \in Nat
    BY BoundsAssumption, SMT
  <2>2. M \subseteq cur.nodes \ writable
    BY <1>2 DEF Resolved
  <2>3. writable' = writable \cup {r} \cup (Obtained(T, U, k) \ {r})
    BY <1>2
  <2> QED
    BY <1>2, <2>1, <2>2, <2>3 DEF CopyOnWrite, Moved, Obtainable
<1>4. content' \in [Page -> Values \cup {Node}]
  BY <1>2 DEF Sound, Protecting, TypeOK, Filled
<1>5. syncing' \in BOOLEAN /\ opens' \in Nat
  BY DEF CopyOnWrite, Sound, Protecting, TypeOK
<1> QED
  BY <1>3, <1>4, <1>5, MovedInvariant

\* Steps that touch neither the allocator nor the header.
LEMMA QuietInvariant ==
  ASSUME Sound, UNCHANGED <<header, version, allocVars>>, TypeOK',
         (phase' = "header") <=> (phase = "header")
  PROVE  Sound'
<1>1. header' = header /\ version' = version /\ data' = data /\ cur' = cur
      /\ prev' = prev /\ last' = last /\ writable' = writable
  BY DEF allocVars
<1>2. Accounted(CurrentState)' /\ (last >= 1)'
  BY <1>1 DEF Sound, Protecting, CurrentState, Accounted
<1>3. Base' = Base /\ BaseState' = BaseState /\ OtherState' = OtherState
      /\ \A i : IsValid(i)' <=> IsValid(i)
  BY <1>1 DEF Base, SlotOf, BaseState, OtherState, IsValid
<1>4. SlotsOrdered'
  BY <1>1, <1>3 DEF SlotsOrdered, Sound, Protecting
<1>5. GivenUpPagesKept'
  BY <1>1, <1>3 DEF GivenUpPagesKept, Sound, Protecting, Used
<1>6. SlotsAccounted'
  BY <1>1, <1>3 DEF SlotsAccounted, Sound, Protecting
<1> QED
  BY <1>1, <1>2, <1>3, <1>4, <1>5, <1>6 DEF Sound, Protecting, Image

\* The swap moves what the base still needs to the kept pages of the previous
\* list, and makes ready only what it does not need.
LEMMA SnapshotBeginInvariant == Sound /\ SnapshotBegin /\ UNCHANGED stale => Sound'
<1> SUFFICES ASSUME Sound, SnapshotBegin, UNCHANGED stale PROVE Sound'
  OBVIOUS
<1>1. version \in Nat /\ version' = version + 1 /\ phase = "run" /\ phase' = "header"
  BY DEF SnapshotBegin, Sound, Protecting, TypeOK
<1>2. cur'.nodes = prev.nodes /\ cur'.ready = prev.ready \cup prev.kept /\ cur'.kept = {}
      /\ prev' = cur /\ data' = data /\ last' = last /\ writable' = writable
  BY SMT DEF SnapshotBegin, Swapped, Sound, Protecting, TypeOK, FreeList
<1>3. PICK b \in Slot : b = SlotOf(version)
  BY <1>1, SMT DEF SlotOf, Slot
<1>4. b \in Slot /\ 1 - b \in Slot /\ b # 1 - b /\ (\A i \in Slot : i = b \/ i = 1 - b)
  BY SMT DEF Slot
<1>5. Base = b /\ Base' = b /\ SlotOf(version + 1) = 1 - b
  BY <1>1, <1>3, SMT DEF Base, SlotOf
<1>6. header \in [Slot -> Snapshot] /\ header' = [header EXCEPT ![1 - b].sound = FALSE]
  BY <1>5 DEF SnapshotBegin, Sound, Protecting, TypeOK
<1>7. header'[b] = header[b] /\ header'[1 - b].sound = FALSE
  BY <1>4, <1>6 DEF Snapshot
<1>8. TypeOK'
  <2>1. header' \in [Slot -> Snapshot]
    <3>1. [header[1 - b] EXCEPT !.sound = FALSE] \in Snapshot
      BY <1>4, <1>6 DEF Snapshot
    <3>2. header' = [header EXCEPT ![1 - b] = [header[1 - b] EXCEPT !.sound = FALSE]]
      BY <1>6
    <3> QED
      BY <1>6, <3>1, <3>2
  <2>2. prev \in FreeList
    BY DEF Sound, Protecting, TypeOK
  <2>3. Swapped(prev) \in FreeList
    BY <2>2, SMT DEF Swapped, FreeList
  <2>4. version + 1 \in Nat
    BY <1>1
  <2>5. cur' \in FreeList /\ prev' \in FreeList /\ version' \in Nat
    BY <2>3, <2>4 DEF SnapshotBegin, Sound, Protecting, TypeOK
  <2>6. /\ content' = content /\ data' = data /\ last' = last /\ writable' = writable
        /\ phase' = "header" /\ syncing' = syncing /\ opens' = opens
    BY DEF SnapshotBegin
  <2> QED
    BY <2>1, <2>5, <2>6 DEF Sound, Protecting, TypeOK
<1>9. Accounted(CurrentState)' /\ last' >= 1
  BY <1>2, SMTT(30) DEF Sound, Protecting, Accounted, CurrentState
<1>10. (IsValid(b)' <=> IsValid(b)) /\ ~IsValid(1 - b)'
  BY <1>7 DEF IsValid
<1>11. IsValid(b) /\ BaseState = header[b].state /\ BaseState' = header[b].state
       /\ header[b].state.version = version
  BY <1>1, <1>4, <1>5, <1>7 DEF Sound, Protecting, SlotsOrdered, BaseState
<1>12. SlotsOrdered'
  BY <1>1, <1>5, <1>7, <1>10, <1>11, SMT DEF SlotsOrdered
<1>13. GivenUpPagesKept'
  <2>1. Image(header[b].state) \subseteq Used \cup cur.kept
    BY <1>1, <1>11 DEF Sound, Protecting, GivenUpPagesKept
  <2> QED
    BY <2>1, <1>1, <1>2, <1>5, <1>10, <1>11 DEF GivenUpPagesKept, Used
<1>14. SlotsAccounted'
  BY <1>4, <1>7, <1>10 DEF SlotsAccounted, Sound, Protecting
<1>15. \A i \in Slot : IsValid(i)' => Image(header[i].state)' \cap writable' = {}
  BY <1>2, <1>4, <1>7, <1>10 DEF Sound, Protecting, Image
<1> QED
  BY <1>8, <1>9, <1>12, <1>13, <1>14, <1>15 DEF Sound, Protecting

\* The slot that was being stored now holds exactly the current state, and it
\* is the new base; what was the base becomes the other snapshot.
LEMMA SnapshotHeaderInvariant == Sound /\ SnapshotHeader /\ UNCHANGED stale => Sound'
<1> SUFFICES ASSUME Sound, SnapshotHeader, UNCHANGED stale PROVE Sound'
  OBVIOUS
<1>1. version \in Nat /\ version > 0 /\ version' = version
      /\ phase = "header" /\ phase' = "barrier"
  BY DEF SnapshotHeader, Sound, Protecting, TypeOK, SlotsOrdered
<1>2. cur' = cur /\ prev' = prev /\ data' = data /\ last' = last /\ writable' = {}
  BY DEF SnapshotHeader
<1>3. PICK b \in Slot : b = SlotOf(version)
  BY <1>1, SMT DEF SlotOf, Slot
<1>4. b \in Slot /\ 1 - b \in Slot /\ b # 1 - b /\ (\A i \in Slot : i = b \/ i = 1 - b)
      /\ 1 - (1 - b) = b
  BY SMT DEF Slot
<1>5. Base = 1 - b /\ Base' = b
  BY <1>1, <1>3, SMT DEF Base, SlotOf
<1>6. header' = [header EXCEPT ![b] = [state |-> CurrentState, sound |-> TRUE]]
      /\ header \in [Slot -> Snapshot]
  BY <1>3 DEF SnapshotHeader, Sound, Protecting, TypeOK
<1>7. header'[b].state = CurrentState /\ header'[b].sound /\ header'[1 - b] = header[1 - b]
  BY <1>4, <1>6
<1>8. CurrentState \in State /\ CurrentState.version = version
  BY DEF CurrentState, State, Sound, Protecting, TypeOK
<1>9. TypeOK'
  <2>1. [state |-> CurrentState, sound |-> TRUE] \in Snapshot
    BY <1>8 DEF Snapshot
  <2>2. header' \in [Slot -> Snapshot]
    BY <1>6, <2>1
  <2> QED
    BY <1>1, <1>2, <2>2 DEF Sound, Protecting, TypeOK, SnapshotHeader
<1>10. Accounted(CurrentState)' /\ last' >= 1 /\ Accounted(CurrentState)
  BY <1>1, <1>2 DEF Sound, Protecting, CurrentState, Accounted
<1>11. version % 2 = b
  BY <1>3 DEF SlotOf
<1>12. IsValid(b)' /\ (IsValid(1 - b)' <=> IsValid(1 - b))
  BY <1>7, <1>8, <1>11 DEF IsValid
<1>13. IsValid(1 - b) /\ header[1 - b].state.version = version - 1
       /\ BaseState = header[1 - b].state
  BY <1>1, <1>5 DEF Sound, Protecting, SlotsOrdered, BaseState
<1>14. BaseState' = CurrentState /\ OtherState' = header[1 - b].state
  BY <1>5, <1>7 DEF BaseState, OtherState
<1>15. SlotsOrdered'
  BY <1>1, <1>5, <1>8, <1>12, <1>13, <1>14, SMT DEF SlotsOrdered
<1>16. GivenUpPagesKept'
  <2>1. Image(header[1 - b].state) \subseteq Used \cup prev.kept
    BY <1>1, <1>13 DEF Sound, Protecting, GivenUpPagesKept
  <2>2. Image(CurrentState) = Used /\ CurrentState.prev = prev
    BY DEF Image, CurrentState, Used
  <2>3. Used' = Used
    BY <1>2 DEF Used
  <2>4. Image(BaseState') \subseteq Used' \cup cur'.kept
    BY <1>14, <2>2, <2>3
  <2>5. /\ Image(OtherState') \subseteq Used' \cup cur'.kept \cup prev'.kept
        /\ Image(OtherState') \subseteq Image(BaseState') \cup BaseState'.prev.kept
    BY <1>2, <1>14, <2>1, <2>2, <2>3
  <2> QED
    BY <1>1, <2>4, <2>5 DEF GivenUpPagesKept, Image
<1>17. SlotsAccounted'
  <2>1. CurrentState.last >= 1
    BY DEF CurrentState, Sound, Protecting
  <2> QED
    BY <1>4, <1>7, <1>10, <1>12, <2>1 DEF SlotsAccounted, Sound, Protecting
<1> QED
  BY <1>2, <1>9, <1>10, <1>15, <1>16, <1>17 DEF Sound, Protecting

\* Whatever moment the process ends at, the file is opened at the base.
LEMMA LastIsBase == Sound => LastSlot = Base
<1> SUFFICES ASSUME Sound PROVE LastSlot = Base
  OBVIOUS
<1>1. version \in Nat /\ (phase = "header" => version > 0)
  BY DEF Sound, Protecting, TypeOK, SlotsOrdered
<1>2. Base = 0 \/ Base = 1
  BY <1>1, SMT DEF Base, SlotOf
<1>3. /\ IsValid(Base)
      /\ BaseState.version \in Int
      /\ IsValid(1 - Base) => OtherState.version = BaseState.version - 1
  BY <1>1, SMT DEF Sound, Protecting, SlotsOrdered
<1>4. CASE Base = 0
  BY <1>3, <1>4, SMT DEF LastSlot, BaseState, OtherState
<1>5. CASE Base = 1
  BY <1>3, <1>5, SMT DEF LastSlot, BaseState, OtherState
<1> QED
  BY <1>2, <1>4, <1>5

\* The same in the state a step leads to.
LEMMA NextLastIsBase == Sound' => (LastSlot = Base)'
  BY LastIsBase, PTL

\* A reopening starts from the base, whose own pages are accounted for.
LEMMA ReopenInvariant == Sound /\ Reopen /\ UNCHANGED stale => Sound'
<1> SUFFICES ASSUME Sound, Reopen, UNCHANGED stale PROVE Sound'
  OBVIOUS
<1>1. LastSlot = Base /\ LastState = BaseState
  BY LastIsBase DEF LastState, BaseState
<1>2. version \in Nat /\ (phase = "header" => version > 0)
  BY DEF Sound, Protecting, TypeOK, SlotsOrdered
<1>3. PICK b \in Slot : b = Base
  BY <1>2, SMT DEF Base, SlotOf, Slot
<1>4. b \in Slot /\ 1 - b \in Slot /\ b # 1 - b /\ (\A i \in Slot : i = b \/ i = 1 - b)
  BY SMT DEF Slot
<1>5. BaseState = header[b].state /\ OtherState = header[1 - b].state /\ IsValid(b)
  BY <1>3 DEF BaseState, OtherState, Sound, Protecting, SlotsOrdered
<1> DEFINE s == header[b].state
<1>6. s \in State
  BY <1>4 DEF Sound, Protecting, TypeOK, Snapshot
<1>7. /\ version' = s.version /\ data' = s.data /\ cur' = s.cur /\ prev' = s.prev
      /\ last' = s.last /\ writable' = {} /\ phase' = "run" /\ syncing' = FALSE
      /\ opens' = opens + 1 /\ header' = header /\ content' = content
  BY <1>1, <1>5 DEF Reopen, fileVars
<1>8. TypeOK'
  <2>1. opens' \in Nat
    BY <1>7 DEF Sound, Protecting, TypeOK
  <2>2. version' \in Nat /\ data' \in SUBSET Page /\ cur' \in FreeList /\ prev' \in FreeList
        /\ last' \in Nat
    BY <1>6, <1>7 DEF State
  <2> QED
    BY <1>7, <2>1, <2>2 DEF Sound, Protecting, TypeOK
<1>9. Accounted(s) /\ s.last >= 1
  BY <1>5, <1>4 DEF Sound, Protecting, SlotsAccounted
<1>10. Accounted(CurrentState)' /\ last' >= 1
  BY <1>7, <1>9 DEF Accounted, CurrentState
<1>11. s.version % 2 = b
  BY <1>5 DEF IsValid
<1>12. Base' = b
  BY <1>7, <1>11 DEF Base, SlotOf
<1>13. (IsValid(b)' <=> IsValid(b)) /\ (IsValid(1 - b)' <=> IsValid(1 - b))
       /\ \A i \in Slot : IsValid(i)' <=> IsValid(i)
  BY <1>7 DEF IsValid
<1>14. BaseState' = s /\ OtherState' = header[1 - b].state
  BY <1>7, <1>12 DEF BaseState, OtherState
<1>15. SlotsOrdered'
  <2>1. IsValid(1 - b) => header[1 - b].state.version = s.version - 1
    BY <1>3, <1>5 DEF Sound, Protecting, SlotsOrdered
  <2>2. BaseState'.version = version' /\ IsValid(Base)'
    BY <1>5, <1>7, <1>12, <1>13, <1>14
  <2>3. IsValid(1 - Base)' => OtherState'.version = BaseState'.version - 1
    BY <1>12, <1>13, <1>14, <2>1
  <2> QED
    BY <1>7, <2>2, <2>3 DEF SlotsOrdered
<1>16. GivenUpPagesKept'
  <2>1. Image(s) = Used'
    BY <1>7 DEF Image, Used
  <2>2. IsValid(1 - b) => Image(header[1 - b].state) \subseteq Image(s) \cup s.prev.kept
    BY <1>3, <1>5 DEF Sound, Protecting, GivenUpPagesKept
  <2>3. Image(BaseState') \subseteq Used' \cup cur'.kept
    BY <1>14, <2>1
  <2>4. IsValid(1 - b) => /\ Image(OtherState') \subseteq Used' \cup cur'.kept \cup prev'.kept
                          /\ Image(OtherState') \subseteq Image(BaseState') \cup BaseState'.prev.kept
    BY <1>7, <1>14, <2>1, <2>2
  <2> QED
    BY <1>7, <1>12, <1>13, <2>3, <2>4 DEF GivenUpPagesKept, Image
<1>17. SlotsAccounted'
  BY <1>7, <1>13 DEF SlotsAccounted, Sound, Protecting
<1> QED
  BY <1>7, <1>8, <1>10, <1>15, <1>16, <1>17 DEF Sound, Protecting

-----------------------------------------------------------------------------

\* Every operation keeps the invariant.
LEMMA OperateInvariant == Sound /\ Operate /\ UNCHANGED stale => Sound'
<1> SUFFICES ASSUME Sound, Operate, UNCHANGED stale PROVE Sound'
  OBVIOUS
<1>1. CASE Allocate
  BY <1>1, AllocateInvariant
<1>2. ASSUME NEW p \in Page, Deallocate(p) PROVE Sound'
  BY <1>2, DeallocateInvariant
<1>3. ASSUME NEW p \in Page, CopyOnWrite(p) PROVE Sound'
  BY <1>3, CopyOnWriteInvariant
<1>4. ASSUME NEW p \in Page, NEW v \in Values, Write(p, v) PROVE Sound'
  <2>1. TypeOK'
    BY <1>4 DEF Write, allocVars, Sound, TypeOK
  <2> QED
    BY <1>4, <2>1, QuietInvariant DEF Write
<1>5. CASE SnapshotBegin
  BY <1>5, SnapshotBeginInvariant
<1>6. CASE SnapshotHeader
  BY <1>6, SnapshotHeaderInvariant
<1>7. CASE SnapshotSync
  <2>1. TypeOK'
    BY <1>7 DEF SnapshotSync, allocVars, Sound, TypeOK
  <2> QED
    BY <1>7, <2>1, QuietInvariant DEF SnapshotSync
<1>8. CASE SyncDone
  <2>1. TypeOK'
    BY <1>8 DEF SyncDone, allocVars, Sound, TypeOK
  <2> QED
    BY <1>8, <2>1, QuietInvariant DEF SyncDone
<1>9. CASE Reopen
  BY <1>9, ReopenInvariant
<1> QED
  BY <1>1, <1>2, <1>3, <1>4, <1>5, <1>6, <1>7, <1>8, <1>9 DEF Operate

\* Every step keeps the invariant, and the first stale append ends its duty.
LEMMA NextInvariant == IndInv /\ [Next]_vars => IndInv'
<1> SUFFICES ASSUME IndInv, [Next]_vars PROVE IndInv'
  OBVIOUS
<1>1. CASE ~stale /\ Operate /\ UNCHANGED stale
  <2>1. Sound
    BY <1>1 DEF IndInv, Sound
  <2> QED
    BY <1>1, <2>1, OperateInvariant DEF IndInv, Sound
<1>2. ASSUME NEW p \in Page, AppendStale(p) PROVE IndInv'
  <2>1. stale' = TRUE /\ UNCHANGED <<header, content, version, allocVars, phase, syncing, opens>>
    BY <1>2 DEF AppendStale
  <2>2. TypeOK'
    BY <2>1 DEF IndInv, TypeOK, allocVars
  <2> QED
    BY <2>1, <2>2 DEF IndInv
<1>3. CASE UNCHANGED vars
  <2>1. UNCHANGED <<header, version, allocVars, stale>> /\ phase' = phase
    BY <1>3 DEF vars
  <2>2. TypeOK'
    BY <1>3 DEF vars, allocVars, IndInv, TypeOK
  <2>3. CASE stale
    BY <2>1, <2>2, <2>3 DEF IndInv
  <2>4. CASE ~stale
    <3>1. Sound'
      BY <2>1, <2>2, <2>4, QuietInvariant DEF IndInv, Sound
    <3> QED
      BY <3>1 DEF IndInv, Sound
  <2> QED
    BY <2>3, <2>4
<1> QED
  BY <1>1, <1>2, <1>3 DEF Next

\* The invariant holds in every reachable state.
THEOREM Invariant == Spec => []IndInv
<1>1. Init => IndInv
  BY InitInvariant DEF IndInv, Sound
<1> QED
  BY <1>1, NextInvariant, PTL DEF Spec

\* Every variable keeps its type.
THEOREM TypeCorrect == Spec => []TypeOK
<1>1. IndInv => TypeOK
  BY DEF IndInv
<1> QED
  BY Invariant, <1>1, PTL

\* As long as no append was stale, no page is lost and none has two owners,
\* whatever the file size, the number of snapshots and of reopenings.
THEOREM EveryPageAccounted == Spec => []PagesAccounted
<1>1. IndInv => PagesAccounted
  BY DEF IndInv, Protecting, PagesAccounted
<1> QED
  BY Invariant, <1>1, PTL

\* As long as no append was stale, the pages of every snapshot the header names
\* are out of reach of writes and of the allocator.
THEOREM EverySnapshotProtected == Spec => []SnapshotsProtected
<1>1. IndInv => SnapshotsProtected
  <2> SUFFICES ASSUME IndInv, ~stale, NEW i \in Slot, IsValid(i)
               PROVE  Image(header[i].state)
                        \cap (writable \cup cur.ready \cup prev.ready \cup last + 1 .. MaxPage) = {}
    BY DEF SnapshotsProtected
  <2>0. Sound
    BY DEF IndInv, Sound
  <2>1. (2 .. last) \cap (last + 1 .. MaxPage) = {}
    BY <2>0, BoundsAssumption, SMT DEF Sound, Protecting, TypeOK
  <2> QED
    BY <2>0, <2>1, ImagesNotObtainable
<1> QED
  BY Invariant, <1>1, PTL

\* As long as no append was stale there is a snapshot to go back to, and it is
\* the last one completed.
THEOREM LastSnapshotRecoverable == Spec => []AlwaysRecoverable
<1>1. IndInv => AlwaysRecoverable
  <2> SUFFICES ASSUME IndInv, ~stale
               PROVE  IsValid(LastSlot)
                      /\ LastState.version = IF phase = "header" THEN version - 1 ELSE version
    BY DEF AlwaysRecoverable
  <2>1. Sound /\ LastSlot = Base
    BY LastIsBase DEF IndInv, Sound
  <2> QED
    BY <2>1 DEF Sound, Protecting, SlotsOrdered, LastState, BaseState
<1> QED
  BY Invariant, <1>1, PTL

-----------------------------------------------------------------------------
(* The raw database implements SnapshotStore. *)

\* As long as the base stays and its pages keep their contents, the saved
\* value is the same.
LEMMA SavedUnchanged ==
  ASSUME Sound, Sound', header'[Base].state = header[Base].state, Base' = Base,
         \A p \in Image(BaseState) : content'[p] = content[p]
  PROVE  View(LastState)' = View(LastState)
<1>1. LastSlot = Base /\ LastSlot' = Base
  BY LastIsBase, NextLastIsBase
<1>2. LastState = BaseState /\ LastState' = BaseState
  BY <1>1 DEF LastState, BaseState
<1> QED
  BY <1>2 DEF View, Image

\* An operation that only writes pages the header does not need is a Mutate.
LEMMA MovesAreMutations ==
  ASSUME Sound, Sound', phase' = "run", phase = "run",
         UNCHANGED <<header, version, opens>>,
         \A p \in Page : p \notin writable' => content'[p] = content[p],
         \A i \in Slot : IsValid(i) => Image(header[i].state) \subseteq Page
  PROVE  Store!Mutate
<1>1. Base' = Base /\ Base \in Slot
  BY SMT DEF Base, SlotOf, Slot, Sound, Protecting, TypeOK
<1>2. IsValid(Base) /\ IsValid(Base)'
  BY <1>1 DEF Sound, Protecting, SlotsOrdered, IsValid
<1>3. Image(BaseState) \cap writable' = {}
  BY <1>1, <1>2 DEF Sound, Protecting, BaseState, Image, IsValid
<1>4. Image(BaseState) \subseteq Page
  BY <1>1, <1>2 DEF BaseState
<1>5. View(LastState)' = View(LastState)
  BY <1>1, <1>3, <1>4, SavedUnchanged
<1> QED
  BY <1>5 DEF Store!Mutate

\* The pages a snapshot needs are pages of the file.
LEMMA ImagesArePages ==
  ASSUME TypeOK, NEW i \in Slot PROVE Image(header[i].state) \subseteq Page
<1>1. header[i].state \in State
  BY DEF TypeOK, Snapshot
<1> QED
  BY <1>1 DEF State, FreeList, Image

\* Every operation is a step of the store.
LEMMA OperateRefines ==
  Sound /\ Sound' /\ Operate => Store!Next
<1> SUFFICES ASSUME Sound, Sound', Operate PROVE Store!Next
  OBVIOUS
<1>0. \A i \in Slot : Image(header[i].state) \subseteq Page
  BY ImagesArePages DEF Sound, Protecting
<1>1. CASE Allocate
  <2>1. \A p \in Page : p \notin writable' => content'[p] = content[p]
    BY <1>1 DEF Allocate, Sound, Protecting, TypeOK
  <2> QED
    BY <1>0, <1>1, <2>1, MovesAreMutations DEF Allocate, Store!Next
<1>2. ASSUME NEW p \in Page, Deallocate(p) PROVE Store!Next
  <2>1. \A q \in Page : q \notin writable' => content'[q] = content[q]
    BY <1>2 DEF Deallocate, Filled
  <2> QED
    BY <1>0, <1>2, <2>1, MovesAreMutations DEF Deallocate, Store!Next
<1>3. ASSUME NEW p \in Page, CopyOnWrite(p) PROVE Store!Next
  <2>1. \A q \in Page : q \notin writable' => content'[q] = content[q]
    BY <1>3 DEF CopyOnWrite, Filled
  <2> QED
    BY <1>0, <1>3, <2>1, MovesAreMutations DEF CopyOnWrite, Store!Next
<1>4. ASSUME NEW p \in Page, NEW v \in Values, Write(p, v) PROVE Store!Next
  <2>1. \A q \in Page : q \notin writable' => content'[q] = content[q]
    BY <1>4 DEF Write, allocVars, Sound, Protecting, TypeOK
  <2> QED
    BY <1>0, <1>4, <2>1, MovesAreMutations DEF Write, allocVars, Store!Next
<1>5. CASE SnapshotBegin
  <2>1. version \in Nat /\ version' = version + 1 /\ phase = "run" /\ phase' = "header"
    BY <1>5 DEF SnapshotBegin, Sound, Protecting, TypeOK
  <2>2. Base' = Base /\ Base \in Slot /\ SlotOf(version + 1) # Base
    BY <2>1, SMT DEF Base, SlotOf, Slot
  <2>3. header'[Base].state = header[Base].state
    BY <1>5, <2>2 DEF SnapshotBegin, Sound, Protecting, TypeOK
  <2>4. content' = content /\ opens' = opens
    BY <1>5 DEF SnapshotBegin
  <2>5. View(LastState)' = View(LastState)
    BY <2>2, <2>3, <2>4, SavedUnchanged
  <2> QED
    BY <2>4, <2>5 DEF Store!Next, Store!Mutate
<1>6. CASE SnapshotHeader
  <2>1. phase = "header" /\ phase' = "barrier" /\ version' = version /\ version \in Nat
    BY <1>6 DEF SnapshotHeader, Sound, Protecting, TypeOK
  <2>2. LastSlot' = SlotOf(version)
    <3>1. LastSlot' = Base'
      BY NextLastIsBase
    <3> QED
      BY <2>1, <3>1 DEF Base, SlotOf
  <2>3. SlotOf(version) \in Slot
    BY <2>1, SMT DEF SlotOf, Slot
  <2>4. LastState' = CurrentState
    BY <1>6, <2>2, <2>3 DEF SnapshotHeader, LastState, Sound, Protecting, TypeOK
  <2>5. CurrentState' = CurrentState /\ content' = content /\ opens' = opens
    BY <1>6 DEF SnapshotHeader, CurrentState
  <2>6. View(CurrentState)' = View(CurrentState) /\ View(LastState)' = View(CurrentState)
    BY <2>4, <2>5 DEF View, Image
  <2> QED
    BY <2>5, <2>6 DEF Store!Next, Store!Save
<1>7. CASE SnapshotSync
  <2>1. UNCHANGED <<header, content, version, data, cur, prev, last, opens>>
    BY <1>7 DEF SnapshotSync, allocVars
  <2> QED
    BY <2>1 DEF Store!Next, Store!Mutate, View, Image, CurrentState, LastState, LastSlot,
       IsValid, Store!storeVars
<1>8. CASE SyncDone
  <2>1. UNCHANGED <<header, content, version, data, cur, prev, last, opens>>
    BY <1>8 DEF SyncDone, allocVars
  <2> QED
    BY <2>1 DEF Store!Next, Store!Mutate, View, Image, CurrentState, LastState, LastSlot,
       IsValid, Store!storeVars
<1>9. CASE Reopen
  <2>1. LastSlot' = LastSlot /\ LastState' = LastState /\ content' = content /\ opens' = opens + 1
    BY <1>9 DEF Reopen, fileVars, LastState, LastSlot, IsValid
  <2>2. Image(CurrentState') = Image(LastState)
    BY <1>9 DEF Reopen, CurrentState, Image
  <2>3. View(CurrentState)' = View(LastState) /\ View(LastState)' = View(LastState)
    BY <2>1, <2>2 DEF View, Image
  <2> QED
    BY <2>1, <2>3 DEF Store!Next, Store!Reopen
<1> QED
  BY <1>1, <1>2, <1>3, <1>4, <1>5, <1>6, <1>7, <1>8, <1>9 DEF Operate

\* Every step is a step of the store or leaves it as it is, until an append is
\* stale.
LEMMA StepRefines ==
  IndInv /\ IndInv' /\ [Next]_vars => [~stale' => Store!Next]_(Store!storeVars)
<1> SUFFICES ASSUME IndInv, IndInv', [Next]_vars, ~stale'
             PROVE  Store!Next \/ UNCHANGED Store!storeVars
  OBVIOUS
<1>1. CASE ~stale /\ Operate /\ UNCHANGED stale
  <2>1. Sound /\ Sound'
    BY <1>1 DEF IndInv, Sound
  <2> QED
    BY <1>1, <2>1, OperateRefines
<1>2. ASSUME NEW p \in Page, AppendStale(p) PROVE FALSE
  BY <1>2 DEF AppendStale
<1>3. CASE UNCHANGED vars
  BY <1>3 DEF vars, allocVars, View, Image, CurrentState, LastState, LastSlot, IsValid,
     Store!storeVars
<1> QED
  BY <1>1, <1>2, <1>3 DEF Next

\* Until an append is stale, nothing the program does between two snapshots
\* changes what a reopening returns, and a snapshot makes it return exactly what
\* the program saw.
THEOREM StoreImplemented == Spec => ImplementsStore
<1>1. Init => Store!Init
  <2> SUFFICES ASSUME Init PROVE Store!Init
    OBVIOUS
  <2>1. Image(CurrentState) = {}
    BY DEF Init, CurrentState, Image, EmptyList
  <2>2. Image(LastState) = {}
    <3>1. LastSlot \in Slot
      BY DEF LastSlot, Slot
    <3> QED
      BY <3>1 DEF Init, LastState, DefaultState, Image, EmptyList
  <2>3. View(CurrentState) = View(LastState)
    BY <2>1, <2>2 DEF View
  <2> QED
    BY <2>3 DEF Init, Store!Init
<1>2. IndInv /\ IndInv' /\ [Next]_vars => [~stale' => Store!Next]_(Store!storeVars)
  BY StepRefines
<1> QED
  BY <1>1, <1>2, Invariant, PTL DEF Spec, ImplementsStore

=============================================================================
