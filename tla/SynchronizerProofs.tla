------------------------- MODULE SynchronizerProofs -------------------------
(***************************************************************************)
(* Proofs about module Synchronizer, for any number of calls.              *)
(***************************************************************************)
EXTENDS Synchronizer, TLAPS

\* Before the first call nothing is pending and the two have not met.
LEMMA InitInvariant == Init => IndInv
<1> SUFFICES ASSUME Init PROVE IndInv
  OBVIOUS
<1>1. TypeOK
  BY DEF Init, TypeOK
<1>2. Met = 0 /\ ~Passed /\ "main" \notin arrived /\ "thread" \notin arrived
  BY DEF Init, Met, Passed
<1> QED
  BY <1>1, <1>2, SMT DEF Init, IndInv

\* What the program does in sync() and drop() keeps the invariant.
LEMMA MainInvariant == IndInv /\ MainNext => IndInv'
<1> SUFFICES ASSUME IndInv, MainNext PROVE IndInv'
  OBVIOUS
<1> USE DEF IndInv, TypeOK, Met, Passed, Ready, Opens
<1>1. CASE SyncBegin
  BY <1>1, SMT DEF SyncBegin
<1>2. CASE SyncArrive
  BY <1>2, SMT DEF SyncArrive
<1>3. CASE SyncLeave
  BY <1>3, SMT DEF SyncLeave
<1>4. CASE DropArrive
  BY <1>4, SMT DEF DropArrive
<1>5. CASE DropLeave
  BY <1>5, SMT DEF DropLeave
<1>6. CASE Join
  BY <1>6, SMT DEF Join
<1> QED
  BY <1>1, <1>2, <1>3, <1>4, <1>5, <1>6 DEF MainNext

\* What the synchronization thread does keeps the invariant.
LEMMA ThreadInvariant == IndInv /\ ThreadNext => IndInv'
<1> SUFFICES ASSUME IndInv, ThreadNext PROVE IndInv'
  OBVIOUS
<1> USE DEF IndInv, TypeOK, Met, Passed, Ready, Opens
<1>1. CASE ThreadArrive
  BY <1>1, SMT DEF ThreadArrive
<1>2. CASE ThreadLeave
  BY <1>2, SMT DEF ThreadLeave
<1>3. CASE ThreadCount
  BY <1>3, SMT DEF ThreadCount
<1>4. CASE ThreadSync
  BY <1>4, SMT DEF ThreadSync
<1>5. CASE ThreadSynced
  BY <1>5, SMT DEF ThreadSynced
<1> QED
  BY <1>1, <1>2, <1>3, <1>4, <1>5 DEF ThreadNext

\* The invariant that counts the meetings at the barrier holds throughout.
THEOREM Invariant == Spec => []IndInv
<1>1. IndInv /\ UNCHANGED vars => IndInv'
  BY DEF vars, IndInv, TypeOK, Met, Passed, Ready
<1>2. IndInv /\ [Next]_vars => IndInv'
  BY <1>1, MainInvariant, ThreadInvariant DEF Next
<1> QED
  BY <1>2, InitInvariant, PTL DEF Spec

\* When snapshot n has returned, snapshot n - 1 is on disk, however the
\* program and the thread are scheduled.
THEOREM PreviousIsDurable == Spec => []PreviousDurable
<1>1. IndInv => PreviousDurable
  BY SMT DEF IndInv, TypeOK, PreviousDurable, Met
<1> QED
  BY Invariant, <1>1, PTL

\* The thread only returns to a drop, with every snapshot on disk.
THEOREM NothingIsLost == Spec => []NothingLost
<1>1. IndInv => NothingLost
  BY SMT DEF IndInv, TypeOK, NothingLost, Met
<1> QED
  BY Invariant, <1>1, PTL

=============================================================================
