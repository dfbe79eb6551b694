---------------------------- MODULE Synchronizer ----------------------------
(***************************************************************************)
(* crates/database/src/sync.rs: the thread that forces snapshots to disk.  *)
(* The program stores a snapshot, adds one to "pending" and meets the      *)
(* thread at a barrier of two; the thread takes one from "pending", calls  *)
(* sync_data and comes back to the barrier. Dropping the synchronizer is a *)
(* meeting without adding to "pending", which tells the thread to return.  *)
(*                                                                         *)
(* The barrier is that of the standard library: the second to arrive opens *)
(* it for both and goes on, the first leaves later, on its own.            *)
(***************************************************************************)
EXTENDS Integers

CONSTANT MaxSyncs  \* bound: calls of Synchronizer::sync

ASSUME MaxSyncsAssumption == MaxSyncs \in Nat

VARIABLES
  main,       \* where the program is in sync() or drop()
  thread,     \* where the synchronization thread is
  pending,    \* State.pending
  arrived,    \* State.barrier: who waits in it
  calls,      \* snapshots stored, each followed by one call of sync()
  covering,   \* snapshots stored when the running sync_data began
  durable     \* snapshots that a completed sync_data covers

vars == <<main, thread, pending, arrived, calls, covering, durable>>

-----------------------------------------------------------------------------

\* Barrier::wait: the second to arrive opens the barrier.
Opens == arrived # {}

\* Mutant: the thread is not told of the snapshot.
SyncBeginUncounted ==
  /\ main = "idle"
  /\ calls < MaxSyncs
  /\ calls' = calls + 1
  /\ main' = "arrive"
  /\ UNCHANGED <<thread, pending, arrived, covering, durable>>

\* Mutant: a meeting that waits for nobody.
SyncUnmet ==
  /\ main = "arrive"
  /\ main' = "idle"
  /\ UNCHANGED <<thread, pending, arrived, calls, covering, durable>>

\* RawDatabase::snapshot has stored the header and calls Synchronizer::sync:
\* fetch_add on pending.
SyncBegin ==
  /\ main = "idle"
  /\ calls < MaxSyncs
  /\ calls' = calls + 1
  /\ pending' = pending + 1
  /\ main' = "arrive"
  /\ UNCHANGED <<thread, arrived, covering, durable>>

\* Barrier::wait in Synchronizer::sync.
SyncArrive ==
  /\ main = "arrive"
  /\ IF Opens THEN main' = "idle" /\ arrived' = {}
              ELSE main' = "waiting" /\ arrived' = {"main"}
  /\ UNCHANGED <<thread, pending, calls, covering, durable>>

SyncLeave ==
  /\ main = "waiting"
  /\ "main" \notin arrived
  /\ main' = "idle"
  /\ UNCHANGED <<thread, pending, arrived, calls, covering, durable>>

\* Drop for Synchronizer: Barrier::wait, then join.
DropArrive ==
  /\ main = "idle"
  /\ IF Opens THEN main' = "joining" /\ arrived' = {}
              ELSE main' = "dropping" /\ arrived' = {"main"}
  /\ UNCHANGED <<thread, pending, calls, covering, durable>>

DropLeave ==
  /\ main = "dropping"
  /\ "main" \notin arrived
  /\ main' = "joining"
  /\ UNCHANGED <<thread, pending, arrived, calls, covering, durable>>

Join ==
  /\ main = "joining"
  /\ thread = "returned"
  /\ main' = "dropped"
  /\ UNCHANGED <<thread, pending, arrived, calls, covering, durable>>

\* The loop of the thread: Barrier::wait.
ThreadArrive ==
  /\ thread = "arrive"
  /\ IF Opens THEN thread' = "count" /\ arrived' = {}
              ELSE thread' = "waiting" /\ arrived' = {"thread"}
  /\ UNCHANGED <<main, pending, calls, covering, durable>>

ThreadLeave ==
  /\ thread = "waiting"
  /\ "thread" \notin arrived
  /\ thread' = "count"
  /\ UNCHANGED <<main, pending, arrived, calls, covering, durable>>

\* Mutant: fetch_sub is taken to return the value it leaves.
ThreadCountAfter ==
  /\ thread = "count"
  /\ pending' = pending - 1
  /\ thread' = IF pending = 1 THEN "returned" ELSE "sync"
  /\ UNCHANGED <<main, arrived, calls, covering, durable>>

\* fetch_sub on pending: the value it had decides.
ThreadCount ==
  /\ thread = "count"
  /\ pending' = pending - 1
  /\ thread' = IF pending = 0 THEN "returned" ELSE "sync"
  /\ UNCHANGED <<main, arrived, calls, covering, durable>>

\* Mutant: the last snapshot stored is left to the next call.
ThreadSyncBehind ==
  /\ thread = "sync"
  /\ covering' = calls - 1
  /\ thread' = "syncing"
  /\ UNCHANGED <<main, pending, arrived, calls, durable>>

\* MappedFile::sync writes what was stored before it began. A failure is only
\* logged; it is left out here.
ThreadSync ==
  /\ thread = "sync"
  /\ covering' = calls
  /\ thread' = "syncing"
  /\ UNCHANGED <<main, pending, arrived, calls, durable>>

ThreadSynced ==
  /\ thread = "syncing"
  /\ durable' = covering
  /\ thread' = "arrive"
  /\ UNCHANGED <<main, pending, arrived, calls, covering>>

Init ==
  /\ main = "idle"
  /\ thread = "arrive"
  /\ pending = 0
  /\ arrived = {}
  /\ calls = 0
  /\ covering = 0
  /\ durable = 0

MainNext == SyncBegin \/ SyncArrive \/ SyncLeave \/ DropArrive \/ DropLeave \/ Join
ThreadNext == ThreadArrive \/ ThreadLeave \/ ThreadCount \/ ThreadSync \/ ThreadSynced

Next == MainNext \/ ThreadNext

Spec == Init /\ [][Next]_vars

\* The thread is scheduled, and the program is inside the calls it began; it
\* need never begin one.
FairSpec ==
  /\ Spec
  /\ WF_vars(ThreadNext)
  /\ WF_vars(SyncArrive \/ SyncLeave \/ DropLeave \/ Join)

-----------------------------------------------------------------------------

TypeOK ==
  /\ main \in {"idle", "arrive", "waiting", "dropping", "joining", "dropped"}
  /\ thread \in {"arrive", "waiting", "count", "sync", "syncing", "returned"}
  /\ pending \in Int
  /\ arrived \in {{}, {"main"}, {"thread"}}
  /\ calls \in Nat /\ covering \in Nat /\ durable \in Nat

\* When snapshot n has returned, snapshot n - 1 is on disk: this is what lets
\* the next snapshot reuse the slot, and the pages, of the one before
\* (sync.rs sync, raw.rs snapshot).
PreviousDurable == main = "idle" => durable >= calls - 1

\* The thread returns only to a drop, and never with a snapshot unsynced.
NothingLost == thread = "returned" => main \in {"dropping", "joining", "dropped"} /\ durable = calls

\* Why: how often the two have met, and what that says of each variable.
Met ==
  IF main = "arrive" \/ (main = "waiting" /\ "main" \in arrived) THEN calls - 1
  ELSE IF main \in {"joining", "dropped"} \/ (main = "dropping" /\ "main" \notin arrived)
  THEN calls + 1
  ELSE calls

\* The thread has passed the barrier and not yet taken one from pending.
Passed == thread = "count" \/ (thread = "waiting" /\ "thread" \notin arrived)

\* The thread has done what the last meeting asked for.
Ready == thread = "arrive" \/ (thread = "waiting" /\ "thread" \in arrived)

IndInv ==
  /\ TypeOK
  /\ "main" \in arrived => main \in {"waiting", "dropping"}
  /\ "thread" \in arrived => thread = "waiting"
  /\ main \in {"arrive", "waiting"} => calls > 0
  /\ pending = calls - Met + (IF Passed THEN 1 ELSE 0)
  /\ thread = "returned" => Met = calls + 1
  /\ Met = calls + 1 => thread = "returned" \/ Passed
  /\ durable <= calls /\ covering <= calls
  /\ durable >= Met - 1
  /\ Ready => durable >= Met
  /\ thread = "syncing" => covering >= Met

\* A call of sync() returns, and dropping the database ends: the two sides wait
\* for each other at the barrier and at the join, and never both in vain
\* (sync.rs sync, drop and the thread's loop).
CallsReturn ==
  /\ main \in {"arrive", "waiting"} ~> main = "idle"
  /\ main \in {"dropping", "joining"} ~> main = "dropped"

\* Every snapshot reaches the disk, whether or not the program does anything
\* after it.
EventuallyDurable == \A n \in 1 .. MaxSyncs : calls = n ~> durable >= n

=============================================================================
