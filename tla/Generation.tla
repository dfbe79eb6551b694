----------------------------- MODULE Generation -----------------------------
(***************************************************************************)
(* The generator of worlds, src/crates/generator: one task that creates    *)
(* the database, lets the graphics device compute the heights, adds the    *)
(* characters, writes a snapshot, and only then looks whether it has been  *)
(* paused or cancelled; and the Control with which others may do that.     *)
(***************************************************************************)
EXTENDS Naturals

CONSTANT MaxPauses   \* bound on the calls of pause

ASSUME GenerationAssumption == MaxPauses \in Nat

VARIABLES
  step,     \* of the task: "off", then the next thing it does, then how it ended
  control,  \* ControlState: "running", "pending", "paused", "cancelled"
  woken,    \* the task is to be polled
  file,     \* world.db: "none", "created", "world"
  pauses    \* calls of pause so far

generationVars == <<step, control, woken, file, pauses>>

Works == {"create", "compute", "populate", "snapshot"}
Over == {"ok", "failed", "cancelled", "panicked"}

GenerationInit ==
  step = "off" /\ control = "running" /\ woken = TRUE /\ file \in {"none", "created"}
  /\ pauses = 0

-----------------------------------------------------------------------------
\* Generator::new spawns the task.
Generate == step = "off" /\ step' = "create" /\ UNCHANGED <<control, woken, file, pauses>>

\* The task, up to its only await.
Step(from, to) == step = from /\ step' = to /\ UNCHANGED <<control, woken, pauses>>

\* create: a file that is there already is an error.
CreateFile == Step("create", "compute") /\ file = "none" /\ file' = "created"

\* compute: the device makes the heights.
Compute == Step("compute", "populate") /\ UNCHANGED file

\* populate: the characters of the world.
Populate == Step("populate", "snapshot") /\ UNCHANGED file

\* snapshot: only now does the file hold a world.
WriteWorld == Step("snapshot", "wait") /\ file' = "world"

\* GenerateError, of all but populate.  The file stays as it is.
GenerateError ==
  /\ \E from \in Works \ {"populate"}: Step(from, "failed")
  /\ UNCHANGED file

Work == CreateFile \/ Compute \/ Populate \/ WriteWorld \/ GenerateError

\* ControlWait::poll; it panics when it finds the waker of an earlier poll.
Poll ==
  /\ step = "wait" /\ woken /\ woken' = FALSE
  /\ step' = CASE control = "running" -> "ok" [] control = "pending" -> "wait"
               [] control = "cancelled" -> "cancelled" [] control = "paused" -> "panicked"
  /\ control' = IF control = "pending" THEN "paused" ELSE control
  /\ UNCHANGED <<file, pauses>>

\* Mutant: pause wakes a task that is paused already.
PauseWaking ==
  /\ pauses < MaxPauses /\ pauses' = pauses + 1
  /\ control' = IF control = "running" THEN "pending" ELSE control
  /\ woken' = (woken \/ control = "paused")
  /\ UNCHANGED <<step, file>>

Pause ==
  /\ pauses < MaxPauses /\ pauses' = pauses + 1
  /\ control' = IF control = "running" THEN "pending" ELSE control
  /\ UNCHANGED <<step, woken, file>>

\* The state is replaced; who was paused is woken.
Replace(s) == control' = s /\ woken' = (woken \/ control = "paused")

Unpause ==
  /\ control # "cancelled" /\ Replace("running") /\ UNCHANGED <<step, file, pauses>>

\* Mutant: a task that is paused is not woken.
CancelSilent == control' = "cancelled" /\ UNCHANGED <<woken, step, file, pauses>>

Cancel == Replace("cancelled") /\ UNCHANGED <<step, file, pauses>>

\* The receiver of the notifications ends with the task that sends them, and join
\* returns then.
Ended == step \in Over
=============================================================================
