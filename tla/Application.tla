---------------------------- MODULE Application -----------------------------
(***************************************************************************)
(* The client as a whole: RootState of src/crates/client (root/state.rs,   *)
(* root/mod.rs, run.rs, bin/wosim.rs), with the server it starts when one  *)
(* plays, or the generator when a world is created.                        *)
(*                                                                         *)
(* Leaving is the hard part.  The window closes; RootState::shutdown sends *)
(* Disconnect, waits until the server has let go of the connection, and    *)
(* stops the server, which writes the only snapshot there is.              *)
(***************************************************************************)
EXTENDS Sessions, Generation

CONSTANT Own   \* the application's connection to its server

ASSUME ApplicationAssumption == Connections = {Own}

VARIABLES
  root,   \* RootState: "connect", "connected", "configure", "generate", "report",
          \* "finished"; what shutdown does: "closing", "waiting", "stopping",
          \* "joining", "cancelling"; and how the process ended: "done", "failed"
  cut     \* the own connection was closed by an error, lost or timed out

appVars == <<sessionVars, generationVars, root, cut>>

Alive == root \notin {"done", "failed"}

AppInit ==
  /\ SessionsInit /\ GenerationInit /\ cut = FALSE
  /\ root \in {"connect", "configure"} /\ (root = "connect" => file = "none")

-----------------------------------------------------------------------------
\* Connecting and playing.

\* Connected: the endpoint is there.
Connect == root = "connect" /\ Accept(Own) /\ root' = "connected" /\ UNCHANGED cut

\* Error: connecting failed.  The server is dropped; nothing has changed yet.
ConnectFails == root = "connect" /\ root' = "report" /\ UNCHANGED <<sessionVars, cut>>

\* What the player does.
Act == root = "connected" /\ (Bind(Own) \/ Unbind(Own) \/ Play(Own) \/ Walk(Own))
       /\ UNCHANGED <<root, cut>>

\* Whatever else goes on in the process, of the server as of the client.
Goes ==
  /\ \/ \E c \in Connections: Tasks(c) \/ Break(c)
     \/ TickDue \/ Handle \/ Notify
  /\ cut' = (cut \/ (link[Own] = "open" /\ link'[Own] = "closed" /\ session[Own] # "over"))
  /\ UNCHANGED root

-----------------------------------------------------------------------------
\* Leaving.

\* CloseRequested, Close, or Disconnected after the last notification; an event
\* that fails leaves too.  The state's shutdown starts.
Leave ==
  /\ root \in {"connect", "connected", "configure", "generate", "report", "finished"}
  /\ root' = CASE root = "connected" -> "closing"
               [] root = "generate" -> "cancelling"
               [] OTHER -> "done"
  /\ UNCHANGED <<sessionVars, cut>>

\* Mutant: shutdown goes on to stop the server.
GoodbyeStops ==
  /\ root = "closing"
  /\ link[Own] = "open" /\ Send(Own, Disconnect) /\ root' = "stopping"
  /\ client' = [client EXCEPT ![Own] = "left"] /\ UNCHANGED <<view, sent, cut>>

\* connection.send(Disconnect).await?: an error ends shutdown there.
Goodbye ==
  /\ root = "closing" /\ UNCHANGED cut
  /\ \/ /\ link[Own] = "open" /\ Send(Own, Disconnect) /\ root' = "waiting"
        /\ client' = [client EXCEPT ![Own] = "left"] /\ UNCHANGED <<view, sent>>
     \/ link[Own] = "closed" /\ root' = "failed" /\ UNCHANGED sessionVars

\* task.await: the task that receives notifications ends with the connection.
Released ==
  /\ root = "waiting" /\ link[Own] = "closed" /\ root' = "stopping"
  /\ UNCHANGED <<sessionVars, cut>>

\* Server::stop; its unwraps panic when the service has ended by itself.
StopServer ==
  /\ root = "stopping" /\ UNCHANGED cut
  /\ \/ AskStop /\ root' = "joining"
     \/ service # "up" /\ root' = "failed" /\ UNCHANGED sessionVars

Joined ==
  /\ root = "joining" /\ service # "up"
  /\ root' = IF service = "stopped" THEN "done" ELSE "failed"
  /\ UNCHANGED <<sessionVars, cut>>

-----------------------------------------------------------------------------
\* Creating a world.

Create == root = "configure" /\ Generate /\ root' = "generate"

\* GeneratorFinished: the task is joined; a panic of it is passed on.
GeneratorFinished ==
  /\ root = "generate" /\ Ended
  /\ root' = CASE step = "ok" -> "finished" [] step = "panicked" -> "failed"
               [] OTHER -> "report"
  /\ UNCHANGED generationVars

\* shutdown: cancel, and join.
CancelGenerator ==
  /\ root = "cancelling"
  /\ \/ control # "cancelled" /\ Cancel /\ UNCHANGED root
     \/ /\ control = "cancelled" /\ Ended /\ UNCHANGED generationVars
        /\ root' = IF step = "panicked" THEN "failed" ELSE "done"

\* The task, and whoever holds a Control.
Generating ==
  /\ root \in {"generate", "cancelling"} /\ UNCHANGED root
  /\ Work \/ Poll \/ Pause \/ Unpause

-----------------------------------------------------------------------------
PlayNext ==
  \/ Connect \/ ConnectFails \/ Act \/ Goes
  \/ Leave \/ Goodbye \/ Released \/ StopServer \/ Joined

CreateNext == Create \/ GeneratorFinished \/ CancelGenerator \/ Generating

AppNext ==
  /\ Alive
  /\ \/ (PlayNext /\ UNCHANGED generationVars)
     \/ (CreateNext /\ UNCHANGED <<sessionVars, cut>>)

AppSpec == AppInit /\ [][AppNext]_appVars

\* The tasks of the server and of the generator run, ticks come, the steps of
\* shutdown follow each other, and a client reads what it is sent; the user need do
\* nothing.
Steps ==
  \/ ((Goodbye \/ Released \/ StopServer \/ Joined) /\ UNCHANGED generationVars)
  \/ (CancelGenerator /\ UNCHANGED <<sessionVars, cut>>)

AppFairness ==
  /\ SF_appVars(Alive /\ Steps)
  /\ WF_appVars(Alive /\ (Work \/ Poll) /\ Generating /\ UNCHANGED <<sessionVars, cut>>)
  /\ WF_appVars(Alive /\ Receive(Own) /\ Goes /\ UNCHANGED generationVars)
  /\ WF_appVars(Alive /\ (Arrive(Own) \/ Lose(Own)) /\ Goes /\ UNCHANGED generationVars)
  /\ WF_appVars(Alive /\ Release(Own) /\ Goes /\ UNCHANGED generationVars)
  /\ SF_appVars(Alive /\ (Hello(Own) \/ Serve(Own) \/ Hangup(Own) \/ Bye(Own)) /\ Goes
                /\ UNCHANGED generationVars)
  /\ WF_appVars(Alive /\ TickDue /\ Goes /\ UNCHANGED generationVars)
  /\ WF_appVars(Alive /\ (Handle \/ Notify) /\ Goes /\ UNCHANGED generationVars)

FairAppSpec == AppSpec /\ AppFairness

-----------------------------------------------------------------------------
\* Every variable is of its type.
AppTypeOK ==
  /\ SessionsTypeOK
  /\ root \in {"connect", "connected", "configure", "generate", "report", "finished",
               "closing", "waiting", "stopping", "joining", "cancelling", "done", "failed"}
  /\ step \in {"off", "wait"} \union Works \union Over
  /\ control \in {"running", "pending", "paused", "cancelled"} /\ woken \in BOOLEAN
  /\ file \in {"none", "created", "world"} /\ cut \in BOOLEAN

\* A player that leaves finds its place again: when shutdown succeeds, the place it
\* had in game has been written into the columns before the snapshot was taken, for
\* the server let go of the connection only after it handled Disconnected.  Unless
\* the connection was closed by an error or lost (root/state.rs:80).
PlaceSaved == root = "done" /\ link[Own] # None /\ ~cut => UserOf[Own] \in saved

\* Why the service may have ended by itself: the index of players was full, a slot
\* was unbound whose character had an index used before, a player left before a tick
\* had set up its body, or a tick met regions that were not as expected (cursor.rs:189,
\* db_vec.rs:69, observer.rs:120, region.rs:315, world.rs:244).
Panics == {"full", "unmarked", "bodyless", "astray"}

\* Variables keep their types, and shutdown fails, and the world is not saved, only
\* if the connection was closed by an error or lost, or the service had panicked for
\* a reason of its own.  Leaving as such is no reason: the service finds every player
\* it is asked about, it is not stopped twice, and it lets go of the connection before
\* it is stopped.  And the generator, joined, has not panicked: it is never polled
\* while the waker of an earlier poll is kept (control.rs:70).
FailsForAReason ==
  /\ AppTypeOK
  /\ step # "panicked"
  /\ root = "failed" => cut \/ service \in Panics

\* Leaving ends: no two of the window, the receiver, the session, the service, its
\* regions and the generator wait for each other for ever; the connection is closed
\* once ticks have taken its sender from every region (root/state.rs:71, region.rs:384).
LeavingDone == root \in {"closing", "cancelling"} ~> ~Alive
=============================================================================
