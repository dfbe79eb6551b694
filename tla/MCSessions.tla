----------------------------- MODULE MCSessions -----------------------------
(* Two connections of one user, as when a client connects again before its   *)
(* first connection has timed out.  No index of a character was used and     *)
(* given back in an earlier run of the server.                               *)
EXTENDS Sessions

MCUserOf == [c \in Connections |-> 1]

MCInit == SessionsInit /\ "reused" \notin Range(slots)

MCSpec == MCInit /\ [][SessionsNext]_sessionVars /\ SessionsFairness
=============================================================================
