--------------------------- MODULE MCApplication ---------------------------
(* A player with a server of its own.                                        *)
EXTENDS Application

MCUserOf == [c \in Connections |-> c]
=============================================================================
