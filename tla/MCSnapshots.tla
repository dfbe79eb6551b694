---------------------------- MODULE MCSnapshots ----------------------------
(* Small instances of Snapshots for TLC. *)
EXTENDS Snapshots

CONSTANTS zero, one, node

MCValues == {zero, one}
MCZero == zero
MCNode == node

=============================================================================
