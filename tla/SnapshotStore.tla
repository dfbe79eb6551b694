---------------------------- MODULE SnapshotStore ----------------------------
(***************************************************************************)
(* What the database crate promises to the code above it: a value that the *)
(* program changes at will, a saved value that only an explicit snapshot   *)
(* replaces, and a reopening that brings the saved value back exactly.     *)
(*                                                                         *)
(* current  the contents the running program sees                          *)
(* saved    the contents the next open of the file returns                 *)
(* opens    how many times the file was opened again                       *)
(***************************************************************************)
EXTENDS Naturals

VARIABLES current, saved, opens

storeVars == <<current, saved, opens>>

Init ==
  /\ saved = current
  /\ opens = 0

\* The program changes what it holds; nothing it does reaches the saved value.
Mutate == UNCHANGED <<saved, opens>>

\* A snapshot replaces the saved value by exactly the current one.
Save ==
  /\ saved' = current
  /\ UNCHANGED <<current, opens>>

\* The program stops, orderly or not, and the file is opened again.
Reopen ==
  /\ current' = saved
  /\ opens' = opens + 1
  /\ UNCHANGED saved

Next == Mutate \/ Save \/ Reopen

Spec == Init /\ [][Next]_storeVars

=============================================================================
