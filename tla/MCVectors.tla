------------------------------- MODULE MCVectors -------------------------------
(***************************************************************************)
(* Vectors for TLC. Elements are model values: nothing a vector does       *)
(* depends on them.                                                        *)
(***************************************************************************)
EXTENDS Vectors

Symmetry == Permutations(Elements)

=============================================================================
