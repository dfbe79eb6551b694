----------------------------- MODULE MCPlayers -----------------------------
(* Small instances of Players for TLC: one user with two sessions at once   *)
(* and one with one.                                                        *)
EXTENDS Players

CONSTANTS alice, bob, first, second, third

MCUsers == {alice, bob}
MCSessions == {first, second, third}
MCUserOf == [c \in MCSessions |-> IF c = third THEN bob ELSE alice]

\* The two sessions of one user are alike.
MCSymmetry == Permutations({first, second})

=============================================================================
