-------------------------- MODULE MCEventSequence --------------------------
(***************************************************************************)
(* Instances of EventSequence for TLC.                                     *)
(***************************************************************************)
EXTENDS EventSequence, TLC

CONSTANTS g1, g2, g3

TwoGoroutines   == {g1, g2}
ThreeGoroutines == {g1, g2, g3}

Symmetry == Permutations(Goroutines)
=============================================================================
