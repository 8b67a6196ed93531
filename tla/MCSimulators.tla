---------------------------- MODULE MCSimulators ----------------------------
(* Bounds for model checking the turns of one conversation. *)
EXTENDS Simulators, TLC

TurnSymmetry == Permutations(Turns)
=============================================================================
