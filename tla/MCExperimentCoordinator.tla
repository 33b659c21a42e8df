------------------------ MODULE MCExperimentCoordinator ------------------------
(* ExperimentCoordinator for TLC: no definition tells the Control processes *)
(* apart, nor the stop calls, so their permutations are symmetries.         *)
EXTENDS ExperimentCoordinator, TLC

Symmetry == Permutations(Procs) \cup Permutations(Stops)
=============================================================================
