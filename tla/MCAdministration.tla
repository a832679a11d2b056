-------------------------- MODULE MCAdministration --------------------------
(* Instances of the commands on one run for TLC. *)
EXTENDS Administration, TLC

CONSTANTS p1, p2, first, second

TwoProcesses == {p1, p2}
TwoPages == {first, second}
Commands == Permutations(TwoProcesses)
=============================================================================
