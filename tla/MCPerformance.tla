--------------------------- MODULE MCPerformance ---------------------------
(* Instances of the performance of an epoch for TLC. *)
EXTENDS Performance, TLC

CONSTANTS o1, o2

TwoOrganisms == {o1, o2}
=============================================================================
