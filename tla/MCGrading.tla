----------------------------- MODULE MCGrading -----------------------------
(* An instance of grading for TLC. *)
EXTENDS Grading, TLC

CONSTANTS a1, a2, m1, m2

TwoAgents == {a1, a2}
TwoMeasurements == {m1, m2}
=============================================================================
