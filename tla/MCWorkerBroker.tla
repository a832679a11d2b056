--------------------------- MODULE MCWorkerBroker ---------------------------
(* Instances of the worker broker for TLC. *)
EXTENDS WorkerBroker, TLC

CONSTANTS p1, p2, r1, r2

TwoParents == {p1, p2}
TwoRequests == {r1, r2}
=============================================================================
