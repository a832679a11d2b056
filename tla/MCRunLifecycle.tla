--------------------------- MODULE MCRunLifecycle ---------------------------
(***************************************************************************)
(* RunLifecycle for TLC.  AnyPoint lets the process die, or an exception   *)
(* reach a handler, at every pc.  The runs that check what recovery does   *)
(* promise leave out the commits after which it does not; TornBoundary,    *)
(* LateRollback and TornFinish.cfg show what happens at these, and         *)
(* LatePause.cfg what a pause asked for before the loop comes to.          *)
(***************************************************************************)
EXTENDS RunLifecycleInvariant

AnyPoint == BusyPoints
\* Between the two rows that make an epoch accepted.
OutsideAdvance == AnyPoint \ {"advancing"}
\* An exception there finds a selection that is closed but not yet tidied.
OutsideClosedSelection == AnyPoint \ {"advancing", "readying", "tidying"}
\* Between the two rows that end the run.
OutsideFinish == AnyPoint \ {"advancing", "finish_run"}
OutsideFinishFailure ==
  AnyPoint \ {"advancing", "readying", "tidying", "finish_run"}
=============================================================================
