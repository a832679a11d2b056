------------------------ MODULE RunLifecycleInvariant ------------------------
(***************************************************************************)
(* The inductive invariant of RunLifecycle, in named parts: what is true   *)
(* of the run's rows, of its population and of its organisms' state at     *)
(* each point where the process can stop.                                  *)
(***************************************************************************)
EXTENDS RunLifecycle

\* The faults from which recovery keeps every promise: none between the two
\* commits that make an epoch accepted, and no exception while a selection
\* that is already closed waits to be tidied.
RecoverableFaults ==
  /\ "advancing" \notin CrashPoints
  /\ FailPoints \cap {"advancing", "readying", "tidying"} = {}

Unexecuted == {"absent", "running", "interrupted"}
Frozen == {"execution_complete", "grading_interrupted"}

-----------------------------------------------------------------------------
(* Approval.                                                               *)
Approving == ApprovalPoints

ApprovalInv ==
  /\ status = "awaiting_approval" => cur = 0 /\ pc \in {"idle"} \cup Approving
  /\ pc \in Approving => status = "awaiting_approval"
  /\ pc = "founding" => pop = [gen |-> 0, form |-> "changing"]
  /\ pc \in {"locking", "releasing"} => pop = [gen |-> 0, form |-> "whole"]
  /\ pc = "releasing" => locked
  /\ status # "awaiting_approval" => locked

-----------------------------------------------------------------------------
(* The rows of the epoch at hand, t, and of the one behind it, cur.        *)
\* Points where t is about to be, or is being, executed.
ExecutionPoints == {"preparing", "discarding", "starting", "executing",
                    "freezing"}
\* Points where t was executed and is not accepted yet.
RegradePoints == {"grading", "outage", "persisting", "scoring", "publishing"}
\* Points where the epoch behind has a selection to come or under way.
PendingPoints == {"sweeping", "boundary", "selecting", "snapshotting",
                  "culling", "birthing", "closing", "rewind", "rewinding",
                  "undoing", "finishing"}
\* Points where the epoch behind is over.
ClosedPoints == {"failing_run", "readying", "tidying", "finish_run", "after"}
\* Points where the engine works on t.
AtHandPoints == ExecutionPoints \cup RegradePoints \cup {"advancing"}
\* Points where there may be no epoch behind.
BetweenPoints == {"looping", "iterating"} \cup AtHandPoints

TargetInv ==
  /\ pc \in {"iterating", "after"} => inLoop
  /\ inLoop => left <= TotalEpochs - cur
  /\ pc \in AtHandPoints => cur < TotalEpochs
  /\ pc \in AtHandPoints /\ inLoop => left < TotalEpochs - cur
  /\ cur < TotalEpochs =>
       LET t == epoch[cur + 1] IN
       /\ t = "selection_pending" <=> pc = "advancing"
       /\ t # "complete"
       /\ pc \in {"resuming", "rewind", "rewinding", "looping", "iterating",
                  "preparing", "starting", "sweeping", "boundary", "after"}
                 \cup SelectionPoints
            => t \in Unexecuted
       /\ pc = "discarding" => t \in {"running", "interrupted"}
       /\ pc \in {"executing", "freezing"} => t = "running"
       /\ pc \in RegradePoints => t \in Frozen
       /\ pc \in {"publishing", "advancing"} =>
            verdict[cur + 1] \in {"success", "failed"}

BehindInv ==
  /\ pc \in PendingPoints => cur > 0 /\ epoch[cur] = "selection_pending"
  /\ pc \in ClosedPoints => cur > 0 /\ epoch[cur] = "complete"
  /\ pc \in BetweenPoints => cur = 0 \/ epoch[cur] = "complete"
  /\ 0 < cur /\ cur < TotalEpochs /\ epoch[cur + 1] # "absent" =>
       epoch[cur] = "complete"
  /\ pc = "undo" \/ (pc = "handling" /\ ~inLoop) =>
       /\ cur > 0
       /\ epoch[cur] = "selection_pending"
            \/ (epoch[cur] = "complete" /\ selSnap[cur] = {})
  /\ pc \in SelectionPoints \cup {"rewind", "rewinding"} => cur < TotalEpochs
  /\ pc \in {"finishing", "finish_run"} => cur = TotalEpochs
  /\ pc \in LoopPoints \ (GradingPoints \cup SelectionPoints
                             \cup {"finishing", "finish_run"}) => inLoop

FutureInv ==
  \A e \in Epochs : e > cur =>
    /\ selSnap[e] = {}
    /\ e > cur + 1 => epoch[e] = "absent"

-----------------------------------------------------------------------------
(* The population.                                                         *)
Verified(p) == p.gen > 0 => p.gen <= cur /\ verdict[p.gen] = "success"
\* Not touched yet by the selection of the epoch behind.
Untouched(p) == p.form = "whole" /\ p.gen < cur /\ Verified(p)

PopulationInv ==
  /\ Verified(pop)
  /\ cur > 0 /\ epoch[cur] = "selection_pending" =>
       /\ \A p \in selSnap[cur] : Untouched(p)
       /\ selSnap[cur] = {} => Untouched(pop)
  /\ pc \in {"sweeping", "boundary", "selecting", "snapshotting",
             "failing_run"} => selSnap[cur] = {}
  /\ pc \in {"culling", "birthing", "closing", "rewinding", "undoing"} =>
       selSnap[cur] # {}
  /\ pc \in {"snapshotting", "culling", "birthing", "closing"} =>
       verdict[cur] = "success"
  /\ pc = "culling" => Untouched(pop)
  /\ pc = "birthing" => pop.form = "changing"
  /\ pc = "closing" => pop = [gen |-> cur, form |-> "whole"]
  /\ /\ status # "awaiting_approval" /\ cur < TotalEpochs
     /\ cur = 0 \/ epoch[cur] = "complete"
     => /\ pop.form = "whole"
        /\ pop.gen = cur \/ (cur > 0 /\ verdict[cur] = "failed")

-----------------------------------------------------------------------------
(* What the organisms' directories and the knowledge bank remember.        *)
Once(e) == lived[e] = 1 /\ rows[e] = 1
Never(e) == lived[e] = 0 /\ rows[e] = 0
\* The state directories before the epoch at hand.
Before == [e \in Epochs |-> IF e <= cur THEN 1 ELSE 0]

StateInv ==
  /\ \A e \in Epochs : /\ e <= cur => Once(e)
                       /\ e > cur + 1 => Never(e) /\ snap[e] = {}
  /\ cur < TotalEpochs =>
       LET t == cur + 1 IN
       /\ epoch[t] = "absent" => Never(t)
       /\ epoch[t] = "absent" /\ pc # "starting" => snap[t] \in {{}, {Before}}
       /\ epoch[t] \in {"running", "interrupted"} \/ pc = "starting" =>
            snap[t] = {Before}
       /\ epoch[t] \in Frozen \cup {"selection_pending"} => Once(t)
       /\ pc = "discarding" => lived[t] = 0
       /\ pc \in {"starting", "executing"} => Never(t)
       /\ pc = "freezing" => Once(t)

-----------------------------------------------------------------------------
(* The end.                                                                *)
EndInv ==
  /\ CompletedRun
  /\ status = "complete" => pc \in {"idle", "after"}

IInv ==
  /\ TypeOK
  /\ ApprovalInv
  /\ WholeLeaderboard
  /\ TargetInv
  /\ BehindInv
  /\ FutureInv
  /\ PopulationInv
  /\ StateInv
  /\ EndInv

-----------------------------------------------------------------------------
(* The pause.                                                              *)
\* Where the process is not at work, or about to stop.
StoppingPoints == {"idle", "outage"} \cup HandlerPoints
\* Where the loop has still to look at the pause file, with no epoch to go.
ClosingPoints == {"sweeping", "boundary", "finishing", "finish_run", "after"}
                 \cup SelectionPoints
\* How many epochs the run can still advance past, with no further fault,
\* before it looks at the pause file.  An epoch that is graded before the loop
\* is followed by another one inside it.
Ahead ==
  IF pc \in StoppingPoints
  THEN IF StatusOf(target) \in Frozen THEN 2 ELSE 1
  ELSE IF pc \in AtHandPoints THEN IF inLoop THEN 1 ELSE 2
  ELSE IF inLoop /\ pc \in ClosingPoints THEN 0 ELSE 1

PauseInv ==
  /\ status = "awaiting_approval" => StatusOf(target) \notin Frozen
  /\ pauseAt # NoPause => pauseAt.faults <= faults
  /\ pauseAt # NoPause /\ ~(pc = "idle" /\ status \in Terminal) =>
       cur + Ahead <= pauseAt.epoch + (IF pauseAt.regrade THEN 2 ELSE 1) + (faults - pauseAt.faults)
=============================================================================
