---------------------------- MODULE RunLifecycle ----------------------------
(***************************************************************************)
(* The life of one evolution run, as kadath/engine.py drives it: approval, *)
(* then for each epoch execution, grading and selection, separated by      *)
(* durable boundaries.  Every `store.execute` commits on its own, so each  *)
(* action below is the code between two commits (or two durable file       *)
(* operations), and the program counter pc names the commit that comes     *)
(* next.  The process can die at any pc (Crash), an exception can reach    *)
(* the handlers of _run_unlocked (Fail), and the operator starts the       *)
(* engine again at will (Start).                                           *)
(*                                                                         *)
(* Data is abstracted to what the boundaries are about.  A population is   *)
(* the epoch whose selection produced it and whether it is whole; a        *)
(* leaderboard is a verdict; the organisms' state directories and their    *)
(* knowledge rows are, for each epoch, how many executions left something  *)
(* in them.  A file is the set of its contents: {} when it is missing.     *)
(***************************************************************************)
EXTENDS Integers

CONSTANTS
  TotalEpochs,  \* run["total_epochs"]
  CrashPoints,  \* the pcs at which the process may die
  FailPoints,   \* the pcs at which an exception may reach a handler
  MaxFaults     \* bound on crashes, exceptions and grading outages together

ASSUME TotalAssumption == TotalEpochs \in Nat \ {0}
ASSUME FaultAssumption == MaxFaults \in Nat

VARIABLES
  status,   \* runs.status
  cur,      \* runs.current_epoch
  epoch,    \* epochs.status, "absent" where there is no row
  verdict,  \* the scores rows of an epoch
  rows,     \* executions that left knowledge or attempt rows of an epoch
  lived,    \* executions of an epoch the agents' state directories remember
  pop,      \* the agents, genomes, lineage and Git refs
  snap,     \* epoch-state-snapshots/epoch-NNNN
  selSnap,  \* selection-snapshots/epoch-NNNN.json and its states
  locked,   \* objective-definition.json has "locked": true
  pauseAt,  \* pause.requested: when it was written, or NoPause
  pc,       \* where the engine is, "idle" when no process holds the run
  left,     \* max_epochs before the loop, iterations to go inside it
  inLoop,   \* the engine is inside the try of the loop
  faults    \* faults so far, for MaxFaults

durable == <<status, cur, epoch, verdict, rows, lived, pop, snap, selSnap,
             locked, pauseAt>>
vars == <<status, cur, epoch, verdict, rows, lived, pop, snap, selSnap,
          locked, pauseAt, pc, left, inLoop, faults>>

-----------------------------------------------------------------------------
Epochs == 1..TotalEpochs
Terminal == {"complete", "failed"}
RunStatus == {"awaiting_approval", "ready", "paused"} \cup Terminal
Executed == {"execution_complete", "grading_interrupted",
             "selection_pending", "complete"}
EpochStatus == {"absent", "running", "interrupted"} \cup Executed
Verdict == {"none", "partial", "success", "failed"}
\* "changing" once it is taken apart from a whole one, "mixed" when what is
\* there came from more than one attempt to change it.
Population == [gen : 0..TotalEpochs, form : {"whole", "changing", "mixed"}]
\* "regrade" says that the epoch at hand was to be graded before the loop.
NoPause == [epoch |-> -1, regrade |-> FALSE, faults |-> 0]

\* The commits of _select_and_birth, which both callers wrap in a try.
SelectionPoints == {"selecting", "failing_run", "snapshotting", "culling",
                    "birthing", "closing", "readying", "tidying"}
GradingPoints == {"grading", "outage", "persisting", "scoring", "publishing",
                  "advancing", "sweeping"}
\* The body of the try in the loop: _execute_epoch, the final epoch and
\* selection.
LoopPoints == {"preparing", "discarding", "starting", "executing", "freezing",
               "boundary", "finishing", "finish_run"}
              \cup (GradingPoints \ {"outage"}) \cup SelectionPoints
HandlerPoints == {"handling", "undo", "undoing", "pausing"}
ResumePoints == {"resuming", "rewind", "rewinding", "looping", "iterating",
                 "after"}
ApprovalPoints == {"clearing", "founding", "locking", "releasing"}
BusyPoints == LoopPoints \cup GradingPoints \cup HandlerPoints
              \cup ResumePoints \cup ApprovalPoints
Points == {"idle"} \cup BusyPoints

\* store.one(...) on a row that may be missing.
StatusOf(e) == IF e \in Epochs THEN epoch[e] ELSE "absent"
\* The epoch that _execute_epoch and _grade_epoch work on.
target == cur + 1

Init ==
  /\ status = "awaiting_approval" /\ cur = 0
  /\ epoch = [e \in Epochs |-> "absent"]
  /\ verdict = [e \in Epochs |-> "none"]
  /\ rows = [e \in Epochs |-> 0]
  /\ lived = [e \in Epochs |-> 0]
  /\ pop = [gen |-> 0, form |-> "changing"]
  /\ snap = [e \in Epochs |-> {}]
  /\ selSnap = [e \in Epochs |-> {}]
  /\ locked = FALSE /\ pauseAt = NoPause
  /\ pc = "idle" /\ left = 0 /\ inLoop = FALSE /\ faults = 0

\* From one commit to the next without leaving or entering the loop.
Goto(here, there) ==
  /\ pc = here /\ pc' = there
  /\ UNCHANGED <<left, inLoop, faults>>
\* The call returns or raises: the process ends.
Leave(here) ==
  /\ pc = here /\ pc' = "idle"
  /\ left' = 0 /\ inLoop' = FALSE
  /\ UNCHANGED faults

-----------------------------------------------------------------------------
(* approve: the first population, then the lock, then the status.          *)
\* What taking a population apart, and then filling it up again, makes of it.
TakenApart == IF pop.form = "whole" THEN "changing" ELSE "mixed"
Completed == IF pop.form = "changing" THEN "whole" ELSE "mixed"

Approve ==
  /\ status = "awaiting_approval"
  /\ Goto("idle", "clearing")
  /\ UNCHANGED durable

ClearGenerationOne ==
  /\ Goto("clearing", "founding")
  /\ pop' = [gen |-> 0, form |-> "changing"]
  /\ UNCHANGED <<status, cur, epoch, verdict, rows, lived, snap, selSnap,
                 locked, pauseAt>>

Found ==
  /\ Goto("founding", "locking")
  /\ pop' = [gen |-> 0, form |-> Completed]
  /\ UNCHANGED <<status, cur, epoch, verdict, rows, lived, snap, selSnap,
                 locked, pauseAt>>

LockObjective ==
  /\ Goto("locking", "releasing")
  /\ locked' = TRUE
  /\ UNCHANGED <<status, cur, epoch, verdict, rows, lived, pop, snap, selSnap,
                 pauseAt>>

ReleaseRun ==
  /\ Leave("releasing")
  /\ status' = "ready"
  /\ UNCHANGED <<cur, epoch, verdict, rows, lived, pop, snap, selSnap, locked,
                 pauseAt>>

(* pause: another process writes the request, without the run guard.       *)
\* An executed epoch is graded before the loop: the engine is at it, or it will
\* be when it is started again.
GradedBeforeLoop ==
  /\ StatusOf(target) \in {"execution_complete", "grading_interrupted", "selection_pending"}
  /\ ~inLoop \/ pc \in {"idle", "outage"} \cup HandlerPoints

RequestPause ==
  /\ status \notin Terminal \cup {"awaiting_approval"}
  /\ pauseAt = NoPause
  /\ pauseAt' = [epoch |-> cur, regrade |-> GradedBeforeLoop, faults |-> faults]
  /\ UNCHANGED <<status, cur, epoch, verdict, rows, lived, pop, snap, selSnap,
                 locked, pc, left, inLoop, faults>>

-----------------------------------------------------------------------------
(* _run_unlocked up to the loop: an executed epoch is graded first, then a *)
(* pending selection is rolled back and run again.                         *)
Start(limit) ==
  /\ pc = "idle" /\ status \in {"ready", "paused"} /\ locked
  /\ pc' = IF StatusOf(target) \in {"execution_complete", "grading_interrupted"}
             THEN "grading" ELSE "resuming"
  /\ left' = limit /\ inLoop' = FALSE
  /\ UNCHANGED <<durable, faults>>

\* Mutant: a resumed run goes on with whatever selection left behind.
ResumePoint_NoRollback ==
  IF StatusOf(cur) # "selection_pending" THEN "looping"
  ELSE IF cur >= TotalEpochs THEN "finishing" ELSE "selecting"
ResumePoint ==
  IF StatusOf(cur) # "selection_pending" THEN "looping"
  ELSE IF cur >= TotalEpochs THEN "finishing" ELSE "rewind"

Resume ==
  /\ Goto("resuming", ResumePoint)
  /\ UNCHANGED durable

EnterLoop ==
  /\ pc = "looping" /\ pc' = "iterating"
  /\ LET remaining == TotalEpochs - cur
     IN left' = IF left = 0 \/ left > remaining THEN remaining ELSE left
  /\ inLoop' = TRUE
  /\ UNCHANGED <<durable, faults>>

NextIteration ==
  /\ pc = "iterating" /\ left > 0
  /\ pc' = "preparing" /\ left' = left - 1
  /\ UNCHANGED <<durable, inLoop, faults>>

LoopEnds ==
  /\ left = 0
  /\ Leave("iterating")
  /\ UNCHANGED durable

\* Mutant: the pause file is not looked at.
AfterEpoch_IgnoresPause ==
  /\ Goto("after", "iterating")
  /\ status \notin Terminal
  /\ UNCHANGED durable
AfterEpoch ==
  /\ status \notin Terminal /\ pauseAt = NoPause
  /\ Goto("after", "iterating")
  /\ UNCHANGED durable

RunEnds ==
  /\ status \in Terminal
  /\ Leave("after")
  /\ UNCHANGED durable

HonourPause ==
  /\ status \notin Terminal /\ pauseAt # NoPause
  /\ Leave("after")
  /\ pauseAt' = NoPause /\ status' = "paused"
  /\ UNCHANGED <<cur, epoch, verdict, rows, lived, pop, snap, selSnap, locked>>

-----------------------------------------------------------------------------
(* _execute_epoch: restore or snapshot, run the population, freeze.        *)
MustRestore == epoch[target] \in {"running", "interrupted"}

\* Mutant: the snapshot is moved back instead of copied.
RestoreEpochState_Moves ==
  /\ Goto("preparing", "discarding")
  /\ MustRestore
  /\ lived' \in snap[target]
  /\ snap' = [snap EXCEPT ![target] = {}]
  /\ UNCHANGED <<status, cur, epoch, verdict, rows, pop, selSnap, locked,
                 pauseAt>>
RestoreEpochState ==
  /\ Goto("preparing", "discarding")
  /\ MustRestore
  /\ lived' \in snap[target]
  /\ UNCHANGED <<status, cur, epoch, verdict, rows, pop, snap, selSnap, locked,
                 pauseAt>>

\* Mutant: the activity of the interrupted attempt stays in the bank.
DiscardPartialRows_KeepsKnowledge ==
  /\ Goto("discarding", "starting")
  /\ verdict' = [verdict EXCEPT ![target] = "none"]
  /\ UNCHANGED <<status, cur, epoch, rows, lived, pop, snap, selSnap, locked,
                 pauseAt>>
\* Mutant: the scores of the whole run are deleted with those of the epoch.
DiscardPartialRows_EveryScore ==
  /\ Goto("discarding", "starting")
  /\ verdict' = [e \in Epochs |-> "none"]
  /\ rows' = [rows EXCEPT ![target] = 0]
  /\ UNCHANGED <<status, cur, epoch, lived, pop, snap, selSnap, locked,
                 pauseAt>>
DiscardPartialRows ==
  /\ Goto("discarding", "starting")
  /\ verdict' = [verdict EXCEPT ![target] = "none"]
  /\ rows' = [rows EXCEPT ![target] = 0]
  /\ UNCHANGED <<status, cur, epoch, lived, pop, snap, selSnap, locked,
                 pauseAt>>

SnapshotEpochState ==
  /\ Goto("preparing", "starting")
  /\ ~MustRestore
  /\ snap' = IF snap[target] = {}
               THEN [snap EXCEPT ![target] = {lived}] ELSE snap
  /\ UNCHANGED <<status, cur, epoch, verdict, rows, lived, pop, selSnap, locked,
                 pauseAt>>

StartEpoch ==
  /\ Goto("starting", "executing")
  /\ epoch' = [epoch EXCEPT ![target] = "running"]
  /\ UNCHANGED <<status, cur, verdict, rows, lived, pop, snap, selSnap, locked,
                 pauseAt>>

\* The organisms work: their directories and the bank hold this attempt now.
Execute ==
  /\ Goto("executing", "freezing")
  /\ lived' = [lived EXCEPT ![target] = @ + 1]
  /\ rows' = [rows EXCEPT ![target] = @ + 1]
  /\ UNCHANGED <<status, cur, epoch, verdict, pop, snap, selSnap, locked,
                 pauseAt>>

Freeze ==
  /\ Goto("freezing", "grading")
  /\ epoch' = [epoch EXCEPT ![target] = "execution_complete"]
  /\ UNCHANGED <<status, cur, verdict, rows, lived, pop, snap, selSnap, locked,
                 pauseAt>>

-----------------------------------------------------------------------------
(* _grade_epoch: every grader or none, then scores, then the two rows that *)
(* make the epoch accepted, then the snapshot is no longer needed.         *)
GradersFinish ==
  /\ Goto("grading", "persisting")
  /\ UNCHANGED durable

GraderOutage ==
  /\ pc = "grading" /\ faults < MaxFaults
  /\ epoch' = [epoch EXCEPT ![target] = "grading_interrupted"]
  /\ pc' = "outage" /\ faults' = faults + 1
  /\ UNCHANGED <<status, cur, verdict, rows, lived, pop, snap, selSnap, locked,
                 pauseAt, left, inLoop>>

OutagePausesRun ==
  /\ IF inLoop THEN Goto("outage", "handling") ELSE Leave("outage")
  /\ status' = "paused"
  /\ UNCHANGED <<cur, epoch, verdict, rows, lived, pop, snap, selSnap, locked,
                 pauseAt>>

\* Mutant: the epoch is published with the scores written so far.
PersistFirstScores_Publishes ==
  /\ Goto("persisting", "publishing")
  /\ verdict' = [verdict EXCEPT ![target] = "partial"]
  /\ UNCHANGED <<status, cur, epoch, rows, lived, pop, snap, selSnap, locked,
                 pauseAt>>
\* DELETE FROM scores, then the first of one INSERT per agent.
PersistFirstScores ==
  /\ Goto("persisting", "scoring")
  /\ verdict' = [verdict EXCEPT ![target] = "partial"]
  /\ UNCHANGED <<status, cur, epoch, rows, lived, pop, snap, selSnap, locked,
                 pauseAt>>

PersistLastScore(v) ==
  /\ Goto("scoring", "publishing")
  /\ verdict' = [verdict EXCEPT ![target] = v]
  /\ UNCHANGED <<status, cur, epoch, rows, lived, pop, snap, selSnap, locked,
                 pauseAt>>

PublishEpoch ==
  /\ Goto("publishing", "advancing")
  /\ epoch' = [epoch EXCEPT ![target] = "selection_pending"]
  /\ UNCHANGED <<status, cur, verdict, rows, lived, pop, snap, selSnap, locked,
                 pauseAt>>

AdvanceRun ==
  /\ Goto("advancing", "sweeping")
  /\ cur' = target /\ status' = "paused"
  /\ UNCHANGED <<epoch, verdict, rows, lived, pop, snap, selSnap, locked,
                 pauseAt>>

SweepSnapshot ==
  /\ Goto("sweeping", IF inLoop THEN "boundary" ELSE "resuming")
  /\ snap' = [snap EXCEPT ![cur] = {}]
  /\ UNCHANGED <<status, cur, epoch, verdict, rows, lived, pop, selSnap, locked,
                 pauseAt>>

Boundary ==
  /\ Goto("boundary", IF cur >= TotalEpochs THEN "finishing" ELSE "selecting")
  /\ UNCHANGED durable

-----------------------------------------------------------------------------
(* _complete_final_epoch                                                   *)
CompleteFinalEpoch ==
  /\ Goto("finishing", "finish_run")
  /\ epoch' = [epoch EXCEPT ![cur] = "complete"]
  /\ UNCHANGED <<status, cur, verdict, rows, lived, pop, snap, selSnap, locked,
                 pauseAt>>

\* Mutant: the run is complete whatever its last leaderboard says.
FinalStatus_AlwaysComplete == "complete"
\* Mutant: a failed last epoch leaves the run open.
FinalStatus_LeavesFailedOpen ==
  IF verdict[cur] = "success" THEN "complete" ELSE "paused"
FinalStatus == IF verdict[cur] = "success" THEN "complete" ELSE "failed"

FinishRun ==
  /\ IF inLoop THEN Goto("finish_run", "after") ELSE Leave("finish_run")
  /\ status' = FinalStatus
  /\ UNCHANGED <<cur, epoch, verdict, rows, lived, pop, snap, selSnap, locked,
                 pauseAt>>

-----------------------------------------------------------------------------
(* _select_and_birth: everything before CloseSelection can be undone from  *)
(* the selection snapshot.                                                 *)
AfterSelection == IF inLoop THEN "after" ELSE "looping"

\* Mutant: selection reproduces from whatever it finds.
RankEpoch_Unverified ==
  /\ Goto("selecting", "snapshotting")
  /\ UNCHANGED durable
RankEpoch ==
  /\ Goto("selecting", "snapshotting")
  /\ verdict[cur] = "success"
  /\ UNCHANGED durable

NoSuccess ==
  /\ Goto("selecting", "failing_run")
  /\ verdict[cur] # "success"
  /\ epoch' = [epoch EXCEPT ![cur] = "complete"]
  /\ UNCHANGED <<status, cur, verdict, rows, lived, pop, snap, selSnap, locked,
                 pauseAt>>

FailRun ==
  /\ Goto("failing_run", AfterSelection)
  /\ status' = "failed"
  /\ UNCHANGED <<cur, epoch, verdict, rows, lived, pop, snap, selSnap, locked,
                 pauseAt>>

TakeSelectionSnapshot ==
  /\ Goto("snapshotting", "culling")
  /\ selSnap' = IF selSnap[cur] = {}
                  THEN [selSnap EXCEPT ![cur] = {pop}] ELSE selSnap
  /\ UNCHANGED <<status, cur, epoch, verdict, rows, lived, pop, snap, locked,
                 pauseAt>>

\* The culled are archived, the middle cohort adapts.
CullAndAdapt ==
  /\ Goto("culling", "birthing")
  /\ pop' = [pop EXCEPT !.form = TakenApart]
  /\ UNCHANGED <<status, cur, epoch, verdict, rows, lived, snap, selSnap,
                 locked, pauseAt>>

BirthDescendants ==
  /\ Goto("birthing", "closing")
  /\ pop' = [gen |-> cur, form |-> Completed]
  /\ UNCHANGED <<status, cur, epoch, verdict, rows, lived, snap, selSnap,
                 locked, pauseAt>>

CloseSelection ==
  /\ Goto("closing", "readying")
  /\ epoch' = [epoch EXCEPT ![cur] = "complete"]
  /\ UNCHANGED <<status, cur, verdict, rows, lived, pop, snap, selSnap, locked,
                 pauseAt>>

ReadyRun ==
  /\ Goto("readying", "tidying")
  /\ status' = IF cur >= TotalEpochs THEN "complete" ELSE "ready"
  /\ UNCHANGED <<cur, epoch, verdict, rows, lived, pop, snap, selSnap, locked,
                 pauseAt>>

TidySelection ==
  /\ Goto("tidying", AfterSelection)
  /\ selSnap' = [selSnap EXCEPT ![cur] = {}]
  /\ UNCHANGED <<status, cur, epoch, verdict, rows, lived, pop, snap, locked,
                 pauseAt>>

-----------------------------------------------------------------------------
(* The handlers.  In the loop a pending selection is rolled back and       *)
(* anything else is marked interrupted; on the resumed selection the       *)
(* rollback is tried whatever the epoch's status.                          *)
HandleSelectionFailure ==
  /\ ~inLoop \/ StatusOf(cur) = "selection_pending"
  /\ Goto("handling", "undo")
  /\ UNCHANGED durable

\* Mutant: an executed epoch is marked interrupted as well.
Interruptible_AllRows == EpochStatus \ {"absent", "complete"}
Interruptible == {"running", "interrupted", "selection_pending"}

MarkInterrupted ==
  /\ inLoop /\ StatusOf(cur) # "selection_pending"
  /\ Goto("handling", "pausing")
  /\ epoch' = IF StatusOf(target) \in Interruptible
                THEN [epoch EXCEPT ![target] = "interrupted"] ELSE epoch
  /\ UNCHANGED <<status, cur, verdict, rows, lived, pop, snap, selSnap, locked,
                 pauseAt>>

PauseRun ==
  /\ Leave("pausing")
  /\ status' = "paused"
  /\ UNCHANGED <<cur, epoch, verdict, rows, lived, pop, snap, selSnap, locked,
                 pauseAt>>

\* _rollback_selection, which returns at once when there is no snapshot.
NothingToRollBack(here, there) ==
  /\ Goto(here, there)
  /\ selSnap[cur] = {}
  /\ UNCHANGED durable

BeginRollback(here, there) ==
  /\ Goto(here, there)
  /\ selSnap[cur] # {}
  /\ pop' = [pop EXCEPT !.form = "mixed"]
  /\ UNCHANGED <<status, cur, epoch, verdict, rows, lived, snap, selSnap,
                 locked, pauseAt>>

EndRollback(here, there) ==
  /\ Goto(here, there)
  /\ pop' \in selSnap[cur]
  /\ selSnap' = [selSnap EXCEPT ![cur] = {}]
  /\ UNCHANGED <<status, cur, epoch, verdict, rows, lived, snap, locked,
                 pauseAt>>

-----------------------------------------------------------------------------
(* Faults.                                                                 *)
Crash ==
  /\ pc \in CrashPoints \cap BusyPoints /\ faults < MaxFaults
  /\ pc' = "idle" /\ left' = 0 /\ inLoop' = FALSE
  /\ faults' = faults + 1
  /\ UNCHANGED durable

Fail ==
  /\ pc \in FailPoints /\ faults < MaxFaults
  /\ pc \in IF inLoop THEN LoopPoints ELSE SelectionPoints
  /\ pc' = "handling"
  /\ faults' = faults + 1
  /\ UNCHANGED <<durable, left, inLoop>>

\* A birth fails: what was born is cleared and approve raises.
FoundingFails ==
  /\ pc = "founding" /\ faults < MaxFaults
  /\ pc' = "idle" /\ faults' = faults + 1
  /\ pop' = [gen |-> 0, form |-> "changing"]
  /\ UNCHANGED <<status, cur, epoch, verdict, rows, lived, snap, selSnap,
                 locked, pauseAt, left, inLoop>>

\* A finished run is left alone.
Finished ==
  /\ pc = "idle" /\ status \in Terminal
  /\ UNCHANGED vars

Approval == ClearGenerationOne \/ Found \/ LockObjective \/ ReleaseRun
Control == Resume \/ EnterLoop \/ NextIteration \/ LoopEnds \/ AfterEpoch
           \/ RunEnds \/ HonourPause \/ Boundary
Execution == RestoreEpochState \/ DiscardPartialRows \/ SnapshotEpochState
             \/ StartEpoch \/ Execute \/ Freeze
Grading == GradersFinish \/ OutagePausesRun \/ PersistFirstScores
           \/ (\E v \in {"success", "failed"} : PersistLastScore(v))
           \/ PublishEpoch \/ AdvanceRun \/ SweepSnapshot
Finishing == CompleteFinalEpoch \/ FinishRun
Selection == RankEpoch \/ NoSuccess \/ FailRun \/ TakeSelectionSnapshot
             \/ CullAndAdapt \/ BirthDescendants \/ CloseSelection \/ ReadyRun
             \/ TidySelection
Handling == HandleSelectionFailure \/ MarkInterrupted \/ PauseRun
Rollback ==
  \/ NothingToRollBack("rewind", "selecting")
  \/ BeginRollback("rewind", "rewinding")
  \/ EndRollback("rewinding", "selecting")
  \/ NothingToRollBack("undo", "pausing")
  \/ BeginRollback("undo", "undoing")
  \/ EndRollback("undoing", "pausing")

\* What the engine does on its own once it was started.
Engine == Approval \/ Control \/ Execution \/ Grading \/ Finishing
          \/ Selection \/ Handling \/ Rollback
Operator == Approve \/ RequestPause
            \/ (\E limit \in 0..TotalEpochs : Start(limit))
Environment == GraderOutage \/ Crash \/ Fail \/ FoundingFails

Next == Engine \/ Operator \/ Environment \/ Finished

Spec == Init /\ [][Next]_vars

\* The engine's code runs to its next commit, and the operator approves the
\* run and starts it again as long as it is not over; nobody has to pause.
FairSpec ==
  /\ Spec
  /\ WF_vars(Engine)
  /\ WF_vars(Approve)
  /\ WF_vars(\E limit \in 0..TotalEpochs : Start(limit))

-----------------------------------------------------------------------------
(* Properties.                                                             *)

\* Every variable has the shape its column, file or control state has.
TypeOK ==
  /\ status \in RunStatus /\ cur \in 0..TotalEpochs
  /\ epoch \in [Epochs -> EpochStatus]
  /\ verdict \in [Epochs -> Verdict]
  /\ rows \in [Epochs -> Nat] /\ lived \in [Epochs -> Nat]
  /\ pop \in Population
  /\ snap \in [Epochs -> SUBSET [Epochs -> Nat]]
  /\ selSnap \in [Epochs -> SUBSET Population]
  /\ locked \in BOOLEAN
  /\ pauseAt \in {NoPause} \cup [epoch : 0..TotalEpochs, regrade : BOOLEAN, faults : 0..MaxFaults]
  /\ pc \in Points /\ left \in 0..TotalEpochs
  /\ inLoop \in BOOLEAN /\ faults \in 0..MaxFaults

\* Whatever crashed, failed or was rolled back before, an epoch is executed by
\* one whole population: the one the selection of the epoch before it made, or
\* the old one when that epoch had no success and so nothing was selected.
SoundPopulation ==
  pc = "executing" =>
    /\ pop.form = "whole"
    /\ pop.gen = cur \/ (cur > 0 /\ verdict[cur] = "failed")

\* The organisms of an epoch start from directories and a knowledge bank that
\* hold exactly one execution of every earlier epoch and no trace of an
\* interrupted execution of this one.
CleanAttempt ==
  pc = "executing" =>
    \A e \in Epochs : /\ lived[e] = (IF e <= cur THEN 1 ELSE 0)
                      /\ rows[e] = (IF e <= cur THEN 1 ELSE 0)

\* An epoch the run has advanced past has the scores of its whole population,
\* and only the last of them can still be waiting for its selection.
WholeLeaderboard ==
  \A e \in 1..cur :
    /\ verdict[e] \in {"success", "failed"}
    /\ epoch[e] \in {"selection_pending", "complete"}
    /\ e < cur => epoch[e] = "complete"

\* No population descends from an epoch that had no verified success.
VerifiedParents == pop.gen > 0 => verdict[pop.gen] = "success"

\* A population whose execution was frozen is never executed again: from then
\* on the epoch is graded, regraded and selected from, and nothing else.
NoReExecution ==
  [][\A e \in Epochs : epoch[e] \in Executed => epoch'[e] \in Executed]_epoch

\* The scores of an epoch the run has advanced past do not change.
VerdictIsFinal ==
  [][\A e \in 1..cur : verdict'[e] = verdict[e]]_<<cur, verdict>>

\* Where recovery will want to restore the state from before the epoch, the
\* snapshot is there and holds exactly that state.
RecoverySnapshotExists ==
  cur < TotalEpochs /\ epoch[target] \in {"running", "interrupted"} =>
    snap[target] = {[e \in Epochs |-> IF e <= cur THEN 1 ELSE 0]}

\* A run is complete only after its last epoch, with every epoch closed and a
\* verified success on the last leaderboard.
CompletedRun ==
  status = "complete" => /\ cur = TotalEpochs
                         /\ \A e \in Epochs : epoch[e] = "complete"
                         /\ verdict[TotalEpochs] = "success"

\* A pause request is honoured at the end of the epoch at hand, and one epoch
\* later when that epoch is graded before the loop, where nobody looks for it.
\* Only a fault after the request can put it off, each by an epoch: one that is
\* to be graded on resumption, or a death before the file was looked at.
PauseTakesEffect ==
  pauseAt # NoPause /\ status \notin Terminal =>
    cur <= pauseAt.epoch + (IF pauseAt.regrade THEN 2 ELSE 1) + (faults - pauseAt.faults)

\* What the README says of it: without a fault in between, the end of the epoch
\* at hand is where the run stops, also when that epoch is graded before the loop.
PauseIsPrompt ==
  pauseAt # NoPause /\ status \notin Terminal /\ faults = pauseAt.faults =>
    cur <= pauseAt.epoch + 1

\* A run that ended without a verified genome does nothing any more.
FailedRunStops ==
  status = "failed" => pc \notin {"preparing", "starting", "executing"}

\* The run ends, as long as the operator starts it again after every fault.
EventuallyTerminal == <>[](status \in Terminal)
=============================================================================
