------------------------- MODULE RunLifecycleProofs -------------------------
(***************************************************************************)
(* The invariant of RunLifecycle holds in every state of every run, for any*)
(* number of epochs and faults, as long as the faults are RecoverableFaults;*)
(* the properties of the run's recovery follow from it.  One lemma for each*)
(* part of the invariant: first the parts about the control flow, the rows *)
(* of the run and its epochs and the leaderboards, then those about the    *)
(* population and the recovery.  Under it one case for each action, with   *)
(* the sub-steps that it needs.                                            *)
(***************************************************************************)
EXTENDS RunLifecycleInvariant, TLAPS

USE TotalAssumption, FaultAssumption

\* The points of the control flow, enumerated.
LEMMA PointsAre ==
  Points = {"idle", "clearing", "founding", "locking", "releasing",
            "resuming", "rewind", "rewinding", "looping", "iterating", "after",
            "preparing", "discarding", "starting", "executing", "freezing",
            "boundary", "finishing", "finish_run", "grading", "outage",
            "persisting", "scoring", "publishing", "advancing", "sweeping",
            "selecting", "failing_run", "snapshotting", "culling", "birthing",
            "closing", "readying", "tidying", "handling", "undo", "undoing",
            "pausing"}
BY DEF Points, BusyPoints, LoopPoints, GradingPoints, HandlerPoints,
       ResumePoints, ApprovalPoints, SelectionPoints

\* A function updated with a value of its range stays in its type.
LEMMA Updated ==
  ASSUME NEW S, NEW T, NEW f \in [S -> T], NEW x, NEW y \in T
  PROVE  [f EXCEPT ![x] = y] \in [S -> T]
OBVIOUS

\* A counter per epoch that is incremented is still one.
LEMMA Incremented ==
  ASSUME NEW S, NEW f \in [S -> Nat], NEW x \in S
  PROVE  [f EXCEPT ![x] = @ + 1] \in [S -> Nat]
BY f[x] + 1 \in Nat, Updated

\* A call that returns or raises leaves the control state well typed.
LEMMA LeaveTyped ==
  ASSUME TypeOK, NEW here, Leave(here)
  PROVE  /\ pc' \in Points /\ left' \in 0..TotalEpochs
         /\ inLoop' \in BOOLEAN /\ faults' \in 0..MaxFaults
<1>1. pc' \in Points BY PointsAre DEF Leave
<1>2. left' \in 0..TotalEpochs BY DEF Leave
<1>3. inLoop' \in BOOLEAN BY DEF Leave
<1>4. faults' \in 0..MaxFaults BY DEF Leave, TypeOK
<1> QED BY <1>1, <1>2, <1>3, <1>4

\* Every step keeps every variable in its type.  BehindInv and TargetInv bound
\* current_epoch where a step indexes an epoch with it.
LEMMA TypingStep ==
  ASSUME IInv, RecoverableFaults, [Next]_vars
  PROVE  TypeOK'
<1>0. TypeOK /\ TargetInv /\ BehindInv
  BY DEF IInv
<1> USE <1>0, PointsAre DEF TypeOK, TargetInv, BehindInv, PendingPoints,
        ClosedPoints, BetweenPoints, AtHandPoints, ExecutionPoints,
        RegradePoints, RunStatus, Terminal, EpochStatus, Executed, Verdict,
        Population, NoPause, Epochs, target, LoopPoints, GradingPoints,
        HandlerPoints, ResumePoints, ApprovalPoints, SelectionPoints
<1>1. CASE Approve
  BY <1>1 DEF Approve, Goto, durable
<1>2. CASE ClearGenerationOne
  BY <1>2 DEF ClearGenerationOne, Goto
<1>3. CASE Found
  BY <1>3 DEF Found, Goto, Completed
<1>4. CASE LockObjective
  BY <1>4 DEF LockObjective, Goto
<1>5. CASE ReleaseRun
  <2>1. status' \in RunStatus BY <1>5 DEF ReleaseRun
  <2> QED
    BY <1>5, <2>1, LeaveTyped DEF ReleaseRun, TypeOK
<1>6. CASE RequestPause
  <2>1. pauseAt' = [epoch |-> cur, regrade |-> GradedBeforeLoop, faults |-> faults]
    BY <1>6 DEF RequestPause
  <2>2. GradedBeforeLoop \in BOOLEAN
    BY DEF GradedBeforeLoop
  <2>3. pauseAt' \in [epoch : 0..TotalEpochs, regrade : BOOLEAN, faults : 0..MaxFaults]
    <3> HIDE DEF GradedBeforeLoop
    <3> QED BY ONLY <1>0, <2>1, <2>2 DEF TypeOK
  <2> QED BY ONLY <1>0, <1>6, <2>3 DEF RequestPause, TypeOK
<1>7. CASE \E l \in 0..TotalEpochs : Start(l)
  <2>1. PICK l \in 0..TotalEpochs : Start(l) BY <1>7
  <2>2. pc' \in Points /\ left' \in 0..TotalEpochs BY <2>1 DEF Start
  <2>3. inLoop' \in BOOLEAN BY <2>1 DEF Start
  <2> QED
    BY <2>1, <2>2, <2>3 DEF Start, durable
<1>8. CASE Resume
  BY <1>8 DEF Resume, Goto, durable, ResumePoint, StatusOf
<1>9. CASE EnterLoop
  <2>1. /\ cur \in Nat /\ cur <= TotalEpochs /\ left \in 0..TotalEpochs
        /\ TotalEpochs \in Nat /\ faults \in 0..MaxFaults
    BY ONLY <1>0, TotalAssumption DEF TypeOK
  <2>2. /\ left' = IF left = 0 \/ left > TotalEpochs - cur THEN TotalEpochs - cur ELSE left
        /\ pc' = "iterating" /\ inLoop' = TRUE /\ UNCHANGED <<durable, faults>>
    BY ONLY <1>9 DEF EnterLoop
  <2>3. left' \in 0..TotalEpochs
    BY ONLY <2>1, <2>2
  <2>4. pc' \in Points /\ inLoop' \in BOOLEAN
    BY ONLY <2>2 DEF Points, BusyPoints, ResumePoints
  <2> QED BY ONLY <1>0, <2>2, <2>3, <2>4 DEF TypeOK, durable
<1>10. CASE NextIteration
  <2>1. left' \in 0..TotalEpochs BY <1>10 DEF NextIteration
  <2>2. pc' \in Points BY <1>10 DEF NextIteration
  <2> QED
    BY <1>10, <2>1, <2>2 DEF NextIteration, durable
<1>11. CASE LoopEnds
  BY <1>11, LeaveTyped DEF LoopEnds, durable
<1>12. CASE AfterEpoch
  BY <1>12 DEF AfterEpoch, Goto, durable
<1>13. CASE RunEnds
  BY <1>13, LeaveTyped DEF RunEnds, durable
<1>14. CASE HonourPause
  <2>1. status' \in RunStatus /\ pauseAt' = NoPause
       BY <1>14 DEF HonourPause
  <2> QED
    BY <1>14, <2>1, LeaveTyped DEF HonourPause, TypeOK
<1>15. CASE RestoreEpochState
  <2>1. target \in Epochs BY <1>15 DEF RestoreEpochState, Goto
  <2>2. lived' \in [Epochs -> Nat] BY <1>15, <2>1 DEF RestoreEpochState
  <2>3. pc' \in Points BY <1>15 DEF RestoreEpochState, Goto
  <2> QED
    BY <1>15, <2>2, <2>3 DEF RestoreEpochState, Goto
<1>16. CASE DiscardPartialRows
  BY <1>16 DEF DiscardPartialRows, Goto
<1>17. CASE SnapshotEpochState
  <2>1. {lived} \in SUBSET [Epochs -> Nat] OBVIOUS
  <2>2. snap' \in [Epochs -> SUBSET [Epochs -> Nat]]
       BY <1>17, <2>1, Updated DEF SnapshotEpochState
  <2>3. pc' \in Points BY <1>17 DEF SnapshotEpochState, Goto
  <2> QED
    BY <1>17, <2>2, <2>3 DEF SnapshotEpochState, Goto
<1>18. CASE StartEpoch
  BY <1>18 DEF StartEpoch, Goto
<1>19. CASE Execute
  <2>1. target \in Epochs BY <1>19 DEF Execute, Goto
  <2>2. lived' \in [Epochs -> Nat]
       BY ONLY TypeOK, <1>19, <2>1, Incremented DEF Execute, TypeOK
  <2>3. rows' \in [Epochs -> Nat]
       BY ONLY TypeOK, <1>19, <2>1, Incremented DEF Execute, TypeOK
  <2>4. pc' \in Points BY <1>19 DEF Execute, Goto
  <2> QED
    BY <1>19, <2>2, <2>3, <2>4 DEF Execute, Goto
<1>20. CASE Freeze
  BY <1>20 DEF Freeze, Goto
<1>21. CASE GradersFinish
  BY <1>21 DEF GradersFinish, Goto, durable
<1>22. CASE GraderOutage
  <2>1. faults \in Nat /\ faults < MaxFaults /\ faults' = faults + 1
    BY <1>22 DEF GraderOutage
  <2>2. faults' \in 0..MaxFaults
    BY <2>1
  <2>3. pc' \in Points /\ epoch' \in [Epochs -> EpochStatus]
    BY <1>22 DEF GraderOutage
  <2> QED BY ONLY <1>0, <1>22, <2>2, <2>3 DEF GraderOutage, TypeOK
<1>23. CASE OutagePausesRun
  <2>1. status' \in RunStatus BY <1>23 DEF OutagePausesRun
  <2>2. CASE Goto("outage", "handling")
       BY <1>23, <2>1, <2>2 DEF OutagePausesRun, Goto
  <2>3. CASE Leave("outage")
       BY <1>23, <2>1, <2>3, LeaveTyped DEF OutagePausesRun
  <2> QED
    BY <1>23, <2>2, <2>3 DEF OutagePausesRun
<1>24. CASE PersistFirstScores
  BY <1>24 DEF PersistFirstScores, Goto
<1>25. CASE \E v \in {"success", "failed"} : PersistLastScore(v)
  BY <1>25 DEF PersistLastScore, Goto
<1>26. CASE PublishEpoch
  BY <1>26 DEF PublishEpoch, Goto
<1>27. CASE AdvanceRun
  <2>1. cur' \in 0..TotalEpochs /\ status' \in RunStatus
       BY <1>27 DEF AdvanceRun, Goto
  <2>2. pc' \in Points BY <1>27 DEF AdvanceRun, Goto
  <2> QED
    BY <1>27, <2>1, <2>2 DEF AdvanceRun, Goto
<1>28. CASE SweepSnapshot
  BY <1>28 DEF SweepSnapshot, Goto
<1>29. CASE Boundary
  BY <1>29 DEF Boundary, Goto, durable
<1>30. CASE CompleteFinalEpoch
  BY <1>30 DEF CompleteFinalEpoch, Goto
<1>31. CASE FinishRun
  <2>1. status' \in RunStatus BY <1>31 DEF FinishRun, FinalStatus
  <2>2. CASE Goto("finish_run", "after")
       BY <1>31, <2>1, <2>2 DEF FinishRun, Goto
  <2>3. CASE Leave("finish_run")
       BY <1>31, <2>1, <2>3, LeaveTyped DEF FinishRun
  <2> QED
    BY <1>31, <2>2, <2>3 DEF FinishRun
<1>32. CASE RankEpoch
  BY <1>32 DEF RankEpoch, Goto, durable
<1>33. CASE NoSuccess
  BY <1>33 DEF NoSuccess, Goto
<1>34. CASE FailRun
  BY <1>34 DEF FailRun, Goto, AfterSelection
<1>35. CASE TakeSelectionSnapshot
  <2>1. {pop} \in SUBSET Population OBVIOUS
  <2>2. selSnap' \in [Epochs -> SUBSET Population]
       BY <1>35, <2>1, Updated DEF TakeSelectionSnapshot
  <2>3. pc' \in Points BY <1>35 DEF TakeSelectionSnapshot, Goto
  <2> QED
    BY <1>35, <2>2, <2>3 DEF TakeSelectionSnapshot, Goto
<1>36. CASE CullAndAdapt
  BY <1>36 DEF CullAndAdapt, Goto, TakenApart
<1>37. CASE BirthDescendants
  BY <1>37 DEF BirthDescendants, Goto, Completed
<1>38. CASE CloseSelection
  BY <1>38 DEF CloseSelection, Goto
<1>39. CASE ReadyRun
  BY <1>39 DEF ReadyRun, Goto
<1>40. CASE TidySelection
  BY <1>40 DEF TidySelection, Goto, AfterSelection
<1>41. CASE HandleSelectionFailure
  BY <1>41 DEF HandleSelectionFailure, Goto, durable, StatusOf
<1>42. CASE MarkInterrupted
  BY <1>42 DEF MarkInterrupted, Goto, Interruptible, StatusOf
<1>43. CASE PauseRun
  <2>1. status' \in RunStatus BY <1>43 DEF PauseRun
  <2> QED
    BY <1>43, <2>1, LeaveTyped DEF PauseRun, TypeOK
<1>44. CASE Crash
  <2>1. pc' \in Points /\ left' \in 0..TotalEpochs BY <1>44 DEF Crash
  <2>2. inLoop' \in BOOLEAN BY <1>44 DEF Crash
  <2>3. faults' \in 0..MaxFaults BY <1>44 DEF Crash
  <2> QED
    BY <1>44, <2>1, <2>2, <2>3 DEF Crash, durable
<1>45. CASE Fail
  <2>1. pc' \in Points BY <1>45 DEF Fail
  <2>2. faults' \in 0..MaxFaults BY <1>45 DEF Fail
  <2> QED
    BY <1>45, <2>1, <2>2 DEF Fail, durable
<1>46. CASE FoundingFails
  BY <1>46 DEF FoundingFails
<1>47. CASE NothingToRollBack("rewind", "selecting")
  BY <1>47 DEF NothingToRollBack, Goto, durable
<1>48. CASE BeginRollback("rewind", "rewinding")
  BY <1>48 DEF BeginRollback, Goto
<1>49. CASE EndRollback("rewinding", "selecting")
  <2>1. cur \in Epochs BY <1>49 DEF EndRollback, Goto
  <2>2. pop' \in Population BY <1>49, <2>1 DEF EndRollback
  <2>3. selSnap' \in [Epochs -> SUBSET Population]
       BY <1>49, Updated DEF EndRollback
  <2>4. pc' \in Points BY <1>49 DEF EndRollback, Goto
  <2> QED
    BY <1>49, <2>2, <2>3, <2>4 DEF EndRollback, Goto
<1>50. CASE NothingToRollBack("undo", "pausing")
  BY <1>50 DEF NothingToRollBack, Goto, durable
<1>51. CASE BeginRollback("undo", "undoing")
  BY <1>51 DEF BeginRollback, Goto
<1>52. CASE EndRollback("undoing", "pausing")
  <2>1. cur \in Epochs BY <1>52 DEF EndRollback, Goto
  <2>2. pop' \in Population BY <1>52, <2>1 DEF EndRollback
  <2>3. selSnap' \in [Epochs -> SUBSET Population]
       BY <1>52, Updated DEF EndRollback
  <2>4. pc' \in Points BY <1>52 DEF EndRollback, Goto
  <2> QED
    BY <1>52, <2>2, <2>3, <2>4 DEF EndRollback, Goto
<1>53. CASE UNCHANGED vars
  BY <1>53 DEF vars
<1> QED
  BY ONLY [Next]_vars, <1>1, <1>2, <1>3, <1>4, <1>5, <1>6, <1>7, <1>8, <1>9,
     <1>10, <1>11, <1>12, <1>13, <1>14, <1>15, <1>16, <1>17, <1>18, <1>19,
     <1>20, <1>21, <1>22, <1>23, <1>24, <1>25, <1>26, <1>27, <1>28, <1>29,
     <1>30, <1>31, <1>32, <1>33, <1>34, <1>35, <1>36, <1>37, <1>38, <1>39,
     <1>40, <1>41, <1>42, <1>43, <1>44, <1>45, <1>46, <1>47, <1>48, <1>49,
     <1>50, <1>51, <1>52, <1>53
  DEF Next, Engine, Operator, Environment, Finished, Approval, Control,
      Execution, Grading, Finishing, Selection, Handling, Rollback

-----------------------------------------------------------------------------
\* Approval is over before anything else starts, and over for good.
LEMMA ApprovalStep ==
  ASSUME IInv, RecoverableFaults, [Next]_vars
  PROVE  ApprovalInv'
<1>0. TypeOK /\ ApprovalInv
  BY DEF IInv
<1> USE <1>0, PointsAre DEF TypeOK, ApprovalInv, Approving, Terminal, Epochs,
        target, LoopPoints, GradingPoints, HandlerPoints, ResumePoints,
        ApprovalPoints, SelectionPoints
<1>1. CASE Approve
  BY <1>1 DEF Approve, Goto, durable
<1>2. CASE ClearGenerationOne
  BY <1>2 DEF ClearGenerationOne, Goto
<1>3. CASE Found
  BY <1>3 DEF Found, Goto, Completed
<1>4. CASE LockObjective
  BY <1>4 DEF LockObjective, Goto
<1>5. CASE ReleaseRun
  BY <1>5 DEF ReleaseRun, Leave
<1>6. CASE RequestPause
  BY <1>6 DEF RequestPause
<1>7. CASE \E l \in 0..TotalEpochs : Start(l)
  BY <1>7 DEF Start, durable, StatusOf
<1>8. CASE Resume
  BY <1>8 DEF Resume, Goto, durable, ResumePoint, StatusOf
<1>9. CASE EnterLoop
  BY <1>9 DEF EnterLoop, durable
<1>10. CASE NextIteration
  BY <1>10 DEF NextIteration, durable
<1>11. CASE LoopEnds
  BY <1>11 DEF LoopEnds, Leave, durable
<1>12. CASE AfterEpoch
  BY <1>12 DEF AfterEpoch, Goto, durable
<1>13. CASE RunEnds
  BY <1>13 DEF RunEnds, Leave, durable
<1>14. CASE HonourPause
  BY <1>14 DEF HonourPause, Leave
<1>15. CASE RestoreEpochState
  BY <1>15 DEF RestoreEpochState, Goto, MustRestore
<1>16. CASE DiscardPartialRows
  BY <1>16 DEF DiscardPartialRows, Goto
<1>17. CASE SnapshotEpochState
  BY <1>17 DEF SnapshotEpochState, Goto, MustRestore
<1>18. CASE StartEpoch
  BY <1>18 DEF StartEpoch, Goto
<1>19. CASE Execute
  BY <1>19 DEF Execute, Goto
<1>20. CASE Freeze
  BY <1>20 DEF Freeze, Goto
<1>21. CASE GradersFinish
  BY <1>21 DEF GradersFinish, Goto, durable
<1>22. CASE GraderOutage
  BY <1>22 DEF GraderOutage
<1>23. CASE OutagePausesRun
  BY <1>23 DEF OutagePausesRun, Goto, Leave
<1>24. CASE PersistFirstScores
  BY <1>24 DEF PersistFirstScores, Goto
<1>25. CASE \E v \in {"success", "failed"} : PersistLastScore(v)
  BY <1>25 DEF PersistLastScore, Goto
<1>26. CASE PublishEpoch
  BY <1>26 DEF PublishEpoch, Goto
<1>27. CASE AdvanceRun
  BY <1>27 DEF AdvanceRun, Goto
<1>28. CASE SweepSnapshot
  BY <1>28 DEF SweepSnapshot, Goto
<1>29. CASE Boundary
  BY <1>29 DEF Boundary, Goto, durable
<1>30. CASE CompleteFinalEpoch
  BY <1>30 DEF CompleteFinalEpoch, Goto
<1>31. CASE FinishRun
  BY <1>31 DEF FinishRun, Goto, Leave, FinalStatus
<1>32. CASE RankEpoch
  BY <1>32 DEF RankEpoch, Goto, durable
<1>33. CASE NoSuccess
  BY <1>33 DEF NoSuccess, Goto
<1>34. CASE FailRun
  BY <1>34 DEF FailRun, Goto, AfterSelection
<1>35. CASE TakeSelectionSnapshot
  BY <1>35 DEF TakeSelectionSnapshot, Goto
<1>36. CASE CullAndAdapt
  BY <1>36 DEF CullAndAdapt, Goto, TakenApart
<1>37. CASE BirthDescendants
  BY <1>37 DEF BirthDescendants, Goto, Completed
<1>38. CASE CloseSelection
  BY <1>38 DEF CloseSelection, Goto
<1>39. CASE ReadyRun
  BY <1>39 DEF ReadyRun, Goto
<1>40. CASE TidySelection
  BY <1>40 DEF TidySelection, Goto, AfterSelection
<1>41. CASE HandleSelectionFailure
  BY <1>41 DEF HandleSelectionFailure, Goto, durable, StatusOf
<1>42. CASE MarkInterrupted
  BY <1>42 DEF MarkInterrupted, Goto, Interruptible, StatusOf
<1>43. CASE PauseRun
  BY <1>43 DEF PauseRun, Leave
<1>44. CASE Crash
  BY <1>44 DEF Crash, durable, BusyPoints, RecoverableFaults
<1>45. CASE Fail
  BY <1>45 DEF Fail, durable, RecoverableFaults
<1>46. CASE FoundingFails
  BY <1>46 DEF FoundingFails
<1>47. CASE NothingToRollBack("rewind", "selecting")
  BY <1>47 DEF NothingToRollBack, Goto, durable
<1>48. CASE BeginRollback("rewind", "rewinding")
  BY <1>48 DEF BeginRollback, Goto
<1>49. CASE EndRollback("rewinding", "selecting")
  BY <1>49 DEF EndRollback, Goto
<1>50. CASE NothingToRollBack("undo", "pausing")
  BY <1>50 DEF NothingToRollBack, Goto, durable
<1>51. CASE BeginRollback("undo", "undoing")
  BY <1>51 DEF BeginRollback, Goto
<1>52. CASE EndRollback("undoing", "pausing")
  BY <1>52 DEF EndRollback, Goto
<1>53. CASE UNCHANGED vars
  BY <1>53 DEF vars
<1> QED
  BY ONLY [Next]_vars, <1>1, <1>2, <1>3, <1>4, <1>5, <1>6, <1>7, <1>8, <1>9,
     <1>10, <1>11, <1>12, <1>13, <1>14, <1>15, <1>16, <1>17, <1>18, <1>19,
     <1>20, <1>21, <1>22, <1>23, <1>24, <1>25, <1>26, <1>27, <1>28, <1>29,
     <1>30, <1>31, <1>32, <1>33, <1>34, <1>35, <1>36, <1>37, <1>38, <1>39,
     <1>40, <1>41, <1>42, <1>43, <1>44, <1>45, <1>46, <1>47, <1>48, <1>49,
     <1>50, <1>51, <1>52, <1>53
  DEF Next, Engine, Operator, Environment, Finished, Approval, Control,
      Execution, Grading, Finishing, Selection, Handling, Rollback

\* An accepted epoch has a whole leaderboard.
LEMMA LeaderboardStep ==
  ASSUME IInv, RecoverableFaults, [Next]_vars
  PROVE  WholeLeaderboard'
<1>0. TypeOK /\ WholeLeaderboard /\ TargetInv /\ BehindInv
  BY DEF IInv
<1> USE <1>0, PointsAre DEF TypeOK, WholeLeaderboard, TargetInv, BehindInv,
        PendingPoints, ClosedPoints, BetweenPoints, AtHandPoints,
        ExecutionPoints, RegradePoints, Epochs, target, LoopPoints,
        GradingPoints, HandlerPoints, ResumePoints, ApprovalPoints,
        SelectionPoints
<1>1. CASE Approve
  BY <1>1 DEF Approve, Goto, durable
<1>2. CASE ClearGenerationOne
  BY <1>2 DEF ClearGenerationOne, Goto
<1>3. CASE Found
  BY <1>3 DEF Found, Goto, Completed
<1>4. CASE LockObjective
  BY <1>4 DEF LockObjective, Goto
<1>5. CASE ReleaseRun
  BY <1>5 DEF ReleaseRun, Leave
<1>6. CASE RequestPause
  BY <1>6 DEF RequestPause
<1>7. CASE \E l \in 0..TotalEpochs : Start(l)
  BY <1>7 DEF Start, durable, StatusOf
<1>8. CASE Resume
  BY <1>8 DEF Resume, Goto, durable, ResumePoint, StatusOf
<1>9. CASE EnterLoop
  BY <1>9 DEF EnterLoop, durable
<1>10. CASE NextIteration
  BY <1>10 DEF NextIteration, durable
<1>11. CASE LoopEnds
  BY <1>11 DEF LoopEnds, Leave, durable
<1>12. CASE AfterEpoch
  BY <1>12 DEF AfterEpoch, Goto, durable
<1>13. CASE RunEnds
  BY <1>13 DEF RunEnds, Leave, durable
<1>14. CASE HonourPause
  BY <1>14 DEF HonourPause, Leave
<1>15. CASE RestoreEpochState
  BY <1>15 DEF RestoreEpochState, Goto, MustRestore
<1>16. CASE DiscardPartialRows
  BY <1>16 DEF DiscardPartialRows, Goto
<1>17. CASE SnapshotEpochState
  BY <1>17 DEF SnapshotEpochState, Goto, MustRestore
<1>18. CASE StartEpoch
  BY <1>18 DEF StartEpoch, Goto
<1>19. CASE Execute
  BY <1>19 DEF Execute, Goto
<1>20. CASE Freeze
  BY <1>20 DEF Freeze, Goto
<1>21. CASE GradersFinish
  BY <1>21 DEF GradersFinish, Goto, durable
<1>22. CASE GraderOutage
  BY <1>22 DEF GraderOutage
<1>23. CASE OutagePausesRun
  BY <1>23 DEF OutagePausesRun, Goto, Leave
<1>24. CASE PersistFirstScores
  BY <1>24 DEF PersistFirstScores, Goto
<1>25. CASE \E v \in {"success", "failed"} : PersistLastScore(v)
  BY <1>25 DEF PersistLastScore, Goto
<1>26. CASE PublishEpoch
  BY <1>26 DEF PublishEpoch, Goto
<1>27. CASE AdvanceRun
  <2>1. cur' = cur + 1 /\ UNCHANGED <<epoch, verdict>> /\ pc = "advancing" /\ cur < TotalEpochs /\ cur \in Nat
    BY <1>27 DEF AdvanceRun, Goto
  <2>2. /\ epoch[cur + 1] = "selection_pending" /\ verdict[cur + 1] \in {"success", "failed"}
        /\ cur = 0 \/ epoch[cur] = "complete"
    BY <2>1
  <2> QED BY ONLY <2>1, <2>2, WholeLeaderboard DEF WholeLeaderboard
<1>28. CASE SweepSnapshot
  BY <1>28 DEF SweepSnapshot, Goto
<1>29. CASE Boundary
  BY <1>29 DEF Boundary, Goto, durable
<1>30. CASE CompleteFinalEpoch
  BY <1>30 DEF CompleteFinalEpoch, Goto
<1>31. CASE FinishRun
  BY <1>31 DEF FinishRun, Goto, Leave, FinalStatus
<1>32. CASE RankEpoch
  BY <1>32 DEF RankEpoch, Goto, durable
<1>33. CASE NoSuccess
  BY <1>33 DEF NoSuccess, Goto
<1>34. CASE FailRun
  BY <1>34 DEF FailRun, Goto, AfterSelection
<1>35. CASE TakeSelectionSnapshot
  BY <1>35 DEF TakeSelectionSnapshot, Goto
<1>36. CASE CullAndAdapt
  BY <1>36 DEF CullAndAdapt, Goto, TakenApart
<1>37. CASE BirthDescendants
  BY <1>37 DEF BirthDescendants, Goto, Completed
<1>38. CASE CloseSelection
  BY <1>38 DEF CloseSelection, Goto
<1>39. CASE ReadyRun
  BY <1>39 DEF ReadyRun, Goto
<1>40. CASE TidySelection
  BY <1>40 DEF TidySelection, Goto, AfterSelection
<1>41. CASE HandleSelectionFailure
  BY <1>41 DEF HandleSelectionFailure, Goto, durable, StatusOf
<1>42. CASE MarkInterrupted
  BY <1>42 DEF MarkInterrupted, Goto, Interruptible, StatusOf
<1>43. CASE PauseRun
  BY <1>43 DEF PauseRun, Leave
<1>44. CASE Crash
  BY <1>44 DEF Crash, durable, BusyPoints, RecoverableFaults
<1>45. CASE Fail
  BY <1>45 DEF Fail, durable, RecoverableFaults
<1>46. CASE FoundingFails
  BY <1>46 DEF FoundingFails
<1>47. CASE NothingToRollBack("rewind", "selecting")
  BY <1>47 DEF NothingToRollBack, Goto, durable
<1>48. CASE BeginRollback("rewind", "rewinding")
  BY <1>48 DEF BeginRollback, Goto
<1>49. CASE EndRollback("rewinding", "selecting")
  BY <1>49 DEF EndRollback, Goto
<1>50. CASE NothingToRollBack("undo", "pausing")
  BY <1>50 DEF NothingToRollBack, Goto, durable
<1>51. CASE BeginRollback("undo", "undoing")
  BY <1>51 DEF BeginRollback, Goto
<1>52. CASE EndRollback("undoing", "pausing")
  BY <1>52 DEF EndRollback, Goto
<1>53. CASE UNCHANGED vars
  BY <1>53 DEF vars
<1> QED
  BY ONLY [Next]_vars, <1>1, <1>2, <1>3, <1>4, <1>5, <1>6, <1>7, <1>8, <1>9,
     <1>10, <1>11, <1>12, <1>13, <1>14, <1>15, <1>16, <1>17, <1>18, <1>19,
     <1>20, <1>21, <1>22, <1>23, <1>24, <1>25, <1>26, <1>27, <1>28, <1>29,
     <1>30, <1>31, <1>32, <1>33, <1>34, <1>35, <1>36, <1>37, <1>38, <1>39,
     <1>40, <1>41, <1>42, <1>43, <1>44, <1>45, <1>46, <1>47, <1>48, <1>49,
     <1>50, <1>51, <1>52, <1>53
  DEF Next, Engine, Operator, Environment, Finished, Approval, Control,
      Execution, Grading, Finishing, Selection, Handling, Rollback

-----------------------------------------------------------------------------
\* What the row of the epoch at hand says at each point.
LEMMA TargetStep ==
  ASSUME IInv, RecoverableFaults, [Next]_vars
  PROVE  TargetInv'
<1>0. TypeOK /\ ApprovalInv /\ WholeLeaderboard /\ TargetInv /\ BehindInv /\
      FutureInv
  BY DEF IInv
<1> USE <1>0, PointsAre DEF TypeOK, ApprovalInv, Approving, TargetInv,
        BehindInv, FutureInv, WholeLeaderboard, PendingPoints, ClosedPoints,
        BetweenPoints, AtHandPoints, ExecutionPoints, RegradePoints,
        Unexecuted, Frozen, Terminal, Epochs, target, LoopPoints,
        GradingPoints, HandlerPoints, ResumePoints, ApprovalPoints,
        SelectionPoints
<1>1. CASE Approve
  BY <1>1 DEF Approve, Goto, durable
<1>2. CASE ClearGenerationOne
  BY <1>2 DEF ClearGenerationOne, Goto
<1>3. CASE Found
  BY <1>3 DEF Found, Goto, Completed
<1>4. CASE LockObjective
  BY <1>4 DEF LockObjective, Goto
<1>5. CASE ReleaseRun
  BY <1>5 DEF ReleaseRun, Leave
<1>6. CASE RequestPause
  BY <1>6 DEF RequestPause
<1>7. CASE \E l \in 0..TotalEpochs : Start(l)
  <2>1. PICK l \in 0..TotalEpochs : Start(l) BY <1>7
  <2>2. CASE pc' = "grading" BY <2>1, <2>2 DEF Start, StatusOf, durable
  <2>3. CASE pc' = "resuming"
    <3>1. cur < TotalEpochs => epoch[cur + 1] \in Unexecuted
          BY <2>1, <2>3 DEF Start, StatusOf, EpochStatus, Executed
    <3> QED
        BY <2>1, <2>3, <3>1 DEF Start, durable
  <2> QED
    BY <2>1, <2>2, <2>3 DEF Start
<1>8. CASE Resume
  BY <1>8 DEF Resume, Goto, durable, ResumePoint, StatusOf
<1>9. CASE EnterLoop
  BY <1>9 DEF EnterLoop, durable
<1>10. CASE NextIteration
  BY <1>10 DEF NextIteration, durable
<1>11. CASE LoopEnds
  BY <1>11 DEF LoopEnds, Leave, durable
<1>12. CASE AfterEpoch
  BY <1>12 DEF AfterEpoch, Goto, durable
<1>13. CASE RunEnds
  BY <1>13 DEF RunEnds, Leave, durable
<1>14. CASE HonourPause
  BY <1>14 DEF HonourPause, Leave
<1>15. CASE RestoreEpochState
  BY <1>15 DEF RestoreEpochState, Goto, MustRestore
<1>16. CASE DiscardPartialRows
  BY <1>16 DEF DiscardPartialRows, Goto
<1>17. CASE SnapshotEpochState
  BY <1>17 DEF SnapshotEpochState, Goto, MustRestore
<1>18. CASE StartEpoch
  BY <1>18 DEF StartEpoch, Goto
<1>19. CASE Execute
  BY <1>19 DEF Execute, Goto
<1>20. CASE Freeze
  BY <1>20 DEF Freeze, Goto
<1>21. CASE GradersFinish
  BY <1>21 DEF GradersFinish, Goto, durable
<1>22. CASE GraderOutage
  BY <1>22 DEF GraderOutage
<1>23. CASE OutagePausesRun
  <2>1. CASE inLoop BY <1>23, <2>1 DEF OutagePausesRun, Goto
  <2>2. CASE ~inLoop BY <1>23, <2>2 DEF OutagePausesRun, Leave
  <2> QED
    BY <2>1, <2>2
<1>24. CASE PersistFirstScores
  BY <1>24 DEF PersistFirstScores, Goto
<1>25. CASE \E v \in {"success", "failed"} : PersistLastScore(v)
  BY <1>25 DEF PersistLastScore, Goto
<1>26. CASE PublishEpoch
  BY <1>26 DEF PublishEpoch, Goto
<1>27. CASE AdvanceRun
  BY <1>27 DEF AdvanceRun, Goto
<1>28. CASE SweepSnapshot
  BY <1>28 DEF SweepSnapshot, Goto
<1>29. CASE Boundary
  BY <1>29 DEF Boundary, Goto, durable
<1>30. CASE CompleteFinalEpoch
  BY <1>30 DEF CompleteFinalEpoch, Goto
<1>31. CASE FinishRun
  BY <1>31 DEF FinishRun, Goto, Leave, FinalStatus
<1>32. CASE RankEpoch
  BY <1>32 DEF RankEpoch, Goto, durable
<1>33. CASE NoSuccess
  BY <1>33 DEF NoSuccess, Goto
<1>34. CASE FailRun
  BY <1>34 DEF FailRun, Goto, AfterSelection
<1>35. CASE TakeSelectionSnapshot
  BY <1>35 DEF TakeSelectionSnapshot, Goto
<1>36. CASE CullAndAdapt
  BY <1>36 DEF CullAndAdapt, Goto, TakenApart
<1>37. CASE BirthDescendants
  BY <1>37 DEF BirthDescendants, Goto, Completed
<1>38. CASE CloseSelection
  BY <1>38 DEF CloseSelection, Goto
<1>39. CASE ReadyRun
  BY <1>39 DEF ReadyRun, Goto
<1>40. CASE TidySelection
  BY <1>40 DEF TidySelection, Goto, AfterSelection
<1>41. CASE HandleSelectionFailure
  BY <1>41 DEF HandleSelectionFailure, Goto, durable, StatusOf
<1>42. CASE MarkInterrupted
  BY <1>42 DEF MarkInterrupted, Goto, Interruptible, StatusOf
<1>43. CASE PauseRun
  BY <1>43 DEF PauseRun, Leave
<1>44. CASE Crash
  BY <1>44 DEF Crash, durable, BusyPoints, RecoverableFaults
<1>45. CASE Fail
  BY <1>45 DEF Fail, durable, RecoverableFaults
<1>46. CASE FoundingFails
  BY <1>46 DEF FoundingFails
<1>47. CASE NothingToRollBack("rewind", "selecting")
  BY <1>47 DEF NothingToRollBack, Goto, durable
<1>48. CASE BeginRollback("rewind", "rewinding")
  BY <1>48 DEF BeginRollback, Goto
<1>49. CASE EndRollback("rewinding", "selecting")
  BY <1>49 DEF EndRollback, Goto
<1>50. CASE NothingToRollBack("undo", "pausing")
  BY <1>50 DEF NothingToRollBack, Goto, durable
<1>51. CASE BeginRollback("undo", "undoing")
  BY <1>51 DEF BeginRollback, Goto
<1>52. CASE EndRollback("undoing", "pausing")
  BY <1>52 DEF EndRollback, Goto
<1>53. CASE UNCHANGED vars
  BY <1>53 DEF vars
<1> QED
  BY ONLY [Next]_vars, <1>1, <1>2, <1>3, <1>4, <1>5, <1>6, <1>7, <1>8, <1>9,
     <1>10, <1>11, <1>12, <1>13, <1>14, <1>15, <1>16, <1>17, <1>18, <1>19,
     <1>20, <1>21, <1>22, <1>23, <1>24, <1>25, <1>26, <1>27, <1>28, <1>29,
     <1>30, <1>31, <1>32, <1>33, <1>34, <1>35, <1>36, <1>37, <1>38, <1>39,
     <1>40, <1>41, <1>42, <1>43, <1>44, <1>45, <1>46, <1>47, <1>48, <1>49,
     <1>50, <1>51, <1>52, <1>53
  DEF Next, Engine, Operator, Environment, Finished, Approval, Control,
      Execution, Grading, Finishing, Selection, Handling, Rollback

\* What the row of the epoch behind says at each point.
LEMMA BehindStep ==
  ASSUME IInv, RecoverableFaults, [Next]_vars
  PROVE  BehindInv'
<1>0. TypeOK /\ ApprovalInv /\ WholeLeaderboard /\ TargetInv /\ BehindInv /\
      FutureInv /\ PopulationInv
  BY DEF IInv
<1> USE <1>0, PointsAre DEF TypeOK, ApprovalInv, Approving, WholeLeaderboard,
        TargetInv, BehindInv, FutureInv, PopulationInv, PendingPoints,
        ClosedPoints, BetweenPoints, AtHandPoints, ExecutionPoints,
        RegradePoints, Unexecuted, Frozen, Epochs, target, LoopPoints,
        GradingPoints, HandlerPoints, ResumePoints, ApprovalPoints,
        SelectionPoints
<1>1. CASE Approve
  BY <1>1 DEF Approve, Goto, durable
<1>2. CASE ClearGenerationOne
  BY <1>2 DEF ClearGenerationOne, Goto
<1>3. CASE Found
  BY <1>3 DEF Found, Goto, Completed
<1>4. CASE LockObjective
  BY <1>4 DEF LockObjective, Goto
<1>5. CASE ReleaseRun
  BY <1>5 DEF ReleaseRun, Leave
<1>6. CASE RequestPause
  BY <1>6 DEF RequestPause
<1>7. CASE \E l \in 0..TotalEpochs : Start(l)
  <2>1. PICK l \in 0..TotalEpochs : Start(l) BY <1>7
  <2>2. CASE pc' = "grading" BY <2>1, <2>2 DEF Start, StatusOf, durable
  <2>3. CASE pc' = "resuming" BY <2>1, <2>3 DEF Start, StatusOf, durable
  <2> QED
    BY <2>1, <2>2, <2>3 DEF Start
<1>8. CASE Resume
  BY <1>8 DEF Resume, Goto, durable, ResumePoint, StatusOf
<1>9. CASE EnterLoop
  BY <1>9 DEF EnterLoop, durable
<1>10. CASE NextIteration
  BY <1>10 DEF NextIteration, durable
<1>11. CASE LoopEnds
  BY <1>11 DEF LoopEnds, Leave, durable
<1>12. CASE AfterEpoch
  BY <1>12 DEF AfterEpoch, Goto, durable
<1>13. CASE RunEnds
  BY <1>13 DEF RunEnds, Leave, durable
<1>14. CASE HonourPause
  BY <1>14 DEF HonourPause, Leave
<1>15. CASE RestoreEpochState
  BY <1>15 DEF RestoreEpochState, Goto, MustRestore
<1>16. CASE DiscardPartialRows
  BY <1>16 DEF DiscardPartialRows, Goto
<1>17. CASE SnapshotEpochState
  BY <1>17 DEF SnapshotEpochState, Goto, MustRestore
<1>18. CASE StartEpoch
  BY <1>18 DEF StartEpoch, Goto
<1>19. CASE Execute
  BY <1>19 DEF Execute, Goto
<1>20. CASE Freeze
  BY <1>20 DEF Freeze, Goto
<1>21. CASE GradersFinish
  BY <1>21 DEF GradersFinish, Goto, durable
<1>22. CASE GraderOutage
  BY <1>22 DEF GraderOutage
<1>23. CASE OutagePausesRun
  <2>1. CASE inLoop BY <1>23, <2>1 DEF OutagePausesRun, Goto
  <2>2. CASE ~inLoop BY <1>23, <2>2 DEF OutagePausesRun, Leave
  <2> QED
    BY <2>1, <2>2
<1>24. CASE PersistFirstScores
  BY <1>24 DEF PersistFirstScores, Goto
<1>25. CASE \E v \in {"success", "failed"} : PersistLastScore(v)
  BY <1>25 DEF PersistLastScore, Goto
<1>26. CASE PublishEpoch
  BY <1>26 DEF PublishEpoch, Goto
<1>27. CASE AdvanceRun
  BY <1>27 DEF AdvanceRun, Goto
<1>28. CASE SweepSnapshot
  BY <1>28 DEF SweepSnapshot, Goto
<1>29. CASE Boundary
  BY <1>29 DEF Boundary, Goto, durable
<1>30. CASE CompleteFinalEpoch
  BY <1>30 DEF CompleteFinalEpoch, Goto
<1>31. CASE FinishRun
  BY <1>31 DEF FinishRun, Goto, Leave, FinalStatus
<1>32. CASE RankEpoch
  BY <1>32 DEF RankEpoch, Goto, durable
<1>33. CASE NoSuccess
  BY <1>33 DEF NoSuccess, Goto
<1>34. CASE FailRun
  BY <1>34 DEF FailRun, Goto, AfterSelection
<1>35. CASE TakeSelectionSnapshot
  BY <1>35 DEF TakeSelectionSnapshot, Goto
<1>36. CASE CullAndAdapt
  BY <1>36 DEF CullAndAdapt, Goto, TakenApart
<1>37. CASE BirthDescendants
  BY <1>37 DEF BirthDescendants, Goto, Completed
<1>38. CASE CloseSelection
  BY <1>38 DEF CloseSelection, Goto
<1>39. CASE ReadyRun
  BY <1>39 DEF ReadyRun, Goto
<1>40. CASE TidySelection
  BY <1>40 DEF TidySelection, Goto, AfterSelection
<1>41. CASE HandleSelectionFailure
  BY <1>41 DEF HandleSelectionFailure, Goto, durable, StatusOf
<1>42. CASE MarkInterrupted
  BY <1>42 DEF MarkInterrupted, Goto, Interruptible, StatusOf
<1>43. CASE PauseRun
  BY <1>43 DEF PauseRun, Leave
<1>44. CASE Crash
  BY <1>44 DEF Crash, durable, BusyPoints, RecoverableFaults
<1>45. CASE Fail
  BY <1>45 DEF Fail, durable, RecoverableFaults
<1>46. CASE FoundingFails
  BY <1>46 DEF FoundingFails
<1>47. CASE NothingToRollBack("rewind", "selecting")
  BY <1>47 DEF NothingToRollBack, Goto, durable
<1>48. CASE BeginRollback("rewind", "rewinding")
  BY <1>48 DEF BeginRollback, Goto
<1>49. CASE EndRollback("rewinding", "selecting")
  BY <1>49 DEF EndRollback, Goto
<1>50. CASE NothingToRollBack("undo", "pausing")
  BY <1>50 DEF NothingToRollBack, Goto, durable
<1>51. CASE BeginRollback("undo", "undoing")
  BY <1>51 DEF BeginRollback, Goto
<1>52. CASE EndRollback("undoing", "pausing")
  BY <1>52 DEF EndRollback, Goto
<1>53. CASE UNCHANGED vars
  BY <1>53 DEF vars
<1> QED
  BY ONLY [Next]_vars, <1>1, <1>2, <1>3, <1>4, <1>5, <1>6, <1>7, <1>8, <1>9,
     <1>10, <1>11, <1>12, <1>13, <1>14, <1>15, <1>16, <1>17, <1>18, <1>19,
     <1>20, <1>21, <1>22, <1>23, <1>24, <1>25, <1>26, <1>27, <1>28, <1>29,
     <1>30, <1>31, <1>32, <1>33, <1>34, <1>35, <1>36, <1>37, <1>38, <1>39,
     <1>40, <1>41, <1>42, <1>43, <1>44, <1>45, <1>46, <1>47, <1>48, <1>49,
     <1>50, <1>51, <1>52, <1>53
  DEF Next, Engine, Operator, Environment, Finished, Approval, Control,
      Execution, Grading, Finishing, Selection, Handling, Rollback

-----------------------------------------------------------------------------
\* Nothing exists yet of later epochs.
LEMMA FutureStep ==
  ASSUME IInv, RecoverableFaults, [Next]_vars
  PROVE  FutureInv'
<1>0. TypeOK /\ TargetInv /\ BehindInv /\ FutureInv
  BY DEF IInv
<1> USE <1>0, PointsAre DEF TypeOK, FutureInv, TargetInv, BehindInv,
        PendingPoints, ClosedPoints, BetweenPoints, AtHandPoints,
        ExecutionPoints, RegradePoints, Epochs, target, LoopPoints,
        GradingPoints, HandlerPoints, ResumePoints, ApprovalPoints,
        SelectionPoints
<1>1. CASE Approve
  BY <1>1 DEF Approve, Goto, durable
<1>2. CASE ClearGenerationOne
  BY <1>2 DEF ClearGenerationOne, Goto
<1>3. CASE Found
  BY <1>3 DEF Found, Goto, Completed
<1>4. CASE LockObjective
  BY <1>4 DEF LockObjective, Goto
<1>5. CASE ReleaseRun
  BY <1>5 DEF ReleaseRun, Leave
<1>6. CASE RequestPause
  BY <1>6 DEF RequestPause
<1>7. CASE \E l \in 0..TotalEpochs : Start(l)
  BY <1>7 DEF Start, durable, StatusOf
<1>8. CASE Resume
  BY <1>8 DEF Resume, Goto, durable, ResumePoint, StatusOf
<1>9. CASE EnterLoop
  BY <1>9 DEF EnterLoop, durable
<1>10. CASE NextIteration
  BY <1>10 DEF NextIteration, durable
<1>11. CASE LoopEnds
  BY <1>11 DEF LoopEnds, Leave, durable
<1>12. CASE AfterEpoch
  BY <1>12 DEF AfterEpoch, Goto, durable
<1>13. CASE RunEnds
  BY <1>13 DEF RunEnds, Leave, durable
<1>14. CASE HonourPause
  BY <1>14 DEF HonourPause, Leave
<1>15. CASE RestoreEpochState
  BY <1>15 DEF RestoreEpochState, Goto, MustRestore
<1>16. CASE DiscardPartialRows
  BY <1>16 DEF DiscardPartialRows, Goto
<1>17. CASE SnapshotEpochState
  BY <1>17 DEF SnapshotEpochState, Goto, MustRestore
<1>18. CASE StartEpoch
  BY <1>18 DEF StartEpoch, Goto
<1>19. CASE Execute
  BY <1>19 DEF Execute, Goto
<1>20. CASE Freeze
  BY <1>20 DEF Freeze, Goto
<1>21. CASE GradersFinish
  BY <1>21 DEF GradersFinish, Goto, durable
<1>22. CASE GraderOutage
  BY <1>22 DEF GraderOutage
<1>23. CASE OutagePausesRun
  BY <1>23 DEF OutagePausesRun, Goto, Leave
<1>24. CASE PersistFirstScores
  BY <1>24 DEF PersistFirstScores, Goto
<1>25. CASE \E v \in {"success", "failed"} : PersistLastScore(v)
  BY <1>25 DEF PersistLastScore, Goto
<1>26. CASE PublishEpoch
  BY <1>26 DEF PublishEpoch, Goto
<1>27. CASE AdvanceRun
  BY <1>27 DEF AdvanceRun, Goto
<1>28. CASE SweepSnapshot
  BY <1>28 DEF SweepSnapshot, Goto
<1>29. CASE Boundary
  BY <1>29 DEF Boundary, Goto, durable
<1>30. CASE CompleteFinalEpoch
  BY <1>30 DEF CompleteFinalEpoch, Goto
<1>31. CASE FinishRun
  BY <1>31 DEF FinishRun, Goto, Leave, FinalStatus
<1>32. CASE RankEpoch
  BY <1>32 DEF RankEpoch, Goto, durable
<1>33. CASE NoSuccess
  BY <1>33 DEF NoSuccess, Goto
<1>34. CASE FailRun
  BY <1>34 DEF FailRun, Goto, AfterSelection
<1>35. CASE TakeSelectionSnapshot
  BY <1>35 DEF TakeSelectionSnapshot, Goto
<1>36. CASE CullAndAdapt
  BY <1>36 DEF CullAndAdapt, Goto, TakenApart
<1>37. CASE BirthDescendants
  BY <1>37 DEF BirthDescendants, Goto, Completed
<1>38. CASE CloseSelection
  BY <1>38 DEF CloseSelection, Goto
<1>39. CASE ReadyRun
  BY <1>39 DEF ReadyRun, Goto
<1>40. CASE TidySelection
  BY <1>40 DEF TidySelection, Goto, AfterSelection
<1>41. CASE HandleSelectionFailure
  BY <1>41 DEF HandleSelectionFailure, Goto, durable, StatusOf
<1>42. CASE MarkInterrupted
  BY <1>42 DEF MarkInterrupted, Goto, Interruptible, StatusOf
<1>43. CASE PauseRun
  BY <1>43 DEF PauseRun, Leave
<1>44. CASE Crash
  BY <1>44 DEF Crash, durable, BusyPoints, RecoverableFaults
<1>45. CASE Fail
  BY <1>45 DEF Fail, durable, RecoverableFaults
<1>46. CASE FoundingFails
  BY <1>46 DEF FoundingFails
<1>47. CASE NothingToRollBack("rewind", "selecting")
  BY <1>47 DEF NothingToRollBack, Goto, durable
<1>48. CASE BeginRollback("rewind", "rewinding")
  BY <1>48 DEF BeginRollback, Goto
<1>49. CASE EndRollback("rewinding", "selecting")
  BY <1>49 DEF EndRollback, Goto
<1>50. CASE NothingToRollBack("undo", "pausing")
  BY <1>50 DEF NothingToRollBack, Goto, durable
<1>51. CASE BeginRollback("undo", "undoing")
  BY <1>51 DEF BeginRollback, Goto
<1>52. CASE EndRollback("undoing", "pausing")
  BY <1>52 DEF EndRollback, Goto
<1>53. CASE UNCHANGED vars
  BY <1>53 DEF vars
<1> QED
  BY ONLY [Next]_vars, <1>1, <1>2, <1>3, <1>4, <1>5, <1>6, <1>7, <1>8, <1>9,
     <1>10, <1>11, <1>12, <1>13, <1>14, <1>15, <1>16, <1>17, <1>18, <1>19,
     <1>20, <1>21, <1>22, <1>23, <1>24, <1>25, <1>26, <1>27, <1>28, <1>29,
     <1>30, <1>31, <1>32, <1>33, <1>34, <1>35, <1>36, <1>37, <1>38, <1>39,
     <1>40, <1>41, <1>42, <1>43, <1>44, <1>45, <1>46, <1>47, <1>48, <1>49,
     <1>50, <1>51, <1>52, <1>53
  DEF Next, Engine, Operator, Environment, Finished, Approval, Control,
      Execution, Grading, Finishing, Selection, Handling, Rollback

\* A complete run has every epoch complete, and the engine has let go of it.
LEMMA EndStep ==
  ASSUME IInv, RecoverableFaults, [Next]_vars
  PROVE  EndInv'
<1>0. TypeOK /\ WholeLeaderboard /\ TargetInv /\ BehindInv /\ EndInv
  BY DEF IInv
<1> USE <1>0, PointsAre DEF TypeOK, EndInv, CompletedRun, WholeLeaderboard,
        TargetInv, BehindInv, PendingPoints, ClosedPoints, BetweenPoints,
        AtHandPoints, ExecutionPoints, RegradePoints, Terminal, Epochs,
        target, LoopPoints, GradingPoints, HandlerPoints, ResumePoints,
        ApprovalPoints, SelectionPoints
<1>1. CASE Approve
  BY <1>1 DEF Approve, Goto, durable
<1>2. CASE ClearGenerationOne
  BY <1>2 DEF ClearGenerationOne, Goto
<1>3. CASE Found
  BY <1>3 DEF Found, Goto, Completed
<1>4. CASE LockObjective
  BY <1>4 DEF LockObjective, Goto
<1>5. CASE ReleaseRun
  BY <1>5 DEF ReleaseRun, Leave
<1>6. CASE RequestPause
  BY <1>6 DEF RequestPause
<1>7. CASE \E l \in 0..TotalEpochs : Start(l)
  BY <1>7 DEF Start, durable, StatusOf
<1>8. CASE Resume
  BY <1>8 DEF Resume, Goto, durable, ResumePoint, StatusOf
<1>9. CASE EnterLoop
  BY <1>9 DEF EnterLoop, durable
<1>10. CASE NextIteration
  BY <1>10 DEF NextIteration, durable
<1>11. CASE LoopEnds
  BY <1>11 DEF LoopEnds, Leave, durable
<1>12. CASE AfterEpoch
  BY <1>12 DEF AfterEpoch, Goto, durable
<1>13. CASE RunEnds
  BY <1>13 DEF RunEnds, Leave, durable
<1>14. CASE HonourPause
  BY <1>14 DEF HonourPause, Leave
<1>15. CASE RestoreEpochState
  BY <1>15 DEF RestoreEpochState, Goto, MustRestore
<1>16. CASE DiscardPartialRows
  BY <1>16 DEF DiscardPartialRows, Goto
<1>17. CASE SnapshotEpochState
  BY <1>17 DEF SnapshotEpochState, Goto, MustRestore
<1>18. CASE StartEpoch
  BY <1>18 DEF StartEpoch, Goto
<1>19. CASE Execute
  BY <1>19 DEF Execute, Goto
<1>20. CASE Freeze
  BY <1>20 DEF Freeze, Goto
<1>21. CASE GradersFinish
  BY <1>21 DEF GradersFinish, Goto, durable
<1>22. CASE GraderOutage
  BY <1>22 DEF GraderOutage
<1>23. CASE OutagePausesRun
  BY <1>23 DEF OutagePausesRun, Goto, Leave
<1>24. CASE PersistFirstScores
  BY <1>24 DEF PersistFirstScores, Goto
<1>25. CASE \E v \in {"success", "failed"} : PersistLastScore(v)
  BY <1>25 DEF PersistLastScore, Goto
<1>26. CASE PublishEpoch
  BY <1>26 DEF PublishEpoch, Goto
<1>27. CASE AdvanceRun
  BY <1>27 DEF AdvanceRun, Goto
<1>28. CASE SweepSnapshot
  BY <1>28 DEF SweepSnapshot, Goto
<1>29. CASE Boundary
  BY <1>29 DEF Boundary, Goto, durable
<1>30. CASE CompleteFinalEpoch
  BY <1>30 DEF CompleteFinalEpoch, Goto
<1>31. CASE FinishRun
  BY <1>31 DEF FinishRun, Goto, Leave, FinalStatus
<1>32. CASE RankEpoch
  BY <1>32 DEF RankEpoch, Goto, durable
<1>33. CASE NoSuccess
  BY <1>33 DEF NoSuccess, Goto
<1>34. CASE FailRun
  BY <1>34 DEF FailRun, Goto, AfterSelection
<1>35. CASE TakeSelectionSnapshot
  BY <1>35 DEF TakeSelectionSnapshot, Goto
<1>36. CASE CullAndAdapt
  BY <1>36 DEF CullAndAdapt, Goto, TakenApart
<1>37. CASE BirthDescendants
  BY <1>37 DEF BirthDescendants, Goto, Completed
<1>38. CASE CloseSelection
  BY <1>38 DEF CloseSelection, Goto
<1>39. CASE ReadyRun
  BY <1>39 DEF ReadyRun, Goto
<1>40. CASE TidySelection
  BY <1>40 DEF TidySelection, Goto, AfterSelection
<1>41. CASE HandleSelectionFailure
  BY <1>41 DEF HandleSelectionFailure, Goto, durable, StatusOf
<1>42. CASE MarkInterrupted
  BY <1>42 DEF MarkInterrupted, Goto, Interruptible, StatusOf
<1>43. CASE PauseRun
  BY <1>43 DEF PauseRun, Leave
<1>44. CASE Crash
  BY <1>44 DEF Crash, durable, BusyPoints, RecoverableFaults
<1>45. CASE Fail
  BY <1>45 DEF Fail, durable, RecoverableFaults
<1>46. CASE FoundingFails
  BY <1>46 DEF FoundingFails
<1>47. CASE NothingToRollBack("rewind", "selecting")
  BY <1>47 DEF NothingToRollBack, Goto, durable
<1>48. CASE BeginRollback("rewind", "rewinding")
  BY <1>48 DEF BeginRollback, Goto
<1>49. CASE EndRollback("rewinding", "selecting")
  BY <1>49 DEF EndRollback, Goto
<1>50. CASE NothingToRollBack("undo", "pausing")
  BY <1>50 DEF NothingToRollBack, Goto, durable
<1>51. CASE BeginRollback("undo", "undoing")
  BY <1>51 DEF BeginRollback, Goto
<1>52. CASE EndRollback("undoing", "pausing")
  BY <1>52 DEF EndRollback, Goto
<1>53. CASE UNCHANGED vars
  BY <1>53 DEF vars
<1> QED
  BY ONLY [Next]_vars, <1>1, <1>2, <1>3, <1>4, <1>5, <1>6, <1>7, <1>8, <1>9,
     <1>10, <1>11, <1>12, <1>13, <1>14, <1>15, <1>16, <1>17, <1>18, <1>19,
     <1>20, <1>21, <1>22, <1>23, <1>24, <1>25, <1>26, <1>27, <1>28, <1>29,
     <1>30, <1>31, <1>32, <1>33, <1>34, <1>35, <1>36, <1>37, <1>38, <1>39,
     <1>40, <1>41, <1>42, <1>43, <1>44, <1>45, <1>46, <1>47, <1>48, <1>49,
     <1>50, <1>51, <1>52, <1>53
  DEF Next, Engine, Operator, Environment, Finished, Approval, Control,
      Execution, Grading, Finishing, Selection, Handling, Rollback
-----------------------------------------------------------------------------
\* Selection, its rollback and its rerun keep the population sound.
LEMMA PopulationStep ==
  ASSUME IInv, RecoverableFaults, [Next]_vars
  PROVE  PopulationInv'
<1>0. TypeOK /\ ApprovalInv /\ WholeLeaderboard /\ TargetInv /\ BehindInv /\
      FutureInv /\ PopulationInv
  BY DEF IInv
<1> USE <1>0, PointsAre DEF TypeOK, ApprovalInv, Approving, WholeLeaderboard,
        TargetInv, BehindInv, FutureInv, PopulationInv, Verified, Untouched,
        PendingPoints, ClosedPoints, BetweenPoints, AtHandPoints,
        ExecutionPoints, RegradePoints, Population, Epochs, target,
        LoopPoints, GradingPoints, HandlerPoints, ResumePoints,
        ApprovalPoints, SelectionPoints
<1>1. CASE Approve
  BY <1>1 DEF Approve, Goto, durable
<1>2. CASE ClearGenerationOne
  BY <1>2 DEF ClearGenerationOne, Goto
<1>3. CASE Found
  BY <1>3 DEF Found, Goto, Completed
<1>4. CASE LockObjective
  BY <1>4 DEF LockObjective, Goto
<1>5. CASE ReleaseRun
  BY <1>5 DEF ReleaseRun, Leave
<1>6. CASE RequestPause
  BY <1>6 DEF RequestPause
<1>7. CASE \E l \in 0..TotalEpochs : Start(l)
  BY <1>7 DEF Start, durable, StatusOf
<1>8. CASE Resume
  BY <1>8 DEF Resume, Goto, durable, ResumePoint, StatusOf
<1>9. CASE EnterLoop
  BY <1>9 DEF EnterLoop, durable
<1>10. CASE NextIteration
  BY <1>10 DEF NextIteration, durable
<1>11. CASE LoopEnds
  BY <1>11 DEF LoopEnds, Leave, durable
<1>12. CASE AfterEpoch
  BY <1>12 DEF AfterEpoch, Goto, durable
<1>13. CASE RunEnds
  BY <1>13 DEF RunEnds, Leave, durable
<1>14. CASE HonourPause
  BY <1>14 DEF HonourPause, Leave
<1>15. CASE RestoreEpochState
  BY <1>15 DEF RestoreEpochState, Goto, MustRestore
<1>16. CASE DiscardPartialRows
  BY <1>16 DEF DiscardPartialRows, Goto
<1>17. CASE SnapshotEpochState
  BY <1>17 DEF SnapshotEpochState, Goto, MustRestore
<1>18. CASE StartEpoch
  BY <1>18 DEF StartEpoch, Goto
<1>19. CASE Execute
  BY <1>19 DEF Execute, Goto
<1>20. CASE Freeze
  BY <1>20 DEF Freeze, Goto
<1>21. CASE GradersFinish
  BY <1>21 DEF GradersFinish, Goto, durable
<1>22. CASE GraderOutage
  BY <1>22 DEF GraderOutage
<1>23. CASE OutagePausesRun
  <2>1. /\ pc = "outage" /\ pc' \in {"handling", "idle"} /\ status' = "paused"
        /\ UNCHANGED <<cur, epoch, verdict, pop, snap, selSnap>>
    BY ONLY <1>23 DEF OutagePausesRun, Goto, Leave
  <2> QED BY <2>1
<1>24. CASE PersistFirstScores
  BY <1>24 DEF PersistFirstScores, Goto
<1>25. CASE \E v \in {"success", "failed"} : PersistLastScore(v)
  BY <1>25 DEF PersistLastScore, Goto
<1>26. CASE PublishEpoch
  BY <1>26 DEF PublishEpoch, Goto
<1>27. CASE AdvanceRun
  BY <1>27 DEF AdvanceRun, Goto
<1>28. CASE SweepSnapshot
  BY <1>28 DEF SweepSnapshot, Goto
<1>29. CASE Boundary
  BY <1>29 DEF Boundary, Goto, durable
<1>30. CASE CompleteFinalEpoch
  BY <1>30 DEF CompleteFinalEpoch, Goto
<1>31. CASE FinishRun
  BY <1>31 DEF FinishRun, Goto, Leave, FinalStatus
<1>32. CASE RankEpoch
  BY <1>32 DEF RankEpoch, Goto, durable
<1>33. CASE NoSuccess
  BY <1>33 DEF NoSuccess, Goto
<1>34. CASE FailRun
  BY <1>34 DEF FailRun, Goto, AfterSelection
<1>35. CASE TakeSelectionSnapshot
  <2>1. cur \in Epochs BY <1>35 DEF TakeSelectionSnapshot, Goto
  <2>2. selSnap' = [selSnap EXCEPT ![cur] = {pop}]
       BY <1>35 DEF TakeSelectionSnapshot, Goto
  <2>3. selSnap'[cur] = {pop} BY <2>1, <2>2
  <2>4. Untouched(pop) BY <1>35 DEF TakeSelectionSnapshot, Goto
  <2>5. UNCHANGED <<status, cur, epoch, verdict, pop>> /\ pc' = "culling"
       BY <1>35 DEF TakeSelectionSnapshot, Goto
  <2>6. verdict[cur] = "success" /\ epoch[cur] = "selection_pending"
       BY <1>35 DEF TakeSelectionSnapshot, Goto
  <2> QED
    BY <2>1, <2>3, <2>4, <2>5, <2>6
<1>36. CASE CullAndAdapt
  BY <1>36 DEF CullAndAdapt, Goto, TakenApart
<1>37. CASE BirthDescendants
  BY <1>37 DEF BirthDescendants, Goto, Completed
<1>38. CASE CloseSelection
  BY <1>38 DEF CloseSelection, Goto
<1>39. CASE ReadyRun
  BY <1>39 DEF ReadyRun, Goto
<1>40. CASE TidySelection
  BY <1>40 DEF TidySelection, Goto, AfterSelection
<1>41. CASE HandleSelectionFailure
  BY <1>41 DEF HandleSelectionFailure, Goto, durable, StatusOf
<1>42. CASE MarkInterrupted
  BY <1>42 DEF MarkInterrupted, Goto, Interruptible, StatusOf
<1>43. CASE PauseRun
  BY <1>43 DEF PauseRun, Leave
<1>44. CASE Crash
  BY <1>44 DEF Crash, durable, BusyPoints, RecoverableFaults
<1>45. CASE Fail
  BY <1>45 DEF Fail, durable, RecoverableFaults
<1>46. CASE FoundingFails
  BY <1>46 DEF FoundingFails
<1>47. CASE NothingToRollBack("rewind", "selecting")
  BY <1>47 DEF NothingToRollBack, Goto, durable
<1>48. CASE BeginRollback("rewind", "rewinding")
  BY <1>48 DEF BeginRollback, Goto
<1>49. CASE EndRollback("rewinding", "selecting")
  BY <1>49 DEF EndRollback, Goto
<1>50. CASE NothingToRollBack("undo", "pausing")
  BY <1>50 DEF NothingToRollBack, Goto, durable
<1>51. CASE BeginRollback("undo", "undoing")
  BY <1>51 DEF BeginRollback, Goto
<1>52. CASE EndRollback("undoing", "pausing")
  BY <1>52 DEF EndRollback, Goto
<1>53. CASE UNCHANGED vars
  BY <1>53 DEF vars
<1> QED
  BY ONLY [Next]_vars, <1>1, <1>2, <1>3, <1>4, <1>5, <1>6, <1>7, <1>8, <1>9,
     <1>10, <1>11, <1>12, <1>13, <1>14, <1>15, <1>16, <1>17, <1>18, <1>19,
     <1>20, <1>21, <1>22, <1>23, <1>24, <1>25, <1>26, <1>27, <1>28, <1>29,
     <1>30, <1>31, <1>32, <1>33, <1>34, <1>35, <1>36, <1>37, <1>38, <1>39,
     <1>40, <1>41, <1>42, <1>43, <1>44, <1>45, <1>46, <1>47, <1>48, <1>49,
     <1>50, <1>51, <1>52, <1>53
  DEF Next, Engine, Operator, Environment, Finished, Approval, Control,
      Execution, Grading, Finishing, Selection, Handling, Rollback

-----------------------------------------------------------------------------
\* Steps that leave the directories and rows of the organisms alone, and do
\* not put the engine to work on them, keep what is said of them.
LEMMA StateKept ==
  ASSUME IInv, UNCHANGED <<cur, rows, lived, snap>>,
         cur < TotalEpochs => epoch'[cur + 1] = epoch[cur + 1],
         \/ pc' = pc
         \/ pc' \notin {"discarding", "starting", "executing", "freezing"}
  PROVE  StateInv'
<1>1. Before' = Before BY DEF Before
<1>2. TypeOK /\ StateInv BY DEF IInv
<1> QED BY <1>1, <1>2 DEF StateInv, Once, Never, Frozen, TypeOK

\* Steps that change them, or the row of the epoch at hand.
LEMMA StateDisturbed ==
  ASSUME IInv, \/ Execution \/ GraderOutage \/ PublishEpoch
               \/ AdvanceRun \/ SweepSnapshot \/ MarkInterrupted
  PROVE  StateInv'
<1>0. TypeOK /\ TargetInv /\ BehindInv /\ FutureInv /\ StateInv
  BY DEF IInv
<1> USE <1>0, PointsAre DEF TypeOK, TargetInv, BehindInv, FutureInv, StateInv,
        Once, Never, Before, Frozen, Unexecuted, PendingPoints, ClosedPoints,
        BetweenPoints, AtHandPoints, ExecutionPoints, RegradePoints, Epochs,
        target, LoopPoints, GradingPoints, HandlerPoints, ResumePoints,
        ApprovalPoints, SelectionPoints
<1>1. CASE RestoreEpochState
  BY <1>1 DEF RestoreEpochState, Goto, MustRestore
<1>2. CASE DiscardPartialRows
  <2>1. cur < TotalEpochs /\ cur + 1 \in Epochs
       BY <1>2 DEF DiscardPartialRows, Goto
  <2>2. rows'[cur + 1] = 0 /\ \A e \in Epochs \ {cur + 1} : rows'[e] = rows[e]
       BY <1>2, <2>1 DEF DiscardPartialRows
  <2>3. UNCHANGED <<cur, epoch, lived, snap>>
       BY <1>2 DEF DiscardPartialRows
  <2>4. pc = "discarding" /\ pc' = "starting"
       BY <1>2 DEF DiscardPartialRows, Goto
  <2>5. lived[cur + 1] = 0 /\ epoch[cur + 1] \in {"running", "interrupted"}
       BY <2>1, <2>4
  <2> QED
    BY <2>1, <2>2, <2>3, <2>4, <2>5
<1>3. CASE SnapshotEpochState
  BY <1>3 DEF SnapshotEpochState, Goto, MustRestore
<1>4. CASE StartEpoch
  BY <1>4 DEF StartEpoch, Goto
<1>5. CASE Execute
  BY <1>5 DEF Execute, Goto
<1>6. CASE Freeze
  BY <1>6 DEF Freeze, Goto
<1>7. CASE GraderOutage
  BY <1>7 DEF GraderOutage
<1>8. CASE PublishEpoch
  BY <1>8 DEF PublishEpoch, Goto
<1>9. CASE AdvanceRun
  BY <1>9 DEF AdvanceRun, Goto
<1>10. CASE SweepSnapshot
  <2>1. cur \in Epochs BY <1>10 DEF SweepSnapshot, Goto
  <2>2. \A e \in Epochs : e > cur => snap'[e] = snap[e]
       BY <1>10, <2>1 DEF SweepSnapshot
  <2>3. UNCHANGED <<cur, epoch, lived, rows>>
       BY <1>10 DEF SweepSnapshot
  <2>4. pc = "sweeping" /\ pc' \in {"boundary", "resuming"}
       BY <1>10 DEF SweepSnapshot, Goto
  <2>5. Before' = Before BY <2>3
  <2>6. \A e \in Epochs : e > cur + 1 => snap'[e] = {}
       BY ONLY TypeOK, StateInv, <2>2 DEF TypeOK, StateInv, Epochs
  <2>7. cur < TotalEpochs => snap'[cur + 1] = snap[cur + 1] BY <2>1, <2>2
  <2> HIDE DEF Before
  <2> QED
    BY <2>3, <2>4, <2>5, <2>6, <2>7
<1>11. CASE MarkInterrupted
  BY <1>11 DEF MarkInterrupted, Goto, Interruptible, StatusOf
<1> QED
  BY <1>1, <1>2, <1>3, <1>4, <1>5, <1>6, <1>7, <1>8, <1>9, <1>10, <1>11
  DEF Execution

\* Recovery returns the organisms' state to what one execution of each
\* accepted epoch left.
LEMMA StateStep ==
  ASSUME IInv, RecoverableFaults, [Next]_vars
  PROVE  StateInv'
<1>0. TypeOK
  BY DEF IInv
<1>1. CASE Approve
  BY <1>1, StateKept DEF Approve, Goto, durable
<1>2. CASE ClearGenerationOne
  BY <1>2, StateKept DEF ClearGenerationOne, Goto
<1>3. CASE Found
  BY <1>3, StateKept DEF Found, Goto, Completed
<1>4. CASE LockObjective
  BY <1>4, StateKept DEF LockObjective, Goto
<1>5. CASE ReleaseRun
  BY <1>5, StateKept DEF ReleaseRun, Leave
<1>6. CASE RequestPause
  BY <1>6, StateKept DEF RequestPause
<1>7. CASE \E l \in 0..TotalEpochs : Start(l)
  BY <1>7, StateKept DEF Start, durable, StatusOf
<1>8. CASE Resume
  BY <1>8, StateKept DEF Resume, Goto, durable, ResumePoint, StatusOf
<1>9. CASE EnterLoop
  BY <1>9, StateKept DEF EnterLoop, durable
<1>10. CASE NextIteration
  BY <1>10, StateKept DEF NextIteration, durable
<1>11. CASE LoopEnds
  BY <1>11, StateKept DEF LoopEnds, Leave, durable
<1>12. CASE AfterEpoch
  BY <1>12, StateKept DEF AfterEpoch, Goto, durable
<1>13. CASE RunEnds
  BY <1>13, StateKept DEF RunEnds, Leave, durable
<1>14. CASE HonourPause
  BY <1>14, StateKept DEF HonourPause, Leave
<1>15. CASE RestoreEpochState
  BY <1>15, StateDisturbed DEF Execution
<1>16. CASE DiscardPartialRows
  BY <1>16, StateDisturbed DEF Execution
<1>17. CASE SnapshotEpochState
  BY <1>17, StateDisturbed DEF Execution
<1>18. CASE StartEpoch
  BY <1>18, StateDisturbed DEF Execution
<1>19. CASE Execute
  BY <1>19, StateDisturbed DEF Execution
<1>20. CASE Freeze
  BY <1>20, StateDisturbed DEF Execution
<1>21. CASE GradersFinish
  BY <1>21, StateKept DEF GradersFinish, Goto, durable
<1>22. CASE GraderOutage
  BY <1>22, StateDisturbed
<1>23. CASE OutagePausesRun
  BY <1>23, StateKept DEF OutagePausesRun, Goto, Leave
<1>24. CASE PersistFirstScores
  BY <1>24, StateKept DEF PersistFirstScores, Goto
<1>25. CASE \E v \in {"success", "failed"} : PersistLastScore(v)
  BY <1>25, StateKept DEF PersistLastScore, Goto
<1>26. CASE PublishEpoch
  BY <1>26, StateDisturbed
<1>27. CASE AdvanceRun
  BY <1>27, StateDisturbed
<1>28. CASE SweepSnapshot
  BY <1>28, StateDisturbed
<1>29. CASE Boundary
  BY <1>29, StateKept DEF Boundary, Goto, durable
<1>30. CASE CompleteFinalEpoch
  <2>1. cur < TotalEpochs => epoch'[cur + 1] = epoch[cur + 1]
       BY <1>0, <1>30 DEF CompleteFinalEpoch, Goto, TypeOK, Epochs
  <2> QED
    BY <1>30, <2>1, StateKept DEF CompleteFinalEpoch, Goto
<1>31. CASE FinishRun
  BY <1>31, StateKept DEF FinishRun, Goto, Leave, FinalStatus
<1>32. CASE RankEpoch
  BY <1>32, StateKept DEF RankEpoch, Goto, durable
<1>33. CASE NoSuccess
  <2>1. cur < TotalEpochs => epoch'[cur + 1] = epoch[cur + 1]
       BY <1>0, <1>33 DEF NoSuccess, Goto, TypeOK, Epochs
  <2> QED
    BY <1>33, <2>1, StateKept DEF NoSuccess, Goto
<1>34. CASE FailRun
  BY <1>34, StateKept DEF FailRun, Goto, AfterSelection
<1>35. CASE TakeSelectionSnapshot
  BY <1>35, StateKept DEF TakeSelectionSnapshot, Goto
<1>36. CASE CullAndAdapt
  BY <1>36, StateKept DEF CullAndAdapt, Goto, TakenApart
<1>37. CASE BirthDescendants
  BY <1>37, StateKept DEF BirthDescendants, Goto, Completed
<1>38. CASE CloseSelection
  <2>1. cur < TotalEpochs => epoch'[cur + 1] = epoch[cur + 1]
       BY <1>0, <1>38 DEF CloseSelection, Goto, TypeOK, Epochs
  <2> QED
    BY <1>38, <2>1, StateKept DEF CloseSelection, Goto
<1>39. CASE ReadyRun
  BY <1>39, StateKept DEF ReadyRun, Goto
<1>40. CASE TidySelection
  BY <1>40, StateKept DEF TidySelection, Goto, AfterSelection
<1>41. CASE HandleSelectionFailure
  BY <1>41, StateKept DEF HandleSelectionFailure, Goto, durable, StatusOf
<1>42. CASE MarkInterrupted
  BY <1>42, StateDisturbed
<1>43. CASE PauseRun
  BY <1>43, StateKept DEF PauseRun, Leave
<1>44. CASE Crash
  BY <1>44, StateKept DEF Crash, durable, BusyPoints, RecoverableFaults
<1>45. CASE Fail
  BY <1>45, StateKept DEF Fail, durable, RecoverableFaults
<1>46. CASE FoundingFails
  BY <1>46, StateKept DEF FoundingFails
<1>47. CASE NothingToRollBack("rewind", "selecting")
  BY <1>47, StateKept DEF NothingToRollBack, Goto, durable
<1>48. CASE BeginRollback("rewind", "rewinding")
  BY <1>48, StateKept DEF BeginRollback, Goto
<1>49. CASE EndRollback("rewinding", "selecting")
  BY <1>49, StateKept DEF EndRollback, Goto
<1>50. CASE NothingToRollBack("undo", "pausing")
  BY <1>50, StateKept DEF NothingToRollBack, Goto, durable
<1>51. CASE BeginRollback("undo", "undoing")
  BY <1>51, StateKept DEF BeginRollback, Goto
<1>52. CASE EndRollback("undoing", "pausing")
  BY <1>52, StateKept DEF EndRollback, Goto
<1>53. CASE UNCHANGED vars
  BY <1>53, StateKept DEF vars
<1> QED
  BY ONLY [Next]_vars, <1>1, <1>2, <1>3, <1>4, <1>5, <1>6, <1>7, <1>8, <1>9,
     <1>10, <1>11, <1>12, <1>13, <1>14, <1>15, <1>16, <1>17, <1>18, <1>19,
     <1>20, <1>21, <1>22, <1>23, <1>24, <1>25, <1>26, <1>27, <1>28, <1>29,
     <1>30, <1>31, <1>32, <1>33, <1>34, <1>35, <1>36, <1>37, <1>38, <1>39,
     <1>40, <1>41, <1>42, <1>43, <1>44, <1>45, <1>46, <1>47, <1>48, <1>49,
     <1>50, <1>51, <1>52, <1>53
  DEF Next, Engine, Operator, Environment, Finished, Approval, Control,
      Execution, Grading, Finishing, Selection, Handling, Rollback

-----------------------------------------------------------------------------
\* A run that was just created satisfies every part.
LEMMA Initially ==
  ASSUME Init
  PROVE  IInv
<1> USE DEF Init, NoPause
<1>1. TypeOK
  <2>1. status \in RunStatus BY DEF RunStatus
  <2>2. cur \in 0..TotalEpochs /\ left \in 0..TotalEpochs OBVIOUS
  <2>3. epoch \in [Epochs -> EpochStatus] BY DEF EpochStatus
  <2>4. verdict \in [Epochs -> Verdict] BY DEF Verdict
  <2>5. rows \in [Epochs -> Nat] /\ lived \in [Epochs -> Nat] OBVIOUS
  <2>6. pop \in Population BY DEF Population
  <2>7. snap \in [Epochs -> SUBSET [Epochs -> Nat]] OBVIOUS
  <2>8. selSnap \in [Epochs -> SUBSET Population] OBVIOUS
  <2>9. locked \in BOOLEAN /\ inLoop \in BOOLEAN OBVIOUS
  <2>10. pauseAt \in {NoPause} \cup [epoch : 0..TotalEpochs, regrade : BOOLEAN, faults : 0..MaxFaults] OBVIOUS
  <2>11. pc \in Points BY DEF Points
  <2>12. faults \in 0..MaxFaults OBVIOUS
  <2> QED
      BY <2>1, <2>2, <2>3, <2>4, <2>5, <2>6, <2>7, <2>8, <2>9, <2>10, <2>11,
         <2>12 DEF TypeOK
<1>2. ApprovalInv BY DEF ApprovalInv, Approving, ApprovalPoints
<1>3. WholeLeaderboard BY DEF WholeLeaderboard
<1>4. TargetInv
  BY DEF TargetInv, AtHandPoints, ExecutionPoints, RegradePoints,
     SelectionPoints, Unexecuted, Frozen, Epochs
<1>5. BehindInv
  BY DEF BehindInv, PendingPoints, ClosedPoints, BetweenPoints, AtHandPoints,
     ExecutionPoints, RegradePoints, LoopPoints, GradingPoints,
     SelectionPoints, Epochs
<1>6. FutureInv BY DEF FutureInv, Epochs
<1>7. PopulationInv BY DEF PopulationInv, Verified
<1>8. StateInv
  BY DEF StateInv, Once, Never, Frozen, Epochs
<1>9. EndInv BY DEF EndInv, CompletedRun
<1> QED
  BY <1>1, <1>2, <1>3, <1>4, <1>5, <1>6, <1>7, <1>8, <1>9 DEF IInv

\* The invariant is inductive: from approval on, through every crash,
\* exception, outage, rollback and restart that RecoverableFaults admits.
THEOREM Inductive ==
  ASSUME RecoverableFaults
  PROVE  Spec => []IInv
<1>1. IInv /\ [Next]_vars => IInv'
  BY TypingStep, ApprovalStep, LeaderboardStep, TargetStep, BehindStep,
     FutureStep, PopulationStep, StateStep, EndStep, RecoverableFaults
  DEF IInv
<1> QED
  BY Initially, <1>1, PTL DEF Spec

\* The rows, files and directories of a run keep their shapes.
THEOREM TypeCorrect ==
  ASSUME RecoverableFaults
  PROVE  Spec => []TypeOK
<1>1. IInv => TypeOK BY DEF IInv
<1> QED
  BY Inductive, <1>1, PTL

\* _execute_epoch only ever sees the whole population that the epoch before it
\* produced, whatever was culled, born, rolled back or retried on the way.
THEOREM PopulationsAreSound ==
  ASSUME RecoverableFaults
  PROVE  Spec => []SoundPopulation
<1>1. IInv => SoundPopulation
  BY DEF IInv, SoundPopulation, ApprovalInv, Approving, ApprovalPoints,
     TargetInv, BehindInv, PopulationInv, BetweenPoints, AtHandPoints,
     ExecutionPoints
<1> QED
  BY Inductive, <1>1, PTL

\* No agent alive descends from an epoch without a verified success.
THEOREM ParentsAreVerified ==
  ASSUME RecoverableFaults
  PROVE  Spec => []VerifiedParents
<1>1. IInv => VerifiedParents
  BY DEF IInv, VerifiedParents, PopulationInv, Verified
<1> QED
  BY Inductive, <1>1, PTL

\* Once current_epoch has moved past an epoch, its leaderboard is whole.
THEOREM LeaderboardsAreWhole ==
  ASSUME RecoverableFaults
  PROVE  Spec => []WholeLeaderboard
<1>1. IInv => WholeLeaderboard BY DEF IInv
<1> QED
  BY Inductive, <1>1, PTL

\* Every attempt starts from the state the accepted epochs left, with nothing
\* of an interrupted attempt in the directories or in the bank.
THEOREM AttemptsAreClean ==
  ASSUME RecoverableFaults
  PROVE  Spec => []CleanAttempt
<1>1. ASSUME IInv, pc = "executing", NEW e \in Epochs
      PROVE  /\ lived[e] = (IF e <= cur THEN 1 ELSE 0)
             /\ rows[e] = (IF e <= cur THEN 1 ELSE 0)
  <2>1. cur < TotalEpochs /\ cur \in Nat
    BY <1>1 DEF IInv, TypeOK, TargetInv, AtHandPoints, ExecutionPoints
  <2>2. CASE e <= cur BY <1>1, <2>2 DEF IInv, StateInv, Once
  <2>3. CASE e = cur + 1
    BY <1>1, <2>1, <2>3 DEF IInv, StateInv, Never, Epochs
  <2>4. CASE e > cur + 1
    BY <1>1, <2>1, <2>4 DEF IInv, StateInv, Never, Epochs
  <2> QED
    BY <2>1, <2>2, <2>3, <2>4 DEF Epochs
<1>2. IInv => CleanAttempt BY <1>1 DEF CleanAttempt
<1> QED
  BY Inductive, <1>2, PTL

\* _restore_epoch_state never meets a missing snapshot, nor a wrong one.
THEOREM SnapshotsSuffice ==
  ASSUME RecoverableFaults
  PROVE  Spec => []RecoverySnapshotExists
<1>1. IInv => RecoverySnapshotExists
  BY DEF IInv, RecoverySnapshotExists, StateInv, Before, target
<1> QED
  BY Inductive, <1>1, PTL

\* From the freezing of an attempt on, no step makes its epoch one that would
\* be executed again.
THEOREM FrozenStaysExecuted ==
  ASSUME RecoverableFaults
  PROVE  Spec => NoReExecution
<1>1. ASSUME IInv, Next, NEW e \in Epochs, epoch[e] \in Executed
      PROVE  epoch'[e] \in Executed
  <2>1. TypeOK /\ TargetInv /\ BehindInv /\ cur \in Nat
    BY <1>1 DEF IInv, TypeOK
  <2>2. CASE UNCHANGED epoch BY <1>1, <2>2
  <2>3. CASE StartEpoch
    BY <1>1, <2>1, <2>3 DEF StartEpoch, Goto, TypeOK, TargetInv, target,
       AtHandPoints, ExecutionPoints, Unexecuted, Executed, Epochs
  <2>4. CASE Freeze \/ GraderOutage \/ PublishEpoch
    BY <1>1, <2>1, <2>4 DEF Freeze, GraderOutage, PublishEpoch, TypeOK,
       Executed, Epochs
  <2>5. CASE CompleteFinalEpoch \/ NoSuccess \/ CloseSelection
    BY <1>1, <2>1, <2>5 DEF CompleteFinalEpoch, NoSuccess, CloseSelection,
       TypeOK, Executed, Epochs
  <2>6. CASE MarkInterrupted
    BY <1>1, <2>1, <2>6 DEF MarkInterrupted, Goto, StatusOf, Interruptible,
       TypeOK, TargetInv, target, Executed, Epochs
  <2> QED
    BY <1>1, <2>2, <2>3, <2>4, <2>5, <2>6
    DEF Next, Engine, Operator, Environment, Finished, Approval, Control,
        Execution, Grading, Finishing, Selection, Handling, Rollback, vars,
        durable, Approve, ClearGenerationOne, Found, LockObjective,
        ReleaseRun, RequestPause, Start, Resume, EnterLoop, NextIteration,
        LoopEnds, AfterEpoch, RunEnds, HonourPause, Boundary,
        RestoreEpochState, DiscardPartialRows, SnapshotEpochState, Execute,
        GradersFinish, OutagePausesRun, PersistFirstScores, PersistLastScore,
        AdvanceRun, SweepSnapshot, FinishRun, RankEpoch, FailRun,
        TakeSelectionSnapshot, CullAndAdapt, BirthDescendants, ReadyRun,
        TidySelection, HandleSelectionFailure, PauseRun, NothingToRollBack,
        BeginRollback, EndRollback, Crash, Fail, FoundingFails
<1>2. IInv /\ [Next]_vars
        => [\A e \in Epochs : epoch[e] \in Executed
                                 => epoch'[e] \in Executed]_epoch
  BY <1>1 DEF vars
<1> QED
  BY Inductive, <1>2, PTL DEF Spec, NoReExecution

\* Nothing rewrites the scores of an epoch the run has advanced past.
THEOREM VerdictsAreFinal ==
  ASSUME RecoverableFaults
  PROVE  Spec => VerdictIsFinal
<1>1. ASSUME IInv, Next, NEW e \in 1..cur
      PROVE  verdict'[e] = verdict[e]
  <2>1. TypeOK /\ cur \in Nat
    BY <1>1 DEF IInv, TypeOK
  <2>2. CASE UNCHANGED verdict BY <2>2
  <2>3. CASE DiscardPartialRows \/ PersistFirstScores
    BY <1>1, <2>1, <2>3 DEF DiscardPartialRows, PersistFirstScores, TypeOK,
       target, Epochs
  <2>4. CASE \E v \in {"success", "failed"} : PersistLastScore(v)
    BY <1>1, <2>1, <2>4 DEF PersistLastScore, TypeOK, target, Epochs
  <2> QED
    BY <1>1, <2>2, <2>3, <2>4
    DEF Next, Engine, Operator, Environment, Finished, Approval, Control,
        Execution, Grading, Finishing, Selection, Handling, Rollback, vars,
        durable, Approve, ClearGenerationOne, Found, LockObjective,
        ReleaseRun, RequestPause, Start, Resume, EnterLoop, NextIteration,
        LoopEnds, AfterEpoch, RunEnds, HonourPause, Boundary,
        RestoreEpochState, SnapshotEpochState, StartEpoch, Execute, Freeze,
        GradersFinish, GraderOutage, OutagePausesRun, PublishEpoch,
        AdvanceRun, SweepSnapshot, CompleteFinalEpoch, FinishRun, RankEpoch,
        NoSuccess, FailRun, TakeSelectionSnapshot, CullAndAdapt,
        BirthDescendants, CloseSelection, ReadyRun, TidySelection,
        HandleSelectionFailure, MarkInterrupted, PauseRun, NothingToRollBack,
        BeginRollback, EndRollback, Crash, Fail, FoundingFails
<1>2. IInv /\ [Next]_vars
        => [\A e \in 1..cur : verdict'[e] = verdict[e]]_<<cur, verdict>>
  BY <1>1 DEF vars
<1> QED
  BY Inductive, <1>2, PTL DEF Spec, VerdictIsFinal

\* A run is complete only with every epoch complete and a verified success on
\* the last leaderboard.
THEOREM CompletionIsEarned ==
  ASSUME RecoverableFaults
  PROVE  Spec => []CompletedRun
<1>1. IInv => CompletedRun BY DEF IInv, EndInv
<1> QED
  BY Inductive, <1>1, PTL
-----------------------------------------------------------------------------
(* The pause. *)

\* No step but a fault brings the next look at the pause file further away.
LEMMA PauseStep ==
  ASSUME IInv, PauseInv, RecoverableFaults, [Next]_vars
  PROVE  PauseInv'
<1>0. /\ TypeOK /\ TargetInv /\ BehindInv
      /\ status = "awaiting_approval" => pc \in {"idle"} \cup ApprovalPoints
      /\ pc \in ApprovalPoints => status = "awaiting_approval"
  BY DEF IInv, ApprovalInv, Approving
<1>a. /\ cur \in Nat /\ faults \in Nat
      /\ pauseAt # NoPause => pauseAt.epoch \in Nat /\ pauseAt.faults \in Nat /\ pauseAt.regrade \in BOOLEAN
  BY <1>0 DEF TypeOK
<1> USE <1>0, <1>a DEF PauseInv, Ahead, StoppingPoints, ClosingPoints, StatusOf, target, Frozen, Unexecuted,
        Terminal, Epochs, AtHandPoints, ExecutionPoints, RegradePoints, SelectionPoints, HandlerPoints, ApprovalPoints,
        NoPause
<1>1. CASE Approve \/ Approval
  BY <1>1 DEF Approve, Approval, ClearGenerationOne, Found, LockObjective, ReleaseRun, Goto, Leave, durable
<1>2. CASE RequestPause
  <2>1. /\ pauseAt' = [epoch |-> cur, regrade |-> GradedBeforeLoop, faults |-> faults]
        /\ UNCHANGED <<status, cur, epoch, pc, inLoop, faults>>
    BY <1>2 DEF RequestPause
  <2>2. pauseAt'.epoch = cur /\ pauseAt'.faults = faults /\ (GradedBeforeLoop => pauseAt'.regrade)
    BY ONLY <2>1
  <2>3. Ahead \in {0, 1, 2} /\ Ahead' = Ahead
    BY <2>1
  <2>4. Ahead = 2 => GradedBeforeLoop
    BY DEF GradedBeforeLoop, TargetInv, BehindInv, LoopPoints, GradingPoints
  <2>5. status' = "awaiting_approval" => StatusOf(target)' \notin Frozen
    BY <2>1
  <2> HIDE DEF GradedBeforeLoop, Ahead
  <2> QED BY ONLY <1>a, <2>1, <2>2, <2>3, <2>4, <2>5 DEF PauseInv
<1>3. CASE \E limit \in 0..TotalEpochs : Start(limit)
  BY <1>3 DEF Start, durable
<1>4. CASE Resume \/ EnterLoop \/ NextIteration \/ Boundary
  BY <1>4 DEF Resume, ResumePoint, EnterLoop, NextIteration, Boundary, Goto, durable, TargetInv, BehindInv
<1>5. CASE LoopEnds \/ RunEnds
  BY <1>5 DEF LoopEnds, RunEnds, Leave, durable, TargetInv
<1>6. CASE AfterEpoch \/ HonourPause
  BY <1>6 DEF AfterEpoch, HonourPause, Goto, Leave, durable, TargetInv, BehindInv
<1>7. CASE Execution
  BY <1>7 DEF Execution, RestoreEpochState, DiscardPartialRows, SnapshotEpochState, StartEpoch, Execute, Freeze, Goto,
              BehindInv, LoopPoints, GradingPoints
<1>8. CASE Grading
  <2>1. CASE GradersFinish \/ PersistFirstScores \/ (\E v \in {"success", "failed"} : PersistLastScore(v))
             \/ PublishEpoch
    BY <2>1 DEF GradersFinish, PersistFirstScores, PersistLastScore, PublishEpoch, Goto, durable
  <2>2. CASE AdvanceRun \/ SweepSnapshot
    BY <2>2 DEF AdvanceRun, SweepSnapshot, Goto
  <2>3. CASE OutagePausesRun
    BY <2>3 DEF OutagePausesRun, Goto, Leave, TargetInv
  <2> QED BY <1>8, <2>1, <2>2, <2>3 DEF Grading
<1>9. CASE Finishing
  BY <1>9 DEF Finishing, CompleteFinalEpoch, FinishRun, FinalStatus, Goto, Leave, BehindInv
<1>10. CASE Selection
  BY <1>10 DEF Selection, RankEpoch, NoSuccess, FailRun, TakeSelectionSnapshot, CullAndAdapt, BirthDescendants,
               CloseSelection, ReadyRun, TidySelection, AfterSelection, Goto, durable
<1>11. CASE Handling
  BY <1>11 DEF Handling, HandleSelectionFailure, MarkInterrupted, PauseRun, Interruptible, Goto, Leave, durable, TypeOK
<1>12. CASE Rollback
  BY <1>12 DEF Rollback, NothingToRollBack, BeginRollback, EndRollback, Goto, durable
<1> DEFINE Late == IF pauseAt.regrade THEN 2 ELSE 1
<1>13. ASSUME Ahead' <= Ahead + 1, Ahead \in {0, 1, 2}, Ahead' \in {1, 2}, ~(pc = "idle" /\ status \in Terminal),
              faults' = faults + 1, UNCHANGED <<cur, pauseAt, status>>,
              status = "awaiting_approval" => StatusOf(target)' \notin Frozen
       PROVE  PauseInv'
  <2>1. pauseAt # NoPause => cur + Ahead <= pauseAt.epoch + Late + (faults - pauseAt.faults) /\ pauseAt.faults <= faults
    BY ONLY <1>13, PauseInv DEF PauseInv
  <2>2. Late \in {1, 2}
    OBVIOUS
  <2> HIDE DEF Late, Ahead
  <2>3. pauseAt # NoPause => cur + Ahead' <= pauseAt.epoch + Late + ((faults + 1) - pauseAt.faults)
    BY ONLY <1>a, <1>13, <2>1, <2>2
  <2>4. pauseAt # NoPause => pauseAt.faults <= faults + 1
    BY ONLY <1>a, <2>1
  <2> USE DEF Late
  <2> QED BY ONLY <1>13, <2>3, <2>4 DEF PauseInv, Late
<1>14. CASE GraderOutage \/ FoundingFails
  <2>1. Ahead' <= Ahead + 1 /\ Ahead \in {0, 1, 2} /\ Ahead' \in {1, 2}
    BY <1>14 DEF GraderOutage, FoundingFails, TypeOK, TargetInv
  <2>2. faults' = faults + 1 /\ UNCHANGED <<cur, pauseAt, status>> /\ pc # "idle"
    BY <1>14 DEF GraderOutage, FoundingFails
  <2>3. status = "awaiting_approval" => StatusOf(target)' \notin Frozen
    BY <1>14 DEF GraderOutage, FoundingFails
  <2> QED BY <1>13, <2>1, <2>2, <2>3
<1>15. CASE Fail \/ Crash
  <2>1. Ahead' <= Ahead + 1 /\ Ahead' \in {1, 2}
    BY <1>15 DEF Fail, Crash, durable, TargetInv, BehindInv
  <2>2. /\ faults' = faults + 1 /\ UNCHANGED <<cur, pauseAt, status>>
        /\ status = "awaiting_approval" => StatusOf(target)' \notin Frozen
    BY <1>15 DEF Fail, Crash, durable
  <2>3. Ahead \in {0, 1, 2} /\ ~(pc = "idle" /\ status \in Terminal)
    BY <1>15 DEF Fail, Crash, LoopPoints, BusyPoints, GradingPoints, ResumePoints
  <2> QED BY <1>13, <2>1, <2>2, <2>3
<1>16. CASE UNCHANGED vars \/ Finished
  BY <1>16 DEF Finished, vars
<1> QED
  BY <1>1, <1>2, <1>3, <1>4, <1>5, <1>6, <1>7, <1>8, <1>9, <1>10, <1>11, <1>12, <1>14, <1>15, <1>16
  DEF Next, Engine, Operator, Environment, Control

\* _run_unlocked honours a pause when the epoch at hand is over, or one epoch later
\* if that one is graded before the loop (engine.py:395-411, 415-461): each epoch
\* it advances past after that is the cost of a fault since the request.
THEOREM PauseIsHonoured ==
  ASSUME RecoverableFaults
  PROVE  Spec => []PauseTakesEffect
<1>1. Init => PauseInv
  BY DEF Init, PauseInv, Ahead, StoppingPoints, StatusOf, Frozen, NoPause
<1>2. IInv /\ PauseInv /\ [Next]_vars => PauseInv'
  BY PauseStep
<1>3. IInv /\ PauseInv => PauseTakesEffect
  <2> DEFINE Late == IF pauseAt.regrade THEN 2 ELSE 1
  <2> SUFFICES ASSUME IInv, PauseInv, pauseAt # NoPause, status \notin Terminal
               PROVE  cur <= pauseAt.epoch + Late + (faults - pauseAt.faults)
    BY DEF PauseTakesEffect
  <2>1. cur \in Nat /\ faults \in Nat /\ pauseAt.epoch \in Nat /\ pauseAt.faults \in Nat
    BY DEF IInv, TypeOK
  <2>2. Ahead \in {0, 1, 2} /\ Late \in {1, 2}
    BY DEF Ahead
  <2>3. cur + Ahead <= pauseAt.epoch + Late + (faults - pauseAt.faults)
    BY DEF PauseInv
  <2> HIDE DEF Late
  <2> QED BY <2>1, <2>2, <2>3
<1> QED
  BY Inductive, <1>1, <1>2, <1>3, PTL DEF Spec
=============================================================================
