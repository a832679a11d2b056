--------------------------- MODULE GradingProofs ---------------------------
(***************************************************************************)
(* What grading promises, for any number of agents, executions and faults. *)
(* GradingInv is what is known of one agent at a time: its thread holds    *)
(* nothing but what was said of the evidence that is frozen, and whatever  *)
(* the memory bank was told of this execution is in the checkpoint that a  *)
(* regrading would take, so that no second verdict can be reached.         *)
(***************************************************************************)
EXTENDS Grading, TLAPS

Evidence == [of : Nat, failed : BOOLEAN, intact : BOOLEAN, named : BOOLEAN, recorded : Measurements \cup {None}]
Verdicts == [outcome : {None, "success", "failed"}, of : Nat, measured : Measurements \cup {None}]
Inputs == Nat \X BOOLEAN \X (Measurements \cup {None})
Places == {"idle", "verifying", "measuring", "recording", "reviewing", "saving", "graded", "failed", "sealed"}

TypeOK ==
    /\ row \in {"running", "execution_complete", "grading_interrupted", "selection_pending"}
    /\ kernel \in {"freezing", "grading", "sealing", "persisting", "accepting", "accepted", "down"}
    /\ attempt \in Nat \ {0}
    /\ frozen \in [Agents -> Evidence] /\ repository \in [Agents -> BOOLEAN]
    /\ external \in [Agents -> Measurements \cup {None}]
    /\ seal \in [Agents -> SUBSET (Evidence \X (Measurements \cup {None}))]
    /\ final \in [Agents -> SUBSET [input : Inputs, result : Verdicts]]
    /\ grader \in [Agents -> Places]
    /\ verdict \in [Agents -> Verdicts] /\ scores \in [Agents -> Verdicts]
    /\ accounts \in [Agents -> SUBSET (Nat \X {None, "success", "failed"})]

\* What the row of the epoch says while the kernel is somewhere.
RowInv == /\ kernel = "freezing" => row = "running"
          /\ kernel \in {"grading", "sealing", "persisting"} =>
                row \in {"execution_complete", "grading_interrupted"}
          /\ kernel \in {"accepting", "accepted"} => row = "selection_pending"

Threaded == {"grading", "sealing", "persisting", "accepting", "accepted"}

\* There is one checkpoint, and it says of its input what it was made from.
CheckpointInv(a) ==
    /\ \A s \in final[a] : s.result.of = s.input[1] /\ s.result.measured = s.input[3]
    /\ \A s, t \in final[a] : s = t

Checkpointed(a) == [input |-> Fingerprint(a), result |-> verdict[a]] \in final[a]

\* What an agent's thread has done by the time that it gets to a place.
ThreadInv(a) == kernel \in Threaded =>
    /\ grader[a] \in {"recording", "reviewing", "saving", "graded", "sealed"} => external[a] # None
    /\ grader[a] \in {"reviewing", "saving", "graded", "sealed"} => frozen[a].recorded = external[a]
    /\ grader[a] = "saving" => /\ verdict[a].of = frozen[a].of
                               /\ verdict[a].measured = frozen[a].recorded
                               /\ \A s \in final[a] : s.input # Fingerprint(a)
    /\ grader[a] \in {"graded", "sealed"} => Checkpointed(a)
    /\ grader[a] = "sealed" => seal[a] # {} /\ (frozen[a].intact /\ frozen[a].named => seal[a] = {Tree(a)})
    /\ kernel = "sealing" => grader[a] \in {"graded", "sealed"}
    /\ kernel \in {"persisting", "accepting", "accepted"} => grader[a] = "sealed"

\* What the memory bank was told of this execution is in the checkpoint.
AccountInv(a) ==
    /\ \A n \in Nat, o \in {None, "success", "failed"} : <<n, o>> \in accounts[a] => n <= attempt
    /\ \A o \in {None, "success", "failed"} : <<attempt, o>> \in accounts[a] =>
          /\ row # "running"
          /\ external[a] # None /\ frozen[a].recorded = external[a]
          /\ \E s \in final[a] : s.input = Fingerprint(a) /\ s.result.outcome = o

ScoreInv(a) ==
    /\ kernel \in {"persisting", "accepting", "accepted"} /\ scores[a] # NoVerdict =>
          scores[a] = verdict[a] /\ <<attempt, verdict[a].outcome>> \in accounts[a]
    /\ kernel \in {"accepting", "accepted"} => scores[a] # NoVerdict

AgentInv(a) == /\ row # "running" => frozen[a].of = attempt
               /\ CheckpointInv(a) /\ ThreadInv(a) /\ AccountInv(a) /\ ScoreInv(a)

GradingInv == TypeOK /\ RowInv /\ \A a \in Agents : AgentInv(a)
-----------------------------------------------------------------------------
USE DEF None

LEMMA GradingInitially == Init => GradingInv
<1> SUFFICES ASSUME Init PROVE GradingInv
  OBVIOUS
<1>1. TypeOK
  BY DEF Init, TypeOK, Each, Absent, NoVerdict, Evidence, Verdicts, Places
<1>2. RowInv
  BY DEF Init, RowInv
<1>3. ASSUME NEW a \in Agents PROVE AgentInv(a)
  BY DEF Init, Each, AgentInv, CheckpointInv, ThreadInv, AccountInv, ScoreInv, Threaded
<1> QED BY <1>1, <1>2, <1>3 DEF GradingInv

\* What is known of an agent stays known while nothing of it changes.
LEMMA Elsewhere ==
  ASSUME NEW a, AgentInv(a), UNCHANGED <<row, kernel, attempt>>,
         UNCHANGED <<frozen[a], external[a], seal[a], final[a], grader[a], verdict[a], scores[a], accounts[a]>>
  PROVE  AgentInv(a)'
BY DEF AgentInv, CheckpointInv, ThreadInv, AccountInv, ScoreInv, Checkpointed, Fingerprint, Tree

\* A fingerprint determines what a result of it was said of.
LEMMA FingerprintTyped ==
  ASSUME TypeOK, NEW a \in Agents
  PROVE  /\ Fingerprint(a) \in Inputs /\ Fingerprint(a)[1] = frozen[a].of
         /\ Fingerprint(a)[3] = frozen[a].recorded
         /\ Tree(a) \in Evidence \X (Measurements \cup {None})
         /\ Checkpointed(a) => /\ verdict[a].of = frozen[a].of \/ ~CheckpointInv(a)
                               /\ verdict[a].measured = frozen[a].recorded \/ ~CheckpointInv(a)
BY DEF TypeOK, Evidence, Inputs, Fingerprint, Tree, Checkpointed, CheckpointInv

\* A thread that starts, or gives up, holds nothing.
LEMMA HoldsNothing ==
  ASSUME NEW a, AgentInv(a), kernel = "grading", UNCHANGED <<row, kernel, attempt>>,
         UNCHANGED <<frozen[a], seal[a], final[a], verdict[a], scores[a], accounts[a]>>,
         external[a] # None => external'[a] = external[a],
         \/ grader'[a] \in {"verifying", "measuring", "failed"}
         \/ grader'[a] = "recording" /\ external'[a] # None
  PROVE  AgentInv(a)'
<1>1. CheckpointInv(a)'
  BY DEF AgentInv, CheckpointInv
<1>2. ThreadInv(a)'
  BY DEF ThreadInv, Threaded
<1>3. Fingerprint(a)' = Fingerprint(a)
  BY DEF Fingerprint
<1>4. AccountInv(a)'
  BY <1>3 DEF AgentInv, AccountInv
<1>5. ScoreInv(a)'
  BY DEF ScoreInv
<1> QED BY <1>1, <1>2, <1>4, <1>5 DEF AgentInv
-----------------------------------------------------------------------------
(* The threads. *)

LEMMA VerifyKeeps ==
  ASSUME GradingInv, NEW a \in Agents, Verify(a)
  PROVE  TypeOK' /\ AgentInv(a)'
<1> USE DEF GradingInv, Verify, Grading, Goto, disk, rows
<1>1. TypeOK'
  BY DEF TypeOK, Places
<1>2. kernel = "grading" /\ grader'[a] \in {"measuring", "failed"}
  BY DEF TypeOK
<1>3. AgentInv(a)'
  BY <1>2, HoldsNothing
<1> QED BY <1>1, <1>3

LEMMA MeasureKeeps ==
  ASSUME GradingInv, NEW a \in Agents, Measure(a)
  PROVE  TypeOK' /\ AgentInv(a)'
<1> USE DEF GradingInv, Measure, Grading, Goto, rows
<1>1. TypeOK'
  BY DEF TypeOK, Places
<1>2. external'[a] # None /\ (external[a] # None => external'[a] = external[a])
  BY GradingAssumption DEF TypeOK
<1>3. AgentInv(a)'
  <2>1. kernel = "grading" /\ grader'[a] = "recording"
    BY DEF TypeOK
  <2> QED BY <1>2, <2>1, HoldsNothing
<1> QED BY <1>1, <1>3

LEMMA RecordMeasurementKeeps ==
  ASSUME GradingInv, NEW a \in Agents, RecordMeasurement(a)
  PROVE  TypeOK' /\ AgentInv(a)'
<1> USE DEF GradingInv, RecordMeasurement, Grading, Goto, rows
<1>1. TypeOK'
  <2>1. frozen' \in [Agents -> Evidence]
    <3>1. frozen[a] \in Evidence /\ external[a] \in Measurements \cup {None}
      BY DEF TypeOK
    <3>2. [frozen[a] EXCEPT !.recorded = external[a]] \in Evidence
      BY <3>1 DEF Evidence
    <3>3. frozen' = frozen \/ frozen' = [frozen EXCEPT ![a] = [frozen[a] EXCEPT !.recorded = external[a]]]
      OBVIOUS
    <3> QED BY <3>2, <3>3 DEF TypeOK
  <2> QED BY <2>1 DEF TypeOK, Places
<1>2. CASE frozen[a].recorded \in {None, external[a]}
  <2>1. /\ frozen'[a].of = frozen[a].of /\ frozen'[a].failed = frozen[a].failed
        /\ frozen'[a].recorded = external[a] /\ external' = external /\ external[a] # None
        /\ grader'[a] = "reviewing" /\ kernel = "grading"
    BY <1>2 DEF TypeOK, Evidence, AgentInv, ThreadInv, Threaded
  <2>2. frozen[a].recorded = external[a] => Fingerprint(a)' = Fingerprint(a)
    BY <2>1 DEF Fingerprint
  <2> QED BY <1>1, <2>1, <2>2 DEF AgentInv, CheckpointInv, ThreadInv, AccountInv, ScoreInv, Threaded
<1>3. CASE frozen[a].recorded \notin {None, external[a]}
  <2>1. grader'[a] = "failed" /\ kernel = "grading" /\ frozen' = frozen
    BY <1>3 DEF TypeOK
  <2> QED BY <1>1, <2>1, HoldsNothing
<1> QED BY <1>2, <1>3

LEMMA ReviewKeeps ==
  ASSUME GradingInv, NEW a \in Agents, Review(a)
  PROVE  TypeOK' /\ AgentInv(a)'
<1> USE DEF GradingInv, Review, Grading, Goto, disk, rows
<1>1. TypeOK' /\ Fingerprint(a)' = Fingerprint(a)
  <2>1. verdict' \in [Agents -> Verdicts]
    <3>1. \A o \in Outcomes(a) : Result(a, o) \in Verdicts
      BY DEF TypeOK, Result, Outcomes, Verdicts, Evidence
    <3>2. \A saved \in final[a] : saved.result \in Verdicts
      BY DEF TypeOK
    <3> QED BY <3>1, <3>2 DEF TypeOK
  <2> QED BY <2>1 DEF TypeOK, Places, Fingerprint
<1>2. CASE \E saved \in final[a] : saved.input = Fingerprint(a)
  <2>1. PICK saved \in final[a] : saved.input = Fingerprint(a)
    BY <1>2
  <2>2. \A s \in final[a] : s = saved
    BY <2>1 DEF AgentInv, CheckpointInv
  <2>3. verdict'[a] = saved.result /\ grader'[a] = "graded"
    BY <1>2, <2>2 DEF TypeOK
  <2>4. saved = [input |-> Fingerprint(a), result |-> saved.result]
    BY <2>1 DEF TypeOK
  <2>5. Checkpointed(a)'
    BY <1>1, <2>1, <2>3, <2>4 DEF Checkpointed
  <2> QED BY <1>1, <2>3, <2>5 DEF AgentInv, CheckpointInv, ThreadInv, AccountInv, ScoreInv, Threaded
<1>3. CASE ~(\E saved \in final[a] : saved.input = Fingerprint(a)) /\ frozen[a].intact
  <2>1. PICK o \in Outcomes(a) : verdict' = [verdict EXCEPT ![a] = Result(a, o)]
    BY <1>3
  <2>2. grader'[a] = "saving" /\ verdict'[a].of = frozen[a].of /\ verdict'[a].measured = external[a]
    BY <1>3, <2>1 DEF TypeOK, Result
  <2> QED BY <1>1, <1>3, <2>2 DEF AgentInv, CheckpointInv, ThreadInv, AccountInv, ScoreInv, Threaded
<1>4. CASE ~(\E saved \in final[a] : saved.input = Fingerprint(a)) /\ ~frozen[a].intact
  <2>1. grader'[a] = "failed" /\ verdict' = verdict
    BY <1>4 DEF TypeOK
  <2> QED BY <1>1, <2>1 DEF AgentInv, CheckpointInv, ThreadInv, AccountInv, ScoreInv, Threaded
<1> QED BY <1>2, <1>3, <1>4

LEMMA SaveVerdictKeeps ==
  ASSUME GradingInv, NEW a \in Agents, SaveVerdict(a)
  PROVE  TypeOK' /\ AgentInv(a)'
<1> USE DEF GradingInv, SaveVerdict, Grading, Goto, rows
<1> DEFINE saved == [input |-> Fingerprint(a), result |-> verdict[a]]
<1>1. /\ Fingerprint(a)' = Fingerprint(a) /\ grader'[a] = "graded" /\ final'[a] = {saved}
      /\ UNCHANGED <<verdict, external, frozen, seal, scores, accounts>>
      /\ saved \in [input : Inputs, result : Verdicts]
  BY FingerprintTyped DEF TypeOK, Fingerprint
<1>2. TypeOK'
  BY <1>1 DEF TypeOK, Places
<1>3. Checkpointed(a)'
  BY <1>1 DEF Checkpointed
<1>4. CheckpointInv(a)'
  <2>1. saved.result.of = saved.input[1] /\ saved.result.measured = saved.input[3]
    BY FingerprintTyped DEF AgentInv, ThreadInv, Threaded
  <2> QED BY <1>1, <2>1 DEF CheckpointInv
<1>5. \A o \in {None, "success", "failed"} : <<attempt, o>> \notin accounts[a]
  BY DEF AgentInv, AccountInv, ThreadInv, Threaded
<1> HIDE DEF saved
<1>6. ThreadInv(a)' /\ AccountInv(a)' /\ ScoreInv(a)'
  BY <1>1, <1>3, <1>5 DEF AgentInv, ThreadInv, AccountInv, ScoreInv, Threaded
<1> QED BY <1>2, <1>4, <1>6, <1>1 DEF AgentInv

LEMMA OutageKeeps ==
  ASSUME GradingInv, NEW a \in Agents, Outage(a)
  PROVE  TypeOK' /\ AgentInv(a)'
<1> USE DEF GradingInv, Outage, Goto, disk, rows
<1>1. TypeOK'
  BY DEF TypeOK, Places
<1>2. kernel = "grading" /\ grader'[a] \in {"measuring", "failed"}
  BY DEF TypeOK
<1>3. AgentInv(a)'
  BY <1>2, HoldsNothing
<1> QED BY <1>1, <1>3

LEMMA ThreadsKeep ==
  ASSUME GradingInv, NEW a \in Agents, GraderStep(a) \/ Outage(a)
  PROVE  GradingInv'
<1>1. UNCHANGED <<row, kernel, attempt>>
  BY DEF GraderStep, Verify, Measure, RecordMeasurement, Review, SaveVerdict, Outage
<1>2. TypeOK' /\ AgentInv(a)'
  BY VerifyKeeps, MeasureKeeps, RecordMeasurementKeeps, ReviewKeeps, SaveVerdictKeeps, OutageKeeps DEF GraderStep
<1>3. RowInv'
  BY <1>1 DEF GradingInv, RowInv
<1>4. ASSUME NEW b \in Agents, b # a PROVE AgentInv(b)'
  <2>1. UNCHANGED <<frozen[b], external[b], seal[b], final[b], grader[b], verdict[b], scores[b], accounts[b]>>
    BY <1>4 DEF GradingInv, TypeOK, GraderStep, Verify, Measure, RecordMeasurement, Review, SaveVerdict, Outage,
                Goto, disk, rows
  <2> QED BY <1>1, <2>1, Elsewhere DEF GradingInv
<1> QED BY <1>2, <1>3, <1>4 DEF GradingInv
-----------------------------------------------------------------------------
(* The kernel's thread, and what befalls it. *)

LEMMA FreezeKeeps ==
  ASSUME GradingInv, NEW a \in Agents, Freeze(a)
  PROVE  GradingInv'
<1> USE DEF GradingInv, Freeze, threads, rows
<1>1. TypeOK'
  <2>1. PICK failed \in BOOLEAN :
           frozen' = [frozen EXCEPT ![a] = [Absent EXCEPT !.of = attempt, !.failed = failed]]
    OBVIOUS
  <2>2. [Absent EXCEPT !.of = attempt, !.failed = failed] \in Evidence
    BY DEF Absent, Evidence, TypeOK
  <2> QED BY <2>1, <2>2 DEF TypeOK
<1>2. row = "running" /\ RowInv'
  BY DEF RowInv
<1>3. ASSUME NEW b \in Agents PROVE AgentInv(b)'
  <2>1. AccountInv(b)'
    BY <1>2 DEF AgentInv, AccountInv
  <2> QED BY <1>2, <2>1 DEF AgentInv, CheckpointInv, ThreadInv, ScoreInv, Threaded
<1> QED BY <1>1, <1>2, <1>3

\* A regrading, and the first one, start the threads with nothing.
LEMMA GradeEpochKeeps ==
  ASSUME GradingInv, FreezingEnds \/ Regrade
  PROVE  GradingInv'
<1> USE DEF GradingInv, FreezingEnds, Regrade, GradeEpoch, Each, disk, rows
<1>1. TypeOK' /\ RowInv'
  BY DEF TypeOK, RowInv, Places, Verdicts, NoVerdict
<1>2. ASSUME NEW a \in Agents PROVE AgentInv(a)'
  <2>1. frozen'[a].of = attempt
    BY DEF AgentInv
  <2>2. grader'[a] = "verifying" /\ kernel' = "grading" /\ Fingerprint(a)' = Fingerprint(a)
    BY DEF Fingerprint
  <2>3. ThreadInv(a)'
    BY <2>2 DEF ThreadInv
  <2>4. AccountInv(a)'
    BY <2>2, <1>1 DEF AgentInv, AccountInv, RowInv
  <2>5. CheckpointInv(a)'
    BY DEF AgentInv, CheckpointInv
  <2>6. ScoreInv(a)'
    BY <2>2 DEF ScoreInv
  <2>7. attempt' = attempt
    OBVIOUS
  <2> QED BY <2>1, <2>3, <2>4, <2>5, <2>6, <2>7 DEF AgentInv
<1> QED BY <1>1, <1>2

\* The steps that end a phase change nothing of an agent.
LEMMA PhasesKeep ==
  ASSUME GradingInv, PauseGrading \/ GradingEnds \/ PublishEpoch \/ AdvanceRun \/ Crash
  PROVE  GradingInv'
<1> USE DEF GradingInv, PauseGrading, GradingEnds, PublishEpoch, AdvanceRun, Crash, AllGraded,
            disk, threads, rows
<1>1. TypeOK' /\ RowInv'
  BY DEF TypeOK, RowInv
<1>2. ASSUME NEW a \in Agents PROVE AgentInv(a)'
  <2>1. Fingerprint(a)' = Fingerprint(a) /\ Tree(a)' = Tree(a) /\ (Checkpointed(a)' <=> Checkpointed(a))
    BY DEF Fingerprint, Tree, Checkpointed
  <2>2. ThreadInv(a)'
    BY <2>1 DEF AgentInv, ThreadInv, Threaded
  <2>3. AccountInv(a)'
    BY <2>1 DEF AgentInv, AccountInv, RowInv
  <2>4. ScoreInv(a)'
    BY DEF AgentInv, ScoreInv
  <2>5. row' # "running" => frozen'[a].of = attempt'
    BY DEF AgentInv, RowInv
  <2> QED BY <2>2, <2>3, <2>4, <2>5 DEF AgentInv, CheckpointInv
<1> QED BY <1>1, <1>2

LEMMA SealKeeps ==
  ASSUME GradingInv, NEW a \in Agents, Seal(a)
  PROVE  GradingInv'
<1> USE DEF GradingInv, Seal, Goto, rows
<1>1. TypeOK' /\ RowInv'
  <2>1. {Tree(a)} \in SUBSET (Evidence \X (Measurements \cup {None}))
    BY FingerprintTyped
  <2>2. seal' \in [Agents -> SUBSET (Evidence \X (Measurements \cup {None}))]
    BY <2>1 DEF TypeOK
  <2>3. grader' \in [Agents -> Places] /\ kernel' \in {kernel, "down"}
    BY DEF TypeOK, Places
  <2> QED BY <2>2, <2>3 DEF TypeOK, RowInv
<1>2. ASSUME NEW b \in Agents PROVE AgentInv(b)'
  <2>1. Fingerprint(b)' = Fingerprint(b) /\ Tree(b)' = Tree(b) /\ (Checkpointed(b)' <=> Checkpointed(b))
    BY DEF Fingerprint, Tree, Checkpointed
  <2>2. CASE kernel' = "down"
    BY <2>1, <2>2 DEF AgentInv, CheckpointInv, ThreadInv, AccountInv, ScoreInv, Threaded
  <2>3. CASE kernel' = kernel
    <3>1. \/ grader'[b] = grader[b] /\ seal'[b] = seal[b]
          \/ grader'[b] = "sealed" /\ grader[b] = "graded" /\ seal'[b] = {Tree(b)}
      BY <2>3 DEF TypeOK
    <3>2. ThreadInv(b)'
      BY <2>1, <2>3, <3>1 DEF AgentInv, ThreadInv, Threaded
    <3> QED BY <2>1, <2>3, <3>2 DEF AgentInv, CheckpointInv, AccountInv, ScoreInv
  <2> QED BY <2>2, <2>3
<1> QED BY <1>1, <1>2

LEMMA DeleteEarlierScoresKeeps ==
  ASSUME GradingInv, DeleteEarlierScores
  PROVE  GradingInv'
<1> USE DEF GradingInv, DeleteEarlierScores, disk, threads
<1>1. TypeOK' /\ RowInv'
  BY DEF TypeOK, RowInv, Each, NoVerdict, Verdicts
<1>2. ASSUME NEW a \in Agents PROVE AgentInv(a)'
  <2>1. Fingerprint(a)' = Fingerprint(a) /\ Tree(a)' = Tree(a) /\ (Checkpointed(a)' <=> Checkpointed(a))
    BY DEF Fingerprint, Tree, Checkpointed
  <2>2. ScoreInv(a)'
    BY DEF ScoreInv, Each
  <2> QED BY <2>1, <2>2 DEF AgentInv, CheckpointInv, ThreadInv, AccountInv, Threaded
<1> QED BY <1>1, <1>2

LEMMA PersistKeeps ==
  ASSUME GradingInv, NEW a \in Agents, Persist(a)
  PROVE  GradingInv'
<1> USE DEF GradingInv, Persist, disk, threads
<1>1. TypeOK' /\ RowInv'
  <2>1. verdict[a] \in Verdicts /\ <<attempt, verdict[a].outcome>> \in Nat \X {None, "success", "failed"}
    BY DEF TypeOK, Verdicts
  <2> QED BY <2>1 DEF TypeOK, RowInv
<1>2. ASSUME NEW b \in Agents PROVE AgentInv(b)'
  <2>1. Fingerprint(b)' = Fingerprint(b) /\ Tree(b)' = Tree(b) /\ (Checkpointed(b)' <=> Checkpointed(b))
    BY DEF Fingerprint, Tree, Checkpointed
  <2>2. /\ b # a => scores'[b] = scores[b] /\ accounts'[b] = accounts[b]
        /\ b = a => /\ scores'[b] = verdict[b]
                    /\ accounts'[b] = accounts[b] \cup {<<attempt, verdict[b].outcome>>}
    BY DEF TypeOK
  <2>3. ThreadInv(b)'
    BY <2>1 DEF AgentInv, ThreadInv, Threaded
  <2>4. AccountInv(b)'
    <3>1. row # "running" /\ external[b] # None /\ frozen[b].recorded = external[b] /\ Checkpointed(b)
      BY DEF AgentInv, ThreadInv, Threaded, RowInv
    <3>2. \E s \in final[b] : s.input = Fingerprint(b) /\ s.result.outcome = verdict[b].outcome
      BY <3>1 DEF Checkpointed
    <3>3. attempt \in Nat
      BY DEF TypeOK
    <3> QED BY <2>1, <2>2, <3>1, <3>2, <3>3 DEF AgentInv, AccountInv
  <2>5. ScoreInv(b)'
    BY <2>2 DEF AgentInv, ScoreInv
  <2> QED BY <2>1, <2>3, <2>4, <2>5 DEF AgentInv, CheckpointInv
<1> QED BY <1>1, <1>2

\* No account is of an execution that is still to come.
LEMMA ExecuteKeeps ==
  ASSUME GradingInv, Execute
  PROVE  GradingInv'
<1> USE DEF GradingInv, Execute, DiscardMeasurements, disk, threads, rows
<1>1. TypeOK' /\ RowInv'
  BY DEF TypeOK, RowInv, Each, NoVerdict, Verdicts
<1>2. ASSUME NEW a \in Agents PROVE AgentInv(a)'
  <2>1. accounts'[a] \in SUBSET accounts[a]
    BY DEF Each
  <2>2. AccountInv(a)'
    <3>1. CASE attempt' = attempt + 1
      BY <2>1, <3>1 DEF AgentInv, AccountInv, TypeOK
    <3>2. CASE UNCHANGED <<row, attempt>>
      <4>1. Fingerprint(a)' = Fingerprint(a)
        BY DEF Fingerprint
      <4> QED BY <2>1, <3>2, <4>1 DEF AgentInv, AccountInv
    <3> QED BY <3>1, <3>2
  <2> QED BY <2>2 DEF AgentInv, CheckpointInv, ThreadInv, ScoreInv, Threaded
<1> QED BY <1>1, <1>2

LEMMA DecayKeeps ==
  ASSUME GradingInv, NEW a \in Agents, Decay(a)
  PROVE  GradingInv'
<1> USE DEF GradingInv, Decay, threads, rows
<1>1. /\ frozen[a] \in Evidence
      /\ \/ frozen' = [frozen EXCEPT ![a] = [frozen[a] EXCEPT !.intact = FALSE]]
         \/ frozen' = [frozen EXCEPT ![a] = [frozen[a] EXCEPT !.named = FALSE]]
  BY DEF TypeOK
<1>2. TypeOK' /\ RowInv'
  <2>1. /\ [frozen[a] EXCEPT !.intact = FALSE] \in Evidence
        /\ [frozen[a] EXCEPT !.named = FALSE] \in Evidence
    BY <1>1 DEF Evidence
  <2> QED BY <1>1, <2>1 DEF TypeOK, RowInv
<1>3. ASSUME NEW b \in Agents PROVE AgentInv(b)'
  <2>1. /\ frozen'[b].of = frozen[b].of /\ frozen'[b].failed = frozen[b].failed
        /\ frozen'[b].recorded = frozen[b].recorded
        /\ frozen'[b].intact /\ frozen'[b].named => frozen'[b] = frozen[b]
    BY <1>1 DEF TypeOK, Evidence
  <2>2. Fingerprint(b)' = Fingerprint(b) /\ (Checkpointed(b)' <=> Checkpointed(b))
    BY <2>1 DEF Fingerprint, Checkpointed
  <2>3. frozen'[b].intact /\ frozen'[b].named => frozen[b].intact /\ frozen[b].named /\ Tree(b)' = Tree(b)
    BY <2>1 DEF Tree
  <2>4. ThreadInv(b)'
    BY <2>1, <2>2, <2>3 DEF AgentInv, ThreadInv, Threaded
  <2>5. AccountInv(b)'
    BY <2>1, <2>2 DEF AgentInv, AccountInv
  <2> QED BY <2>1, <2>4, <2>5 DEF AgentInv, CheckpointInv, ScoreInv
<1> QED BY <1>2, <1>3

LEMMA WriteKeeps ==
  ASSUME GradingInv, NEW a \in Agents, Write(a)
  PROVE  GradingInv'
<1>1. ASSUME NEW b \in Agents PROVE AgentInv(b)'
  BY <1>1, Elsewhere DEF Write, threads, rows, GradingInv
<1>2. TypeOK' /\ RowInv'
  BY DEF Write, threads, rows, GradingInv, TypeOK, RowInv
<1> QED BY <1>1, <1>2 DEF GradingInv

LEMMA GradingStep == GradingInv /\ [Next]_vars => GradingInv'
<1> SUFFICES ASSUME GradingInv, [Next]_vars PROVE GradingInv'
  OBVIOUS
<1>1. CASE UNCHANGED vars
  <2>1. ASSUME NEW a \in Agents PROVE AgentInv(a)'
    BY <1>1, Elsewhere DEF vars, disk, threads, rows, GradingInv
  <2>2. TypeOK' /\ RowInv'
    BY <1>1 DEF vars, disk, threads, rows, GradingInv, TypeOK, RowInv
  <2> QED BY <2>1, <2>2 DEF GradingInv
<1>2. CASE KernelStep
  BY <1>2, FreezeKeeps, GradeEpochKeeps, PhasesKeep, SealKeeps, DeleteEarlierScoresKeeps, PersistKeeps
     DEF KernelStep
<1>3. CASE Regrade \/ Execute \/ Crash
  BY <1>3, GradeEpochKeeps, ExecuteKeeps, PhasesKeep
<1>4. CASE \E a \in Agents : GraderStep(a) \/ Outage(a) \/ Decay(a) \/ Write(a)
  BY <1>4, ThreadsKeep, DecayKeeps, WriteKeeps
<1> QED BY <1>1, <1>2, <1>3, <1>4 DEF Next
-----------------------------------------------------------------------------
(* What is known of every agent is known at all times: the row and the     *)
(* kernel agree, a thread that graded holds what the checkpoint says of    *)
(* the evidence as it is, and so does each account of this execution       *)
(* (engine.py:609, :690-737).                                              *)
THEOREM GradingIsInvariant == Spec => []GradingInv
BY GradingInitially, GradingStep, PTL DEF Spec

(* For any number of agents, executions and faults, what is published      *)
(* about an agent was said of the evidence that is frozen now, with the    *)
(* measurement that was written down first (engine.py:609, :690-699,       *)
(* :770-779).                                                              *)
THEOREM EvidenceIsTheAgentsOwn == Spec => []OwnEvidence
<1>1. GradingInv => OwnEvidence
  <2> SUFFICES ASSUME GradingInv, kernel \in {"accepting", "accepted"}, NEW a \in Agents
               PROVE  scores[a].of = attempt /\ scores[a].measured = frozen[a].recorded
    BY DEF OwnEvidence
  <2>1. AgentInv(a) /\ TypeOK /\ row # "running"
    BY DEF GradingInv, RowInv
  <2>2. Checkpointed(a) /\ scores[a] = verdict[a] /\ frozen[a].of = attempt
    BY <2>1 DEF AgentInv, ThreadInv, ScoreInv, Threaded
  <2> QED BY <2>1, <2>2, FingerprintTyped DEF AgentInv
<1> QED BY <1>1, GradingIsInvariant, PTL

(* However often the process dies while it grades or persists, an agent's  *)
(* attempt has one verdict, and that is the one the memory bank was told   *)
(* (engine.py:690-702, :723-737).                                          *)
THEOREM VerdictIsOne == Spec => []OneAccount
<1>1. GradingInv => OneAccount
  <2> SUFFICES ASSUME GradingInv, kernel \in {"accepting", "accepted"}, NEW a \in Agents,
                      NEW o \in {"success", "failed"}
               PROVE  <<attempt, o>> \in accounts[a] <=> o = scores[a].outcome
    BY DEF OneAccount
  <2>1. AgentInv(a)
    BY DEF GradingInv
  <2>2. /\ Checkpointed(a) /\ scores[a] = verdict[a]
        /\ <<attempt, verdict[a].outcome>> \in accounts[a]
    BY <2>1 DEF AgentInv, ThreadInv, ScoreInv, Threaded
  <2>3. ASSUME <<attempt, o>> \in accounts[a] PROVE o = verdict[a].outcome
    <3>1. PICK s \in final[a] : s.input = Fingerprint(a) /\ s.result.outcome = o
      BY <2>1, <2>3 DEF AgentInv, AccountInv
    <3>2. s = [input |-> Fingerprint(a), result |-> verdict[a]]
      BY <2>1, <2>2 DEF AgentInv, CheckpointInv, Checkpointed
    <3> QED BY <3>1, <3>2
  <2> QED BY <2>2, <2>3
<1> QED BY <1>1, GradingIsInvariant, PTL

(* What is accepted is sealed as it was graded, and the seal holds until a *)
(* frozen file changes, whatever the process went through in between       *)
(* (engine.py:718-719, :777-779, :811-825).                                *)
THEOREM SealIsOfWhatWasGraded == Spec => []SealedAsGraded
<1>1. GradingInv => SealedAsGraded
  BY DEF GradingInv, SealedAsGraded, AgentInv, ThreadInv, Threaded
<1> QED BY <1>1, GradingIsInvariant, PTL
=============================================================================
