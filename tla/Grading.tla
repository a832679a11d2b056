------------------------------ MODULE Grading ------------------------------
(***************************************************************************)
(* From executed organisms to accepted scores: Kernel._freeze_attempt and  *)
(* Kernel._grade_epoch with the verification, the external measurements    *)
(* and the seal.  The Graders run in threads; the process can die between  *)
(* any two writes, and everything but the row of the epoch is a file that  *)
(* the next `kadath run` finds.  What a Grader does inside is in Reviewing. *)
(***************************************************************************)
EXTENDS Naturals, FiniteSets

CONSTANTS Agents,
          Measurements,  \* what an external connector can answer
          MaxAttempts,   \* bound: executions of the epoch
          MaxFaults      \* bound: crashes, outages and files that go bad

\* What a file that is absent is said to hold, and who was not judged yet.
None == "none"

ASSUME GradingAssumption == /\ None \notin Measurements
                            /\ MaxAttempts \in Nat \ {0} /\ MaxFaults \in Nat

VARIABLES row,       \* epochs.status
          kernel,    \* where the kernel's thread is
          attempt,   \* number of the execution
          faults,
          frozen,    \* attempt.json and the files it lists, by agent
          repository, \* whether an agent's is its registered genome
          external,  \* external-measurements.json
          seal,      \* seal.json: what it was computed from
          final,     \* final-result.json
          grader,    \* where the thread that grades an agent is
          verdict,   \* what that thread holds
          scores,    \* scores
          accounts   \* kernel_activity: attempts and the outcomes told of them, by agent

disk == <<frozen, repository, external, seal, final>>
threads == <<grader, verdict>>
rows == <<scores, accounts>>
vars == <<row, kernel, attempt, faults, disk, threads, rows>>

Each(value) == [a \in Agents |-> value]
Absent == [of |-> 0, failed |-> FALSE, intact |-> TRUE, named |-> TRUE, recorded |-> None]
NoVerdict == [outcome |-> None, of |-> 0, measured |-> None]

Init == /\ row = "running" /\ kernel = "freezing"
        /\ attempt = 1 /\ faults = 0
        /\ frozen = Each(Absent) /\ repository = Each(TRUE)
        /\ external = Each(None) /\ seal = Each({}) /\ final = Each({})
        /\ grader = Each("idle") /\ verdict = Each(NoVerdict)
        /\ scores = Each(NoVerdict) /\ accounts = Each({})
-----------------------------------------------------------------------------
(* Freezing.  A directory that an earlier execution left is deleted first, *)
(* seal and measurements included.  Evidence that cannot be copied makes   *)
(* the attempt a failed one.                                               *)
Freeze(a) ==
    /\ kernel = "freezing" /\ frozen[a].of # attempt
    /\ \E failed \in BOOLEAN :
          frozen' = [frozen EXCEPT ![a] = [Absent EXCEPT !.of = attempt, !.failed = failed]]
    /\ external' = [external EXCEPT ![a] = None]
    /\ seal' = [seal EXCEPT ![a] = {}]
    /\ UNCHANGED <<row, kernel, attempt, faults, repository, final, threads, rows>>

GradeEpoch == /\ kernel' = "grading"
              /\ grader' = Each("verifying")
              /\ verdict' = Each(NoVerdict)

FreezingEnds ==
    /\ kernel = "freezing" /\ \A a \in Agents : frozen[a].of = attempt
    /\ row' = "execution_complete"
    /\ GradeEpoch
    /\ UNCHANGED <<attempt, faults, disk, rows>>
-----------------------------------------------------------------------------
(* The thread that grades an agent. *)
Grading(a, place) == kernel = "grading" /\ grader[a] = place
Goto(a, place) == grader' = [grader EXCEPT ![a] = place]

\* What the seal covers.
Tree(a) == <<frozen[a], external[a]>>

\* The organism is its registered genome, attempt.json names it, its genome, the
\* epoch and the objective, and the listed files are as they were.
Sound(a) == repository[a] /\ frozen[a].named /\ frozen[a].intact

Verify(a) ==
    /\ Grading(a, "verifying")
    /\ Goto(a, IF Sound(a) /\ seal[a] \subseteq {Tree(a)} THEN "measuring" ELSE "failed")
    /\ UNCHANGED <<row, kernel, attempt, faults, disk, verdict, rows>>

\* The first valid answer is written down and read from there ever after.
MeasureAnew(a) ==
    /\ Grading(a, "measuring")
    /\ \E m \in Measurements : external' = [external EXCEPT ![a] = m]
    /\ Goto(a, "recording")
    /\ UNCHANGED <<row, kernel, attempt, faults, frozen, repository, seal, final, verdict, rows>>

Measure(a) ==
    /\ Grading(a, "measuring")
    /\ IF external[a] # None THEN UNCHANGED external
       ELSE \E m \in Measurements : external' = [external EXCEPT ![a] = m]
    /\ Goto(a, "recording")
    /\ UNCHANGED <<row, kernel, attempt, faults, frozen, repository, seal, final, verdict, rows>>

RecordMeasurement(a) ==
    /\ Grading(a, "recording")
    /\ IF frozen[a].recorded \in {None, external[a]}
       THEN /\ frozen' = [frozen EXCEPT ![a].recorded = external[a]]
            /\ Goto(a, "reviewing")
       ELSE Goto(a, "failed") /\ UNCHANGED frozen
    /\ UNCHANGED <<row, kernel, attempt, faults, repository, external, seal, final, verdict, rows>>

\* Hash of the manifest, the objective, the verification and the genome.
FingerprintOfAgent(a) == <<a>>
Fingerprint(a) == <<frozen[a].of, frozen[a].failed, frozen[a].recorded>>

Result(a, outcome) == [outcome |-> outcome, of |-> frozen[a].of, measured |-> external[a]]
Outcomes(a) == IF frozen[a].failed THEN {"failed"} ELSE {"success", "failed"}

\* A result of the same input is taken; otherwise the Grader reviews, which
\* fails when a file is not what the manifest says.
Review(a) ==
    /\ Grading(a, "reviewing")
    /\ IF \E saved \in final[a] : saved.input = Fingerprint(a)
       THEN /\ \E saved \in final[a] : verdict' = [verdict EXCEPT ![a] = saved.result]
            /\ Goto(a, "graded")
       ELSE IF frozen[a].intact
       THEN /\ \E o \in Outcomes(a) : verdict' = [verdict EXCEPT ![a] = Result(a, o)]
            /\ Goto(a, "saving")
       ELSE Goto(a, "failed") /\ UNCHANGED verdict
    /\ UNCHANGED <<row, kernel, attempt, faults, disk, rows>>

SaveNothing(a) ==
    /\ Grading(a, "saving")
    /\ Goto(a, "graded")
    /\ UNCHANGED <<row, kernel, attempt, faults, disk, verdict, rows>>

SaveVerdict(a) ==
    /\ Grading(a, "saving")
    /\ final' = [final EXCEPT ![a] = {[input |-> Fingerprint(a), result |-> verdict[a]]}]
    /\ Goto(a, "graded")
    /\ UNCHANGED <<row, kernel, attempt, faults, frozen, repository, external, seal, verdict, rows>>

\* A connector that stays silent, or a provider that fails.
Outage(a) ==
    /\ kernel = "grading" /\ grader[a] \in {"measuring", "reviewing"} /\ faults < MaxFaults
    /\ Goto(a, "failed")
    /\ faults' = faults + 1
    /\ UNCHANGED <<row, kernel, attempt, disk, verdict, rows>>

GraderStep(a) == Verify(a) \/ Measure(a) \/ RecordMeasurement(a) \/ Review(a) \/ SaveVerdict(a)
-----------------------------------------------------------------------------
(* The kernel's thread after the Graders. *)
AllGraded == kernel = "grading" /\ \A a \in Agents : grader[a] \in {"graded", "failed"}

PauseGrading ==
    /\ AllGraded /\ \E a \in Agents : grader[a] = "failed"
    /\ row' = "grading_interrupted"
    /\ kernel' = "down"
    /\ UNCHANGED <<attempt, faults, disk, threads, rows>>

GradingEnds ==
    /\ AllGraded /\ \A a \in Agents : grader[a] = "graded"
    /\ kernel' = "sealing"
    /\ UNCHANGED <<row, attempt, faults, disk, threads, rows>>

SealSuccesses(a) ==
    /\ kernel = "sealing"
    /\ grader[a] = "graded"
    /\ seal' = IF verdict[a].outcome = "success" THEN [seal EXCEPT ![a] = {Tree(a)}] ELSE seal
    /\ Goto(a, "sealed")
    /\ UNCHANGED <<row, kernel, attempt, faults, frozen, repository, external, final, verdict, rows>>

\* One that is sealed already is verified.
Seal(a) ==
    /\ kernel = "sealing"
    /\ grader[a] = "graded"
    /\ IF seal[a] \subseteq {Tree(a)}
       THEN seal' = [seal EXCEPT ![a] = {Tree(a)}] /\ Goto(a, "sealed") /\ UNCHANGED kernel
       ELSE kernel' = "down" /\ UNCHANGED <<seal, grader>>
    /\ UNCHANGED <<row, attempt, faults, frozen, repository, external, final, verdict, rows>>

DeleteEarlierScores ==
    /\ kernel = "sealing" /\ \A a \in Agents : grader[a] = "sealed"
    /\ scores' = Each(NoVerdict)
    /\ kernel' = "persisting"
    /\ UNCHANGED <<row, attempt, faults, disk, threads, accounts>>

\* An account with the same content is in the memory bank only once; it is
\* not among what is deleted before.
Persist(a) ==
    /\ kernel = "persisting" /\ scores[a] = NoVerdict
    /\ scores' = [scores EXCEPT ![a] = verdict[a]]
    /\ accounts' = [accounts EXCEPT ![a] = @ \cup {<<attempt, verdict[a].outcome>>}]
    /\ UNCHANGED <<row, kernel, attempt, faults, disk, threads>>

PublishEpoch ==
    /\ kernel = "persisting" /\ \A a \in Agents : scores[a] # NoVerdict
    /\ row' = "selection_pending"
    /\ kernel' = "accepting"
    /\ UNCHANGED <<attempt, faults, disk, threads, rows>>

AdvanceRun ==
    /\ kernel = "accepting"
    /\ kernel' = "accepted"
    /\ UNCHANGED <<row, attempt, faults, disk, threads, rows>>

KernelStep == \/ FreezingEnds \/ PauseGrading \/ GradingEnds \/ DeleteEarlierScores
              \/ PublishEpoch \/ AdvanceRun
              \/ \E a \in Agents : Freeze(a) \/ Seal(a) \/ Persist(a)
-----------------------------------------------------------------------------
(* Starting again.  Only an executed epoch is regraded; one that is still  *)
(* running, or that was published just before the process died, is         *)
(* executed once more.                                                     *)
Regrade ==
    /\ kernel = "down" /\ row \in {"execution_complete", "grading_interrupted"}
    /\ GradeEpoch
    /\ UNCHANGED <<row, attempt, faults, disk, rows>>

DiscardMeasurements == scores' = Each(NoVerdict) /\ accounts' = Each({})

\* Nobody performs with a repository that is not the registered genome.
Execute ==
    /\ kernel = "down" /\ row \in {"running", "selection_pending"} /\ attempt < MaxAttempts
    /\ IF row = "running" THEN DiscardMeasurements ELSE UNCHANGED rows
    /\ IF \A a \in Agents : repository[a]
       THEN row' = "running" /\ attempt' = attempt + 1 /\ kernel' = "freezing"
       ELSE UNCHANGED <<row, attempt, kernel>>
    /\ UNCHANGED <<faults, disk, threads>>

Crash ==
    /\ kernel \notin {"down", "accepted"} /\ faults < MaxFaults
    /\ kernel \in {"freezing", "accepting"} => attempt < MaxAttempts
    /\ kernel' = "down"
    /\ faults' = faults + 1
    /\ UNCHANGED <<row, attempt, disk, threads, rows>>

\* A frozen file, or attempt.json, is no longer what it was: the latter is read
\* and written only while its thread is at work.
AtWork(a) == kernel = "grading" /\ grader[a] \in {"measuring", "recording", "reviewing", "saving"}

Decay(a) ==
    /\ frozen[a].of # 0 /\ frozen[a].intact /\ frozen[a].named /\ faults < MaxFaults
    /\ \/ frozen' = [frozen EXCEPT ![a].intact = FALSE]
       \/ ~AtWork(a) /\ frozen' = [frozen EXCEPT ![a].named = FALSE]
    /\ faults' = faults + 1
    /\ UNCHANGED <<row, kernel, attempt, repository, external, seal, final, threads, rows>>

\* A command organism, or anyone, writes to a repository.
Write(a) ==
    /\ repository[a] /\ faults < MaxFaults
    /\ repository' = [repository EXCEPT ![a] = FALSE]
    /\ faults' = faults + 1
    /\ UNCHANGED <<row, kernel, attempt, frozen, external, seal, final, threads, rows>>
-----------------------------------------------------------------------------
Next == \/ KernelStep \/ Regrade \/ Execute \/ Crash
        \/ \E a \in Agents : GraderStep(a) \/ Outage(a) \/ Decay(a) \/ Write(a)

Spec == Init /\ [][Next]_vars

\* The threads are scheduled, and a run that stopped is started again.
Fairness == /\ WF_vars(KernelStep) /\ WF_vars(Regrade) /\ WF_vars(Execute)
            /\ \A a \in Agents : WF_vars(GraderStep(a))

FairSpec == Spec /\ Fairness
-----------------------------------------------------------------------------
(* What is published about an agent was said of the evidence that is       *)
(* frozen now and of the measurement taken with it: no checkpoint of an    *)
(* earlier execution and no second answer of a connector gets in           *)
(* (engine.py:609, :690-699, :770-779; README.md:182).                     *)
OwnEvidence == kernel \in {"accepting", "accepted"} => \A a \in Agents :
    /\ scores[a].of = attempt
    /\ scores[a].measured = frozen[a].recorded

(* However often it is graded, an agent's attempt has one verdict: what    *)
(* its score says is what the memory bank was told, and nothing else was   *)
(* (engine.py:690-702, :723-737).                                          *)
OneAccount == kernel \in {"accepting", "accepted"} => \A a \in Agents :
    \A o \in {"success", "failed"} : <<attempt, o>> \in accounts[a] <=> o = scores[a].outcome

(* README.md:167: what is accepted is sealed as it was graded, and the     *)
(* seal goes on to hold for files that do not change (engine.py:718-719,   *)
(* :777-779, :811-825).                                                    *)
SealedAsGraded == kernel \in {"accepting", "accepted"} => \A a \in Agents :
    /\ seal[a] # {}
    /\ frozen[a].intact /\ frozen[a].named => seal[a] = {Tree(a)}

(* README.md:275: an outage, or a crash, only delays a leaderboard.  Only  *)
(* evidence that went bad, and an organism that is no longer its genome,   *)
(* keep their epoch from ever being accepted (engine.py:395, :512,         *)
(* :683-714, :748-765).                                                    *)
GradingCompletes == <>(kernel = "accepted" \/ \E a \in Agents : ~Sound(a))
=============================================================================
