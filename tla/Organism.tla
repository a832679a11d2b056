------------------------------ MODULE Organism ------------------------------
(***************************************************************************)
(* One organism's container: the launcher that installs what its genome    *)
(* declares (seed/container_entrypoint.py), the passes of the program      *)
(* (seed/organism.py, seed/kadath_runtime.py) over the loop of the vendored *)
(* CodeAgent, and what the kernel makes of what is left                    *)
(* (containers.py, _collect_activity).  The container may be killed        *)
(* anywhere and is then started again over the same state directory.  A    *)
(* file is written by truncating it and then filling it.                   *)
(***************************************************************************)
EXTENDS Naturals, Sequences

CONSTANTS Inputs,     \* what a genome may declare; "base" is what the image has
          MaxSteps,   \* KADATH_MAX_STEPS
          MaxPasses,  \* KADATH_MAX_ITERATIONS
          MaxTries,   \* KADATH_PARENT_CRASH_RESTARTS + 1
          OutboxLimit,  \* 100: the lines of the outbox that the kernel reads
          MaxEpochs   \* bound: epochs performed

ASSUME OrganismAssumption ==
    /\ "base" \in Inputs
    /\ MaxSteps \in Nat \ {0} /\ MaxPasses \in Nat \ {0}
    /\ MaxTries \in Nat \ {0} /\ OutboxLimit \in Nat \ {0} /\ MaxEpochs \in Nat

VARIABLES epoch, need, phase,  \* the epoch, its genome's inputs, "epoch" or "adaptation"
          time,      \* 0, then 1 when the organism has to finish, 2 past the deadline
          tries,     \* containers started for this epoch
          at, open,  \* where the program is; the file it writes is truncated
          step, pass,  \* of the running container
          first,     \* lines of the trace when the container started
          from,      \* first line of the summary being written
          lines,     \* of step-trace.jsonl
          deps, staging,  \* python-deps, and the directory it is made from
          file,      \* what the files hold that are written in two steps
          outbox,    \* activity.jsonl: the records in the order of their lines
          stored,    \* the records that the relational store has
          verdict    \* the kernel's, on the epoch

plan == <<epoch, need, phase>>
clock == <<time, tries>>
program == <<at, open, step, pass, first, from>>
libraries == <<deps, staging>>
activity == <<outbox, stored>>
vars == <<plan, clock, program, lines, libraries, file, activity, verdict>>

Files == {"marker", "cursor", "progress", "candidate", "result"}
Absent == [is |-> "absent"]
Torn == [is |-> "torn"]
Whole(content) == [is |-> "whole", holds |-> content]

NoLibraries == [of |-> "none", epoch |-> 0, whole |-> FALSE]

Init == /\ epoch = 1 /\ need \in Inputs /\ phase = "epoch"
        /\ time = 0 /\ tries = 0
        /\ at = "idle" /\ open = FALSE
        /\ step = 0 /\ pass = 0 /\ first = 0 /\ from = 0 /\ lines = 0
        /\ deps = NoLibraries /\ staging = NoLibraries
        /\ file = [f \in Files |-> Absent]
        /\ outbox = <<>> /\ stored = {} /\ verdict = "open"

\* One of the two steps of writing a file; the program goes on after both.
Write(f, content, next) ==
    /\ open' = ~open
    /\ file' = [file EXCEPT ![f] = IF open THEN Whole(content) ELSE Torn]
    /\ at' = IF open THEN next ELSE at
-----------------------------------------------------------------------------
(* The launcher. *)

Start ==
    /\ at = "idle" /\ verdict = "open"
    /\ time < 2 /\ tries < MaxTries
    /\ tries' = tries + 1
    /\ at' = "launching" /\ step' = 0 /\ pass' = 0 /\ first' = lines
    /\ UNCHANGED <<plan, time, open, from, lines, libraries, file, activity, verdict>>

\* A mutant: what was installed for the same inputs is used in every epoch.
InstalledOnce ==
    file["marker"].is = "whole" /\ file["marker"].holds[1] = need /\ deps # NoLibraries
Installed == file["marker"] = Whole(<<need, epoch>>) /\ deps # NoLibraries

\* A marker that cannot be read ends the launcher.
Launch ==
    /\ at = "launching"
    /\ \/ (need = "base" \/ Installed) /\ at' = "running" /\ UNCHANGED staging
       \/ need # "base" /\ file["marker"] = Torn /\ at' = "exited" /\ UNCHANGED staging
       \/ /\ need # "base" /\ file["marker"] # Torn /\ ~Installed
          /\ at' = "installing"
          /\ staging' = [of |-> need, epoch |-> epoch, whole |-> FALSE]
    /\ UNCHANGED <<plan, clock, open, step, pass, first, from, lines, deps, file, activity, verdict>>

\* pip may fail.
Install ==
    /\ at = "installing"
    /\ \/ staging' = [staging EXCEPT !.whole = TRUE] /\ at' = "replacing"
       \/ at' = "exited" /\ UNCHANGED staging
    /\ UNCHANGED <<plan, clock, open, step, pass, first, from, lines, deps, file, activity, verdict>>

\* The old directory is deleted file by file, then the new one renamed.
Replace ==
    /\ at = "replacing"
    /\ \/ /\ deps # NoLibraries
          /\ deps' \in {[deps EXCEPT !.whole = FALSE], NoLibraries}
          /\ UNCHANGED <<at, staging>>
       \/ /\ deps = NoLibraries
          /\ deps' = staging /\ staging' = NoLibraries
          /\ at' = "marking"
    /\ UNCHANGED <<plan, clock, open, step, pass, first, from, lines, file, activity, verdict>>

Mark ==
    /\ at = "marking"
    /\ Write("marker", <<need, epoch>>, "running")
    /\ UNCHANGED <<plan, clock, step, pass, first, from, lines, libraries, activity, verdict>>
-----------------------------------------------------------------------------
(* A pass: CodeAgent.run.  Each step, whatever became of it, is a line of   *)
(* the trace, and so is the answer that is asked for after the last step.   *)

\* Progress that cannot be read ends the program.
BeginPass ==
    /\ at = "running"
    /\ IF phase = "epoch" /\ file["progress"] = Torn
       THEN at' = "exited" /\ UNCHANGED <<step, pass>>
       ELSE at' = "stepping" /\ step' = 0 /\ pass' = pass + 1
    /\ UNCHANGED <<plan, clock, open, first, from, lines, libraries, file, activity, verdict>>

\* What the organism itself logs in a step (the log_activity tool) summarises no
\* line; of interest is only that it takes a place when the broker refuses it.
\* The outbox of an adaptation is left out: the next epoch deletes it unread.
Note == {}

\* The step answers, does not, or the model cannot be reached.
Step ==
    /\ at = "stepping" /\ step < MaxSteps
    /\ step' = step + 1 /\ lines' = lines + 1
    /\ outbox' \in (IF phase = "epoch" THEN {outbox, Append(outbox, Note)} ELSE {outbox})
    /\ at' \in {"flushing", "stepping", "exited"}
    /\ UNCHANGED <<plan, clock, open, pass, first, from, libraries, file, stored, verdict>>

MaxStepsReached ==
    /\ at = "stepping" /\ step = MaxSteps
    /\ \/ at' = "flushing" /\ lines' = lines + 1
       \/ at' = "exited" /\ UNCHANGED lines
    /\ UNCHANGED <<plan, clock, open, step, pass, first, from, libraries, file, activity, verdict>>

\* flush_activity: a cursor that cannot be read is at the first line.
ReadCursor ==
    /\ at = "flushing"
    /\ from' = IF file["cursor"].is = "whole" THEN file["cursor"].holds ELSE 0
    /\ at' = "pointing"
    /\ UNCHANGED <<plan, clock, open, step, pass, first, lines, libraries, file, activity, verdict>>

WriteCursor ==
    /\ at = "pointing"
    /\ Write("cursor", lines, "logging")
    /\ UNCHANGED <<plan, clock, step, pass, first, from, lines, libraries, activity, verdict>>

Summary == (from + 1)..lines

\* The broker may refuse the record, as it does beyond the epoch's limit, or its
\* answer may be lost when it has stored the record.
Kept(answered) == IF answered THEN outbox ELSE Append(outbox, Summary)

LogActivity ==
    /\ at = "logging"
    /\ \/ phase = "adaptation" /\ UNCHANGED activity
       \/ /\ phase = "epoch"
          /\ \E served, answered \in BOOLEAN :
                /\ answered => served
                /\ stored' = IF served THEN stored \cup Summary ELSE stored
                /\ outbox' = Kept(answered)
    /\ at' = "progress" /\ from' = 0
    /\ UNCHANGED <<plan, clock, open, step, pass, first, lines, libraries, file, verdict>>

WriteProgress ==
    /\ at = "progress"
    /\ Write("progress", "iterations", "candidate")
    /\ UNCHANGED <<plan, clock, step, pass, first, from, lines, libraries, activity, verdict>>

WriteCandidate ==
    /\ at = "candidate"
    /\ Write("candidate", "answer", IF phase = "epoch" THEN "result" ELSE "leaving")
    /\ UNCHANGED <<plan, clock, step, pass, first, from, lines, libraries, activity, verdict>>

\* The lines the result stands for are those of the container's passes.
WriteResult ==
    /\ at = "result"
    /\ Write("result", [first |-> first, last |-> lines],
             IF pass >= MaxPasses \/ time > 0 THEN "leaving" ELSE "running")
    /\ UNCHANGED <<plan, clock, step, pass, first, from, lines, libraries, activity, verdict>>

\* The candidate and the result are written once more.
WriteLast ==
    /\ at = "leaving"
    /\ Write("candidate", "answer", IF phase = "epoch" THEN "concluding" ELSE "exited")
    /\ UNCHANGED <<plan, clock, step, pass, first, from, lines, libraries, activity, verdict>>

WriteLastResult ==
    /\ at = "concluding"
    /\ Write("result", [first |-> first, last |-> lines], "exited")
    /\ UNCHANGED <<plan, clock, step, pass, first, from, lines, libraries, activity, verdict>>
-----------------------------------------------------------------------------
(* The container dies; the kernel stops it at the deadline at the latest.   *)

Kill ==
    /\ at \notin {"idle", "exited"}
    /\ at' = "exited" /\ open' = FALSE
    /\ step' = 0 /\ pass' = 0 /\ first' = 0 /\ from' = 0
    /\ UNCHANGED <<plan, clock, lines, libraries, file, activity, verdict>>

Tick ==
    /\ phase = "epoch" /\ time < 2 /\ at # "idle"
    /\ time' = time + 1
    /\ UNCHANGED <<plan, tries, program, lines, libraries, file, activity, verdict>>

\* The newest lines of the outbox become rows and the file is deleted, then is
\* the epoch's attempt frozen.
\* (The first definition is a mutant: the oldest lines are taken.)
PushedOutLast(i) == i > OutboxLimit
PushedOut(i) == i + OutboxLimit <= Len(outbox)
Collect ==
    /\ stored' = stored \cup UNION {outbox[i] : i \in {j \in DOMAIN outbox : ~PushedOut(j)}}
    /\ outbox' = <<>>

\* A readable result is accepted however the container ended; without one it
\* is started again while a try and time are left.
Assess ==
    /\ at = "exited" /\ phase = "epoch"
    /\ at' = "idle"
    /\ \/ /\ file["result"].is = "whole"
          /\ verdict' = "accepted" /\ Collect /\ UNCHANGED file
       \/ /\ file["result"].is # "whole" /\ file' = [file EXCEPT !["result"] = Absent]
          /\ \/ tries < MaxTries /\ time < 2 /\ UNCHANGED <<verdict, activity>>
             \/ (tries = MaxTries \/ time > 0) /\ verdict' = "failed" /\ Collect
    /\ UNCHANGED <<plan, clock, open, step, pass, first, from, lines, libraries>>
-----------------------------------------------------------------------------
(* After the epoch: an adaptation of the accepted, with the same genome,    *)
(* then the next epoch with any.                                            *)

BeginAdaptation ==
    /\ at = "idle" /\ verdict = "accepted" /\ phase = "epoch"
    /\ phase' = "adaptation" /\ time' = 0
    /\ at' = "launching" /\ step' = 0 /\ pass' = 0 /\ first' = lines
    /\ UNCHANGED <<epoch, need, tries, open, from, lines, libraries, file, activity, verdict>>

EndAdaptation ==
    /\ phase = "adaptation" /\ at = "exited"
    /\ at' = "idle"
    /\ UNCHANGED <<plan, clock, open, step, pass, first, from, lines, libraries, file, activity, verdict>>

\* What the last epoch left is deleted, except the libraries and the progress.
NextEpoch ==
    /\ at = "idle" /\ verdict # "open" /\ epoch < MaxEpochs
    /\ epoch' = epoch + 1 /\ phase' = "epoch" /\ need' \in Inputs
    /\ time' = 0 /\ tries' = 0 /\ verdict' = "open"
    /\ lines' = 0 /\ outbox' = <<>> /\ stored' = {}
    /\ file' = [f \in Files |-> IF f \in {"cursor", "candidate", "result"} THEN Absent ELSE file[f]]
    /\ UNCHANGED <<program, libraries>>

Next == \/ Start \/ Launch \/ Install \/ Replace \/ Mark
        \/ BeginPass \/ Step \/ MaxStepsReached
        \/ ReadCursor \/ WriteCursor \/ LogActivity
        \/ WriteProgress \/ WriteCandidate \/ WriteResult \/ WriteLast \/ WriteLastResult
        \/ Kill \/ Tick \/ Assess
        \/ BeginAdaptation \/ EndAdaptation \/ NextEpoch

Spec == Init /\ [][Next]_vars
-----------------------------------------------------------------------------
\* A genome that declares libraries of its own runs with all of them, as they
\* were installed in this epoch, wherever earlier launchers were killed.
ThisEpochsDependencies ==
    at \notin {"idle", "exited", "launching", "installing", "replacing", "marking"} /\ need # "base"
        => deps = [of |-> need, epoch |-> epoch, whole |-> TRUE]

\* When a result is accepted, each line of the trace that it stands for is in a
\* summary the store has, whether or not the broker answered and wherever
\* containers before it were killed, unless at least OutboxLimit later records
\* were refused as well: the kernel reads no more than that from the end.
AcceptedWorkIsSummarised ==
    [][verdict = "open" /\ verdict' = "accepted" =>
          LET work == file["result"].holds
          IN  \A line \in (work.first + 1)..work.last :
                  \/ line \in stored'
                  \/ \E i \in DOMAIN outbox : line \in outbox[i] /\ i + OutboxLimit <= Len(outbox)]_vars
=============================================================================
