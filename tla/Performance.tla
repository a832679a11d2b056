---------------------------- MODULE Performance ----------------------------
(***************************************************************************)
(* One epoch is performed: Kernel._execute_epoch from the orphan removal   *)
(* before it to the stopped browsers, with the executors (containers.py,   *)
(* executors.py) that run every organism in a thread of its own and the    *)
(* fleet of browsers (browsers.py).  An attempt that is interrupted, or    *)
(* whose kernel dies, is repeated by the next `kadath run`; containers do  *)
(* not die with the kernel.                                                *)
(***************************************************************************)
EXTENDS Naturals, FiniteSets

CONSTANTS Organisms,
          MaxTries,     \* KADATH_PARENT_CRASH_RESTARTS + 1
          MaxAttempts   \* bound: attempts at the epoch

ASSUME PerformanceAssumption == MaxTries \in Nat \ {0} /\ MaxAttempts \in Nat \ {0}

VARIABLES executor,   \* "docker" or "command"
          browsing,   \* the browser capability is enabled
          clock,      \* how near the deadline is, see Times
          kernel,     \* where the kernel's thread is
          attempt,    \* number of the attempt
          blind,      \* docker did not answer when orphans were looked for
          launch,     \* the launch of an organism's browser
          fleet,      \* BrowserFleet.containers
          browsers,   \* the browser containers that run
          pc,         \* where the executor's thread of an organism is
          tries,      \* containers started for it in this attempt
          parents,    \* its containers or processes that run, by attempt and try
          result,     \* what its result.json holds, and who wrote it
          dirty       \* organisms whose repository differs from their genome

thread == <<pc, tries, result>>
containers == <<parents, browsers>>
fleetvars == <<launch, fleet>>
setting == <<executor, browsing>>
vars == <<setting, clock, kernel, attempt, blind, fleetvars, containers, thread, dirty>>

\* Plenty of time; less than ten seconds; the deadline has passed.
Times == 0..2
Short == 1
Past == 2

NoResult == [is |-> "none", by |-> <<0, 0>>]
Decided == {"completed", "failed"}

Init == /\ executor \in {"docker", "command"}
        /\ browsing \in BOOLEAN
        /\ browsing => executor = "docker"
        /\ clock = 0 /\ attempt = 0 /\ blind = FALSE
        /\ kernel = "idle"
        /\ launch = [a \in Organisms |-> "none"]
        /\ fleet = {} /\ browsers = {} /\ dirty = {}
        /\ pc = [a \in Organisms |-> "trying"]
        /\ tries = [a \in Organisms |-> 0]
        /\ parents = [a \in Organisms |-> {}]
        /\ result = [a \in Organisms |-> NoResult]
-----------------------------------------------------------------------------
(* The kernel's thread. *)

\* Every container with the run's label is removed; when the listing fails
\* nothing is, and the run goes on.  Processes of the command executor have
\* no label.
OrphansOverlooked(answered) == parents
OrphansLeft(answered) == IF executor = "docker" /\ answered THEN [a \in Organisms |-> {}] ELSE parents

RemoveOrphans ==
    /\ kernel = "idle" /\ attempt < MaxAttempts
    /\ \E answered \in BOOLEAN :
          /\ parents' = OrphansLeft(answered)
          /\ browsers' = IF answered THEN {} ELSE browsers
          /\ blind' = (blind \/ ~answered)
    /\ kernel' = "checking"
    /\ UNCHANGED <<setting, clock, attempt, fleetvars, thread, dirty>>

\* What an earlier attempt left in the state directories is deleted.
StartAttempt ==
    /\ kernel = "checking"
    /\ attempt' = attempt + 1
    /\ clock' = 0
    /\ pc' = [a \in Organisms |-> "trying"]
    /\ tries' = [a \in Organisms |-> 0]
    /\ result' = [a \in Organisms |-> NoResult]
    /\ fleet' = {}
    /\ launch' = [a \in Organisms |-> IF browsing THEN "pending" ELSE "none"]
    /\ kernel' = IF dirty # {} THEN "interrupted" ELSE IF browsing THEN "launching" ELSE "performing"
    /\ UNCHANGED <<setting, blind, containers, dirty>>

\* A launch removes the container of that name first.
LaunchBrowser(a) ==
    /\ kernel \in {"launching", "abandoning"} /\ launch[a] = "pending"
    /\ \/ browsers' = browsers \cup {a} /\ launch' = [launch EXCEPT ![a] = "started"]
       \/ browsers' = browsers \ {a} /\ launch' = [launch EXCEPT ![a] = "failed"]
    /\ UNCHANGED <<setting, clock, kernel, attempt, blind, fleet, parents, thread, dirty>>

AwaitBrowser(a) ==
    /\ kernel \in {"launching", "abandoning"} /\ launch[a] = "started"
    /\ \/ launch' = [launch EXCEPT ![a] = "ready"] /\ UNCHANGED browsers
       \/ launch' = [launch EXCEPT ![a] = "failed"] /\ browsers' = browsers \ {a}
    /\ UNCHANGED <<setting, clock, kernel, attempt, blind, fleet, parents, thread, dirty>>

CollectWithoutName(a) ==
    /\ kernel = "launching" /\ launch[a] = "ready"
    /\ launch' = [launch EXCEPT ![a] = "collected"]
    /\ UNCHANGED <<setting, clock, kernel, attempt, blind, fleet, containers, thread, dirty>>

CollectBrowser(a) ==
    /\ kernel = "launching" /\ launch[a] = "ready"
    /\ launch' = [launch EXCEPT ![a] = "collected"]
    /\ fleet' = fleet \cup {a}
    /\ UNCHANGED <<setting, clock, kernel, attempt, blind, containers, thread, dirty>>

\* The first failure stops what is collected so far; launches under way are
\* waited for and what they started is in no list.
AbandonFleet ==
    /\ kernel = "launching" /\ \E a \in Organisms : launch[a] = "failed"
    /\ browsers' = browsers \ fleet
    /\ fleet' = {}
    /\ kernel' = "abandoning"
    /\ UNCHANGED <<setting, clock, attempt, blind, launch, parents, thread, dirty>>

FleetAbandoned ==
    /\ kernel = "abandoning"
    /\ \A a \in Organisms : launch[a] \notin {"pending", "started"}
    /\ kernel' = "interrupted"
    /\ UNCHANGED <<setting, clock, attempt, blind, fleetvars, containers, thread, dirty>>

FleetReady ==
    /\ kernel = "launching" /\ \A a \in Organisms : launch[a] = "collected"
    /\ kernel' = "performing"
    /\ UNCHANGED <<setting, clock, attempt, blind, fleetvars, containers, thread, dirty>>

\* Once every executor has returned the broker is stopped, then the fleet;
\* when stopping the broker raises the fleet is not stopped.
StopFleet == /\ browsers' = browsers \ fleet
             /\ fleet' = {}

EndPerformance ==
    /\ kernel = "performing"
    /\ \A a \in Organisms : pc[a] \in Decided
    /\ \/ StopFleet /\ kernel' = "executed"
       \/ UNCHANGED <<browsers, fleet>> /\ kernel' = "interrupted"
    /\ UNCHANGED <<setting, clock, attempt, blind, launch, parents, thread, dirty>>

\* Interrupted or dead, the next command finds what is still running.
RunAgain ==
    /\ kernel \in {"interrupted", "down"}
    /\ kernel' = "idle"
    /\ UNCHANGED <<setting, clock, attempt, blind, fleetvars, containers, thread, dirty>>

Crash ==
    /\ kernel \notin {"idle", "down", "interrupted", "executed"}
    /\ kernel' = "down"
    /\ UNCHANGED <<setting, clock, attempt, blind, fleetvars, containers, thread, dirty>>

Tick ==
    /\ kernel = "performing" /\ clock < Past
    /\ clock' = clock + 1
    /\ UNCHANGED <<setting, kernel, attempt, blind, fleetvars, containers, thread, dirty>>
-----------------------------------------------------------------------------
(* The executor's thread of an organism. *)
Executing(a, place) == kernel = "performing" /\ pc[a] = place
Goto(a, place) == pc' = [pc EXCEPT ![a] = place]
Current(a) == <<attempt, tries[a]>>

\* The first try removes what an earlier result is, and is refused at once
\* when the deadline has passed; a later one leaves the loop.
StartParent(a) ==
    /\ Executing(a, "trying")
    /\ result' = IF tries[a] = 0 THEN [result EXCEPT ![a] = NoResult] ELSE result
    /\ IF clock = Past
       THEN Goto(a, IF tries[a] = 0 THEN "failed" ELSE "checking") /\ UNCHANGED <<tries, parents>>
       ELSE /\ tries' = [tries EXCEPT ![a] = @ + 1]
            /\ parents' = [parents EXCEPT ![a] = @ \cup {<<attempt, tries[a] + 1>>}]
            /\ Goto(a, "running")
    /\ UNCHANGED <<setting, clock, kernel, attempt, blind, fleetvars, browsers, dirty>>

ParentExitsByItself(a) ==
    /\ Executing(a, "running") /\ clock < Past
    /\ parents' = [parents EXCEPT ![a] = @ \ {Current(a)}]
    /\ Goto(a, "exited")
    /\ UNCHANGED <<setting, clock, kernel, attempt, blind, fleetvars, browsers, tries, result, dirty>>

\* Its container exits; at the deadline it is stopped and then killed.
ParentEnds(a) ==
    /\ Executing(a, "running")
    /\ parents' = [parents EXCEPT ![a] = @ \ {Current(a)}]
    /\ Goto(a, "exited")
    /\ UNCHANGED <<setting, clock, kernel, attempt, blind, fleetvars, browsers, tries, result, dirty>>

MayRetryOnce(a) == tries[a] + 1 < MaxTries /\ clock < Short
MayRetry(a) == tries[a] < MaxTries /\ clock < Short

\* The docker executor takes a valid result, and restarts the container after
\* any other end; the command executor has one try.
AssessTry(a) ==
    /\ Executing(a, "exited")
    /\ IF executor = "command" \/ result[a].is = "valid"
       THEN Goto(a, "checking") /\ UNCHANGED result
       ELSE /\ result' = [result EXCEPT ![a] = NoResult]
            /\ Goto(a, IF MayRetry(a) THEN "trying" ELSE "failed")
    /\ UNCHANGED <<setting, clock, kernel, attempt, blind, fleetvars, containers, tries, dirty>>

CheckResult(a) ==
    /\ Executing(a, "checking")
    /\ Goto(a, IF a \notin dirty /\ result[a].is = "valid" THEN "completed" ELSE "failed")
    /\ UNCHANGED <<setting, clock, kernel, attempt, blind, fleetvars, containers, tries, result, dirty>>

ExecutorStep(a) == StartParent(a) \/ AssessTry(a) \/ CheckResult(a)
-----------------------------------------------------------------------------
(* What runs for an organism writes when it pleases, orphans too.  Only a  *)
(* process of the command executor can write in its repository.            *)
WriteResult(a) ==
    /\ \E c \in parents[a], is \in {"valid", "invalid"} :
          result' = [result EXCEPT ![a] = [is |-> is, by |-> c]]
    /\ UNCHANGED <<setting, clock, kernel, attempt, blind, fleetvars, containers, pc, tries, dirty>>

WriteRepository(a) ==
    /\ executor = "command" /\ parents[a] # {}
    /\ dirty' = dirty \cup {a}
    /\ UNCHANGED <<setting, clock, kernel, attempt, blind, fleetvars, containers, thread>>

OrphanEnds(a) ==
    /\ \E c \in parents[a] : /\ kernel # "performing" \/ c # Current(a)
                             /\ parents' = [parents EXCEPT ![a] = @ \ {c}]
    /\ UNCHANGED <<setting, clock, kernel, attempt, blind, fleetvars, browsers, thread, dirty>>
-----------------------------------------------------------------------------
KernelStep == \/ RemoveOrphans \/ StartAttempt
              \/ (\E a \in Organisms : CollectBrowser(a))
              \/ AbandonFleet \/ FleetAbandoned \/ FleetReady \/ EndPerformance

Next == \/ KernelStep \/ RunAgain \/ Crash \/ Tick
        \/ \E a \in Organisms :
              \/ LaunchBrowser(a) \/ AwaitBrowser(a)
              \/ ExecutorStep(a) \/ ParentEnds(a)
              \/ WriteResult(a) \/ WriteRepository(a) \/ OrphanEnds(a)

Spec == Init /\ [][Next]_vars

\* The kernel's threads are scheduled, time passes, a browser's readiness is
\* waited for at most 20 seconds and a parent is killed at the deadline.
Fairness ==
    /\ WF_vars(KernelStep) /\ WF_vars(Tick)
    /\ \A a \in Organisms : /\ WF_vars(LaunchBrowser(a) \/ AwaitBrowser(a))
                            /\ WF_vars(ExecutorStep(a))
                            /\ WF_vars(clock = Past /\ ParentEnds(a))

FairSpec == Spec /\ Fairness
-----------------------------------------------------------------------------
\* Orphans are known to be gone: docker answered.
Sighted == executor = "docker" /\ ~blind

(* A result counts for an organism only when a container of this attempt   *)
(* wrote it, and no two containers share its state directory, whatever     *)
(* crashes left running (engine.py:389, containers.py:46-48, :75-106).     *)
OwnResult == Sighted => \A a \in Organisms :
    /\ pc[a] = "completed" => result[a].by = Current(a)
    /\ Cardinality(parents[a]) <= 1

(* README.md:272: a parent that crashes without a valid result is          *)
(* restarted up to the limit while epoch time remains; an organism fails   *)
(* early only when its tries are used up (containers.py:74-103).           *)
RestartedWhileItCould == Sighted => \A a \in Organisms :
    pc[a] = "failed" /\ clock < Short => tries[a] = MaxTries

(* After a performance nothing that was started for it runs on, nor what   *)
(* attempts before it left (engine.py:389, :596-598, browsers.py:50-63).   *)
NothingOutlivesTheEpoch == kernel = "executed" /\ Sighted =>
    browsers = {} /\ \A a \in Organisms : parents[a] = {}

(* Every attempt ends, executed or interrupted: no organism and no browser *)
(* can keep the others waiting (containers.py:85-88, browsers.py:131-137). *)
PerformanceEnds == (kernel \in {"launching", "performing"}) ~>
    (kernel \in {"executed", "interrupted", "idle", "down"})
=============================================================================
