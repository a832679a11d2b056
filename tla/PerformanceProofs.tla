------------------------- MODULE PerformanceProofs -------------------------
(***************************************************************************)
(* What one epoch's performance promises, for any number of organisms,     *)
(* tries and attempts, as long as docker answers.  TriesInv is the core:   *)
(* nothing runs for an organism but its current try, and that only while   *)
(* its thread waits for it.  FleetInv is its counterpart for browsers.     *)
(***************************************************************************)
EXTENDS Performance, FiniteSetTheorems, TLAPS

TypeOK ==
    /\ executor \in {"docker", "command"} /\ browsing \in BOOLEAN /\ blind \in BOOLEAN
    /\ clock \in Times /\ attempt \in Nat
    /\ kernel \in {"idle", "checking", "launching", "abandoning", "performing", "executed", "interrupted", "down"}
    /\ launch \in [Organisms -> {"none", "pending", "started", "ready", "collected", "failed"}]
    /\ fleet \in SUBSET Organisms /\ browsers \in SUBSET Organisms /\ dirty \in SUBSET Organisms
    /\ pc \in [Organisms -> {"trying", "running", "exited", "checking"} \cup Decided]
    /\ tries \in [Organisms -> 0..MaxTries]
    /\ parents \in [Organisms -> SUBSET (Nat \X Nat)]
    /\ result \in [Organisms -> [is : {"none", "valid", "invalid"}, by : Nat \X Nat]]

\* Whoever tries has tries left.
LimitInv(a) == pc[a] = "trying" => tries[a] < MaxTries

\* What runs for an organism, and who wrote its result.
TriesInv(a) ==
    /\ parents[a] \subseteq {Current(a)}
    /\ pc[a] # "running" \/ kernel = "checking" => parents[a] = {}
    /\ result[a].is # "none" => result[a].by = Current(a)
    /\ pc[a] = "trying" => result[a].is = "none"
    /\ pc[a] = "checking" => result[a].is = "valid" \/ clock = Past
    /\ pc[a] = "completed" => result[a].is = "valid"
    /\ pc[a] = "failed" => tries[a] = MaxTries \/ clock \in {Short, Past}

\* A browser that runs is in the fleet, or will be, or is under way.
FleetInv ==
    /\ kernel = "checking" => browsers = {}
    /\ kernel = "launching" => \A a \in browsers : launch[a] \in {"started", "ready"} \/ a \in fleet
    /\ kernel = "launching" => \A a \in Organisms : launch[a] = "collected" => a \in fleet
    /\ kernel = "performing" => browsers \subseteq fleet
    /\ kernel = "executed" => browsers = {} /\ \A a \in Organisms : pc[a] \in Decided

PerformanceInv == /\ TypeOK
                  /\ executor = "docker" => dirty = {}
                  /\ \A a \in Organisms : LimitInv(a)
                  /\ Sighted => FleetInv /\ \A a \in Organisms : TriesInv(a)
-----------------------------------------------------------------------------
USE DEF Times, Short, Past, Decided

LEMMA PerformanceInitially == Init => PerformanceInv
<1> SUFFICES ASSUME Init PROVE PerformanceInv
  OBVIOUS
<1>1. TypeOK
  <2>1. 0 \in 0..MaxTries /\ NoResult \in [is : {"none", "valid", "invalid"}, by : Nat \X Nat]
    BY PerformanceAssumption DEF NoResult
  <2>2. result \in [Organisms -> [is : {"none", "valid", "invalid"}, by : Nat \X Nat]] /\ tries \in [Organisms -> 0..MaxTries]
    BY <2>1 DEF Init
  <2>3. /\ parents \in [Organisms -> SUBSET (Nat \X Nat)]
        /\ launch \in [Organisms -> {"none", "pending", "started", "ready", "collected", "failed"}]
    BY DEF Init
  <2>4. pc \in [Organisms -> {"trying", "running", "exited", "checking"} \cup Decided]
    BY DEF Init
  <2>5. browsing \in BOOLEAN /\ blind \in BOOLEAN
    BY Zenon DEF Init
  <2>6. /\ executor \in {"docker", "command"}
        /\ clock \in Times /\ attempt \in Nat /\ kernel = "idle"
        /\ fleet = {} /\ browsers = {} /\ dirty = {}
    BY DEF Init
  <2> QED BY <2>2, <2>3, <2>4, <2>5, <2>6 DEF TypeOK
<1>2. \A a \in Organisms : LimitInv(a) /\ TriesInv(a)
  BY PerformanceAssumption DEF Init, LimitInv, TriesInv, NoResult
<1>3. FleetInv /\ dirty = {}
  BY DEF Init, FleetInv
<1> QED BY <1>1, <1>2, <1>3 DEF PerformanceInv
-----------------------------------------------------------------------------
(* The kernel's thread. *)

\* What docker removes when it answers; blindness is not forgotten.
LEMMA RemoveOrphansKeeps ==
  ASSUME PerformanceInv, RemoveOrphans
  PROVE  PerformanceInv'
<1> USE DEF RemoveOrphans, OrphansLeft, PerformanceInv, setting, fleetvars, thread
<1>1. PICK answered \in BOOLEAN :
         /\ parents' = IF executor = "docker" /\ answered THEN [a \in Organisms |-> {}] ELSE parents
         /\ browsers' = IF answered THEN {} ELSE browsers
         /\ blind' = (blind \/ ~answered)
  OBVIOUS
<1>2. TypeOK'
  BY <1>1 DEF TypeOK
<1>3. \A a \in Organisms : LimitInv(a)'
  BY DEF LimitInv
<1>4. ASSUME Sighted' PROVE FleetInv' /\ \A a \in Organisms : TriesInv(a)'
  <2>1. Sighted /\ parents' = [a \in Organisms |-> {}] /\ browsers' = {}
    BY <1>1, <1>4 DEF Sighted
  <2>2. FleetInv'
    BY <2>1 DEF FleetInv
  <2>3. ASSUME NEW a \in Organisms PROVE TriesInv(a)'
    BY <2>1 DEF TriesInv, Current
  <2> QED BY <2>2, <2>3
<1> QED BY <1>2, <1>3, <1>4

LEMMA StartAttemptKeeps ==
  ASSUME PerformanceInv, StartAttempt
  PROVE  PerformanceInv'
<1> USE DEF StartAttempt, PerformanceInv, setting, containers
<1>1. TypeOK'
  BY PerformanceAssumption DEF TypeOK, NoResult
<1>2. \A a \in Organisms : LimitInv(a)'
  BY PerformanceAssumption DEF LimitInv
<1>3. ASSUME Sighted' PROVE FleetInv' /\ \A a \in Organisms : TriesInv(a)'
  <2>1. Sighted /\ browsers' = {}
    BY <1>3 DEF Sighted, FleetInv
  <2>2. FleetInv'
    BY <2>1 DEF FleetInv
  <2>3. ASSUME NEW a \in Organisms PROVE TriesInv(a)'
    <3>1. parents'[a] = {} /\ pc'[a] = "trying" /\ result'[a].is = "none"
      BY <2>1 DEF TriesInv, NoResult
    <3> QED BY <3>1 DEF TriesInv
  <2> QED BY <2>2, <2>3
<1> QED BY <1>1, <1>2, <1>3

\* The steps of the kernel that concern the browsers, or nothing at all.
FleetStep == \/ \E a \in Organisms : LaunchBrowser(a) \/ AwaitBrowser(a) \/ CollectBrowser(a)
             \/ AbandonFleet \/ FleetAbandoned \/ FleetReady \/ EndPerformance \/ RunAgain \/ Crash

LEMMA FleetKeeps ==
  ASSUME PerformanceInv, FleetStep
  PROVE  PerformanceInv'
<1> USE DEF PerformanceInv, setting, fleetvars, containers, thread, StopFleet
<1>1. UNCHANGED <<executor, browsing, clock, attempt, blind, parents, pc, tries, result, dirty>>
  BY DEF FleetStep, LaunchBrowser, AwaitBrowser, CollectBrowser, AbandonFleet, FleetAbandoned, FleetReady,
         EndPerformance, RunAgain, Crash
<1>2. kernel' # "checking"
  BY DEF FleetStep, LaunchBrowser, AwaitBrowser, CollectBrowser, AbandonFleet, FleetAbandoned, FleetReady,
         EndPerformance, RunAgain, Crash
<1>3. ASSUME FleetInv PROVE FleetInv'
  <2>1. CASE \E a \in Organisms : LaunchBrowser(a)
    BY <1>3, <2>1 DEF LaunchBrowser, FleetInv, TypeOK
  <2>2. CASE \E a \in Organisms : AwaitBrowser(a)
    BY <1>3, <2>2 DEF AwaitBrowser, FleetInv, TypeOK
  <2>3. CASE \E a \in Organisms : CollectBrowser(a)
    BY <1>3, <2>3 DEF CollectBrowser, FleetInv, TypeOK
  <2>4. CASE AbandonFleet \/ FleetAbandoned \/ RunAgain \/ Crash
    BY <2>4 DEF AbandonFleet, FleetAbandoned, RunAgain, Crash, FleetInv
  <2>5. CASE FleetReady
    BY <1>3, <2>5 DEF FleetReady, FleetInv, TypeOK
  <2>6. CASE EndPerformance
    BY <1>3, <2>6 DEF EndPerformance, FleetInv
  <2> QED BY <2>1, <2>2, <2>3, <2>4, <2>5, <2>6 DEF FleetStep
<1>4. TypeOK'
  <2>1. /\ launch' \in [Organisms -> {"none", "pending", "started", "ready", "collected", "failed"}]
        /\ fleet' \in SUBSET Organisms /\ browsers' \in SUBSET Organisms
    BY DEF FleetStep, LaunchBrowser, AwaitBrowser, CollectBrowser, AbandonFleet, FleetAbandoned, FleetReady,
           EndPerformance, RunAgain, Crash, TypeOK
  <2>2. kernel' \in {kernel, "abandoning", "interrupted", "performing", "executed", "idle", "down"}
    BY DEF FleetStep, LaunchBrowser, AwaitBrowser, CollectBrowser, AbandonFleet, FleetAbandoned, FleetReady,
           EndPerformance, RunAgain, Crash
  <2> QED BY <1>1, <2>1, <2>2 DEF TypeOK
<1>5. ASSUME NEW a \in Organisms PROVE LimitInv(a)' /\ (Sighted => TriesInv(a)')
  <2>1. TriesInv(a) => TriesInv(a)'
    BY <1>1, <1>2 DEF TriesInv, Current
  <2> QED BY <1>1, <2>1 DEF LimitInv
<1> QED BY <1>1, <1>3, <1>4, <1>5 DEF Sighted

LEMMA TickKeeps ==
  ASSUME PerformanceInv, Tick
  PROVE  PerformanceInv'
<1> USE DEF Tick, PerformanceInv, setting, fleetvars, containers, thread
<1>1. TypeOK' /\ \A a \in Organisms : LimitInv(a)'
  BY DEF TypeOK, LimitInv
<1>2. FleetInv => FleetInv'
  BY DEF FleetInv
<1>3. ASSUME NEW a \in Organisms, TriesInv(a) PROVE TriesInv(a)'
  BY <1>3 DEF TriesInv, Current, TypeOK
<1> QED BY <1>1, <1>2, <1>3 DEF Sighted
-----------------------------------------------------------------------------
(* The organisms' threads, and what runs for them. *)

OrganismStep(a) == \/ ExecutorStep(a) \/ ParentEnds(a)
                   \/ WriteResult(a) \/ WriteRepository(a) \/ OrphanEnds(a)

\* A step for one organism is nothing to the others and to the browsers.
LEMMA OrganismKeeps ==
  ASSUME PerformanceInv, NEW a \in Organisms, OrganismStep(a),
         TypeOK', LimitInv(a)', Sighted => TriesInv(a)'
  PROVE  PerformanceInv'
<1>1. /\ UNCHANGED <<executor, browsing, clock, kernel, attempt, blind, launch, fleet, browsers>>
      /\ executor = "docker" => dirty' = dirty
  BY DEF OrganismStep, ExecutorStep, StartParent, AssessTry, CheckResult, ParentEnds, WriteResult, WriteRepository,
         OrphanEnds, setting, fleetvars, containers, thread
<1>2. \A b \in Organisms \ {a} : UNCHANGED <<pc[b], tries[b], parents[b], result[b]>>
  BY DEF OrganismStep, ExecutorStep, StartParent, AssessTry, CheckResult, ParentEnds, WriteResult, WriteRepository,
         OrphanEnds, setting, fleetvars, containers, thread, Goto, PerformanceInv, TypeOK
<1>3. kernel = "executed" => pc' = pc
  BY DEF OrganismStep, ExecutorStep, StartParent, AssessTry, CheckResult, ParentEnds, WriteResult, WriteRepository,
         OrphanEnds, thread, Executing
<1>4. FleetInv => FleetInv'
  BY <1>1, <1>3 DEF FleetInv
<1>5. ASSUME NEW b \in Organisms, b # a PROVE LimitInv(b)' /\ (Sighted => TriesInv(b)')
  BY <1>1, <1>2, <1>5 DEF PerformanceInv, LimitInv, TriesInv, Current
<1> QED BY <1>1, <1>4, <1>5 DEF PerformanceInv, Sighted

LEMMA StartParentKeeps ==
  ASSUME PerformanceInv, NEW a \in Organisms, StartParent(a)
  PROVE  PerformanceInv'
<1> USE DEF StartParent, Executing, Goto, setting, fleetvars
<1>1. TypeOK /\ LimitInv(a) /\ (Sighted => TriesInv(a)) /\ tries[a] < MaxTries /\ pc[a] = "trying"
  BY DEF PerformanceInv, LimitInv
<1>2. NoResult \in [is : {"none", "valid", "invalid"}, by : Nat \X Nat] /\ NoResult.is = "none"
  BY DEF NoResult
<1>3. result' \in [Organisms -> [is : {"none", "valid", "invalid"}, by : Nat \X Nat]]
      /\ (result'[a] = result[a] \/ result'[a].is = "none")
  BY <1>1, <1>2 DEF TypeOK
<1>4. CASE clock = Past
  <2>1. TypeOK' /\ UNCHANGED <<tries, parents>>
    BY <1>1, <1>3, <1>4 DEF TypeOK
  <2>2. pc'[a] \in {"failed", "checking"}
    BY <1>1, <1>4 DEF TypeOK
  <2>3. LimitInv(a)'
    BY <2>2 DEF LimitInv
  <2>4. ASSUME TriesInv(a) PROVE TriesInv(a)'
    BY <1>1, <1>3, <1>4, <2>1, <2>2, <2>4 DEF TriesInv, Current
  <2> QED BY <1>1, <2>1, <2>3, <2>4, OrganismKeeps DEF OrganismStep, ExecutorStep
<1>5. CASE clock # Past
  <2>1. /\ tries' = [tries EXCEPT ![a] = tries[a] + 1] /\ tries[a] + 1 \in 0..MaxTries
        /\ parents' = [parents EXCEPT ![a] = parents[a] \cup {<<attempt, tries[a] + 1>>}]
        /\ pc'[a] = "running" /\ pc' = [pc EXCEPT ![a] = "running"]
    BY <1>1, <1>5, PerformanceAssumption DEF TypeOK
  <2>2. TypeOK'
    <3>1. <<attempt, tries[a] + 1>> \in Nat \X Nat
      BY <1>1, <2>1 DEF TypeOK
    <3> QED BY <1>1, <1>3, <2>1, <3>1 DEF TypeOK
  <2>3. LimitInv(a)'
    BY <2>1 DEF LimitInv
  <2>4. ASSUME TriesInv(a) PROVE TriesInv(a)'
    <3>1. result'[a].is = "none"
      BY <1>1, <1>3, <2>4 DEF TriesInv
    <3>2. parents'[a] = {Current(a)'}
      BY <1>1, <2>1, <2>4 DEF TriesInv, Current, TypeOK
    <3>3. kernel' = "performing"
      OBVIOUS
    <3> QED BY <2>1, <3>1, <3>2, <3>3 DEF TriesInv
  <2> QED BY <1>1, <2>2, <2>3, <2>4, OrganismKeeps DEF OrganismStep, ExecutorStep
<1> QED BY <1>4, <1>5

LEMMA ParentEndsKeeps ==
  ASSUME PerformanceInv, NEW a \in Organisms, ParentEnds(a)
  PROVE  PerformanceInv'
<1> USE DEF ParentEnds, Executing, Goto, setting, fleetvars
<1>1. TypeOK /\ (Sighted => TriesInv(a)) /\ UNCHANGED <<tries, result, attempt, kernel, clock>>
  BY DEF PerformanceInv
<1>2. TypeOK' /\ pc'[a] = "exited" /\ parents'[a] = parents[a] \ {Current(a)}
  BY <1>1 DEF TypeOK
<1>3. LimitInv(a)'
  BY <1>2 DEF LimitInv
<1>4. ASSUME TriesInv(a) PROVE TriesInv(a)'
  BY <1>1, <1>2, <1>4 DEF TriesInv, Current
<1> QED BY <1>1, <1>2, <1>3, <1>4, OrganismKeeps DEF OrganismStep

\* The docker executor goes on trying with no result left in the way.
LEMMA AssessTryKeeps ==
  ASSUME PerformanceInv, NEW a \in Organisms, AssessTry(a)
  PROVE  PerformanceInv'
<1> USE DEF AssessTry, Executing, Goto, setting, fleetvars, containers
<1>1. TypeOK /\ (Sighted => TriesInv(a)) /\ UNCHANGED <<tries, parents, attempt, kernel, clock>>
  BY DEF PerformanceInv
<1>2. NoResult \in [is : {"none", "valid", "invalid"}, by : Nat \X Nat] /\ NoResult.is = "none"
  BY DEF NoResult
<1>3. TypeOK'
  <2>1. result' \in [Organisms -> [is : {"none", "valid", "invalid"}, by : Nat \X Nat]]
    BY <1>1, <1>2 DEF TypeOK
  <2>2. pc' \in [Organisms -> {"trying", "running", "exited", "checking"} \cup Decided]
    BY <1>1 DEF TypeOK
  <2> QED BY <1>1, <2>1, <2>2 DEF TypeOK
<1>4. \/ pc'[a] = "checking" /\ result' = result /\ (executor = "command" \/ result[a].is = "valid")
      \/ pc'[a] = "trying" /\ tries[a] < MaxTries /\ result'[a].is = "none"
      \/ pc'[a] = "failed" /\ result'[a].is = "none" /\ ~(tries[a] < MaxTries /\ clock < Short)
  BY <1>1, <1>2 DEF TypeOK, MayRetry
<1>5. LimitInv(a)'
  BY <1>1, <1>4 DEF LimitInv
<1>6. ASSUME Sighted, TriesInv(a) PROVE TriesInv(a)'
  <2>1. executor = "docker" /\ pc[a] = "exited" /\ tries[a] \in 0..MaxTries /\ clock \in 0..2
    BY <1>1, <1>6 DEF Sighted, TypeOK
  <2>2. tries[a] < MaxTries \/ tries[a] = MaxTries
    BY <2>1, PerformanceAssumption
  <2>3. pc'[a] \in {"checking", "trying", "failed"} /\ parents[a] = {} /\ kernel = "performing"
    BY <1>4, <1>6, <2>1 DEF TriesInv
  <2> QED BY <1>1, <1>4, <1>6, <2>1, <2>2, <2>3 DEF TriesInv, Current
<1> QED BY <1>1, <1>3, <1>5, <1>6, OrganismKeeps DEF OrganismStep, ExecutorStep

LEMMA CheckResultKeeps ==
  ASSUME PerformanceInv, NEW a \in Organisms, CheckResult(a)
  PROVE  PerformanceInv'
<1> USE DEF CheckResult, Executing, Goto, setting, fleetvars, containers
<1>1. TypeOK /\ (Sighted => TriesInv(a) /\ a \notin dirty)
      /\ UNCHANGED <<tries, parents, result, attempt, kernel, clock>>
  BY DEF PerformanceInv, Sighted
<1>2. TypeOK' /\ pc'[a] = IF a \notin dirty /\ result[a].is = "valid" THEN "completed" ELSE "failed"
  BY <1>1 DEF TypeOK
<1>3. LimitInv(a)'
  BY <1>2 DEF LimitInv
<1>4. ASSUME Sighted PROVE TriesInv(a)'
  BY <1>1, <1>2, <1>4 DEF TriesInv, Current
<1> QED BY <1>2, <1>3, <1>4, OrganismKeeps DEF OrganismStep, ExecutorStep

\* Only the current try is there to write.
LEMMA WritesKeep ==
  ASSUME PerformanceInv, NEW a \in Organisms, WriteResult(a) \/ WriteRepository(a) \/ OrphanEnds(a)
  PROVE  PerformanceInv'
<1> USE DEF WriteResult, WriteRepository, OrphanEnds, setting, fleetvars, containers, thread
<1>1. TypeOK /\ LimitInv(a) /\ (Sighted => TriesInv(a)) /\ UNCHANGED <<pc, tries, attempt, kernel, clock>>
  BY DEF PerformanceInv
<1>2. /\ parents'[a] \subseteq parents[a]
      /\ result'[a] = result[a] \/ (result'[a].by \in parents[a] /\ result'[a].is # "none")
  BY <1>1 DEF TypeOK
<1>3. TypeOK'
  <2>1. CASE WriteResult(a)
    <3>1. PICK c \in parents[a], is \in {"valid", "invalid"} : result' = [result EXCEPT ![a] = [is |-> is, by |-> c]]
      BY <2>1
    <3>2. [is |-> is, by |-> c] \in [is : {"none", "valid", "invalid"}, by : Nat \X Nat]
      BY <1>1 DEF TypeOK
    <3> QED BY <1>1, <2>1, <3>1, <3>2 DEF TypeOK
  <2>2. CASE WriteRepository(a)
    BY <1>1, <2>2 DEF TypeOK
  <2>3. CASE OrphanEnds(a)
    <3>1. parents' \in [Organisms -> SUBSET (Nat \X Nat)]
      BY <1>1, <2>3 DEF TypeOK
    <3> QED BY <1>1, <2>3, <3>1 DEF TypeOK
  <2> QED BY <2>1, <2>2, <2>3
<1>4. LimitInv(a)'
  BY <1>1 DEF LimitInv
<1>5. ASSUME TriesInv(a) PROVE TriesInv(a)'
  <2>1. result'[a] = result[a] \/ (result'[a].by = Current(a) /\ pc[a] = "running")
    BY <1>2, <1>5 DEF TriesInv
  <2> QED BY <1>1, <1>2, <1>5, <2>1 DEF TriesInv, Current
<1> QED BY <1>1, <1>3, <1>4, <1>5, OrganismKeeps DEF OrganismStep
-----------------------------------------------------------------------------
LEMMA PerformanceStep == PerformanceInv /\ [Next]_vars => PerformanceInv'
<1> SUFFICES ASSUME PerformanceInv, [Next]_vars PROVE PerformanceInv'
  OBVIOUS
<1>1. CASE UNCHANGED vars
  BY <1>1 DEF vars, setting, fleetvars, containers, thread, PerformanceInv, TypeOK, LimitInv, TriesInv, FleetInv,
              Current, Sighted
<1>2. CASE KernelStep \/ RunAgain \/ Crash \/ Tick \/ \E a \in Organisms : LaunchBrowser(a) \/ AwaitBrowser(a)
  BY <1>2, RemoveOrphansKeeps, StartAttemptKeeps, FleetKeeps, TickKeeps DEF KernelStep, FleetStep
<1>3. ASSUME NEW a \in Organisms,
             ExecutorStep(a) \/ ParentEnds(a) \/ WriteResult(a) \/ WriteRepository(a) \/ OrphanEnds(a)
      PROVE  PerformanceInv'
  BY <1>3, StartParentKeeps, AssessTryKeeps, CheckResultKeeps, ParentEndsKeeps, WritesKeep DEF ExecutorStep
<1> QED BY <1>1, <1>2, <1>3 DEF Next

(* Whatever is interrupted or dies, nothing runs for an organism but its   *)
(* current try, and a browser that runs is one that the fleet will stop    *)
(* (engine.py:389, :596-598; containers.py:74-106; browsers.py:50-63).     *)
THEOREM PerformanceIsInvariant == Spec => []PerformanceInv
BY PerformanceInitially, PerformanceStep, PTL DEF Spec

(* For any number of organisms, tries and attempts, and a crash at any     *)
(* step: while docker answers, a result counts only when this attempt's    *)
(* last container wrote it, and one container at most is at work in an     *)
(* organism's state directory (containers.py:46-48, :75-106).              *)
THEOREM ResultIsItsOwn == Spec => []OwnResult
<1>1. PerformanceInv => OwnResult
  <2> SUFFICES ASSUME PerformanceInv, Sighted, NEW a \in Organisms
               PROVE  (pc[a] = "completed" => result[a].by = Current(a)) /\ Cardinality(parents[a]) <= 1
    BY DEF OwnResult
  <2>1. TriesInv(a)
    BY DEF PerformanceInv
  <2>2. parents[a] = {} \/ parents[a] = {Current(a)}
    BY <2>1 DEF TriesInv
  <2>3. Cardinality(parents[a]) <= 1
    <3>1. Cardinality(parents[a]) = 0 \/ Cardinality(parents[a]) = 1
      BY <2>2, FS_EmptySet, FS_Singleton, Zenon
    <3> QED BY <3>1
  <2> QED BY <2>1, <2>3 DEF TriesInv
<1> QED BY <1>1, PerformanceIsInvariant, PTL

(* An organism fails before the last ten seconds only when its tries are   *)
(* used up, for any limit of tries (containers.py:74-103).                 *)
THEOREM TriesAreUsed == Spec => []RestartedWhileItCould
<1>1. PerformanceInv => RestartedWhileItCould
  BY DEF PerformanceInv, TriesInv, RestartedWhileItCould, TypeOK
<1> QED BY <1>1, PerformanceIsInvariant, PTL

(* After a performance neither an organism nor a browser runs on, of this  *)
(* attempt or of one before it (engine.py:389, :596-598;                   *)
(* browsers.py:50-63).                                                     *)
THEOREM NothingRunsOn == Spec => []NothingOutlivesTheEpoch
<1>1. PerformanceInv => NothingOutlivesTheEpoch
  <2> SUFFICES ASSUME PerformanceInv, kernel = "executed", Sighted
               PROVE  browsers = {} /\ \A a \in Organisms : parents[a] = {}
    BY DEF NothingOutlivesTheEpoch
  <2>1. FleetInv /\ \A a \in Organisms : TriesInv(a)
    BY DEF PerformanceInv
  <2>2. browsers = {} /\ \A a \in Organisms : pc[a] # "running"
    BY <2>1 DEF FleetInv
  <2> QED BY <2>1, <2>2 DEF TriesInv
<1> QED BY <1>1, PerformanceIsInvariant, PTL
=============================================================================
