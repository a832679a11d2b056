------------------------- MODULE WorkerBrokerProofs -------------------------
(***************************************************************************)
(* What the broker promises, for any number of parents, requests, slots    *)
(* and permits.  A step of the broker is a step of the pool or leaves it   *)
(* alone, so the pool's theorems are the broker's.  BrokerInv adds what a  *)
(* request has done by the time that it gets to a point, and that once the *)
(* kernel has stopped the pool nobody is left who could be told anything:  *)
(* no parent is alive, nothing is queued, no container runs.               *)
(***************************************************************************)
EXTENDS WorkerBroker, FiniteSetTheorems, TLAPS

-----------------------------------------------------------------------------
(* The pool.  PoolInv is inductive: the counter of a parent is the number   *)
(* of its tasks that hold a slot.  Every step of the pool either takes a    *)
(* new handle, or moves one task, or shuts down; the three lemmas Taken,    *)
(* Moved and Closed say what that does to the counter.                      *)

\* What holds a slot.
Held(p) == Of(p, Live \cup Stranded)

LEMMA HandlesFinite == IsFiniteSet(Handles)
<1>1. IsFiniteSet(1..MaxSerial)
  BY PoolAssumption, FS_Interval
<1> QED BY <1>1, PoolAssumption, FS_Product DEF Handles

LEMMA OfFinite ==
  ASSUME NEW p, NEW states
  PROVE  IsFiniteSet(Of(p, states)) /\ Cardinality(Of(p, states)) \in Nat
<1>1. Of(p, states) \in SUBSET Handles
  BY DEF Of
<1> QED BY <1>1, HandlesFinite, FS_Subset, FS_CardinalityType

LEMMA PoolInitially == PoolInit => PoolInv
<1> SUFFICES ASSUME PoolInit PROVE PoolInv
  OBVIOUS
<1>1. PoolTypeOK
  BY PoolAssumption DEF PoolInit, PoolTypeOK, TaskStates, Live
<1>2. ASSUME NEW p \in Parents
      PROVE  active[p] = Cardinality(Held(p)) /\ active[p] <= Limit
  <2>1. Held(p) = {}
    BY DEF PoolInit, Held, Of, Live, Stranded, Running
  <2> QED BY <2>1, FS_EmptySet, PoolAssumption DEF PoolInit
<1>3. ASSUME NEW h \in Handles PROVE task[h] = "absent" /\ task[h] \notin Stranded
  BY DEF PoolInit, Stranded
<1> QED BY <1>1, <1>2, <1>3 DEF PoolInv, Held

\* A parent that takes a slot.
LEMMA Taken ==
  ASSUME PoolInv, NEW p \in Parents, NEW h \in Handles, Reserve(p, h)
  PROVE  PoolInv'
<1> USE DEF PoolInv, PoolTypeOK
<1>1. /\ h = <<p, serial[p] + 1>> /\ h[1] = p /\ h[2] = serial[p] + 1
      /\ serial[p] \in Nat /\ active[p] \in Nat /\ active[p] < Limit
  BY PoolAssumption DEF Reserve, NewHandle, HasSlot
<1>2. task[h] = "absent"
  BY <1>1
<1>3. /\ active' = [active EXCEPT ![p] = @ + 1]
      /\ serial' = [serial EXCEPT ![p] = @ + 1]
      /\ task' = [task EXCEPT ![h] = "reserved"]
      /\ up' = up /\ open' = open /\ serial[p] < MaxSerial
  BY DEF Reserve
<1>4. PoolTypeOK'
  BY <1>1, <1>3, PoolAssumption DEF TaskStates, Live
<1>5. ASSUME NEW q \in Parents
      PROVE  active'[q] = Cardinality(Held(q)') /\ active'[q] <= Limit
  <2>1. CASE q = p
    <3>1. Held(p)' = Held(p) \cup {h}
      BY <1>1, <1>3 DEF Held, Of, Live
    <3>2. h \notin Held(p)
      BY <1>2 DEF Held, Of, Live, Stranded, Running
    <3>3. Cardinality(Held(p)') = Cardinality(Held(p)) + 1
      BY <3>1, <3>2, OfFinite, FS_AddElement DEF Held
    <3>4. active[p] = Cardinality(Held(p))
      BY DEF Held
    <3>5. active'[p] = active[p] + 1 /\ active'[p] <= Limit
      BY <1>1, <1>3, PoolAssumption
    <3> QED BY <2>1, <3>3, <3>4, <3>5
  <2>2. CASE q # p
    <3>1. Held(q)' = Held(q)
      BY <2>2, <1>1, <1>3 DEF Held, Of
    <3> QED BY <2>2, <3>1, <1>3 DEF Held
  <2> QED BY <2>1, <2>2
<1>6. ASSUME NEW g \in Handles, g[2] > serial'[g[1]] PROVE task'[g] = "absent"
  <2>1. g[1] \in Parents /\ g[2] \in Nat /\ serial[g[1]] \in Nat
    BY PoolAssumption DEF Handles
  <2>2. g # h
    BY <1>1, <1>3, <1>6
  <2>3. g[2] > serial[g[1]]
    BY <1>1, <1>3, <1>6, <2>1
  <2> QED BY <2>2, <2>3, <1>3
<1>7. open' => \A g \in Handles : task'[g] \notin Stranded
  BY <1>3 DEF Stranded
<1> QED BY <1>4, <1>5, <1>6, <1>7 DEF Held

\* One task moves on: it keeps its slot, or gives it back.
LEMMA Moved ==
  ASSUME PoolInv, NEW h \in Handles, NEW state \in TaskStates \ {"absent"},
         task[h] \in Live, task' = [task EXCEPT ![h] = state],
         up' \in [Handles -> SUBSET {"worker", "browser"}],
         serial' = serial, open' = open, open => state \notin Stranded,
         active' = IF state \in Live \cup Stranded THEN active
                   ELSE [active EXCEPT ![h[1]] = @ - 1]
  PROVE  PoolInv'
<1> USE DEF PoolInv, PoolTypeOK
<1>1. h[1] \in Parents /\ h[2] \in Nat /\ h \in Held(h[1])
  BY DEF Handles, Held, Of
<1>2. ASSUME NEW q \in Parents
      PROVE  /\ active'[q] = Cardinality(Held(q)') /\ active'[q] <= Limit
             /\ active'[q] \in Nat
  <2>0. active[q] \in Nat /\ active[q] = Cardinality(Held(q)) /\ active[q] <= Limit
    BY DEF Held
  <2>1. CASE q = h[1] /\ state \notin Live \cup Stranded
    <3>1. Held(q)' = Held(q) \ {h}
      BY <2>1, <1>1 DEF Held, Of
    <3>0. IsFiniteSet(Held(q)) /\ h \in Held(q)
      BY <2>1, <1>1, OfFinite DEF Held
    <3>2. Cardinality(Held(q)') = Cardinality(Held(q)) - 1
      BY <3>0, <3>1, FS_RemoveElement
    <3>3. Cardinality(Held(q)') \in Nat
      BY <3>0, <3>1, FS_RemoveElement, FS_CardinalityType
    <3> QED BY <2>0, <2>1, <3>2, <3>3, PoolAssumption
  <2>2. CASE q # h[1] \/ state \in Live \cup Stranded
    <3>1. Held(q)' = Held(q)
      BY <2>2, <1>1 DEF Held, Of
    <3> QED BY <2>0, <2>2, <3>1
  <2> QED BY <2>1, <2>2
<1>3. PoolTypeOK'
  <2>1. active' \in [Parents -> Nat]
    <3>1. DOMAIN active' = Parents /\ active' = [q \in Parents |-> active'[q]]
      OBVIOUS
    <3> QED BY <3>1, <1>2
  <2> QED BY <2>1
<1>4. ASSUME NEW g \in Handles, g[2] > serial'[g[1]] PROVE task'[g] = "absent"
  BY <1>4 DEF Live, Running
<1>5. open' => \A g \in Handles : task'[g] \notin Stranded
  OBVIOUS
<1> QED BY <1>2, <1>3, <1>4, <1>5 DEF Held

\* The pool is shut down: what was queued is cancelled and keeps its slot.
LEMMA Closed ==
  ASSUME PoolInv, ShutDown
  PROVE  PoolInv'
<1> USE DEF PoolInv, PoolTypeOK
<1>1. /\ active' = active /\ serial' = serial /\ up' = up /\ open' = FALSE
      /\ task' = [h \in Handles |-> Cancelled(task[h])]
  BY DEF ShutDown
<1>2. ASSUME NEW h \in Handles
      PROVE  /\ Cancelled(task[h]) \in TaskStates
             /\ Cancelled(task[h]) \in Live \cup Stranded <=> task[h] \in Live \cup Stranded
             /\ task[h] = "absent" => Cancelled(task[h]) = "absent"
  BY DEF Cancelled, TaskStates, Over, Live, Stranded, Running
<1>3. ASSUME NEW p \in Parents PROVE Held(p)' = Held(p)
  BY <1>1, <1>2 DEF Held, Of
<1>4. PoolTypeOK'
  BY <1>1, <1>2
<1> QED BY <1>1, <1>2, <1>3, <1>4 DEF Held

LEMMA TaskStepKeeps ==
  ASSUME PoolInv, NEW h \in Handles, TaskStep(h)
  PROVE  PoolInv'
<1> USE DEF PoolInv, PoolTypeOK
<1>0. up[h] \in SUBSET {"worker", "browser"}
  OBVIOUS
<1>1. ASSUME NEW outcome \in {"done", "failed"}, NEW left \in SUBSET {"worker", "browser"},
             task[h] \in Live, GiveBack(h, outcome, left)
      PROVE  PoolInv'
  <2>1. outcome \in TaskStates \ {"absent"} /\ outcome \notin Live \cup Stranded
    BY DEF TaskStates, Over, Live, Stranded, Running
  <2>2. /\ active' = [active EXCEPT ![h[1]] = @ - 1]
        /\ task' = [task EXCEPT ![h] = outcome]
        /\ up' \in [Handles -> SUBSET {"worker", "browser"}]
        /\ serial' = serial /\ open' = open
    BY <1>1 DEF GiveBack
  <2> QED BY <2>1, <2>2, <1>1, Moved
<1>2. ASSUME StartTask(h) PROVE PoolInv'
  <2>0. task[h] \in Live
    BY <1>2 DEF StartTask, Live
  <2>1. CASE GiveBack(h, "failed", {})
    BY <1>1, <2>0, <2>1
  <2>2. CASE \E browser \in {{}, {"browser"}} :
               /\ up' = [up EXCEPT ![h] = browser]
               /\ task' = [task EXCEPT ![h] = "ready"]
               /\ UNCHANGED <<active, serial, open>>
    <3>1. "ready" \in TaskStates \ {"absent"} /\ "ready" \in Live \cup Stranded /\ "ready" \notin Stranded
      BY DEF TaskStates, Live, Running, Stranded
    <3>2. /\ up' \in [Handles -> SUBSET {"worker", "browser"}]
          /\ task' = [task EXCEPT ![h] = "ready"]
          /\ active' = active /\ serial' = serial /\ open' = open
      BY <2>2
    <3> QED BY <3>1, <3>2, <2>0, Moved
  <2> QED BY <1>2, <2>1, <2>2 DEF StartTask
<1>3. ASSUME RefuseTimeout(h) PROVE PoolInv'
  BY <1>0, <1>1, <1>3 DEF RefuseTimeout, Live, Running
<1>4. ASSUME LaunchContainer(h) PROVE PoolInv'
  <2>1. /\ "container" \in TaskStates \ {"absent"} /\ "container" \in Live \cup Stranded
        /\ "container" \notin Stranded /\ task[h] \in Live
    BY <1>4 DEF LaunchContainer, TaskStates, Live, Running, Stranded
  <2>2. /\ up' \in [Handles -> SUBSET {"worker", "browser"}]
        /\ task' = [task EXCEPT ![h] = "container"]
        /\ active' = active /\ serial' = serial /\ open' = open
    BY <1>0, <1>4 DEF LaunchContainer
  <2> QED BY <2>1, <2>2, Moved
<1>5. ASSUME EndContainer(h) PROVE PoolInv'
  BY <1>1, <1>5 DEF EndContainer, Live, Running
<1> QED BY <1>2, <1>3, <1>4, <1>5 DEF TaskStep

LEMMA SubmitKeeps ==
  ASSUME PoolInv, NEW h \in Handles, Submit(h)
  PROVE  PoolInv'
<1> DEFINE state == IF open THEN "queued" ELSE "rejected"
<1>1. /\ state \in TaskStates \ {"absent"} /\ state \in Live \cup Stranded
      /\ open => state \notin Stranded
  BY DEF TaskStates, Over, Live, Stranded, Running
<1>2. /\ task[h] \in Live /\ task' = [task EXCEPT ![h] = state]
      /\ up' = up /\ active' = active /\ serial' = serial /\ open' = open
  BY DEF Submit, Live
<1> HIDE DEF state
<1> QED BY <1>1, <1>2, Moved DEF PoolInv, PoolTypeOK

LEMMA PoolStepKeeps == PoolInv /\ [PoolNext]_poolvars => PoolInv'
<1> SUFFICES ASSUME PoolInv, [PoolNext]_poolvars PROVE PoolInv'
  OBVIOUS
<1>1. ASSUME NEW p \in Parents, NEW h \in Handles, Reserve(p, h) PROVE PoolInv'
  BY <1>1, Taken
<1>2. ASSUME NEW h \in Handles, Submit(h) \/ TaskStep(h) PROVE PoolInv'
  BY <1>2, SubmitKeeps, TaskStepKeeps
<1>3. ASSUME ShutDown PROVE PoolInv'
  BY <1>3, Closed
<1>4. ASSUME UNCHANGED poolvars PROVE PoolInv'
  BY <1>4 DEF poolvars, PoolInv, PoolTypeOK, Of
<1> QED BY <1>1, <1>2, <1>3, <1>4 DEF PoolNext

(* The counters are the slots that are held, whatever requests, tasks and  *)
(* the shutdown of the pool do in between (workers.py:46-62).              *)
THEOREM PoolIsCounted == PoolSpec => []PoolInv
BY PoolInitially, PoolStepKeeps, PTL DEF PoolSpec

LEMMA CountedIsLimited == PoolInv => WorkerLimit
<1> SUFFICES ASSUME PoolInv, NEW p \in Parents
             PROVE  Cardinality(Of(p, Live)) <= Limit
  BY DEF WorkerLimit
<1>1. Of(p, Live) \in SUBSET Held(p)
  BY DEF Of, Held
<1>2. Cardinality(Of(p, Live)) <= Cardinality(Held(p))
  BY <1>1, OfFinite, FS_Subset DEF Held
<1>3. Cardinality(Held(p)) <= Limit
  BY DEF PoolInv, Held
<1> QED BY <1>2, <1>3, OfFinite, PoolAssumption DEF Held

\* Only a handle that was never used is reserved.
LEMMA FreshHandle ==
  ASSUME PoolInv, PoolNext, NEW h \in Handles, task[h] # "absent", task[h] # "reserved"
  PROVE  task'[h] \notin {"absent", "reserved"}
<1> USE DEF PoolInv, PoolTypeOK
<1>1. ASSUME NEW p \in Parents, NEW g \in Handles, Reserve(p, g) PROVE task'[h] = task[h]
  <2>1. g[2] > serial[g[1]]
    BY <1>1, PoolAssumption DEF Reserve, NewHandle
  <2>2. task[g] = "absent"
    BY <2>1
  <2> QED BY <1>1, <2>2 DEF Reserve
<1>2. ASSUME NEW g \in Handles, Submit(g) PROVE task'[h] \notin {"absent", "reserved"}
  BY <1>2 DEF Submit
<1>3. ASSUME NEW g \in Handles, TaskStep(g) PROVE task'[h] \notin {"absent", "reserved"}
  BY <1>3 DEF TaskStep, StartTask, RefuseTimeout, LaunchContainer, EndContainer, GiveBack
<1>4. ASSUME ShutDown PROVE task'[h] \notin {"absent", "reserved"}
  BY <1>4 DEF ShutDown, Cancelled
<1> QED BY <1>1, <1>2, <1>3, <1>4 DEF PoolNext
-----------------------------------------------------------------------------
(* The broker. *)

Places == Ended \cup {"idle", "publishing", "published", "minted", "reserved", "submitted", "registered",
                     "told", "looking", "wanting", "waiting", "calling", "answered"}
Request == [at : Places, agent : Parents \cup {NoHandle}, worker : Handles \cup {NoHandle}, seen : Nat]

BrokerTypeOK == /\ req \in [Requests -> Request]
                /\ alive \subseteq Parents
                /\ identities \in [Handles -> {"none", "starting", "named"}]

\* From the moment at which the pool is stopped nobody can be told anything.
StoppedInv == /\ kernel # "performing" => alive = {} /\ ~open
              /\ ~open => \A h \in Handles : task[h] # "queued"
              /\ kernel \notin {"performing", "draining"} => \A h \in Handles : task[h] \notin Running

\* A worker that was submitted is one, and is found once its parent is told.
WorkersInv == \A r \in Requests :
    /\ At(r, "reserved") => req[r].worker \in Handles
    /\ At(r, "submitted") => /\ req[r].worker \in Handles
                             /\ task[req[r].worker] \notin {"absent", "reserved", "rejected"}
    /\ At(r, "registered") \/ At(r, "told") => req[r].worker \in jobs
    /\ At(r, "told") /\ kernel \in {"closed", "frozen"} => req[r].worker \in recorded

\* What was acknowledged is on record.
RecordsInv == \A r \in Requests :
    /\ At(r, "published") \/ At(r, "acknowledged") => r \in rows \cup traces
    /\ At(r, "acknowledged") /\ kernel = "frozen" => r \in frozen

BrokerInv == PoolInv /\ BrokerTypeOK /\ NoOrphanToken /\ StoppedInv /\ WorkersInv /\ RecordsInv
-----------------------------------------------------------------------------
LEMMA TableSizeTyped == TableSize \in Nat
<1>1. IsFiniteSet({h \in Handles : identities[h] # "none"})
  BY HandlesFinite, FS_Subset
<1>2. IsFiniteSet(Starting)
  BY BrokerAssumption, FS_Subset DEF Starting
<1> QED BY <1>1, <1>2, FS_CardinalityType DEF TableSize

LEMMA BrokerInitially == Init => BrokerInv
<1> SUFFICES ASSUME Init PROVE BrokerInv
  OBVIOUS
<1>1. PoolInv
  BY PoolInitially DEF Init
<1>2. BrokerTypeOK
  BY DEF Init, Idle, BrokerTypeOK, Request, Places
<1>3. NoOrphanToken /\ StoppedInv
  BY DEF Init, PoolInit, NoOrphanToken, StoppedInv, Running
<1>4. WorkersInv /\ RecordsInv
  BY DEF Init, Idle, WorkersInv, RecordsInv, At
<1> QED BY <1>1, <1>2, <1>3, <1>4 DEF BrokerInv
-----------------------------------------------------------------------------
(* The broker and its pool. *)

\* Whatever the pool does, what was submitted stays so; and once the kernel
\* has stopped it nothing starts any more.
LEMMA PoolGoesOn ==
  ASSUME PoolInv, StoppedInv, [PoolNext]_poolvars, UNCHANGED <<alive, kernel>>
  PROVE  /\ StoppedInv'
         /\ \A h \in Handles : task[h] \notin {"absent", "reserved", "rejected"}
                                 => task'[h] \notin {"absent", "reserved", "rejected"}
<1> USE DEF PoolInv, PoolTypeOK, StoppedInv
<1> DEFINE Submitted == \A h \in Handles : task[h] \notin {"absent", "reserved", "rejected"}
                                 => task'[h] \notin {"absent", "reserved", "rejected"}
<1>1. ASSUME NEW p \in Parents, NEW g \in Handles, Reserve(p, g) PROVE StoppedInv' /\ Submitted
  <2>1. task[g] = "absent"
    BY <1>1, PoolAssumption DEF Reserve, NewHandle
  <2> QED BY <1>1, <2>1 DEF Reserve, Running
<1>2. ASSUME NEW g \in Handles, Submit(g) PROVE StoppedInv' /\ Submitted
  BY <1>2 DEF Submit, Running
<1>3. ASSUME NEW g \in Handles, TaskStep(g) PROVE StoppedInv' /\ Submitted
  BY <1>3 DEF TaskStep, StartTask, RefuseTimeout, LaunchContainer, EndContainer, GiveBack, Running
<1>4. ASSUME ShutDown PROVE StoppedInv' /\ Submitted
  BY <1>4 DEF ShutDown, Cancelled, Running
<1>5. ASSUME UNCHANGED poolvars PROVE StoppedInv' /\ Submitted
  BY <1>5 DEF poolvars
<1> QED BY <1>1, <1>2, <1>3, <1>4, <1>5 DEF PoolNext
-----------------------------------------------------------------------------
(* The threads of the requests. *)

\* One request comes to a point that says nothing about its worker or its
\* record, or says what is so.
LEMMA RequestMoves ==
  ASSUME BrokerInv, NEW r \in Requests, NEW q \in Request,
         req' = [req EXCEPT ![r] = q], UNCHANGED <<poolvars, kernelvars>>,
         identities' \in [Handles -> {"none", "starting", "named"}], NoOrphanToken',
         jobs \subseteq jobs', rows \cup traces \subseteq rows' \cup traces',
         q.at \notin {"reserved", "submitted"},
         q.at \in {"registered", "told"} => q.worker \in jobs',
         q.at = "told" => kernel \notin {"closed", "frozen"},
         q.at \in {"published", "acknowledged"} => r \in rows' \cup traces',
         q.at = "acknowledged" => kernel # "frozen"
  PROVE  BrokerInv'
<1> USE DEF BrokerInv
<1>0. /\ task' = task /\ alive' = alive /\ kernel' = kernel
      /\ recorded' = recorded /\ frozen' = frozen
  BY DEF poolvars, kernelvars
<1>1. PoolInv'
  BY PoolStepKeeps
<1>2. BrokerTypeOK'
  BY <1>0 DEF BrokerTypeOK
<1>3. StoppedInv'
  BY <1>0, PoolGoesOn
<1>4. WorkersInv'
  BY <1>0 DEF WorkersInv, At, BrokerTypeOK
<1>5. RecordsInv'
  BY <1>0 DEF RecordsInv, At, BrokerTypeOK
<1> QED BY <1>1, <1>2, <1>3, <1>4, <1>5

\* Who hears an answer is a parent that is alive or a worker that runs, and
\* after the freeze there is neither.
LEMMA NobodyHears ==
  ASSUME BrokerInv, NEW r \in Requests, Hears(req[r].agent, req[r].worker)
  PROVE  kernel # "frozen"
BY DEF BrokerInv, BrokerTypeOK, Request, StoppedInv, Hears, Running

LEMMA ArriveKeeps ==
  ASSUME BrokerInv, NEW r \in Requests, Arrive(r)
  PROVE  BrokerInv'
<1> USE DEF BrokerInv, BrokerTypeOK
<1>1. ASSUME NEW p \in Parents, NEW h \in Handles \cup {NoHandle},
             NEW place \in {"publishing", "refused", "minted", "looking"}, NEW seen \in Nat,
             Accept(r, p, h, place, seen), UNCHANGED <<poolvars, ledger, directory, gates, kernelvars>>
      PROVE  BrokerInv'
  <2> DEFINE q == [at |-> place, agent |-> p, worker |-> h, seen |-> seen]
  <2>1. q \in Request /\ req' = [req EXCEPT ![r] = q] /\ q.at = place
    BY <1>1 DEF Request, Places, Ended, Accept
  <2>2. UNCHANGED <<poolvars, kernelvars, identities, jobs, rows, traces>>
    BY <1>1 DEF ledger, directory
  <2>3. NoOrphanToken'
    BY <2>2 DEF NoOrphanToken, poolvars
  <2> HIDE DEF q
  <2> QED BY <2>1, <2>2, <2>3, RequestMoves
<1>2. ASSUME NEW p \in Parents, CheckSpawn(r, p), UNCHANGED kernelvars PROVE BrokerInv'
  <2>1. PICK place \in {"refused", "minted"} : Accept(r, p, NoHandle, place, 0)
    BY <1>2 DEF CheckSpawn
  <2> QED BY <1>1, <1>2, <2>1 DEF CheckSpawn
<1>3. ASSUME NEW p \in Parents, NEW h \in Handles \cup {NoHandle},
             CheckPublication(r, p, h), UNCHANGED kernelvars
      PROVE  BrokerInv'
  <2>1. PICK place \in {"publishing", "refused"} : Accept(r, p, h, place, 0)
    BY <1>3 DEF CheckPublication
  <2> QED BY <1>1, <1>3, <2>1 DEF CheckPublication
<1>4. ASSUME NEW p \in Parents, NEW h \in Handles \cup {NoHandle},
             LookUp(r, p, h), UNCHANGED kernelvars
      PROVE  BrokerInv'
  BY <1>1, <1>4, TableSizeTyped DEF LookUp
<1> QED BY <1>2, <1>3, <1>4 DEF Arrive

\* Steps that only move their request, whoever hears of it.
LEMMA QuietSteps ==
  ASSUME BrokerInv, NEW r \in Requests, NEW q \in Request, req' = [req EXCEPT ![r] = q],
         UNCHANGED <<poolvars, kernelvars, identities, jobs>>,
         rows \cup traces \subseteq rows' \cup traces',
         q.at \in {"unheard", "refused", "dropped", "wanting", "waiting", "calling", "answered"}
  PROVE  BrokerInv'
<1>1. NoOrphanToken'
  BY DEF BrokerInv, NoOrphanToken, poolvars
<1>2. /\ q.at \notin {"reserved", "submitted", "registered", "told", "published", "acknowledged"}
      /\ identities' \in [Handles -> {"none", "starting", "named"}] /\ jobs \subseteq jobs'
  BY DEF BrokerInv, BrokerTypeOK
<1> QED BY <1>1, <1>2, RequestMoves

LEMMA Published ==
  ASSUME BrokerInv, NEW r \in Requests, AddRecord(r) \/ CountPublication(r), UNCHANGED kernelvars
  PROVE  BrokerInv'
<1> USE DEF BrokerInv, BrokerTypeOK
<1>1. NoOrphanToken'
  BY DEF AddRecord, CountPublication, NoOrphanToken, poolvars, directory
<1>2. UNCHANGED <<poolvars, kernelvars, identities, jobs>>
  BY DEF AddRecord, CountPublication, directory
<1>3. CASE AddRecord(r)
  <2> DEFINE q == [req[r] EXCEPT !.at = "published"]
  <2>1. q \in Request /\ q.at = "published" /\ req' = [req EXCEPT ![r] = q]
    BY <1>3 DEF AddRecord, Goto, Request, Places, Ended
  <2>2. rows' = rows \cup {r} /\ traces' = traces
    BY <1>3 DEF AddRecord
  <2> HIDE DEF q
  <2> QED BY <1>1, <1>2, <2>1, <2>2, RequestMoves
<1>4. CASE CountPublication(r)
  <2> DEFINE place == IF Hears(req[r].agent, req[r].worker) THEN "acknowledged" ELSE "unheard"
             q == [req[r] EXCEPT !.at = place]
  <2>1. q \in Request /\ q.at = place /\ req' = [req EXCEPT ![r] = q]
    BY <1>4 DEF CountPublication, Answer, Goto, Request, Places, Ended
  <2>2. r \in rows \cup traces /\ rows' = rows /\ traces' = traces
    BY <1>4 DEF CountPublication, RecordsInv
  <2>3. /\ place = "acknowledged" => kernel # "frozen"
        /\ place \notin {"reserved", "submitted", "registered", "told", "published"}
    BY NobodyHears
  <2> HIDE DEF q, place
  <2> QED BY <1>1, <1>2, <2>1, <2>2, <2>3, RequestMoves
<1> QED BY <1>3, <1>4

\* A model call: only its record, once written, is told.
LEMMA ModelCalls ==
  ASSUME BrokerInv, NEW r \in Requests, UNCHANGED kernelvars,
         \/ Identify(r) \/ TakeGlobal(r) \/ TakeAgent(r) \/ GiveUp(r) \/ TryAgain(r)
         \/ Completion(r) \/ RecordCall(r)
  PROVE  BrokerInv'
<1> USE DEF BrokerInv, BrokerTypeOK
<1>1. UNCHANGED <<poolvars, identities, jobs, rows>>
  BY DEF Identify, TakeGlobal, TakeAgent, GiveUp, TryAgain, Completion, RecordCall, ledger, directory
<1>2. CASE RecordCall(r) /\ r \in traces'
  <2> DEFINE q == [req[r] EXCEPT !.at = req'[r].at]
  <2>1. /\ q \in Request /\ req' = [req EXCEPT ![r] = q]
        /\ q.at \in {"acknowledged", "refused", "unheard"}
        /\ q.at = "acknowledged" => Hears(req[r].agent, req[r].worker)
    BY <1>2 DEF RecordCall, Answer, Goto, Request, Places, Ended
  <2>2. rows \cup traces \subseteq rows' \cup traces'
    BY <1>1, <1>2 DEF RecordCall
  <2>3. q.at = "acknowledged" => kernel # "frozen"
    BY <2>1, NobodyHears
  <2>4. NoOrphanToken'
    BY <1>1 DEF NoOrphanToken, poolvars
  <2> HIDE DEF q
  <2> QED BY <1>1, <1>2, <2>1, <2>2, <2>3, <2>4, RequestMoves
<1>3. CASE ~(RecordCall(r) /\ r \in traces')
  <2> DEFINE q == req'[r]
  <2>1. /\ q \in Request /\ req' = [req EXCEPT ![r] = q]
        /\ q.at \in {"unheard", "refused", "dropped", "wanting", "waiting", "calling", "answered"}
    <3>1. CASE Identify(r)
      BY <3>1 DEF Identify, Answer, Goto, Request, Places, Ended
    <3>2. CASE TakeGlobal(r) \/ Completion(r)
      BY <3>2 DEF TakeGlobal, Completion, Goto, Request, Places, Ended
    <3>3. CASE TakeAgent(r)
      BY <3>3 DEF TakeAgent, Request, Places, Ended
    <3>4. CASE GiveUp(r)
      BY <3>4 DEF GiveUp, Answer, Goto, Request, Places, Ended
    <3>5. CASE TryAgain(r)
      BY <3>5 DEF TryAgain, At, Request, Places, Ended
    <3>6. CASE RecordCall(r)
      BY <1>3, <3>6 DEF RecordCall, Answer, Goto, Request, Places, Ended
    <3> QED BY <3>1, <3>2, <3>3, <3>4, <3>5, <3>6
  <2>2. rows \cup traces \subseteq rows' \cup traces'
    BY <1>1 DEF Identify, TakeGlobal, TakeAgent, GiveUp, TryAgain, Completion, RecordCall, ledger
  <2> HIDE DEF q
  <2> QED BY <1>1, <2>1, <2>2, QuietSteps
<1> QED BY <1>2, <1>3

\* A request for a worker, apart from what it asks of the pool.
LEMMA SpawnSteps ==
  ASSUME BrokerInv, NEW r \in Requests, UNCHANGED kernelvars,
         RefuseSpawn(r) \/ RegisterWorker(r) \/ AnnounceWorker(r)
  PROVE  BrokerInv'
<1> USE DEF BrokerInv, BrokerTypeOK
<1> DEFINE q == req'[r]
<1>1. UNCHANGED <<poolvars, rows, traces>>
  BY DEF RefuseSpawn, RegisterWorker, AnnounceWorker, ledger
<1>2. CASE RefuseSpawn(r)
  <2>1. /\ q \in Request /\ req' = [req EXCEPT ![r] = q] /\ q.at \in {"refused", "unheard"}
        /\ UNCHANGED <<identities, jobs>>
    BY <1>2 DEF RefuseSpawn, Answer, Goto, Request, Places, Ended, directory
  <2> HIDE DEF q
  <2> QED BY <1>1, <2>1, QuietSteps
<1>3. CASE RegisterWorker(r)
  <2>1. /\ q \in Request /\ req' = [req EXCEPT ![r] = q]
        /\ q.at = "registered" /\ q.worker = req[r].worker
    BY <1>3 DEF RegisterWorker, Goto, Request, Places, Ended
  <2>2. /\ req[r].worker \in Handles
        /\ task[req[r].worker] \notin {"absent", "rejected"}
    BY <1>3 DEF RegisterWorker, WorkersInv
  <2>3. /\ identities' = [identities EXCEPT ![req[r].worker] = "named"]
        /\ jobs' = jobs \cup {req[r].worker}
    BY <1>3 DEF RegisterWorker
  <2>4. NoOrphanToken'
    BY <1>1, <2>2, <2>3 DEF NoOrphanToken, poolvars
  <2> HIDE DEF q
  <2> QED BY <1>1, <2>1, <2>3, <2>4, RequestMoves
<1>4. CASE AnnounceWorker(r)
  <2>1. /\ q \in Request /\ req' = [req EXCEPT ![r] = q]
        /\ q.at \in {"told", "unheard"} /\ q.worker = req[r].worker
        /\ q.at = "told" => alive # {}
        /\ UNCHANGED <<identities, jobs>>
    BY <1>4 DEF AnnounceWorker, Goto, Request, Places, Ended, directory
  <2>2. q.at = "told" => kernel \notin {"closed", "frozen"}
    BY <2>1 DEF StoppedInv
  <2>3. req[r].worker \in jobs
    BY <1>4 DEF AnnounceWorker, WorkersInv
  <2>4. NoOrphanToken'
    BY <1>1, <2>1 DEF NoOrphanToken, poolvars
  <2> HIDE DEF q
  <2> QED BY <1>1, <2>1, <2>2, <2>3, <2>4, RequestMoves
<1> QED BY <1>2, <1>3, <1>4
-----------------------------------------------------------------------------
(* Steps of the pool. *)

\* What is known of the worker of another request stays known.
LEMMA ReserveWorkerKeeps ==
  ASSUME BrokerInv, NEW r \in Requests, NEW h \in Handles, ReserveWorker(r, h), UNCHANGED kernelvars
  PROVE  BrokerInv' /\ PoolNext
<1> USE DEF BrokerInv, BrokerTypeOK
<1>1. /\ Reserve(req[r].agent, h) /\ req[r].agent \in Parents
      /\ task' = [task EXCEPT ![h] = "reserved"]
  BY DEF ReserveWorker, Reserve, NewHandle, Handles
<1>2. PoolNext
  BY <1>1 DEF PoolNext
<1>3. PoolInv'
  BY <1>2, PoolStepKeeps
<1>4. /\ req' = [req EXCEPT ![r].at = "reserved", ![r].worker = h]
      /\ identities' = [identities EXCEPT ![h] = "starting"]
      /\ UNCHANGED <<jobs, rows, traces, alive, kernel, recorded, frozen>>
  BY DEF ReserveWorker, ledger, kernelvars
<1>5. BrokerTypeOK'
  <2>1. [req[r] EXCEPT !.at = "reserved", !.worker = h] \in Request
    BY DEF Request, Places
  <2>2. req' = [req EXCEPT ![r] = [req[r] EXCEPT !.at = "reserved", !.worker = h]]
    BY <1>4
  <2> QED BY <1>4, <2>1, <2>2
<1>6. NoOrphanToken'
  BY <1>1, <1>4 DEF NoOrphanToken, PoolInv, PoolTypeOK
<1>7. StoppedInv' /\ \A g \in Handles : task[g] \notin {"absent", "reserved", "rejected"}
                        => task'[g] \notin {"absent", "reserved", "rejected"}
  BY <1>2, <1>4, PoolGoesOn
<1>8. WorkersInv'
  BY <1>4, <1>7 DEF WorkersInv, At
<1>9. RecordsInv'
  BY <1>4 DEF RecordsInv, At
<1> QED BY <1>2, <1>3, <1>5, <1>6, <1>7, <1>8, <1>9

LEMMA SubmitWorkerKeeps ==
  ASSUME BrokerInv, NEW r \in Requests, SubmitWorker(r), UNCHANGED kernelvars
  PROVE  BrokerInv' /\ PoolNext
<1> USE DEF BrokerInv, BrokerTypeOK
<1> DEFINE h == req[r].worker
<1>1. h \in Handles /\ Submit(h) /\ At(r, "reserved")
  BY DEF SubmitWorker, WorkersInv
<1>2. PoolNext
  BY <1>1 DEF PoolNext
<1>3. PoolInv'
  BY <1>2, PoolStepKeeps
<1>4. UNCHANGED <<jobs, rows, traces, alive, kernel, recorded, frozen>>
  BY DEF SubmitWorker, ledger, kernelvars
<1>5. StoppedInv' /\ \A g \in Handles : task[g] \notin {"absent", "reserved", "rejected"}
                        => task'[g] \notin {"absent", "reserved", "rejected"}
  BY <1>2, <1>4, PoolGoesOn
<1>6. CASE open
  <2>1. /\ req' = [req EXCEPT ![r].at = "submitted"] /\ identities' = identities
        /\ task' = [task EXCEPT ![h] = "queued"]
    BY <1>1, <1>6 DEF SubmitWorker, Submit, Goto
  <2>2. BrokerTypeOK'
    <3>1. [req[r] EXCEPT !.at = "submitted"] \in Request
      BY DEF Request, Places
    <3>2. req' = [req EXCEPT ![r] = [req[r] EXCEPT !.at = "submitted"]]
      BY <2>1
    <3> QED BY <1>4, <2>1, <3>1, <3>2
  <2>3. NoOrphanToken'
    BY <2>1 DEF NoOrphanToken, PoolInv, PoolTypeOK
  <2>4. WorkersInv'
    BY <1>1, <1>4, <1>5, <2>1 DEF WorkersInv, At, PoolInv, PoolTypeOK
  <2>5. RecordsInv'
    BY <1>4, <2>1 DEF RecordsInv, At
  <2> QED BY <1>2, <1>3, <1>5, <2>2, <2>3, <2>4, <2>5
<1>7. CASE ~open
  <2> DEFINE q == req'[r]
  <2>1. /\ identities' = [identities EXCEPT ![h] = "none"]
        /\ task' = [task EXCEPT ![h] = "rejected"]
        /\ q \in Request /\ req' = [req EXCEPT ![r] = q] /\ q.at \in {"refused", "unheard"}
    <3>1. RequestOfParent(r) \in Request
      BY DEF RequestOfParent, Request
    <3>2. ASSUME NEW place \in {"refused", "unheard"}
          PROVE  /\ [RequestOfParent(r) EXCEPT !.at = place] \in Request
                 /\ [RequestOfParent(r) EXCEPT !.at = place].at = place
      BY <3>1 DEF Request, Places, Ended
    <3>3. /\ req' = [req EXCEPT ![r] = [RequestOfParent(r) EXCEPT !.at =
                         IF req[r].agent \in alive THEN "refused" ELSE "unheard"]]
          /\ identities' = Revoked(h)
      BY <1>7 DEF SubmitWorker
    <3> HIDE DEF h
    <3> QED BY <1>1, <1>7, <3>2, <3>3 DEF Submit, Revoked
  <2> HIDE DEF q
  <2>2. BrokerTypeOK'
    BY <1>4, <2>1
  <2>3. NoOrphanToken'
    BY <2>1 DEF NoOrphanToken, PoolInv, PoolTypeOK
  <2>4. WorkersInv'
    BY <1>4, <1>5, <2>1 DEF WorkersInv, At
  <2>5. RecordsInv'
    BY <1>4, <2>1 DEF RecordsInv, At
  <2> QED BY <1>2, <1>3, <1>5, <2>2, <2>3, <2>4, <2>5
<1> QED BY <1>6, <1>7

LEMMA WorkKeeps ==
  ASSUME BrokerInv, NEW h \in Handles, Work(h)
  PROVE  BrokerInv' /\ PoolNext
<1> USE DEF BrokerInv, BrokerTypeOK
<1>1. PoolNext
  BY DEF Work, PoolNext
<1>2. PoolInv'
  BY <1>1, PoolStepKeeps
<1>3. UNCHANGED <<req, identities, jobs, rows, traces, alive, kernel, recorded, frozen>>
  BY DEF Work, requestvars, ledger, directory, kernelvars
<1>4. StoppedInv' /\ \A g \in Handles : task[g] \notin {"absent", "reserved", "rejected"}
                        => task'[g] \notin {"absent", "reserved", "rejected"}
  BY <1>1, <1>3, PoolGoesOn
<1>5. NoOrphanToken'
  BY <1>3 DEF Work, TaskStep, StartTask, RefuseTimeout, LaunchContainer, EndContainer, GiveBack,
              NoOrphanToken, PoolInv, PoolTypeOK
<1>6. BrokerTypeOK' /\ WorkersInv' /\ RecordsInv'
  BY <1>3, <1>4 DEF WorkersInv, RecordsInv, At
<1> QED BY <1>1, <1>2, <1>4, <1>5, <1>6
-----------------------------------------------------------------------------
(* The kernel's thread. *)

LEMMA KernelKeeps ==
  ASSUME BrokerInv, Stopping \/ DeadlinePasses \/ (\E p \in Parents : ParentEnds(p))
  PROVE  BrokerInv' /\ [PoolNext]_poolvars
<1> USE DEF BrokerInv, BrokerTypeOK
<1>1. CASE StopPool
  <2>1. ShutDown /\ PoolNext
    BY <1>1 DEF StopPool, PoolNext
  <2>2. PoolInv'
    BY <2>1, PoolStepKeeps
  <2>3. /\ UNCHANGED <<req, identities, jobs, rows, traces, alive, recorded, frozen>>
        /\ kernel' = "draining" /\ alive = {} /\ open' = FALSE
        /\ task' = [h \in Handles |-> Cancelled(task[h])]
    BY <1>1 DEF StopPool, ShutDown, requestvars, ledger, directory
  <2>4. NoOrphanToken' /\ StoppedInv'
    BY <2>3 DEF NoOrphanToken, StoppedInv, Cancelled
  <2>5. BrokerTypeOK' /\ WorkersInv' /\ RecordsInv'
    BY <2>3 DEF WorkersInv, RecordsInv, At, Cancelled
  <2> QED BY <2>1, <2>2, <2>4, <2>5
<1>2. ASSUME UNCHANGED <<poolvars, requestvars, alive, frozen>>, recorded \subseteq recorded',
             kernel' \in {"recording", "closed", "failed"}, kernel # "performing",
             kernel' # "draining", \A h \in Handles : task[h] \notin Running,
             kernel' = "closed" => jobs \subseteq recorded'
      PROVE  BrokerInv' /\ [PoolNext]_poolvars
  <2>1. UNCHANGED <<req, identities, jobs, rows, traces, alive, frozen, task, open>>
    BY <1>2 DEF poolvars, requestvars, ledger, directory
  <2>2. PoolInv'
    BY <1>2, PoolStepKeeps
  <2>3. NoOrphanToken' /\ StoppedInv'
    BY <1>2, <2>1 DEF NoOrphanToken, StoppedInv
  <2>4. BrokerTypeOK' /\ WorkersInv' /\ RecordsInv'
    BY <1>2, <2>1 DEF WorkersInv, RecordsInv, At
  <2> QED BY <1>2, <2>2, <2>3, <2>4
<1>3. CASE PoolDrained
  BY <1>2, <1>3 DEF PoolDrained, Quiet, BusyThreads
<1>4. ASSUME NEW h \in Handles, RecordWorker(h) PROVE BrokerInv' /\ [PoolNext]_poolvars
  BY <1>2, <1>4 DEF RecordWorker, StoppedInv
<1>5. CASE StopRaises
  BY <1>2, <1>5 DEF StopRaises, StoppedInv
<1>6. CASE CloseServer
  BY <1>2, <1>6 DEF CloseServer, StoppedInv
<1>7. CASE Freeze
  <2>1. /\ UNCHANGED <<req, identities, jobs, rows, traces, alive, recorded, task, open>>
        /\ UNCHANGED poolvars /\ kernel = "closed" /\ kernel' = "frozen"
        /\ frozen' = rows \cup traces
    BY <1>7 DEF Freeze, poolvars, requestvars, ledger, directory
  <2>2. PoolInv'
    BY <2>1, PoolStepKeeps
  <2>3. NoOrphanToken' /\ StoppedInv'
    BY <2>1 DEF NoOrphanToken, StoppedInv
  <2>4. BrokerTypeOK' /\ WorkersInv' /\ RecordsInv'
    BY <2>1 DEF WorkersInv, RecordsInv, At
  <2> QED BY <2>1, <2>2, <2>3, <2>4
<1>8. CASE DeadlinePasses \/ \E p \in Parents : ParentEnds(p)
  <2>1. /\ UNCHANGED <<req, identities, jobs, rows, traces, recorded, frozen, kernel, task, open>>
        /\ UNCHANGED poolvars /\ alive' \subseteq alive
    BY <1>8 DEF DeadlinePasses, ParentEnds, poolvars, requestvars, ledger, directory
  <2>2. PoolInv'
    BY <2>1, PoolStepKeeps
  <2>3. NoOrphanToken' /\ StoppedInv'
    BY <2>1 DEF NoOrphanToken, StoppedInv
  <2>4. BrokerTypeOK' /\ WorkersInv' /\ RecordsInv'
    BY <2>1 DEF WorkersInv, RecordsInv, At
  <2> QED BY <2>1, <2>2, <2>3, <2>4
<1> QED BY <1>1, <1>3, <1>4, <1>5, <1>6, <1>7, <1>8 DEF Stopping
-----------------------------------------------------------------------------
LEMMA BrokerStepKeeps == BrokerInv /\ [Next]_vars => BrokerInv' /\ [PoolNext]_poolvars
<1> SUFFICES ASSUME BrokerInv, [Next]_vars PROVE BrokerInv' /\ [PoolNext]_poolvars
  OBVIOUS
<1>1. ASSUME NEW r \in Requests, Arrive(r) PROVE BrokerInv' /\ [PoolNext]_poolvars
  <2>1. UNCHANGED poolvars
    BY <1>1 DEF Arrive, CheckSpawn, CheckPublication, LookUp
  <2> QED BY <1>1, <2>1, ArriveKeeps
<1>2. ASSUME NEW r \in Requests, Serve(r) PROVE BrokerInv' /\ [PoolNext]_poolvars
  <2>0. UNCHANGED kernelvars
    BY <1>2 DEF Serve
  <2>1. CASE AddRecord(r) \/ CountPublication(r)
    BY <2>0, <2>1, Published DEF AddRecord, CountPublication
  <2>2. CASE RefuseSpawn(r) \/ RegisterWorker(r) \/ AnnounceWorker(r)
    BY <2>0, <2>2, SpawnSteps DEF RefuseSpawn, RegisterWorker, AnnounceWorker
  <2>3. ASSUME NEW h \in Handles, ReserveWorker(r, h) PROVE BrokerInv' /\ [PoolNext]_poolvars
    BY <2>0, <2>3, ReserveWorkerKeeps
  <2>4. CASE SubmitWorker(r)
    BY <2>0, <2>4, SubmitWorkerKeeps
  <2>5. CASE \/ Identify(r) \/ TakeGlobal(r) \/ TakeAgent(r) \/ GiveUp(r) \/ TryAgain(r)
             \/ Completion(r) \/ RecordCall(r)
    BY <2>0, <2>5, ModelCalls DEF Identify, TakeGlobal, TakeAgent, GiveUp, TryAgain, Completion, RecordCall
  <2> QED BY <1>2, <2>1, <2>2, <2>3, <2>4, <2>5 DEF Serve
<1>3. ASSUME NEW h \in Handles, Work(h) PROVE BrokerInv' /\ [PoolNext]_poolvars
  BY <1>3, WorkKeeps
<1>4. CASE Stopping \/ DeadlinePasses \/ \E p \in Parents : ParentEnds(p)
  BY <1>4, KernelKeeps
<1>5. CASE UNCHANGED vars
  <2>1. UNCHANGED <<poolvars, req, identities, jobs, rows, traces, alive, recorded, frozen, kernel, task, open>>
    BY <1>5 DEF vars, poolvars, requestvars, ledger, directory, kernelvars
  <2>2. PoolInv'
    BY <2>1, PoolStepKeeps DEF BrokerInv
  <2>3. NoOrphanToken' /\ StoppedInv'
    BY <2>1 DEF BrokerInv, NoOrphanToken, StoppedInv
  <2>4. BrokerTypeOK' /\ WorkersInv' /\ RecordsInv'
    BY <2>1 DEF BrokerInv, BrokerTypeOK, WorkersInv, RecordsInv, At
  <2> QED BY <2>1, <2>2, <2>3, <2>4 DEF BrokerInv
<1> QED BY <1>1, <1>2, <1>3, <1>4, <1>5 DEF Next

(* What is known at each point of each thread, of requests, tokens, slots  *)
(* and records together (worker_broker.py, workers.py).                    *)
THEOREM BrokerIsSound == Spec => []BrokerInv
BY BrokerInitially, BrokerStepKeeps, PTL DEF Spec

(* The broker uses its pool as a pool: it never submits what it did not    *)
(* reserve, and nothing but the pool moves its tasks (worker_broker.py:151,*)
(* workers.py:46-62).                                                      *)
THEOREM BrokerUsesPool == Spec => PoolSpec
<1>1. Init => PoolInit
  BY DEF Init
<1> QED BY <1>1, BrokerInitially, BrokerStepKeeps, PTL DEF Spec, PoolSpec

(* No parent ever has more live workers than its limit (workers.py:46-62). *)
THEOREM LimitIsKept == Spec => []WorkerLimit
BY BrokerUsesPool, PoolIsCounted, CountedIsLimited, PTL

(* A handle, which names a directory that is wiped, is reserved only once  *)
(* (workers.py:52-53, :88-90).                                             *)
THEOREM HandlesStayFresh == Spec => HandlesAreFresh
<1>1. BrokerInv /\ [Next]_vars =>
        [\A h \in Handles : task[h] # "absent" => task'[h] # "reserved" \/ task[h] = "reserved"]_task
  <2> SUFFICES ASSUME BrokerInv, PoolNext, NEW h \in Handles, task[h] # "absent", task[h] # "reserved"
               PROVE  task'[h] # "reserved"
    BY BrokerStepKeeps DEF poolvars
  <2> QED BY FreshHandle DEF BrokerInv
<1> QED BY <1>1, BrokerIsSound, PTL DEF Spec, HandlesAreFresh

(* A refused request for a worker leaves no token (worker_broker.py:140-150). *)
THEOREM TokensHaveWorkers == Spec => []NoOrphanToken
BY BrokerIsSound, PTL DEF BrokerInv

(* A worker that its parent was told of can be asked for, and has its      *)
(* record before the attempt is frozen (worker_broker.py:152, :237-247).   *)
THEOREM ToldWorkersAreRecorded == Spec => []ToldWorkersOnRecord
<1>1. BrokerInv => ToldWorkersOnRecord
  BY DEF BrokerInv, WorkersInv, ToldWorkersOnRecord, Told
<1> QED BY <1>1, BrokerIsSound, PTL

(* What was acknowledged is in the frozen attempt, although requests write *)
(* after it (worker_broker.py:120-122, :188-195, engine.py:596-602).       *)
THEOREM AcknowledgedStays == Spec => []AcknowledgedIsFrozen
<1>1. BrokerInv => AcknowledgedIsFrozen
  BY DEF BrokerInv, RecordsInv, AcknowledgedIsFrozen
<1> QED BY <1>1, BrokerIsSound, PTL
=============================================================================
