---------------------------- MODULE WorkerBroker ----------------------------
(***************************************************************************)
(* The broker of one epoch (worker_broker.py) with the kernel's thread     *)
(* around it (Kernel._execute_epoch): parents and workers publish what     *)
(* they found, parents ask for workers, both call models.  Every request   *)
(* has a thread of its own; when the parents have ended the kernel shuts   *)
(* the pool down, records every worker, closes the server and freezes the  *)
(* attempt.  Threads of requests under way outlive the server.             *)
(***************************************************************************)
EXTENDS WorkerPool

CONSTANTS Requests,       \* bound: the requests of the epoch
          RecordLimit,    \* KADATH_KNOWLEDGE_RECORD_LIMIT; 200
          GlobalPermits,  \* KADATH_MODEL_GLOBAL_CONCURRENCY; 64
          AgentPermits,   \* model calls of one organism at a time; 2
          Attempts,       \* tries of a model call; 4
          NoHandle        \* the worker of a request that a parent makes itself

ASSUME BrokerAssumption == IsFiniteSet(Requests)

VARIABLES alive,       \* the parents whose container runs
          late,        \* the deadline has passed
          req,         \* the thread of every request
          counts,      \* WorkerBroker._publish_counts
          rows,        \* requests whose record is in the store
          traces,      \* requests whose model call is on record
          identities,  \* WorkerBroker._model_identities, by worker
          jobs,        \* WorkerBroker.jobs
          global,      \* permits left for all model calls
          permits,     \* permits left for an organism's model calls
          kernel,      \* where the kernel's thread is
          visit,       \* the job table as the kernel's loop found it
          recorded,    \* workers with a completion record
          frozen       \* what was on record when the attempt was frozen

ledger == <<counts, rows, traces>>
directory == <<identities, jobs>>
gates == <<global, permits>>
requestvars == <<req, ledger, directory, gates>>
kernelvars == <<alive, late, kernel, visit, recorded, frozen>>
vars == <<poolvars, requestvars, kernelvars>>

Idle == [at |-> "idle", agent |-> NoHandle, worker |-> NoHandle, seen |-> 0]
Ended == {"acknowledged", "refused", "dropped", "unheard"}

Init == /\ PoolInit
        /\ alive = Parents
        /\ late = FALSE
        /\ req = [r \in Requests |-> Idle]
        /\ counts = [p \in Parents |-> 0]
        /\ rows = {} /\ traces = {} /\ jobs = {} /\ recorded = {} /\ frozen = {}
        /\ identities = [h \in Handles |-> "none"]
        /\ global = GlobalPermits
        /\ permits = [p \in Parents |-> AgentPermits]
        /\ kernel = "performing"
        /\ visit = {}

\* Who can send a request: a parent, or a worker of its with a token.
Serving == kernel # "frozen" /\ kernel # "failed"
Hears(p, h) == IF h = NoHandle THEN p \in alive ELSE task[h] = "container"
Authorized(p, h) == h = NoHandle \/ (h \in Handles /\ h[1] = p /\ identities[h] # "none")
At(r, place) == req[r].at = place
Goto(r, place) == req' = [req EXCEPT ![r].at = place]
Answer(r, answer) == Goto(r, IF Hears(req[r].agent, req[r].worker) THEN answer ELSE "unheard")
Accept(r, p, h, place, seen) ==
    req' = [req EXCEPT ![r] = [at |-> place, agent |-> p, worker |-> h, seen |-> seen]]

Send(r, p, h) == /\ At(r, "idle") /\ Serving
                 /\ Hears(p, h) /\ Authorized(p, h)
-----------------------------------------------------------------------------
(* POST /knowledge *)
MayPublish(p) == ~late /\ counts[p] < RecordLimit

CheckPublication(r, p, h) ==
    /\ Send(r, p, h)
    /\ Accept(r, p, h, IF MayPublish(p) THEN "publishing" ELSE "refused", 0)
    /\ UNCHANGED <<poolvars, ledger, directory, gates>>

AddRecord(r) ==
    /\ At(r, "publishing")
    /\ rows' = rows \cup {r}
    /\ Goto(r, "published")
    /\ UNCHANGED <<poolvars, directory, gates, counts, traces>>

CountPublication(r) ==
    /\ At(r, "published")
    /\ counts' = [counts EXCEPT ![req[r].agent] = @ + 1]
    /\ Answer(r, "acknowledged")
    /\ UNCHANGED <<poolvars, directory, gates, rows, traces>>
-----------------------------------------------------------------------------
(* POST /workers.  The token is in the table before the worker has a name. *)
Starting == {r \in Requests : At(r, "minted")}
TableSize == Cardinality({h \in Handles : identities[h] # "none"}) + Cardinality(Starting)

CheckSpawn(r, p) ==
    /\ Send(r, p, NoHandle)
    /\ Accept(r, p, NoHandle, IF late THEN "refused" ELSE "minted", 0)
    /\ UNCHANGED <<poolvars, ledger, directory, gates>>

\* Tools or a task that are not acceptable, or no slot left.
RefuseSpawn(r) ==
    /\ At(r, "minted")
    /\ Answer(r, "refused")
    /\ UNCHANGED <<poolvars, ledger, directory, gates>>

ReserveWorker(r, h) ==
    /\ At(r, "minted")
    /\ Reserve(req[r].agent, h)
    /\ identities' = [identities EXCEPT ![h] = "starting"]
    /\ req' = [req EXCEPT ![r].at = "reserved", ![r].worker = h]
    /\ UNCHANGED <<ledger, gates, jobs>>

\* The submission of a pool that is shut down raises: the token is taken back.
Unrevoked(h) == identities
Revoked(h) == [identities EXCEPT ![h] = "none"]
RequestOfParent(r) == [req[r] EXCEPT !.worker = NoHandle]

SubmitWorker(r) ==
    LET h == req[r].worker IN
    /\ At(r, "reserved")
    /\ Submit(h)
    /\ IF open
       THEN Goto(r, "submitted") /\ UNCHANGED identities
       ELSE /\ identities' = Revoked(h)
            /\ req' = [req EXCEPT ![r] =
                  [RequestOfParent(r) EXCEPT !.at = IF req[r].agent \in alive THEN "refused" ELSE "unheard"]]
    /\ UNCHANGED <<ledger, gates, jobs>>

RegisterWorker(r) ==
    LET h == req[r].worker IN
    /\ At(r, "submitted")
    /\ identities' = [identities EXCEPT ![h] = "named"]
    /\ jobs' = jobs \cup {h}
    /\ Goto(r, "registered")
    /\ UNCHANGED <<poolvars, ledger, gates>>

AnnounceBeforeRegistering(r) ==
    /\ At(r, "submitted")
    /\ Goto(r, IF req[r].agent \in alive THEN "told" ELSE "unheard")
    /\ UNCHANGED <<poolvars, ledger, directory, gates>>

AnnounceWorker(r) ==
    /\ At(r, "registered")
    /\ Goto(r, IF req[r].agent \in alive THEN "told" ELSE "unheard")
    /\ UNCHANGED <<poolvars, ledger, directory, gates>>
-----------------------------------------------------------------------------
(* POST /chat/completions.  The token is looked for in the whole table; a  *)
(* table that grows or shrinks meanwhile ends the request without answer.  *)
LookUp(r, p, h) ==
    /\ Send(r, p, h)
    /\ Accept(r, p, h, "looking", TableSize)
    /\ UNCHANGED <<poolvars, ledger, directory, gates>>

Identify(r) ==
    /\ At(r, "looking")
    /\ CASE TableSize # req[r].seen -> Goto(r, "dropped")
         [] TableSize = req[r].seen /\ late -> Answer(r, "refused")
         [] OTHER -> Goto(r, "wanting")
    /\ UNCHANGED <<poolvars, ledger, directory, gates>>

TakeGlobal(r) ==
    /\ At(r, "wanting") /\ global > 0
    /\ global' = global - 1
    /\ Goto(r, "waiting")
    /\ UNCHANGED <<poolvars, ledger, directory, permits>>

TakeAgent(r) ==
    /\ At(r, "waiting") /\ permits[req[r].agent] > 0
    /\ permits' = [permits EXCEPT ![req[r].agent] = @ - 1]
    /\ req' = [req EXCEPT ![r].at = "calling", ![r].seen = 0]
    /\ UNCHANGED <<poolvars, ledger, directory, global>>

ReleaseGlobalOnly(r) == global' = global + 1 /\ UNCHANGED permits
Release(r) == /\ global' = global + 1
              /\ permits' = [permits EXCEPT ![req[r].agent] = @ + 1]

\* The deadline is looked at again once both permits are held, before the
\* first of the tries.
GiveUp(r) ==
    /\ At(r, "calling")
    /\ \/ late /\ req[r].seen = 0
       \/ req[r].seen = Attempts
    /\ Release(r)
    /\ Answer(r, "refused")
    /\ UNCHANGED <<poolvars, ledger, directory>>

TryAgain(r) ==
    /\ At(r, "calling") /\ req[r].seen < Attempts
    /\ ~(late /\ req[r].seen = 0)
    /\ req' = [req EXCEPT ![r].seen = @ + 1]
    /\ UNCHANGED <<poolvars, ledger, directory, gates>>

Completion(r) ==
    /\ At(r, "calling") /\ req[r].seen < Attempts
    /\ ~(late /\ req[r].seen = 0)
    /\ Release(r)
    /\ Goto(r, "answered")
    /\ UNCHANGED <<poolvars, ledger, directory>>

\* The trace is written and the event is added before the reply.
RecordCall(r) ==
    /\ At(r, "answered")
    /\ \/ traces' = traces \cup {r} /\ Answer(r, "acknowledged")
       \/ UNCHANGED traces /\ Answer(r, "refused")
    /\ UNCHANGED <<poolvars, directory, gates, counts, rows>>
-----------------------------------------------------------------------------
(* The kernel's thread: Kernel._execute_epoch and WorkerBroker.stop. *)
DeadlinePasses == /\ ~late
                  /\ late' = TRUE
                  /\ UNCHANGED <<poolvars, requestvars, alive, kernel, visit, recorded, frozen>>

\* The executor removes the container when the parent exits or at the deadline.
ParentEnds(p) == /\ p \in alive
                 /\ alive' = alive \ {p}
                 /\ UNCHANGED <<poolvars, requestvars, late, kernel, visit, recorded, frozen>>

StopPool == /\ kernel = "performing" /\ alive = {}
            /\ ShutDown
            /\ kernel' = "draining"
            /\ UNCHANGED <<requestvars, alive, late, visit, recorded, frozen>>

PoolDrained == /\ kernel = "draining" /\ Quiet
               /\ kernel' = "recording"
               /\ visit' = jobs
               /\ UNCHANGED <<poolvars, requestvars, alive, late, recorded, frozen>>

\* The loop raises once the table is not the one that it started with.
RecordWorker(h) ==
    /\ kernel = "recording" /\ jobs = visit
    /\ h \in visit \ recorded
    /\ recorded' = recorded \cup {h}
    /\ UNCHANGED <<poolvars, requestvars, alive, late, kernel, visit, frozen>>

StopRaises == /\ kernel = "recording" /\ jobs # visit
              /\ kernel' = "failed"
              /\ UNCHANGED <<poolvars, requestvars, alive, late, visit, recorded, frozen>>

CloseServer == /\ kernel = "recording" /\ jobs = visit /\ visit = recorded
               /\ kernel' = "closed"
               /\ UNCHANGED <<poolvars, requestvars, alive, late, visit, recorded, frozen>>

FreezeBeforeDraining == /\ kernel = "draining"
                        /\ kernel' = "frozen"
                        /\ frozen' = rows \cup traces
                        /\ UNCHANGED <<poolvars, requestvars, alive, late, visit, recorded>>

Freeze == /\ kernel = "closed"
          /\ kernel' = "frozen"
          /\ frozen' = rows \cup traces
          /\ UNCHANGED <<poolvars, requestvars, alive, late, visit, recorded>>
-----------------------------------------------------------------------------
\* A request arrives, and its thread goes on with it; none of them moves the
\* kernel's thread.
Arrive(r) == /\ \E p \in Parents :
                   \/ CheckSpawn(r, p)
                   \/ \E h \in Handles \cup {NoHandle} : CheckPublication(r, p, h) \/ LookUp(r, p, h)
             /\ UNCHANGED kernelvars

Serve(r) == /\ \/ AddRecord(r) \/ CountPublication(r)
               \/ RefuseSpawn(r) \/ (\E h \in Handles : ReserveWorker(r, h)) \/ SubmitWorker(r)
               \/ RegisterWorker(r) \/ AnnounceWorker(r)
               \/ Identify(r) \/ TakeGlobal(r) \/ TakeAgent(r) \/ GiveUp(r) \/ TryAgain(r)
               \/ Completion(r) \/ RecordCall(r)
            /\ UNCHANGED kernelvars

Work(h) == TaskStep(h) /\ UNCHANGED <<requestvars, kernelvars>>

Stopping == StopPool \/ PoolDrained \/ (\E h \in Handles : RecordWorker(h))
            \/ StopRaises \/ CloseServer \/ Freeze

Next == \/ \E r \in Requests : Arrive(r) \/ Serve(r)
        \/ \E h \in Handles : Work(h)
        \/ \E p \in Parents : ParentEnds(p)
        \/ DeadlinePasses
        \/ Stopping

Spec == Init /\ [][Next]_vars

\* Threads are scheduled, every wait on a container or on the gateway has a
\* time limit, and time passes.
Fairness == /\ \A r \in Requests : WF_vars(Serve(r))
            /\ \A h \in Handles : WF_vars(Work(h))
            /\ \A p \in Parents : WF_vars(ParentEnds(p))
            /\ WF_vars(Stopping)

FairSpec == Spec /\ Fairness
-----------------------------------------------------------------------------
(* A token is good only for a worker that was accepted or whose request is *)
(* still being served: one that is refused leaves none (:140-150).         *)
NoOrphanToken == \A h \in Handles :
    identities[h] # "none" => task[h] \notin {"absent", "rejected"}

Told == {r \in Requests : At(r, "told")}

(* A worker that its parent was told of can be asked for, and has a        *)
(* completion record once the attempt is frozen, whatever requests were    *)
(* under way when the broker stopped (:152-153, :211-222, :237-247).       *)
ToldWorkersOnRecord == \A r \in Told :
    /\ req[r].worker \in jobs
    /\ kernel \in {"closed", "frozen"} => req[r].worker \in recorded

(* What a parent or a worker was told is published, and every model answer *)
(* that it was given, is part of the frozen attempt, although requests     *)
(* still write after the freeze (:120-122, :188-195, engine.py:596-602).   *)
AcknowledgedIsFrozen ==
    kernel = "frozen" => \A r \in Requests : At(r, "acknowledged") => r \in frozen

(* The epoch comes to its frozen attempt, or stopping the broker raised,   *)
(* and no request hangs: permits are given back on every path, whoever     *)
(* waits for them (:174-185, :237-247).                                    *)
Settled(r) == req[r].at \in Ended \cup {"idle", "told"}
EpochSettles == <>[](kernel \in {"frozen", "failed"} /\ \A r \in Requests : Settled(r))
=============================================================================
