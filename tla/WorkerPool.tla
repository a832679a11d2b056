----------------------------- MODULE WorkerPool -----------------------------
(***************************************************************************)
(* The pool of temporary workers of one epoch (workers.py).  A slot of a   *)
(* parent is taken under the pool's lock, the task is handed to a thread   *)
(* pool outside of it, and the slot is given back by the task itself when  *)
(* it ends.  A task runs a container, and a browser beside it when asked.  *)
(* A worker is known by its handle: its parent and the parent's serial     *)
(* number for it, which also names its directory.                          *)
(***************************************************************************)
EXTENDS Naturals, FiniteSets

CONSTANTS Parents,      \* the organisms of the epoch
          Limit,        \* live workers a parent may have; 5 in the code
          Threads,      \* threads of the pool; 500 in the code
          MaxSerial     \* bound: workers a parent asks for in the epoch

ASSUME PoolAssumption == /\ IsFiniteSet(Parents)
                         /\ Limit \in Nat /\ Threads \in Nat /\ MaxSerial \in Nat

VARIABLES active,       \* WorkerPool._active
          serial,       \* WorkerPool._serial
          task,         \* the state of a handle's task and of its future
          up,           \* the containers that run for a handle
          open          \* the thread pool still takes tasks

poolvars == <<active, serial, task, up, open>>

Handles == Parents \X (1..MaxSerial)

\* A reserved task has its slot and is not submitted yet; a ready one runs
\* on a thread of the pool and has no worker container yet.
Running == {"ready", "container"}
Live == {"reserved", "queued"} \cup Running
\* What ended without running keeps the slot: nothing gives it back.
Stranded == {"cancelled", "rejected"}
Over == {"done", "failed"} \cup Stranded
TaskStates == {"absent"} \cup Live \cup Over

Of(p, states) == {h \in Handles : h[1] = p /\ task[h] \in states}

PoolInit == /\ active = [p \in Parents |-> 0]
            /\ serial = [p \in Parents |-> 0]
            /\ task = [h \in Handles |-> "absent"]
            /\ up = [h \in Handles |-> {}]
            /\ open = TRUE

NewHandleByLoad(p) == <<p, active[p] + 1>>
NewHandle(p) == <<p, serial[p] + 1>>
HasSlotTooLate(p) == active[p] <= Limit
HasSlot(p) == active[p] < Limit

Reserve(p, h) ==
    /\ serial[p] < MaxSerial
    /\ HasSlot(p)
    /\ h = NewHandle(p)
    /\ active' = [active EXCEPT ![p] = @ + 1]
    /\ serial' = [serial EXCEPT ![p] = @ + 1]
    /\ task' = [task EXCEPT ![h] = "reserved"]
    /\ UNCHANGED <<up, open>>

\* Once the pool is shut down submit raises, after the slot was taken.
Submit(h) ==
    /\ task[h] = "reserved"
    /\ task' = [task EXCEPT ![h] = IF open THEN "queued" ELSE "rejected"]
    /\ UNCHANGED <<active, serial, up, open>>

GiveBack(h, outcome, left) ==
    /\ active' = [active EXCEPT ![h[1]] = @ - 1]
    /\ task' = [task EXCEPT ![h] = outcome]
    /\ up' = [up EXCEPT ![h] = left]
    /\ UNCHANGED <<serial, open>>

BusyThreads == {h \in Handles : task[h] \in Running}

\* The directory is wiped and, when the parent asks for it, a browser with a
\* copy of the parent's profile is started; one that fails is removed.
StartTask(h) ==
    /\ task[h] = "queued"
    /\ Cardinality(BusyThreads) < Threads
    /\ \/ \E browser \in {{}, {"browser"}} :
            /\ up' = [up EXCEPT ![h] = browser]
            /\ task' = [task EXCEPT ![h] = "ready"]
            /\ UNCHANGED <<active, serial, open>>
       \/ GiveBack(h, "failed", {})

\* The requested time limit is checked before the block that removes the
\* containers is entered.
RefuseTimeout(h) == /\ task[h] = "ready"
                    /\ GiveBack(h, "failed", up[h])

LaunchContainer(h) ==
    /\ task[h] = "ready"
    /\ task' = [task EXCEPT ![h] = "container"]
    /\ up' = [up EXCEPT ![h] = @ \cup {"worker"}]
    /\ UNCHANGED <<active, serial, open>>

\* It exits with or without a valid result, or is stopped at its time limit.
EndContainer(h) == /\ task[h] = "container"
                   /\ \E outcome \in {"done", "failed"} : GiveBack(h, outcome, {})

Cancelled(s) == IF s = "queued" THEN "cancelled" ELSE s

ShutDown ==
    /\ open
    /\ open' = FALSE
    /\ task' = [h \in Handles |-> Cancelled(task[h])]
    /\ UNCHANGED <<active, serial, up>>

Quiet == BusyThreads = {}

TaskStep(h) == StartTask(h) \/ RefuseTimeout(h) \/ LaunchContainer(h) \/ EndContainer(h)

PoolNext == \/ \E p \in Parents, h \in Handles : Reserve(p, h)
            \/ \E h \in Handles : Submit(h) \/ TaskStep(h)
            \/ ShutDown

PoolSpec == PoolInit /\ [][PoolNext]_poolvars
-----------------------------------------------------------------------------
PoolTypeOK == /\ active \in [Parents -> Nat]
              /\ serial \in [Parents -> 0..MaxSerial]
              /\ task \in [Handles -> TaskStates]
              /\ up \in [Handles -> SUBSET {"worker", "browser"}]
              /\ open \in BOOLEAN

(* A parent never has more live workers than its limit, however requests,  *)
(* tasks and the shutdown interleave (workers.py:34, :46-62).              *)
WorkerLimit == \A p \in Parents : Cardinality(Of(p, Live)) <= Limit

(* The counter is the slots that are held: by live workers, or for ever by *)
(* tasks that the shutdown cancelled or refused.  Handles above the serial *)
(* number are unused, so no two workers share a directory.                 *)
PoolInv == /\ PoolTypeOK
           /\ \A p \in Parents : /\ active[p] = Cardinality(Of(p, Live \cup Stranded))
                                 /\ active[p] <= Limit
           /\ \A h \in Handles : h[2] > serial[h[1]] => task[h] = "absent"
           /\ open => \A h \in Handles : task[h] \notin Stranded

(* README.md:148 promises "automatic worker and browser-container         *)
(* cleanup": nothing runs for a worker that is over.                       *)
WorkersLeaveNothing == \A h \in Handles : task[h] \in Over => up[h] = {}

(* A handle is never given twice: its directory is wiped when its task     *)
(* starts, and would be that of a worker still running (workers.py:52-53,  *)
(* :88-90).                                                                *)
HandlesAreFresh == [][\A h \in Handles :
    task[h] # "absent" => task'[h] # "reserved" \/ task[h] = "reserved"]_task
=============================================================================
