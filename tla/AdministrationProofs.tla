------------------------ MODULE AdministrationProofs ------------------------
(***************************************************************************)
(* What the commands on a run promise, for any number of processes,        *)
(* commands and crashes.  The guard is a lock on a directory that moves:   *)
(* two processes may each hold "the" lock at once, one of the directory    *)
(* that was set aside and one of the stub in its place.  AdministrationInv *)
(* shows why that is harmless: once a stub was opened it stays, no command *)
(* gets past its first look at it, and whoever is past that look holds the *)
(* lock of the run's own directory, alone.                                 *)
(***************************************************************************)
EXTENDS Administration, TLAPS

Resetting == {"staging", "emptying", "restoring", "removing"}
Exporting == {"copying", "fetching", "replacing"}
Inside == {"run", "executing", "reset", "export", "reporting"} \cup Resetting \cup Exporting
Steps == Inside \cup Approving \cup {"idle", "opening", "locking", "continuing", "linking"}
Names == Guarded \cup {"none", "seed"}
Children == [is : {"none", "awaiting", "ready"}, origin : Names,
             git : BOOLEAN, parent : BOOLEAN, memories : Nat, states : BOOLEAN]

TypeOK ==
    /\ rows \in BOOLEAN /\ containers \in BOOLEAN /\ removed \in BOOLEAN /\ blind \in BOOLEAN
    /\ objects \in SUBSET Pages
    /\ home \in {"whole", "absent", "stub"} /\ staged \in {"absent", "whole", "torn"}
    /\ lock \in [Lock -> Process \cup {Nobody}]
    /\ child \in Children
    /\ at \in [Process -> Steps]
    /\ command \in [Process -> Names]
    /\ handle \in [Process -> Lock]
    /\ \A p \in Process : at[p] \in {"opening", "locking"} => command[p] \in Guarded

\* What a process knows of the lock that it opened.
GuardInv(p) == /\ at[p] \in Inside => lock[handle[p]] = p
               /\ handle[p] = "stub" => home = "stub"

\* Where the run's directory is, and what is left of the run.
PlaceInv == /\ home = "whole" => staged = "absent" /\ rows
            /\ home # "whole" => staged # "absent" \/ ~rows

\* How far a command can be, given where the directory is.
StepInv(p) ==
    /\ at[p] \in {"executing", "staging"} \cup Exporting => home = "whole"
    /\ at[p] \in {"emptying", "restoring", "removing"} => home # "whole" /\ handle[p] = "own"
    /\ at[p] \in {"emptying", "restoring"} => staged = "whole" /\ rows
    /\ at[p] = "removing" => ~rows /\ objects = {} /\ ~removed
    /\ at[p] \in Resetting /\ containers => blind

\* A listing that fails is the only failure of a reset that changed nothing.
ListingInv ==
    /\ home = "whole" => objects = Pages
    /\ \A p \in Process : at[p] = "restoring" => objects = Pages

\* What the parts of an export are when its process gets to a step.
ExportInv ==
    /\ \A p \in Process : /\ at[p] = "reporting" /\ home = "whole" => building = {}
                          /\ at[p] = "copying" => building = {"report"}
                          /\ at[p] = "fetching" => building = {"report", "git", "states"}
                          /\ at[p] = "replacing" => building = Everything
    /\ "manifest" \in export.parts => export.listed = Everything

\* One approval at a time, and what it has remembered.
ApprovalInv ==
    /\ \A p, q \in Process : at[p] \in Approving /\ at[q] \in Approving => p = q
    /\ \A p \in Process : at[p] \in Approving => child.is = "awaiting"
    /\ \A p \in Process : at[p] = "remembering" => child.memories = 0
    /\ \A p \in Process : at[p] \in {"inheriting", "approving"} => child.memories <= 1
    /\ FoundersOnce

OnlyListingsFail == Failing \subseteq {"list"}

AdministrationInv ==
    /\ TypeOK /\ PlaceInv /\ RemovedIsGone
    /\ \A p \in Process : GuardInv(p) /\ StepInv(p)
-----------------------------------------------------------------------------
USE DEF Nobody, Lock

\* A step of one process leaves the others where they are, with their locks.
Moved(p) == /\ at' \in [Process -> Steps] /\ \A q \in Process \ {p} : at'[q] = at[q]
            /\ lock' \in [Lock -> Process \cup {Nobody}]
            /\ \A q \in Process \ {p}, l \in Lock : lock[l] = q => lock'[l] = q

LEMMA GotoMoves ==
  ASSUME TypeOK, NEW p \in Process, NEW step \in Steps, Goto(p, step), UNCHANGED lock
  PROVE  Moved(p) /\ at'[p] = step
BY DEF TypeOK, Goto, Moved

LEMMA LeaveMoves ==
  ASSUME TypeOK, NEW p \in Process, Leave(p)
  PROVE  Moved(p) /\ at'[p] = "idle"
<1>1. "idle" \in Steps
  BY DEF Steps
<1> QED BY <1>1, AdministrationAssumption DEF TypeOK, Leave, Goto, Moved

LEMMA RaiseMoves ==
  ASSUME TypeOK, NEW p \in Process, NEW able \in BOOLEAN, NEW step \in Steps, OrRaise(p, able, step)
  PROVE  Moved(p) /\ (at'[p] = "idle" \/ (able /\ at'[p] = step /\ UNCHANGED lock))
<1>1. CASE able
  BY <1>1, GotoMoves DEF OrRaise
<1>2. CASE ~able
  <2>1. Leave(p)
    BY <1>2 DEF OrRaise
  <2> QED BY <2>1, LeaveMoves
<1> QED BY <1>1, <1>2

LEMMA AdministrationInitially ==
  Init => AdministrationInv /\ ListingInv /\ ExportInv /\ ApprovalInv
<1> SUFFICES ASSUME Init PROVE AdministrationInv /\ ListingInv /\ ExportInv /\ ApprovalInv
  OBVIOUS
<1>1. TypeOK
  BY DEF Init, TypeOK, NoChild, Children, Steps, Names
<1>2. PlaceInv /\ RemovedIsGone /\ ListingInv
  BY DEF Init, PlaceInv, RemovedIsGone, ListingInv
<1>3. ASSUME NEW p \in Process PROVE GuardInv(p) /\ StepInv(p)
  BY DEF Init, GuardInv, StepInv, Inside, Resetting, Exporting
<1>4. ExportInv
  BY DEF Init, ExportInv, NoExport
<1>5. ApprovalInv
  BY DEF Init, ApprovalInv, Approving, FoundersOnce, NoChild
<1> QED BY <1>1, <1>2, <1>3, <1>4, <1>5 DEF AdministrationInv

\* Whoever is past the first look at the run holds its own lock, alone.
Deep == {"executing"} \cup Resetting \cup Exporting

LEMMA Alone ==
  ASSUME AdministrationInv, NEW p \in Process, at[p] \in Deep
  PROVE  /\ handle[p] = "own" /\ lock["own"] = p
         /\ \A q \in Process : at[q] \in Deep => q = p
<1>1. ASSUME NEW q \in Process, at[q] \in Deep PROVE handle[q] = "own" /\ lock["own"] = q
  <2>1. GuardInv(q) /\ StepInv(q) /\ handle[q] \in Lock
    BY DEF AdministrationInv, TypeOK
  <2>2. at[q] \in Inside
    BY <1>1 DEF Inside, Deep
  <2>3. home = "whole" \/ handle[q] = "own"
    BY <1>1, <2>1 DEF StepInv, Deep, Resetting
  <2> QED BY <2>1, <2>2, <2>3 DEF GuardInv
<1> QED BY <1>1

\* A step that touches neither the run nor its place can only be wrong about
\* the process that takes it.
LEMMA QuietKeeps ==
  ASSUME AdministrationInv, NEW p \in Process, Moved(p),
         UNCHANGED <<rows, objects, containers, home, staged, handle, removed, blind>>,
         child' \in Children, command' \in [Process -> Names],
         \A q \in Process \ {p} : command'[q] = command[q],
         at'[p] \in {"opening", "locking"} => command'[p] \in Guarded,
         GuardInv(p)', StepInv(p)'
  PROVE  AdministrationInv'
<1>1. TypeOK'
  <2>1. \A q \in Process : at'[q] \in {"opening", "locking"} => command'[q] \in Guarded
    BY DEF AdministrationInv, TypeOK, Moved
  <2> QED BY <2>1 DEF AdministrationInv, TypeOK, Moved
<1>2. PlaceInv' /\ RemovedIsGone'
  BY DEF AdministrationInv, PlaceInv, RemovedIsGone
<1>3. ASSUME NEW q \in Process, q # p PROVE GuardInv(q)' /\ StepInv(q)'
  <2>1. at'[q] = at[q] /\ handle[q] \in Lock /\ (lock[handle[q]] = q => lock'[handle[q]] = q)
    BY <1>3 DEF AdministrationInv, TypeOK, Moved
  <2> QED BY <2>1 DEF AdministrationInv, GuardInv, StepInv
<1> QED BY <1>1, <1>2, <1>3 DEF AdministrationInv

\* Ending a command is always right.
LEMMA IdleKeeps ==
  ASSUME AdministrationInv, NEW p \in Process, at'[p] \notin Inside, UNCHANGED <<home, handle>>
  PROVE  GuardInv(p)' /\ StepInv(p)'
BY DEF AdministrationInv, GuardInv, StepInv, Inside, Resetting, Exporting
-----------------------------------------------------------------------------
(* The guard. *)

LEMMA AskKeeps ==
  ASSUME AdministrationInv, NEW p \in Process, Ask(p)
  PROVE  AdministrationInv'
<1> USE DEF Ask, run, place, exports, history
<1>1. TypeOK /\ child' = child
  BY DEF AdministrationInv
<1>2. Moved(p) /\ at'[p] = "opening"
  <2>1. "opening" \in Steps
    BY DEF Steps
  <2> QED BY <1>1, <2>1, GotoMoves
<1>3. command' \in [Process -> Names] /\ command'[p] \in Guarded
  BY <1>1 DEF TypeOK, Guarded, Names
<1>4. \A q \in Process \ {p} : command'[q] = command[q]
  BY <1>1 DEF TypeOK
<1>5. child' \in Children
  BY <1>1 DEF TypeOK
<1>6. GuardInv(p)' /\ StepInv(p)'
  BY <1>2, IdleKeeps DEF Inside, Resetting, Exporting
<1> QED BY <1>2, <1>3, <1>4, <1>5, <1>6, QuietKeeps

\* The lock that is opened is that of the directory that is there; a stub is
\* made where none is, and not taken away.
LEMMA OpenLockKeeps ==
  ASSUME AdministrationInv, NEW p \in Process, OpenLock(p)
  PROVE  AdministrationInv'
<1> USE DEF OpenLock, run, exports, history
<1>1. TypeOK /\ UNCHANGED <<child, command, lock, staged, rows, objects, containers, removed, blind>>
  BY DEF AdministrationInv
<1>2. Moved(p) /\ at'[p] = "locking"
  <2>1. "locking" \in Steps
    BY DEF Steps
  <2> QED BY <1>1, <2>1, GotoMoves
<1>3. home' # "absent" /\ (home' = home \/ (home = "absent" /\ home' = "stub"))
  OBVIOUS
<1>4. /\ handle' \in [Process -> Lock] /\ \A q \in Process \ {p} : handle'[q] = handle[q]
      /\ handle'[p] = "stub" => home' = "stub"
  BY <1>1 DEF TypeOK
<1>5. TypeOK'
  <2>1. \A q \in Process : at'[q] \in {"opening", "locking"} => command'[q] \in Guarded
    BY <1>1, <1>2 DEF TypeOK, Moved
  <2> QED BY <1>1, <1>2, <1>3, <1>4, <2>1 DEF TypeOK, Moved
<1>6. PlaceInv' /\ RemovedIsGone'
  BY <1>1, <1>3 DEF AdministrationInv, PlaceInv, RemovedIsGone
<1>7. GuardInv(p)' /\ StepInv(p)'
  BY <1>2, <1>4 DEF GuardInv, StepInv, Inside, Resetting, Exporting
<1>8. ASSUME NEW q \in Process, q # p PROVE GuardInv(q)' /\ StepInv(q)'
  <2>1. at'[q] = at[q] /\ handle'[q] = handle[q]
    BY <1>2, <1>4, <1>8 DEF Moved
  <2> QED BY <1>1, <1>3, <2>1 DEF AdministrationInv, GuardInv, StepInv
<1> QED BY <1>5, <1>6, <1>7, <1>8 DEF AdministrationInv

LEMMA TakeGuardKeeps ==
  ASSUME AdministrationInv, NEW p \in Process, TakeGuard(p)
  PROVE  AdministrationInv'
<1> USE DEF TakeGuard, GuardFree, run, place, exports, history
<1>1. TypeOK /\ child' = child /\ UNCHANGED <<command, home, handle>>
  BY DEF AdministrationInv
<1>2. command[p] \in {"run", "export", "reset"} /\ handle[p] \in Lock
  BY <1>1 DEF TypeOK, Guarded
<1>3. CASE lock[handle[p]] = Nobody
  <2>1. lock' = [lock EXCEPT ![handle[p]] = p] /\ at' = [at EXCEPT ![p] = command[p]]
    BY <1>3 DEF Goto
  <2>2. Moved(p) /\ at'[p] = command[p] /\ lock'[handle[p]] = p
    BY <1>1, <1>2, <1>3, <2>1, AdministrationAssumption DEF TypeOK, Moved, Steps, Inside
  <2>3. GuardInv(p)' /\ StepInv(p)'
    BY <1>1, <1>2, <2>2 DEF AdministrationInv, GuardInv, StepInv, Resetting, Exporting
  <2> QED BY <1>1, <1>2, <2>2, <2>3, QuietKeeps DEF TypeOK
<1>4. CASE lock[handle[p]] # Nobody
  <2>1. Moved(p) /\ at'[p] = "idle"
    BY <1>1, <1>4, LeaveMoves
  <2>2. GuardInv(p)' /\ StepInv(p)'
    BY <1>1, <2>1, IdleKeeps DEF Inside, Resetting, Exporting
  <2> QED BY <1>1, <2>1, <2>2, QuietKeeps DEF TypeOK
<1> QED BY <1>3, <1>4
-----------------------------------------------------------------------------
(* run. *)

LEMMA RunKeeps ==
  ASSUME AdministrationInv, NEW p \in Process, BeginRun(p) \/ StartContainers(p) \/ EndRun(p)
  PROVE  AdministrationInv'
<1> USE DEF BeginRun, StartContainers, EndRun, place, exports, history, process
<1>1. /\ TypeOK /\ RemovedIsGone /\ PlaceInv
      /\ UNCHANGED <<rows, objects, home, staged, child, command, handle, removed, blind>>
  BY DEF AdministrationInv
<1>2. containers' \in BOOLEAN
  BY <1>1 DEF TypeOK
<1>3. /\ Moved(p)
      /\ at'[p] \in {"idle", at[p]} \/ (at'[p] = "executing" /\ home = "whole" /\ at[p] = "run")
  <2>1. "executing" \in Steps
    BY DEF Steps, Inside
  <2>2. CASE BeginRun(p)
    BY <1>1, <2>1, <2>2, RaiseMoves
  <2>3. CASE StartContainers(p)
    <3>1. at' = at /\ lock' = lock
      BY <2>3
    <3> QED BY <1>1, <3>1 DEF TypeOK, Moved
  <2>4. CASE EndRun(p)
    <3>1. Leave(p)
      BY <2>4
    <3> QED BY <1>1, <3>1, LeaveMoves
  <2> QED BY <2>2, <2>3, <2>4
<1>4. containers' => containers \/ at[p] = "executing"
  OBVIOUS
<1>5. TypeOK'
  BY <1>1, <1>2, <1>3 DEF TypeOK, Moved
<1>6. PlaceInv' /\ RemovedIsGone'
  <2>1. at[p] = "executing" => home = "whole"
    BY DEF AdministrationInv, StepInv
  <2> QED BY <1>1, <1>4, <2>1 DEF PlaceInv, RemovedIsGone
<1>7. ASSUME NEW q \in Process PROVE GuardInv(q)' /\ StepInv(q)'
  <2>1. at[q] \in Resetting => at[p] # "executing"
    BY Alone DEF Deep, Resetting
  <2>2. GuardInv(q) /\ StepInv(q)
    BY DEF AdministrationInv
  <2>3. CASE q # p
    BY <1>1, <1>3, <1>4, <2>1, <2>2, <2>3 DEF TypeOK, GuardInv, StepInv, Moved
  <2>4. CASE q = p
    <3>1. at[p] \in {"run", "executing"}
      OBVIOUS
    <3>2. at'[p] = "idle" \/ UNCHANGED lock
      BY <1>1, RaiseMoves DEF Leave, Goto, Steps, Inside, TypeOK, OrRaise
    <3> QED BY <1>1, <1>3, <2>2, <2>4, <3>1, <3>2 DEF TypeOK, GuardInv, StepInv, Inside, Resetting, Exporting
  <2> QED BY <2>3, <2>4
<1> QED BY <1>5, <1>6, <1>7 DEF AdministrationInv
-----------------------------------------------------------------------------
(* reset. *)

\* A reset that goes on has the run at its place: a stub is there only while
\* something is staged or the run is gone.
LEMMA BeginResetKeeps ==
  ASSUME AdministrationInv, NEW p \in Process, BeginReset(p)
  PROVE  AdministrationInv'
<1> USE DEF BeginReset, RemoveOrphans, place, exports
<1>1. /\ TypeOK /\ RemovedIsGone /\ PlaceInv
      /\ UNCHANGED <<rows, objects, home, staged, child, command, handle, removed>>
  BY DEF AdministrationInv
<1>2. /\ containers' \in BOOLEAN /\ blind' \in BOOLEAN
      /\ containers' => containers
      /\ blind => blind'
  BY <1>1 DEF TypeOK
<1>3. /\ Moved(p)
      /\ \/ at'[p] = "idle"
         \/ /\ at'[p] = "staging" /\ rows /\ staged = "absent" /\ UNCHANGED lock
            /\ containers' => blind'
  <2>1. "staging" \in Steps
    BY DEF Steps, Inside, Resetting
  <2>2. CASE Leave(p)
    BY <1>1, <2>2, LeaveMoves
  <2>3. CASE ~Leave(p)
    <3>1. PICK answered \in BOOLEAN :
             /\ containers' = (containers /\ ~answered)
             /\ blind' = (blind \/ ~answered)
             /\ OrRaise(p, staged = "absent", "staging")
      BY <2>3
    <3>2. rows
      BY <2>3
    <3>3. Moved(p) /\ (at'[p] = "idle" \/ (staged = "absent" /\ at'[p] = "staging" /\ UNCHANGED lock))
      BY <1>1, <2>1, <3>1, RaiseMoves
    <3> QED BY <3>1, <3>2, <3>3
  <2> QED BY <2>2, <2>3
<1>4. TypeOK'
  BY <1>1, <1>2, <1>3 DEF TypeOK, Moved
<1>5. PlaceInv' /\ RemovedIsGone'
  BY <1>1, <1>2 DEF PlaceInv, RemovedIsGone
<1>6. ASSUME NEW q \in Process PROVE GuardInv(q)' /\ StepInv(q)'
  <2>1. GuardInv(q) /\ StepInv(q)
    BY DEF AdministrationInv
  <2>2. CASE q # p
    BY <1>1, <1>2, <1>3, <2>1, <2>2 DEF TypeOK, GuardInv, StepInv, Moved
  <2>3. CASE q = p
    BY <1>1, <1>3, <2>1, <2>3 DEF PlaceInv, GuardInv, StepInv, Inside, Resetting, Exporting
  <2> QED BY <2>2, <2>3
<1> QED BY <1>4, <1>5, <1>6 DEF AdministrationInv

\* Whoever moves or deletes is alone with the run, so the others have nothing
\* to say of what changes.
LEMMA OthersAreOutside ==
  ASSUME AdministrationInv, NEW p \in Process, at[p] \in Deep, Moved(p), UNCHANGED handle,
         NEW q \in Process, q # p,
         handle[q] = "stub" => home' = "stub"
  PROVE  GuardInv(q)' /\ StepInv(q)'
<1>1. at'[q] = at[q] /\ at[q] \notin Deep /\ handle[q] \in Lock
  BY Alone DEF Moved, AdministrationInv, TypeOK
<1>2. StepInv(q)'
  BY <1>1 DEF StepInv, Deep, Resetting, Exporting
<1>3. GuardInv(q)'
  BY <1>1 DEF GuardInv, AdministrationInv, Moved
<1> QED BY <1>2, <1>3

LEMMA MoveAsideKeeps ==
  ASSUME AdministrationInv, NEW p \in Process, MoveAside(p)
  PROVE  AdministrationInv'
<1> USE DEF MoveAside, Stage, run, exports, history
<1>1. /\ TypeOK /\ RemovedIsGone /\ PlaceInv /\ GuardInv(p) /\ StepInv(p)
      /\ UNCHANGED <<rows, objects, containers, lock, child, command, handle, removed, blind>>
      /\ staged' = home /\ home' = "absent"
  BY DEF AdministrationInv
<1>2. home = "whole" /\ rows /\ staged = "absent" /\ handle[p] = "own" /\ at[p] \in Deep
  BY <1>1, Alone DEF StepInv, PlaceInv, Deep, Resetting
<1>3. Moved(p) /\ at'[p] = "emptying"
  <2>1. "emptying" \in Steps
    BY DEF Steps, Inside, Resetting
  <2> QED BY <1>1, <2>1, GotoMoves
<1>4. TypeOK' /\ PlaceInv' /\ RemovedIsGone'
  BY <1>1, <1>2, <1>3 DEF TypeOK, PlaceInv, RemovedIsGone, Moved
<1>5. GuardInv(p)' /\ StepInv(p)'
  BY <1>1, <1>2, <1>3 DEF GuardInv, StepInv, Inside, Resetting, Exporting
<1>6. ASSUME NEW q \in Process, q # p PROVE GuardInv(q)' /\ StepInv(q)'
  <2>1. handle[q] = "own"
    BY <1>1, <1>2 DEF AdministrationInv, TypeOK, GuardInv
  <2> QED BY <1>1, <1>2, <1>3, <1>6, <2>1, OthersAreOutside
<1> QED BY <1>4, <1>5, <1>6 DEF AdministrationInv

LEMMA DeleteKeeps ==
  ASSUME AdministrationInv, NEW p \in Process, DeletePage(p) \/ DeleteRows(p)
  PROVE  AdministrationInv'
<1> USE DEF DeletePage, DeleteRows, place, exports, history, process
<1>1. /\ TypeOK /\ RemovedIsGone /\ PlaceInv /\ GuardInv(p) /\ StepInv(p) /\ at[p] = "emptying"
      /\ UNCHANGED <<home, staged, containers, lock, child, command, handle, removed, blind>>
  BY DEF AdministrationInv
<1>2. home # "whole" /\ rows /\ staged = "whole" /\ handle[p] = "own" /\ at[p] \in Deep /\ ~removed
  BY <1>1 DEF StepInv, Deep, Resetting, RemovedIsGone
<1>3. /\ Moved(p) /\ objects' \in SUBSET objects /\ rows' \in BOOLEAN
      /\ \/ at'[p] = "emptying" /\ rows'
         \/ at'[p] = "removing" /\ ~rows' /\ objects' = {}
  <2>1. "removing" \in Steps
    BY DEF Steps, Inside, Resetting
  <2>2. CASE DeletePage(p)
    BY <1>1, <1>2, <2>2 DEF TypeOK, Moved
  <2>3. CASE DeleteRows(p)
    BY <1>1, <2>1, <2>3, GotoMoves
  <2> QED BY <2>2, <2>3
<1>4. TypeOK' /\ PlaceInv' /\ RemovedIsGone'
  BY <1>1, <1>2, <1>3 DEF TypeOK, PlaceInv, RemovedIsGone, Moved
<1>5. GuardInv(p)' /\ StepInv(p)'
  BY <1>1, <1>2, <1>3 DEF GuardInv, StepInv, Inside, Resetting, Exporting
<1>6. ASSUME NEW q \in Process, q # p PROVE GuardInv(q)' /\ StepInv(q)'
  BY <1>1, <1>2, <1>3, <1>6, OthersAreOutside DEF AdministrationInv, GuardInv
<1> QED BY <1>4, <1>5, <1>6 DEF AdministrationInv

LEMMA RestoreKeeps ==
  ASSUME AdministrationInv, NEW p \in Process, Restore(p)
  PROVE  AdministrationInv'
<1> USE DEF Restore, run, place, exports, history
<1>1. /\ TypeOK /\ RemovedIsGone /\ PlaceInv /\ GuardInv(p) /\ StepInv(p)
      /\ UNCHANGED <<rows, objects, containers, child, command, handle, removed, blind>>
      /\ \/ home = "absent" /\ home' = staged /\ staged' = "absent"
         \/ home # "absent" /\ home' = home /\ staged' = staged
  BY DEF AdministrationInv
<1>2. home # "whole" /\ rows /\ staged = "whole" /\ handle[p] = "own" /\ at[p] \in Deep /\ ~removed
  BY <1>1 DEF StepInv, Deep, Resetting, RemovedIsGone
<1>3. Moved(p) /\ at'[p] = "idle"
  BY <1>1, LeaveMoves
<1>4. TypeOK' /\ PlaceInv' /\ RemovedIsGone'
  BY <1>1, <1>2, <1>3 DEF TypeOK, PlaceInv, RemovedIsGone, Moved
<1>5. GuardInv(p)' /\ StepInv(p)'
  BY <1>1, <1>2, <1>3 DEF GuardInv, StepInv, Inside, Resetting, Exporting
<1>6. ASSUME NEW q \in Process, q # p PROVE GuardInv(q)' /\ StepInv(q)'
  <2>1. handle[q] = "stub" => home' = "stub"
    BY <1>1 DEF AdministrationInv, GuardInv
  <2> QED BY <1>1, <1>2, <1>3, <1>6, <2>1, OthersAreOutside DEF TypeOK
<1> QED BY <1>4, <1>5, <1>6 DEF AdministrationInv

LEMMA RemoveStagedKeeps ==
  ASSUME AdministrationInv, NEW p \in Process, RemoveStaged(p)
  PROVE  AdministrationInv'
<1> USE DEF RemoveStaged, run, exports
<1>1. /\ TypeOK /\ PlaceInv /\ GuardInv(p) /\ StepInv(p)
      /\ UNCHANGED <<rows, objects, containers, home, child, command, handle, blind>>
      /\ \/ staged' = "torn" /\ at' = at /\ lock' = lock /\ removed' = removed
         \/ staged' = "absent" /\ removed' = TRUE /\ Leave(p)
  BY DEF AdministrationInv
<1>2. /\ home # "whole" /\ ~rows /\ objects = {} /\ handle[p] = "own" /\ at[p] \in Deep /\ ~removed
      /\ containers => blind
  BY <1>1 DEF StepInv, Deep, Resetting
<1>3. Moved(p) /\ (at'[p] = "idle" \/ (at'[p] = "removing" /\ UNCHANGED <<lock, removed>>))
  BY <1>1, LeaveMoves DEF TypeOK, Moved
<1>4. TypeOK' /\ PlaceInv' /\ RemovedIsGone'
  <2>1. removed' => staged' = "absent"
    BY <1>1, <1>2
  <2>2. removed' \in BOOLEAN /\ staged' \in {"absent", "torn"}
    BY <1>1 DEF TypeOK
  <2>3. TypeOK'
    BY <1>1, <1>3, <2>2 DEF TypeOK, Moved
  <2> QED BY <1>1, <1>2, <2>1, <2>3 DEF PlaceInv, RemovedIsGone
<1>5. GuardInv(p)' /\ StepInv(p)'
  BY <1>1, <1>2, <1>3 DEF GuardInv, StepInv, Inside, Resetting, Exporting
<1>6. ASSUME NEW q \in Process, q # p PROVE GuardInv(q)' /\ StepInv(q)'
  BY <1>1, <1>2, <1>3, <1>6, OthersAreOutside DEF AdministrationInv, GuardInv
<1> QED BY <1>4, <1>5, <1>6 DEF AdministrationInv

LEMMA CleanupFailsKeeps ==
  ASSUME AdministrationInv, NEW p \in Process, CleanupFails(p)
  PROVE  AdministrationInv'
<1> USE DEF CleanupFails, run, place, exports, history
<1>1. /\ TypeOK /\ GuardInv(p) /\ StepInv(p) /\ at[p] = "emptying"
      /\ UNCHANGED <<rows, objects, containers, home, staged, child, command, handle, lock, removed, blind>>
  BY DEF AdministrationInv
<1>2. Moved(p) /\ at'[p] = "restoring"
  <2>1. "restoring" \in Steps
    BY DEF Steps, Inside, Resetting
  <2> QED BY <1>1, <2>1, GotoMoves
<1>3. GuardInv(p)' /\ StepInv(p)'
  BY <1>1, <1>2 DEF GuardInv, StepInv, Inside, Resetting, Exporting
<1> QED BY <1>1, <1>2, <1>3, QuietKeeps DEF TypeOK
-----------------------------------------------------------------------------
(* export. *)

ExportStep(p) == BeginExport(p) \/ ExportReport(p) \/ ExportFiles(p) \/ ExportArtifacts(p)
                 \/ DeleteExport(p) \/ PublishExport(p)

LEMMA ExportMoves ==
  ASSUME AdministrationInv, NEW p \in Process, ExportStep(p)
  PROVE  /\ UNCHANGED <<rows, objects, containers, home, staged, child, command, handle, removed, blind>>
         /\ Moved(p) /\ (at'[p] = "idle" \/ lock' = lock)
         /\ \/ at'[p] = "idle"
            \/ at[p] = "export" /\ at'[p] = "reporting"
            \/ at[p] = "reporting" /\ at'[p] = "copying" /\ home = "whole"
            \/ at[p] = "copying" /\ at'[p] = "fetching"
            \/ at[p] = "fetching" /\ at'[p] = "replacing"
            \/ at[p] = "replacing" /\ at'[p] = "replacing" /\ at' = at
<1>1. TypeOK
  BY DEF AdministrationInv
<1>2. {"reporting", "copying", "fetching", "replacing"} \subseteq Steps
  BY DEF Steps, Inside, Exporting
<1> USE DEF run, place, history
<1>3. CASE BeginExport(p)
  <2>1. CASE Leave(p)
    BY <1>1, <1>3, <2>1, LeaveMoves DEF BeginExport
  <2>2. CASE ~Leave(p)
    BY <1>1, <1>2, <1>3, <2>2, GotoMoves DEF BeginExport
  <2> QED BY <2>1, <2>2
<1>4. CASE ExportReport(p)
  BY <1>1, <1>2, <1>4, RaiseMoves DEF ExportReport
<1>5. CASE ExportFiles(p)
  BY <1>1, <1>2, <1>5, GotoMoves DEF ExportFiles
<1>6. CASE ExportArtifacts(p)
  BY <1>1, <1>2, <1>6, GotoMoves DEF ExportArtifacts
<1>7. CASE DeleteExport(p)
  BY <1>1, <1>7 DEF DeleteExport, process, TypeOK, Moved
<1>8. CASE PublishExport(p)
  BY <1>1, <1>8, LeaveMoves DEF PublishExport
<1> QED BY <1>3, <1>4, <1>5, <1>6, <1>7, <1>8 DEF ExportStep

LEMMA ExportKeeps ==
  ASSUME AdministrationInv, NEW p \in Process, ExportStep(p)
  PROVE  AdministrationInv'
<1>1. GuardInv(p) /\ StepInv(p) /\ TypeOK
  BY DEF AdministrationInv
<1>2. GuardInv(p)' /\ StepInv(p)'
  BY <1>1, ExportMoves DEF GuardInv, StepInv, Inside, Resetting, Exporting
<1> QED BY <1>1, <1>2, ExportMoves, QuietKeeps DEF TypeOK
-----------------------------------------------------------------------------
(* continue and approve. *)

ChildStep(p) == \/ Continue(p) \/ CopyRepository(p) \/ WriteContinuation(p)
                \/ Approve(p) \/ ClearGenerationOne(p) \/ InheritMemories(p)
                \/ InheritState(p) \/ EndApproval(p)

LEMMA SourceIsBoolean ==
  ASSUME TypeOK, NEW origin, NEW part
  PROVE  Source(origin, part) \in BOOLEAN
<1>1. CASE origin = "export"
  BY <1>1 DEF Source
<1>2. CASE origin # "export" /\ part = "report"
  BY <1>2 DEF TypeOK, Source
<1>3. CASE origin # "export" /\ part # "report"
  BY <1>3 DEF Source
<1> QED BY <1>1, <1>2, <1>3

LEMMA ChildMoves ==
  ASSUME AdministrationInv, NEW p \in Process, ChildStep(p)
  PROVE  /\ UNCHANGED <<rows, objects, containers, home, staged, handle, removed, blind>>
         /\ Moved(p) /\ at'[p] \in Approving \cup {"idle", "continuing", "linking"}
<1>1. TypeOK
  BY DEF AdministrationInv
<1>2. {"continuing", "linking"} \cup Approving \subseteq Steps
  BY DEF Steps
<1> USE DEF run, place, history, exports, Approving
<1>3. CASE Continue(p) \/ Approve(p)
  BY <1>1, <1>2, <1>3, GotoMoves DEF Continue, Approve
<1>4. CASE CopyRepository(p)
  BY <1>1, <1>2, <1>4, RaiseMoves DEF CopyRepository
<1>5. CASE WriteContinuation(p) \/ EndApproval(p)
  BY <1>1, <1>2, <1>5, LeaveMoves DEF WriteContinuation, EndApproval
<1>6. CASE ClearGenerationOne(p)
  <2>1. CASE Leave(p)
    BY <1>1, <1>6, <2>1, LeaveMoves DEF ClearGenerationOne
  <2>2. CASE ~Leave(p)
    <3>1. OrRaise(p, child'.git, IF child.parent THEN "remembering" ELSE "approving")
      BY <1>6, <2>2 DEF ClearGenerationOne
    <3>2. (IF child.parent THEN "remembering" ELSE "approving") \in Approving
      OBVIOUS
    <3>3. Moved(p) /\ at'[p] \in Approving \cup {"idle"}
      BY <1>1, <1>2, <2>2, <3>1, GotoMoves DEF OrRaise
    <3> QED BY <1>6, <3>3 DEF ClearGenerationOne
  <2> QED BY <2>1, <2>2
<1>7. CASE InheritMemories(p)
  <2>1. CASE Leave(p)
    BY <1>1, <1>7, <2>1, LeaveMoves DEF InheritMemories
  <2>2. CASE ~Leave(p)
    BY <1>1, <1>2, <1>7, <2>2, GotoMoves DEF InheritMemories
  <2> QED BY <2>1, <2>2
<1>8. CASE InheritState(p)
  BY <1>1, <1>2, <1>8, GotoMoves DEF InheritState
<1> QED BY <1>3, <1>4, <1>5, <1>6, <1>7, <1>8 DEF ChildStep

\* What the steps that concern the continued run do to it.
LEMMA ChildTyped ==
  ASSUME AdministrationInv, NEW p \in Process, ChildStep(p)
  PROVE  /\ child' \in Children /\ command' \in [Process -> Names]
         /\ \A q \in Process \ {p} : command'[q] = command[q]
<1>1. TypeOK /\ child \in Children
  BY DEF AdministrationInv, TypeOK
<1>2. \A g \in BOOLEAN, s \in BOOLEAN :
         /\ [child EXCEPT !.git = g] \in Children
         /\ [child EXCEPT !.git = g, !.memories = 0, !.states = s] \in Children
         /\ [child EXCEPT !.is = "ready", !.git = g, !.memories = 0] \in Children
         /\ [child EXCEPT !.states = s] \in Children
  BY <1>1 DEF Children
<1>3. \A i \in {"awaiting", "ready"} : [child EXCEPT !.is = i] \in Children
  BY <1>1 DEF Children
<1>4. \A o \in Names, b \in BOOLEAN : [child EXCEPT !.origin = o, !.parent = b] \in Children
  BY <1>1 DEF Children
<1>5. \A n \in {0, 1} : [child EXCEPT !.memories = @ + n] \in Children
  BY <1>1 DEF Children
<1>6. \A origin \in {"run", "export", "seed", "reset", "none"}, part \in {"git", "report", "states"} : Source(origin, part) \in BOOLEAN
  BY <1>1, SourceIsBoolean
<1>7. command[p] \in {"run", "export", "reset", "none", "seed"}
  BY <1>1 DEF TypeOK, Guarded, Names
<1>8. CASE Continue(p)
  BY <1>1, <1>3, <1>8 DEF Continue, TypeOK, Guarded, Names
<1>9. CASE CopyRepository(p)
  <2>1. (child.git \/ Source(command[p], "git")) \in BOOLEAN
    BY <1>1, <1>6, <1>7 DEF Children
  <2> QED BY <1>1, <1>2, <1>9, <2>1 DEF CopyRepository, TypeOK
<1>10. CASE WriteContinuation(p)
  <2>1. (command[p] = "export" \/ rows) \in BOOLEAN
    BY <1>1 DEF TypeOK
  <2> QED BY <1>1, <1>4, <1>10, <2>1 DEF WriteContinuation, TypeOK
<1>11. CASE Approve(p)
  BY <1>1, <1>11 DEF Approve, TypeOK, Children
<1>12. Cleared(p) \in Children
  BY <1>2, <1>6, <1>7 DEF Cleared
<1>13. CASE ClearGenerationOne(p)
  BY <1>1, <1>2, <1>12, <1>13 DEF ClearGenerationOne, TypeOK
<1>14. CASE InheritMemories(p)
  BY <1>1, <1>5, <1>12, <1>14 DEF InheritMemories, TypeOK
<1>15. CASE InheritState(p)
  BY <1>1, <1>2, <1>6, <1>7, <1>15 DEF InheritState, TypeOK
<1>16. CASE EndApproval(p)
  BY <1>1, <1>3, <1>16 DEF EndApproval, TypeOK
<1> QED BY <1>8, <1>9, <1>10, <1>11, <1>13, <1>14, <1>15, <1>16 DEF ChildStep

LEMMA ChildKeeps ==
  ASSUME AdministrationInv, NEW p \in Process, ChildStep(p)
  PROVE  AdministrationInv'
<1>1. at'[p] \notin Inside \cup {"opening", "locking"}
  BY ChildMoves DEF Approving, Inside, Resetting, Exporting
<1>2. GuardInv(p)' /\ StepInv(p)'
  BY <1>1, ChildMoves, IdleKeeps
<1> QED BY <1>1, <1>2, ChildMoves, ChildTyped, QuietKeeps

LEMMA CrashKeeps ==
  ASSUME AdministrationInv, NEW p \in Process, Crash(p)
  PROVE  AdministrationInv'
<1> USE DEF Crash, run, place, exports, history
<1>1. TypeOK /\ UNCHANGED <<rows, objects, containers, home, staged, child, command, handle, removed, blind>>
  BY DEF AdministrationInv
<1>2. Moved(p) /\ at'[p] = "idle"
  BY <1>1, LeaveMoves
<1>3. GuardInv(p)' /\ StepInv(p)'
  BY <1>1, <1>2, IdleKeeps DEF Inside, Resetting, Exporting
<1> QED BY <1>1, <1>2, <1>3, QuietKeeps DEF TypeOK

\* The steps of a process, by what they are about.
LEMMA StepsAreOf ==
  ASSUME NEW p \in Process, Ask(p) \/ Continue(p) \/ Approve(p) \/ Step(p) \/ Crash(p)
  PROVE  \/ Ask(p) \/ OpenLock(p) \/ TakeGuard(p)
         \/ BeginRun(p) \/ StartContainers(p) \/ EndRun(p)
         \/ BeginReset(p) \/ MoveAside(p) \/ DeletePage(p) \/ DeleteRows(p)
         \/ CleanupFails(p) \/ Restore(p) \/ RemoveStaged(p)
         \/ ExportStep(p) \/ ChildStep(p) \/ Crash(p)
BY DEF Step, ExportStep, ChildStep

LEMMA AdministrationStep == AdministrationInv /\ [Next]_vars => AdministrationInv'
<1> SUFFICES ASSUME AdministrationInv, [Next]_vars PROVE AdministrationInv'
  OBVIOUS
<1>1. CASE UNCHANGED vars
  BY <1>1 DEF vars, run, place, exports, process, history, AdministrationInv, TypeOK, PlaceInv, RemovedIsGone,
              GuardInv, StepInv
<1>2. ASSUME NEW p \in Process, Ask(p) \/ Continue(p) \/ Approve(p) \/ Step(p) \/ Crash(p)
      PROVE  AdministrationInv'
  BY <1>2, StepsAreOf, AskKeeps, OpenLockKeeps, TakeGuardKeeps, RunKeeps, BeginResetKeeps, MoveAsideKeeps,
     DeleteKeeps, CleanupFailsKeeps, RestoreKeeps, RemoveStagedKeeps, ExportKeeps, ChildKeeps, CrashKeeps
<1> QED BY <1>1, <1>2 DEF Next
-----------------------------------------------------------------------------
(* What the steps are about that neither export nor continue. *)

OtherStep(p) == \/ Ask(p) \/ OpenLock(p) \/ TakeGuard(p)
                \/ BeginRun(p) \/ StartContainers(p) \/ EndRun(p)
                \/ BeginReset(p) \/ MoveAside(p) \/ DeletePage(p) \/ DeleteRows(p)
                \/ Restore(p) \/ RemoveStaged(p) \/ Crash(p)

Telling == Approving \cup Exporting \cup {"reporting", "restoring"}

LEMMA OthersTellNothing ==
  ASSUME AdministrationInv, NEW p \in Process, OtherStep(p)
  PROVE  /\ UNCHANGED <<building, export, child>>
         /\ \A q \in Process : at'[q] \in Telling => at'[q] = at[q]
<1>1. at \in [Process -> Steps] /\ \A q \in Process : at[q] \in {"opening", "locking"} => command[q] \in {"run", "export", "reset"}
  BY DEF AdministrationInv, TypeOK, Guarded
<1>2. UNCHANGED <<building, export, child>>
  BY DEF OtherStep, Ask, OpenLock, TakeGuard, BeginRun, StartContainers, EndRun, BeginReset, MoveAside, DeletePage,
         DeleteRows, Restore, RemoveStaged, Crash, exports
<1>3. \/ UNCHANGED at \/ Goto(p, "idle") \/ Goto(p, "opening") \/ Goto(p, "locking")
      \/ (Goto(p, command[p]) /\ at[p] = "locking")
      \/ Goto(p, "executing") \/ Goto(p, "staging") \/ Goto(p, "emptying") \/ Goto(p, "removing")
  BY DEF OtherStep, Ask, OpenLock, TakeGuard, BeginRun, StartContainers, EndRun, BeginReset, MoveAside, DeletePage,
         DeleteRows, Restore, RemoveStaged, Crash, process, OrRaise, Leave
<1>4. \A q \in Process : at'[q] \in Telling => at'[q] = at[q]
  BY <1>1, <1>3 DEF Goto, Telling, Approving, Exporting
<1> QED BY <1>2, <1>4

\* What deletes pages or moves the directory.
LEMMA PlaceMoves ==
  ASSUME AdministrationInv, NEW p \in Process, OtherStep(p), at[p] # "restoring"
  PROVE  /\ home' = "whole" => home = "whole"
         /\ home = "whole" \/ (\E q \in Process : at[q] = "restoring") => objects' = objects
<1>1. home' = "whole" => home = "whole"
  BY DEF OtherStep, Ask, OpenLock, TakeGuard, BeginRun, StartContainers, EndRun, BeginReset, MoveAside, DeletePage,
         DeleteRows, Restore, RemoveStaged, Crash, run, place, Stage
<1>2. objects' = objects \/ at[p] = "emptying"
  BY DEF OtherStep, Ask, OpenLock, TakeGuard, BeginRun, StartContainers, EndRun, BeginReset, MoveAside, DeletePage,
         DeleteRows, Restore, RemoveStaged, Crash, run, place, Stage
<1>3. at[p] = "emptying" => home # "whole" /\ \A q \in Process : at[q] # "restoring"
  BY Alone DEF AdministrationInv, StepInv, Deep, Resetting
<1> QED BY <1>1, <1>2, <1>3

LEMMA ListingStep ==
  ASSUME OnlyListingsFail, AdministrationInv, ListingInv, [Next]_vars
  PROVE  ListingInv'
<1>1. CASE UNCHANGED vars
  BY <1>1 DEF vars, run, place, process, ListingInv
<1>2. ASSUME NEW p \in Process, Ask(p) \/ Continue(p) \/ Approve(p) \/ Step(p) \/ Crash(p)
      PROVE  ListingInv'
  <2>1. CASE OtherStep(p) /\ at[p] # "restoring"
    BY <2>1, OthersTellNothing, PlaceMoves DEF ListingInv, Telling
  <2>2. CASE OtherStep(p) /\ at[p] = "restoring"
    <3>1. objects = Pages
      BY <2>2 DEF ListingInv
    <3>2. objects' = objects
      BY <2>2 DEF OtherStep, Ask, OpenLock, TakeGuard, BeginRun, StartContainers, EndRun, BeginReset, MoveAside,
             DeletePage, DeleteRows, Restore, RemoveStaged, Crash, run, place
    <3> QED BY <3>1, <3>2 DEF ListingInv
  <2>3. CASE CleanupFails(p)
    <3>1. objects = Pages /\ UNCHANGED <<objects, home>>
      BY <2>3 DEF CleanupFails, OnlyListingsFail, run, place
    <3> QED BY <3>1 DEF ListingInv
  <2>4. CASE ExportStep(p)
    BY <2>4, ExportMoves DEF ListingInv, Moved
  <2>5. CASE ChildStep(p)
    BY <2>5, ChildMoves DEF ListingInv, Moved, Approving
  <2> QED BY <1>2, <2>1, <2>2, <2>3, <2>4, <2>5, StepsAreOf DEF OtherStep
<1> QED BY <1>1, <1>2 DEF Next

\* While the directory is at its place there is but one lock of it.
LEMMA AloneAtHome ==
  ASSUME AdministrationInv, home = "whole", NEW p \in Process, NEW q \in Process,
         at[p] \in Inside, at[q] \in Inside
  PROVE  p = q
BY DEF AdministrationInv, TypeOK, GuardInv

LEMMA PartsOfExport ==
  ASSUME AdministrationInv, ListingInv, ExportInv, NEW p \in Process, ExportStep(p)
  PROVE  ExportInv'
<1>1. at[p] \in Inside
  BY DEF ExportStep, BeginExport, ExportReport, ExportFiles, ExportArtifacts, DeleteExport, PublishExport,
         Inside, Exporting
<1>2. home' = home
  BY ExportMoves
<1>3. at[p] \in Exporting => home = "whole"
  BY DEF AdministrationInv, StepInv
<1>4. "manifest" \in export'.parts => export'.listed = Everything
  <2>1. export' = export \/ DeleteExport(p) \/ PublishExport(p)
    BY DEF ExportStep, BeginExport, ExportReport, ExportFiles, ExportArtifacts
  <2>2. CASE DeleteExport(p)
    <3>1. PICK part \in export.parts : export' = [export EXCEPT !.parts = @ \ {part}]
      BY <2>2 DEF DeleteExport
    <3>2. export'.parts \subseteq export.parts /\ export'.listed = export.listed
      BY <3>1
    <3> QED BY <3>2 DEF ExportInv
  <2>3. CASE PublishExport(p)
    <3>1. building = Everything /\ export'.listed = building
      BY <2>3 DEF PublishExport, ExportInv
    <3> QED BY <3>1
  <2> QED BY <2>1, <2>2, <2>3 DEF ExportInv
<1>5. ASSUME NEW q \in Process
      PROVE  /\ at'[q] = "reporting" /\ home' = "whole" => building' = {}
             /\ at'[q] = "copying" => building' = {"report"}
             /\ at'[q] = "fetching" => building' = {"report", "git", "states"}
             /\ at'[q] = "replacing" => building' = Everything
  <2>1. CASE home # "whole"
    <3>1. at'[q] \notin Exporting
      BY <1>1, <1>3, <2>1, ExportMoves DEF AdministrationInv, StepInv, Moved, Exporting
    <3> QED BY <1>2, <2>1, <3>1 DEF Exporting
  <2>2. CASE home = "whole" /\ q # p
    <3>1. at'[q] \notin Inside
      BY <1>1, <2>2, AloneAtHome, ExportMoves DEF Moved
    <3> QED BY <3>1 DEF Inside, Exporting
  <2>3. CASE home = "whole" /\ q = p
    <3>1. rows /\ objects = Pages
      BY <2>3 DEF AdministrationInv, PlaceInv, ListingInv
    <3>2. /\ at[p] = "export" /\ at'[p] = "reporting" => building' = {}
          /\ at[p] = "reporting" => building' = building \cup {"report"}
          /\ at[p] = "copying" => building' = building \cup {"git", "states"}
          /\ at[p] = "fetching" => building' = building \cup Pages
          /\ at[p] = "replacing" /\ at'[p] = "replacing" => building' = building
      <4>1. CASE BeginExport(p)
        <5>1. at[p] = "export" /\ (Leave(p) \/ building' = {})
          BY <4>1 DEF BeginExport
        <5> QED BY <5>1, LeaveMoves DEF AdministrationInv
      <4>2. CASE ExportReport(p)
        BY <3>1, <4>2 DEF ExportReport
      <4>3. CASE ExportFiles(p)
        BY <2>3, <4>3 DEF ExportFiles
      <4>4. CASE ExportArtifacts(p)
        BY <3>1, <4>4 DEF ExportArtifacts
      <4>5. CASE DeleteExport(p)
        BY <4>5 DEF DeleteExport
      <4>6. CASE PublishExport(p)
        <5>1. at[p] = "replacing" /\ Leave(p)
          BY <4>6 DEF PublishExport
        <5> QED BY <5>1, LeaveMoves DEF AdministrationInv
      <4> QED BY <4>1, <4>2, <4>3, <4>4, <4>5, <4>6 DEF ExportStep
    <3>3. /\ at[p] = "reporting" => building = {}
          /\ at[p] = "copying" => building = {"report"}
          /\ at[p] = "fetching" => building = {"report", "git", "states"}
          /\ at[p] = "replacing" => building = Everything
      BY <2>3 DEF ExportInv
    <3> QED BY <2>3, <3>2, <3>3, ExportMoves DEF Everything
  <2> QED BY <2>1, <2>2, <2>3
<1> QED BY <1>4, <1>5 DEF ExportInv

LEMMA ExportInvStep ==
  ASSUME AdministrationInv, ListingInv, ExportInv, [Next]_vars
  PROVE  ExportInv'
<1>1. CASE UNCHANGED vars
  BY <1>1 DEF vars, place, exports, process, ExportInv
<1>2. ASSUME NEW p \in Process, Ask(p) \/ Continue(p) \/ Approve(p) \/ Step(p) \/ Crash(p)
      PROVE  ExportInv'
  <2>1. CASE OtherStep(p)
    <3>1. ASSUME NEW q \in Process, at[q] = "reporting", home' = "whole" PROVE home = "whole"
      <4>1. CASE at[p] = "restoring"
        <5>1. handle[p] = "own" /\ lock["own"] = p /\ q # p
          BY <3>1, <4>1, Alone DEF Deep, Resetting
        <5>2. home = "absent" \/ home' = home
          BY <2>1, <4>1 DEF OtherStep, Ask, OpenLock, TakeGuard, BeginRun, StartContainers, EndRun, BeginReset,
             MoveAside, DeletePage, DeleteRows, Restore, RemoveStaged, Crash, run, place
        <5>3. at[q] \in Inside /\ handle[q] \in Lock /\ GuardInv(q)
          BY <3>1 DEF Inside, AdministrationInv, TypeOK
        <5> QED BY <3>1, <5>1, <5>2, <5>3 DEF GuardInv
      <4>2. CASE at[p] # "restoring"
        BY <2>1, <3>1, <4>2, PlaceMoves
      <4> QED BY <4>1, <4>2
    <3> QED BY <2>1, <3>1, OthersTellNothing DEF ExportInv, Telling, Exporting
  <2>2. CASE CleanupFails(p)
    <3>1. UNCHANGED <<building, export, home>> /\ Goto(p, "restoring")
      BY <2>2 DEF CleanupFails, run, place, exports
    <3> QED BY <3>1 DEF ExportInv, Goto, AdministrationInv, TypeOK
  <2>3. CASE ExportStep(p)
    BY <2>3, PartsOfExport
  <2>4. CASE ChildStep(p)
    <3>1. UNCHANGED <<building, export, home>>
      BY <2>4 DEF ChildStep, Continue, CopyRepository, WriteContinuation, Approve, ClearGenerationOne,
         InheritMemories, InheritState, EndApproval, exports, place
    <3> QED BY <2>4, <3>1, ChildMoves DEF ExportInv, Moved, Approving
  <2> QED BY <1>2, <2>1, <2>2, <2>3, <2>4, StepsAreOf DEF OtherStep
<1> QED BY <1>1, <1>2 DEF Next
-----------------------------------------------------------------------------
(* One approval at a time. *)

\* A step of the process that approves, or one that begins to.
LEMMA ApproverKeeps ==
  ASSUME AdministrationInv, ApprovalInv, NEW p \in Process,
         \/ Approve(p) \/ ClearGenerationOne(p) \/ InheritMemories(p) \/ InheritState(p) \/ EndApproval(p)
  PROVE  ApprovalInv'
<1>1. /\ TypeOK /\ ChildStep(p) /\ child \in Children /\ child.memories \in Nat
      /\ \A q \in Process \ {p} : at'[q] = at[q] /\ at[q] \notin Approving
  <2>1. TypeOK /\ ChildStep(p)
    BY DEF AdministrationInv, ChildStep
  <2>2. Approve(p) \/ at[p] \in Approving
    BY DEF ClearGenerationOne, InheritMemories, InheritState, EndApproval, Approving
  <2>3. \A q \in Process \ {p} : at[q] \notin Approving
    BY <2>2 DEF Approve, ApprovalInv
  <2> QED BY <2>1, <2>3, ChildMoves DEF TypeOK, Children, Moved
<1>2. SUFFICES /\ at'[p] \in Approving => child'.is = "awaiting"
               /\ at'[p] = "remembering" => child'.memories = 0
               /\ at'[p] \in {"inheriting", "approving"} => child'.memories <= 1
               /\ child'.is = "ready" => child'.memories <= 1
  BY <1>1 DEF ApprovalInv, FoundersOnce, Approving
<1>3. CASE Approve(p)
  BY <1>1, <1>3 DEF Approve, Goto, TypeOK
<1>4. CASE ClearGenerationOne(p)
  <2>1. child.is = "awaiting" /\ at[p] = "clearing"
    BY <1>4 DEF ClearGenerationOne, ApprovalInv, Approving
  <2>2. CASE command[p] = "seed"
    <3>1. child' = [child EXCEPT !.is = "ready", !.git = TRUE, !.memories = 0] /\ Leave(p)
      BY <1>4, <2>2 DEF ClearGenerationOne
    <3> QED BY <1>1, <3>1, LeaveMoves DEF Approving, Children
  <2>3. CASE command[p] # "seed"
    <3>1. child' = Cleared(p)
      BY <1>4, <2>3 DEF ClearGenerationOne
    <3>2. child'.is = "awaiting" /\ child'.memories = 0
      BY <1>1, <2>1, <3>1 DEF Cleared, Children
    <3> QED BY <3>2
  <2> QED BY <2>2, <2>3
<1>5. CASE InheritMemories(p)
  <2>1. child.is = "awaiting" /\ at[p] = "remembering" /\ child.memories = 0
    BY <1>5 DEF InheritMemories, ApprovalInv, Approving
  <2>2. CASE child' = Cleared(p) /\ Leave(p)
    BY <1>1, <2>1, <2>2, LeaveMoves DEF Cleared, Children, Approving
  <2>3. CASE /\ child' = [child EXCEPT !.memories = @ + (IF Source(command[p], "report") THEN 1 ELSE 0)]
             /\ Goto(p, "inheriting")
    <3>1. child'.is = "awaiting" /\ child'.memories \in {0, 1} /\ at'[p] = "inheriting"
      BY <1>1, <2>1, <2>3 DEF Goto, TypeOK, Children
    <3> QED BY <3>1
  <2> QED BY <1>5, <2>2, <2>3 DEF InheritMemories
<1>6. CASE InheritState(p)
  <2>1. child.is = "awaiting" /\ child.memories <= 1
    BY <1>6 DEF InheritState, ApprovalInv, Approving
  <2>2. child'.is = child.is /\ child'.memories = child.memories /\ at'[p] = "approving"
    BY <1>1, <1>6 DEF InheritState, Goto, TypeOK, Children
  <2> QED BY <2>1, <2>2
<1>7. CASE EndApproval(p)
  <2>1. child.memories <= 1
    BY <1>7 DEF EndApproval, ApprovalInv
  <2>2. child'.memories = child.memories /\ at'[p] = "idle"
    BY <1>1, <1>7, LeaveMoves DEF EndApproval, Children
  <2> QED BY <2>1, <2>2 DEF Approving
<1> QED BY <1>3, <1>4, <1>5, <1>6, <1>7

\* A command that continues the run can overlap an approval of it: what it
\* writes is not what an approval counts.
LEMMA ContinuationKeeps ==
  ASSUME AdministrationInv, ApprovalInv, NEW p \in Process,
         Continue(p) \/ CopyRepository(p) \/ WriteContinuation(p)
  PROVE  ApprovalInv'
<1>1. TypeOK /\ child \in Children /\ ChildStep(p)
  BY DEF AdministrationInv, TypeOK, ChildStep
<1>2. at'[p] \notin Approving
  <2>1. CASE Continue(p)
    BY <1>1, <2>1 DEF Continue, Goto, TypeOK, Approving
  <2>2. CASE CopyRepository(p)
    <3>1. "linking" \in Steps
      BY DEF Steps
    <3> QED BY <1>1, <2>2, <3>1, RaiseMoves DEF CopyRepository, Approving
  <2>3. CASE WriteContinuation(p)
    BY <1>1, <2>3, LeaveMoves DEF WriteContinuation, Approving
  <2> QED BY <2>1, <2>2, <2>3
<1>3. /\ child'.memories = child.memories
      /\ child'.is = child.is \/ (child.is = "none" /\ child'.is = "awaiting")
  <2>1. CASE Continue(p)
    <3>1. child.is = "none" /\ child' = [child EXCEPT !.is = "awaiting"]
      BY <2>1 DEF Continue, NoChild
    <3> QED BY <1>1, <3>1 DEF Children
  <2>2. CASE CopyRepository(p)
    <3>1. child' = [child EXCEPT !.git = @ \/ Source(command[p], "git")]
      BY <2>2 DEF CopyRepository
    <3> QED BY <1>1, <3>1 DEF Children
  <2>3. CASE WriteContinuation(p)
    BY <1>1, <2>3 DEF WriteContinuation, Children
  <2> QED BY <2>1, <2>2, <2>3
<1> QED BY <1>1, <1>2, <1>3, ChildMoves DEF ApprovalInv, FoundersOnce, Moved, Approving

LEMMA ApprovalStep ==
  ASSUME AdministrationInv, ApprovalInv, [Next]_vars
  PROVE  ApprovalInv'
<1>1. CASE UNCHANGED vars
  BY <1>1 DEF vars, process, ApprovalInv, FoundersOnce
<1>2. ASSUME NEW p \in Process, Ask(p) \/ Continue(p) \/ Approve(p) \/ Step(p) \/ Crash(p)
      PROVE  ApprovalInv'
  <2>1. CASE OtherStep(p) \/ CleanupFails(p) \/ ExportStep(p)
    <3>1. child' = child /\ \A q \in Process : at'[q] \in Approving => at'[q] = at[q]
      <4>1. CASE OtherStep(p)
        BY <4>1, OthersTellNothing DEF Telling
      <4>2. CASE CleanupFails(p)
        BY <4>2 DEF CleanupFails, Goto, AdministrationInv, TypeOK, Approving
      <4>3. CASE ExportStep(p)
        BY <4>3, ExportMoves DEF Moved, Approving
      <4> QED BY <2>1, <4>1, <4>2, <4>3
    <3> QED BY <3>1 DEF ApprovalInv, FoundersOnce, Approving
  <2>2. CASE ChildStep(p)
    BY <2>2, ApproverKeeps, ContinuationKeeps DEF ChildStep
  <2> QED BY <1>2, <2>1, <2>2, StepsAreOf DEF OtherStep
<1> QED BY <1>1, <1>2 DEF Next
-----------------------------------------------------------------------------
(* Whatever a reset did and wherever it died: the directory is at its      *)
(* place only with rows and nothing staged, and who is past the first look *)
(* at the run holds the lock of that directory (engine.py:375-382,         *)
(* :1584-1652).                                                            *)
THEOREM PlaceIsInvariant == Spec => []AdministrationInv
BY AdministrationInitially, AdministrationStep, PTL DEF Spec

(* A reset that reported success removed the run, for any number of        *)
(* processes, commands and crashes, and whatever calls of a reset fail     *)
(* (engine.py:1584-1652; store.py:439-445; artifacts.py:95-110).           *)
THEOREM ResetRemoves == Spec => []RemovedIsGone
<1>1. AdministrationInv => RemovedIsGone
  BY DEF AdministrationInv
<1> QED BY <1>1, PlaceIsInvariant, PTL

(* When nothing but the listing of the artifacts fails, a run at its place *)
(* is a whole one.  The run half_reset shows the hypothesis to be needed.  *)
THEOREM RunIsWholeUnlessAway ==
  ASSUME OnlyListingsFail
  PROVE  Spec => []WholeUnlessAway
<1>1. Init => AdministrationInv /\ ListingInv
  BY AdministrationInitially
<1>2. AdministrationInv /\ ListingInv /\ [Next]_vars => (AdministrationInv /\ ListingInv)'
  BY OnlyListingsFail, AdministrationStep, ListingStep
<1>3. AdministrationInv /\ ListingInv => WholeUnlessAway
  BY DEF AdministrationInv, PlaceInv, ListingInv, WholeUnlessAway
<1> QED BY <1>1, <1>2, <1>3, PTL DEF Spec

(* An export that passes verification holds everything, whatever was reset *)
(* while it was made and whoever died: each step that reads a part finds   *)
(* the run at its place or raises (engine.py:1463-1559, :1561-1582).       *)
THEOREM VerifiedExportIsWhole ==
  ASSUME OnlyListingsFail
  PROVE  Spec => []ExportIsWhole
<1> DEFINE Inv == AdministrationInv /\ ListingInv /\ ExportInv
<1>1. Init => Inv
  BY AdministrationInitially
<1>2. Inv /\ [Next]_vars => Inv'
  BY OnlyListingsFail, AdministrationStep, ListingStep, ExportInvStep
<1>3. Inv => ExportIsWhole
  BY DEF ExportInv, ExportIsWhole, Verified
<1> QED BY <1>1, <1>2, <1>3, PTL DEF Spec

(* Founders hold each memory of their parent once, however often their     *)
(* approval was broken off, repeated or overlapped by the command that     *)
(* still writes the continuation.                                          *)
THEOREM FoundersRememberOnce == Spec => []FoundersOnce
<1> DEFINE Inv == AdministrationInv /\ ApprovalInv
<1>1. Init => Inv
  BY AdministrationInitially
<1>2. Inv /\ [Next]_vars => Inv'
  BY AdministrationStep, ApprovalStep
<1>3. Inv => FoundersOnce
  BY DEF ApprovalInv
<1> QED BY <1>1, <1>2, <1>3, PTL DEF Spec
=============================================================================
