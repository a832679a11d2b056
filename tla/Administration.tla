--------------------------- MODULE Administration ---------------------------
(***************************************************************************)
(* What the commands that do not perform epochs do to a run that exists:   *)
(* export, reset, cleanup, continue, continue-export and the approval of   *)
(* what was continued (engine.py, artifacts.py, store.py), by several      *)
(* processes, each of which may die at any step.  `run` is here for what   *)
(* it holds meanwhile.  The rows are in PostgreSQL and the artifacts in S3 *)
(* as in the deployment of docker-compose; the run's directory is local.   *)
(* The guard is a lock on the open file control.lock: it stays with the    *)
(* directory that is moved, and whoever opens the path again makes another *)
(* directory with another lock.                                            *)
(***************************************************************************)
EXTENDS Naturals, FiniteSets

CONSTANTS Process,
          Pages,        \* pages of the listing of the run's artifacts
          Failing,      \* calls of a reset that may fail: "list", "page", "rows"
          MaxCommands,  \* bound: commands given
          MaxCrashes    \* bound: processes that die

\* Who holds a lock that nobody holds.
Nobody == "nobody"

ASSUME AdministrationAssumption ==
    /\ Nobody \notin Process
    /\ Failing \subseteq {"list", "page", "rows"}
    /\ MaxCommands \in Nat /\ MaxCrashes \in Nat

VARIABLES rows,       \* the run has its relational rows
          status,     \* runs.status
          objects,    \* the pages that are still stored
          home,       \* the run's directory: "whole", "absent", or a "stub" with a lock
          staged,     \* .<run>.resetting
          containers, \* containers with the run's label run
          lock,       \* who holds the lock of which directory
          building,   \* .<run>.exporting: its parts
          export,     \* exports/<run>: its parts and what its manifest lists
          child,      \* the run that was continued from this one
          at, command, handle,  \* of a process: its step, its command, the lock it opened
          removed,    \* a reset has reported success
          blind,      \* docker did not answer a reset
          commands, crashes

process == <<at, command, handle>>
bounds == <<commands, crashes>>
place == <<home, staged>>
run == <<rows, status, objects, containers>>
exports == <<building, export>>
history == <<removed, blind>>
vars == <<run, place, lock, exports, child, process, history, bounds>>

Lock == {"own", "stub"}
\* What a complete export holds besides its manifest.
Everything == {"report", "git", "states"} \cup Pages
NoExport == [parts |-> {}, listed |-> {}]
NoChild == [is |-> "none", origin |-> "seed", git |-> FALSE, parent |-> FALSE,
            memories |-> 0, states |-> FALSE]

Init == /\ rows = TRUE /\ status \in {"paused", "complete"}
        /\ objects = Pages /\ containers = FALSE
        /\ home = "whole" /\ staged = "absent"
        /\ lock = [l \in Lock |-> Nobody]
        /\ building = {} /\ export = NoExport /\ child = NoChild
        /\ at = [p \in Process |-> "idle"]
        /\ command = [p \in Process |-> "none"]
        /\ handle = [p \in Process |-> "own"]
        /\ removed = FALSE /\ blind = FALSE
        /\ commands = 0 /\ crashes = 0

Goto(p, step) == at' = [at EXCEPT ![p] = step]

\* A command ends or raises: nothing is locked by it any more.
Leave(p) == /\ Goto(p, "idle")
            /\ lock' = [l \in Lock |-> IF lock[l] = p THEN Nobody ELSE lock[l]]

\* Continue at the step, or raise.
OrRaise(p, able, step) == IF able THEN Goto(p, step) /\ UNCHANGED lock ELSE Leave(p)
-----------------------------------------------------------------------------
(* The guard, and which commands pass before and behind it. *)

Guarded == {"run", "export", "reset"}

\* reset looks for the run first; cleanup resets the finished runs that have
\* a directory.
MayAsk(c) == CASE c = "reset" -> rows
               [] c = "cleanup" -> home # "absent" /\ rows /\ status = "complete"
               [] OTHER -> TRUE

Ask(p) ==
    /\ at[p] = "idle" /\ commands < MaxCommands
    /\ \E c \in Guarded \cup {"cleanup"} :
          /\ MayAsk(c)
          /\ command' = [command EXCEPT ![p] = IF c = "cleanup" THEN "reset" ELSE c]
    /\ Goto(p, "opening")
    /\ commands' = commands + 1
    /\ UNCHANGED <<run, place, lock, exports, child, handle, history, crashes>>

OpenLock(p) ==
    /\ at[p] = "opening"
    /\ home' = IF home = "absent" THEN "stub" ELSE home
    /\ handle' = [handle EXCEPT ![p] = IF home = "whole" THEN "own" ELSE "stub"]
    /\ Goto(p, "locking")
    /\ UNCHANGED <<run, staged, lock, exports, child, command, history, bounds>>

\* A mutant: the lock is not exclusive.
GuardShared(p) == TRUE
GuardFree(p) == lock[handle[p]] = Nobody

TakeGuard(p) ==
    /\ at[p] = "locking"
    /\ IF GuardFree(p)
       THEN Goto(p, command[p]) /\ lock' = [lock EXCEPT ![handle[p]] = p]
       ELSE Leave(p)
    /\ UNCHANGED <<run, place, exports, child, command, handle, history, bounds>>
-----------------------------------------------------------------------------
(* run: what it needs, and the containers it starts. *)

BeginRun(p) ==
    /\ at[p] = "run"
    /\ containers' = (containers /\ ~rows)
    /\ OrRaise(p, rows /\ home = "whole" /\ status = "paused", "executing")
    /\ UNCHANGED <<rows, status, objects, place, exports, child, command, handle, history, bounds>>

StartContainers(p) ==
    /\ at[p] = "executing" /\ ~containers
    /\ containers' = TRUE
    /\ UNCHANGED <<rows, status, objects, place, lock, exports, child, process, history, bounds>>

EndRun(p) ==
    /\ at[p] = "executing"
    /\ containers' = FALSE
    /\ status' \in {"paused", "complete"}
    /\ Leave(p)
    /\ UNCHANGED <<rows, objects, place, exports, child, command, handle, history, bounds>>
-----------------------------------------------------------------------------
(* reset. *)

\* A mutant: containers are left to themselves.
RemoveNothing(answered) == containers
RemoveOrphans(answered) == containers /\ ~answered

\* When docker does not answer there is nothing to remove; when it cannot
\* remove, the reset raises.
BeginReset(p) ==
    /\ at[p] = "reset"
    /\ IF ~rows THEN Leave(p) /\ UNCHANGED <<containers, blind>>
       ELSE \/ \E answered \in BOOLEAN :
                  /\ containers' = RemoveOrphans(answered)
                  /\ blind' = (blind \/ ~answered)
                  /\ OrRaise(p, staged = "absent", "staging")
            \/ containers /\ Leave(p) /\ UNCHANGED <<containers, blind>>
    /\ UNCHANGED <<rows, status, objects, place, exports, child, command, handle, removed, bounds>>

\* A mutant: what is deleted is not moved aside before.
StageNothing == UNCHANGED place
Stage == /\ staged' = home
         /\ home' = "absent"

MoveAside(p) ==
    /\ at[p] = "staging"
    /\ Stage
    /\ Goto(p, "emptying")
    /\ UNCHANGED <<run, lock, exports, child, command, handle, history, bounds>>

DeletePage(p) ==
    /\ at[p] = "emptying"
    /\ \E page \in objects : objects' = objects \ {page}
    /\ UNCHANGED <<rows, status, containers, place, lock, exports, child, process, history, bounds>>

\* One transaction over all tables.
DeleteRows(p) ==
    /\ at[p] = "emptying" /\ objects = {}
    /\ rows' = FALSE
    /\ Goto(p, "removing")
    /\ UNCHANGED <<status, objects, containers, place, lock, exports, child, command, handle, history, bounds>>

CleanupFails(p) ==
    /\ at[p] = "emptying"
    /\ \/ "list" \in Failing /\ objects = Pages
       \/ "page" \in Failing /\ objects # Pages /\ objects # {}
       \/ "rows" \in Failing /\ objects = {}
    /\ Goto(p, "restoring")
    /\ UNCHANGED <<run, place, lock, exports, child, command, handle, history, bounds>>

\* A directory cannot be moved onto one that is not empty.
Restore(p) ==
    /\ at[p] = "restoring"
    /\ IF home = "absent" THEN home' = staged /\ staged' = "absent" ELSE UNCHANGED place
    /\ Leave(p)
    /\ UNCHANGED <<run, exports, child, command, handle, history, bounds>>

RemoveStaged(p) ==
    /\ at[p] = "removing"
    /\ \/ staged' = "torn" /\ staged # "torn" /\ UNCHANGED <<at, lock, removed>>
       \/ staged' = "absent" /\ removed' = TRUE /\ Leave(p)
    /\ UNCHANGED <<run, home, exports, child, command, handle, blind, bounds>>
-----------------------------------------------------------------------------
(* export: into a directory of its own, then into the place of the last one. *)

BeginExport(p) ==
    /\ at[p] = "export"
    /\ IF rows /\ status = "complete"
       THEN building' = {} /\ Goto(p, "reporting") /\ UNCHANGED lock
       ELSE Leave(p) /\ UNCHANGED building
    /\ UNCHANGED <<run, place, export, child, command, handle, history, bounds>>

\* Absent rows are an empty table.  The objective is copied whatever there is.
ExportReport(p) ==
    /\ at[p] = "reporting"
    /\ building' = building \cup {part \in {"report"} : rows}
    /\ OrRaise(p, home = "whole", "copying")
    /\ UNCHANGED <<run, place, export, child, command, handle, history, bounds>>

\* Repositories, states and the git repository are copied where they exist.
ExportFiles(p) ==
    /\ at[p] = "copying"
    /\ building' = building \cup {part \in {"git", "states"} : home = "whole"}
    /\ Goto(p, "fetching")
    /\ UNCHANGED <<run, place, lock, export, child, command, handle, history, bounds>>

ExportArtifacts(p) ==
    /\ at[p] = "fetching"
    /\ building' = building \cup objects
    /\ Goto(p, "replacing")
    /\ UNCHANGED <<run, place, lock, export, child, command, handle, history, bounds>>

\* The last export is deleted part by part, then this one takes its place.
DeleteExport(p) ==
    /\ at[p] = "replacing"
    /\ \E part \in export.parts : export' = [export EXCEPT !.parts = @ \ {part}]
    /\ UNCHANGED <<run, place, lock, building, child, process, history, bounds>>

PublishExport(p) ==
    /\ at[p] = "replacing" /\ export.parts = {}
    /\ export' = [parts |-> building \cup {"manifest"}, listed |-> building]
    /\ building' = {}
    /\ Leave(p)
    /\ UNCHANGED <<run, place, child, command, handle, history, bounds>>

\* _verify_export
Verified == /\ "manifest" \in export.parts
            /\ export.parts = export.listed \cup {"manifest"}
-----------------------------------------------------------------------------
(* continue and continue-export: not guarded against any other command. *)

Source(origin, part) == IF origin = "export" THEN part \in export.parts
                        ELSE IF part = "report" THEN rows ELSE home = "whole"

\* The source is looked at, then another run is created; it awaits approval.
Continue(p) ==
    /\ at[p] = "idle" /\ commands < MaxCommands /\ child = NoChild
    /\ \E origin \in {"run", "export"} :
          /\ IF origin = "export" THEN Verified ELSE rows /\ home = "whole"
          /\ command' = [command EXCEPT ![p] = origin]
    /\ Goto(p, "continuing")
    /\ child' = [child EXCEPT !.is = "awaiting"]
    /\ commands' = commands + 1
    /\ UNCHANGED <<run, place, lock, exports, handle, history, crashes>>

\* Without a repository to copy, or with one in its place, the command
\* raises; the run stays.
CopyRepository(p) ==
    /\ at[p] = "continuing"
    /\ child' = [child EXCEPT !.git = @ \/ Source(command[p], "git")]
    /\ OrRaise(p, Source(command[p], "git") /\ ~child.git, "linking")
    /\ UNCHANGED <<run, place, exports, command, handle, history, bounds>>

\* The parent of a live run is looked up last.
WriteContinuation(p) ==
    /\ at[p] = "linking"
    /\ child' = [child EXCEPT !.origin = command[p],
                              !.parent = (command[p] = "export" \/ rows)]
    /\ Leave(p)
    /\ UNCHANGED <<run, place, exports, command, handle, history, bounds>>
-----------------------------------------------------------------------------
(* approve, of the continued run. *)

Approving == {"clearing", "remembering", "inheriting", "approving"}

Approve(p) ==
    /\ at[p] = "idle" /\ commands < MaxCommands
    /\ child.is = "awaiting"
    /\ \A q \in Process : at[q] \notin Approving
    /\ Goto(p, "clearing")
    /\ command' = [command EXCEPT ![p] = child.origin]
    /\ commands' = commands + 1
    /\ UNCHANGED <<run, place, lock, exports, child, handle, history, crashes>>

\* What an approval that did not end had made is deleted, and the source's
\* repository copied again where it is found.  The approval of a run without
\* continuation.json makes a repository of its own.
\* (The first definition is a mutant: what was imported stays.)
ClearedButMemories(p) == [child EXCEPT !.git = Source(command[p], "git"), !.states = FALSE]
Cleared(p) == [child EXCEPT !.git = Source(command[p], "git"), !.memories = 0, !.states = FALSE]

ClearGenerationOne(p) ==
    /\ at[p] = "clearing"
    /\ IF command[p] = "seed"
       THEN child' = [child EXCEPT !.is = "ready", !.git = TRUE, !.memories = 0] /\ Leave(p)
       ELSE child' = Cleared(p) /\ OrRaise(p, child'.git, IF child.parent THEN "remembering" ELSE "approving")
    /\ UNCHANGED <<run, place, exports, command, handle, history, bounds>>

\* A report that is gone raises, rows that are gone are no memories.
InheritMemories(p) ==
    /\ at[p] = "remembering"
    /\ IF command[p] = "export" /\ "report" \notin export.parts
       THEN child' = Cleared(p) /\ Leave(p)
       ELSE /\ child' = [child EXCEPT !.memories = @ + (IF Source(command[p], "report") THEN 1 ELSE 0)]
            /\ Goto(p, "inheriting") /\ UNCHANGED lock
    /\ UNCHANGED <<run, place, exports, command, handle, history, bounds>>

InheritState(p) ==
    /\ at[p] = "inheriting"
    /\ child' = [child EXCEPT !.states = Source(command[p], "states")]
    /\ Goto(p, "approving")
    /\ UNCHANGED <<run, place, lock, exports, command, handle, history, bounds>>

EndApproval(p) ==
    /\ at[p] = "approving"
    /\ child' = [child EXCEPT !.is = "ready"]
    /\ Leave(p)
    /\ UNCHANGED <<run, place, exports, command, handle, history, bounds>>
-----------------------------------------------------------------------------
\* A process dies: its locks are free, the containers it started run on.
Crash(p) ==
    /\ at[p] # "idle" /\ crashes < MaxCrashes
    /\ crashes' = crashes + 1
    /\ Leave(p)
    /\ UNCHANGED <<run, place, exports, child, command, handle, history, commands>>

Step(p) == \/ OpenLock(p) \/ TakeGuard(p)
           \/ BeginRun(p) \/ StartContainers(p) \/ EndRun(p)
           \/ BeginReset(p) \/ MoveAside(p) \/ DeletePage(p) \/ DeleteRows(p)
           \/ CleanupFails(p) \/ Restore(p) \/ RemoveStaged(p)
           \/ BeginExport(p) \/ ExportReport(p) \/ ExportFiles(p) \/ ExportArtifacts(p)
           \/ DeleteExport(p) \/ PublishExport(p)
           \/ CopyRepository(p) \/ WriteContinuation(p)
           \/ ClearGenerationOne(p) \/ InheritMemories(p) \/ InheritState(p) \/ EndApproval(p)

Next == \E p \in Process : Ask(p) \/ Continue(p) \/ Approve(p) \/ Step(p) \/ Crash(p)

Spec == Init /\ [][Next]_vars
-----------------------------------------------------------------------------
\* The run's directory is at its place only with the rows and all artifacts:
\* what a reset that stopped or gave up leaves is the run or is set aside.
WholeUnlessAway == home = "whole" => rows /\ objects = Pages

\* An export that passes verification holds the run's rows, repositories,
\* states and artifacts, whatever was reset meanwhile and whoever died.
ExportIsWhole == Verified => export.listed = Everything

\* After a reset that reported success nothing of the run is found: no rows,
\* no artifacts, no files and, when docker answered it, no container.
RemovedIsGone == removed => /\ ~rows /\ objects = {}
                            /\ home # "whole" /\ staged = "absent"
                            /\ containers => blind

\* Founders hold each memory of their parent once, however often their
\* approval was broken off and repeated.
FoundersOnce == child.is = "ready" => child.memories <= 1

\* README: "If infrastructure cleanup fails, the filesystem move is reversed
\* rather than leaving a half-deleted run."  A run that is back at its place
\* is not half deleted.
NotHalfDeleted == home = "whole" => (rows => objects = Pages)
=============================================================================
