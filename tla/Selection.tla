----------------------------- MODULE Selection -----------------------------
(***************************************************************************)
(* One selection, as _select_and_birth does it over the store, the Git     *)
(* repository and the agents' directories, and _rollback_selection, which  *)
(* takes it back.  An action is the code between two durable effects; pc   *)
(* names the effect that comes next.  The process can die at any of them,  *)
(* an exception can end the selection at any of them, and the rollback     *)
(* itself can be cut short and repeated.                                   *)
(*                                                                         *)
(* What the specialists and organisms answer is arbitrary, so a checkpoint *)
(* of an earlier answer is one of the answers they may give again.         *)
(***************************************************************************)
EXTENDS Heredity

CONSTANTS
  CrashPoints,  \* the pcs at which the process may die
  MaxFaults,    \* bound on crashes and unexpected exceptions together
  Executor      \* what runs the organisms: containers, or a command

ASSUME ExecutorAssumption == Executor \in {"docker", "command"}
ASSUME FaultAssumption == MaxFaults \in Nat

VARIABLES
  agents,     \* the agents rows
  genomes,    \* the genomes rows, with the commit of their manifest
  lineage,    \* the lineage rows
  bank,       \* the knowledge rows: the owner of each id
  links,      \* the memory_links rows
  heads,      \* refs/heads
  tags,       \* refs/tags/genome
  states,     \* agents/<id>/state
  worktrees,  \* agents/<id>/repository: the commit that is checked out
  snapshot,   \* selection-snapshots/epoch-NNNN.json, {} when missing
  saved,      \* selection-snapshots/epoch-NNNN-states, {} when missing
  successes,  \* the scores rows whose outcome is success
  status,     \* epochs.status
  pc,         \* where the engine is, "idle" when no process holds the run
  after,      \* where a rollback returns to
  reflected,  \* organisms whose adaptation has come back
  parents,    \* the Tweaker's assignment: the parent of each birth
  turn,       \* the rank of the organism, or the number of the birth, at hand
  attempt,    \* attempts at this birth, this one included
  made,       \* the commit that awaits its genome row, {} when none
  faults      \* faults so far, for MaxFaults

store == <<agents, genomes, lineage, bank, links>>
git == <<heads, tags>>
directories == <<states, worktrees>>
files == <<snapshot, saved>>
plan == <<after, reflected, parents>>
task == <<turn, attempt, made>>
memory == <<plan, task>>
vars == <<store, git, directories, files, successes, status, pc, memory, faults>>

-----------------------------------------------------------------------------
BirthAttempts == 5

ForwardPoints == {"rank", "save_states", "save_snapshot", "cull", "reflect",
                  "adapt", "register", "activate", "birth", "enrol", "insert",
                  "inherit_memory", "inherit_state", "close"}
TidyPoints == {"tidy", "sweep"}
UndoPoints == {"undo", "undo_agents", "undo_rows", "undo_memory",
               "undo_genomes", "undo_refs", "undo_directories",
               "undo_worktrees", "undo_states", "restoring", "drop_states",
               "dropping", "drop_snapshot"}
Points == {"idle"} \cup ForwardPoints \cup TidyPoints \cup UndoPoints

Torn == 0  \* the owner of a state directory of which only a part is left
NobodysState == [of |-> Torn, touched |-> TRUE]

Current == [agents |-> agents, genomes |-> genomes, lineage |-> lineage,
            bank |-> bank, links |-> links, heads |-> heads, tags |-> tags,
            states |-> states]

Init ==
  /\ agents = Founding.agents /\ genomes = Founding.genomes
  /\ lineage = Founding.lineage /\ bank = Founding.bank
  /\ links = Founding.links /\ heads = Founding.heads
  /\ tags = Founding.tags /\ states = Founding.states
  /\ worktrees = [a \in Founders |-> Seed(a)]
  /\ snapshot = {} /\ saved = {}
  /\ successes \in 0..PopulationSize
  /\ status = "selection_pending"
  /\ pc = "rank" /\ after = "idle"
  /\ reflected = {} /\ parents = <<>> /\ turn = 1 /\ attempt = 1 /\ made = {}
  /\ faults = 0

\* The local variables of a selection that has not begun or has ended.
Forget ==
  /\ reflected' = {} /\ parents' = <<>> /\ turn' = 1 /\ attempt' = 1
  /\ made' = {}

Goto(from, to) == pc = from /\ pc' = to
Step(from, to) ==
  Goto(from, to) /\ UNCHANGED <<successes, status, faults>>

\* An exception in _select_and_birth, whose callers roll it back.
Raise(from) == Goto(from, "undo") /\ after' = "idle" /\ Forget

-----------------------------------------------------------------------------
(* From the ranking to the report, and the snapshot. *)

NoSuccess ==
  /\ Goto("rank", "idle")
  /\ successes = 0
  /\ status' = "complete"
  /\ UNCHANGED <<store, git, directories, files, successes, memory, faults>>

\* Every scored genome is proved again, rematerialized if it must be, and the
\* Tweaker assigns a parent to each birth.
Rank ==
  /\ Step("rank", "save_states")
  /\ successes > 0
  /\ worktrees' = [a \in DOMAIN worktrees |->
                     IF agents[a].status = "active"
                     THEN genomes[agents[a].genome] ELSE worktrees[a]]
  /\ parents' \in [1..Births(successes) -> EliteAgents(successes)]
  /\ UNCHANGED <<store, git, states, files, after, reflected, task>>

\* The states are copied to a staging directory first, which is renamed.
SaveStates ==
  /\ Step("save_states", "save_snapshot")
  /\ saved' = {[complete |-> TRUE, states |-> states]}
  /\ UNCHANGED <<store, git, directories, snapshot, memory>>

SaveSnapshot ==
  /\ Step("save_snapshot", "cull")
  /\ snapshot' = {[agents |-> agents, genomes |-> DOMAIN genomes,
                   knowledge |-> DOMAIN bank, links |-> links,
                   heads |-> heads, tags |-> tags]}
  /\ UNCHANGED <<store, git, directories, saved, memory>>

-----------------------------------------------------------------------------
(* Culling. *)

ToCull == {a \in CulledAgents(successes) : agents[a].status = "active"}

CullAgent ==
  /\ Step("cull", "cull")
  /\ \E a \in ToCull : agents' = [agents EXCEPT ![a].status = "archived"]
  /\ UNCHANGED <<genomes, lineage, bank, links, git, directories, files,
                 memory>>

CullingEnds ==
  /\ Step("cull", "reflect")
  /\ ToCull = {}
  /\ UNCHANGED <<store, git, directories, files, memory>>

-----------------------------------------------------------------------------
(* Adaptation of the middle cohort. *)

\* The repository of an organism that has written to it.  A container mounts it
\* read-only; a command runs in it.
Written(c) == [c EXCEPT !.by = "organism"]
Writable == Executor = "command"
MayWrite(a) ==
  \/ UNCHANGED worktrees
  \/ /\ Writable
     /\ worktrees' = [worktrees EXCEPT ![a] = Written(@)]

\* A mutant: the elite reflects as well.
ReflectSurvivors ==
  /\ Step("reflect", "reflect")
  /\ \E a \in (EliteAgents(successes) \cup MiddleAgents(successes))
               \ reflected :
       /\ reflected' = reflected \cup {a}
       /\ states' = [states EXCEPT ![a].touched = TRUE]
       /\ MayWrite(a)
  /\ UNCHANGED <<store, git, files, after, parents, task>>
\* A thread for each organism; it works in its own state directory.
Reflect ==
  /\ Step("reflect", "reflect")
  /\ \E a \in MiddleAgents(successes) \ reflected :
       /\ reflected' = reflected \cup {a}
       /\ states' = [states EXCEPT ![a].touched = TRUE]
       /\ MayWrite(a)
  /\ UNCHANGED <<store, git, files, after, parents, task>>

ReflectionEnds ==
  /\ Step("reflect", "adapt")
  /\ reflected = MiddleAgents(successes)
  /\ turn' = EliteCount(PopulationSize, successes) + 1
  /\ UNCHANGED <<store, git, directories, files, plan, attempt, made>>

Adapting == turn \in Middle(PopulationSize, successes)
Adapter == Archived + turn
OldGenome == agents[Adapter].genome
\* An organism that wrote to its repository has failed to adapt.
Proposed == Adapting /\ worktrees[Adapter] = genomes[OldGenome]

Publish(a, n) ==
  LET last == CHOOSE i \in DOMAIN bank : \A j \in DOMAIN bank : j <= i
  IN  bank' = [i \in DOMAIN bank \cup (last + 1)..(last + n) |->
                 IF i \in DOMAIN bank THEN bank[i] ELSE a]

\* It kept its genome, or crashed, which takes a second record and leaves its
\* repository as it is, or asked for something invalid, upon which that is
\* rematerialized from the genome it has not left.
KeepGenome ==
  /\ Step("adapt", "adapt")
  /\ Adapting
  /\ \E records \in IF Proposed THEN 1..2 ELSE {2} : Publish(Adapter, records)
  /\ turn' = turn + 1
  /\ UNCHANGED <<agents, genomes, lineage, links, git, directories, files,
                 plan, attempt, made>>

\* What organisms propose: their own tree again, that of another, a new one.
Proposable(own) == {own, 1} \cup Novel

\* Git computes the same hash for the same content, parent, message and second.
Hashes(tree, from, by) ==
  LET same == {c \in tags \cup {heads[b] : b \in DOMAIN heads} :
                 c.tree = tree /\ c.from = from /\ c.by = by}
  IN  {Commit(tree, from, by, at) : at \in IF same = {} THEN {1} ELSE {1, 2}}

\* A mutant: the tag alone is pushed, since tags are what is kept forever.
PushTagOnly(branch, c) == tags' = tags \cup {c} /\ UNCHANGED heads
\* GitStore.commit pushes the commit as a tag and as the agent's branch.
Push(branch, c) == tags' = tags \cup {c} /\ heads' = Put(heads, branch, c)

Discard(branch, c, restore) ==
  tags' = tags \ {c} /\ heads' = Put(heads, branch, restore)

CommitAdaptation ==
  /\ Step("adapt", "register")
  /\ Proposed
  /\ \E tree \in Proposable(OldGenome) \ {OldGenome} :
       \E c \in Hashes(tree, OldGenome, "adaptation") :
         /\ Push(Adapter, c)
         /\ worktrees' = [worktrees EXCEPT ![Adapter] = c]
         /\ made' = {c}
  /\ UNCHANGED <<store, states, files, plan, turn, attempt>>

\* A proposal that changes nothing leaves Git nothing to commit, and the error
\* of the git process is none that adaptation expects.
NothingToCommit ==
  /\ Raise("adapt")
  /\ Proposed
  /\ UNCHANGED <<store, git, directories, files, successes, status, faults>>

\* A mutant: the repository keeps the duplicate that was discarded.
RejectCommitOnly ==
  /\ Step("register", "adapt")
  /\ \E c \in made :
       /\ c.tree \in DOMAIN genomes
       /\ Discard(Adapter, c, genomes[OldGenome])
  /\ Publish(Adapter, 1)
  /\ made' = {} /\ turn' = turn + 1
  /\ UNCHANGED <<agents, genomes, lineage, links, directories, files, plan,
                 attempt>>
RejectAdaptation ==
  /\ Step("register", "adapt")
  /\ \E c \in made :
       /\ c.tree \in DOMAIN genomes
       /\ Discard(Adapter, c, genomes[OldGenome])
  /\ worktrees' = [worktrees EXCEPT ![Adapter] = genomes[OldGenome]]
  /\ Publish(Adapter, 1)
  /\ made' = {} /\ turn' = turn + 1
  /\ UNCHANGED <<agents, genomes, lineage, links, states, files, plan,
                 attempt>>

Register(from, to) ==
  /\ Step(from, to)
  /\ \E c \in made :
       /\ c.tree \notin DOMAIN genomes
       /\ genomes' = Put(genomes, c.tree, c)
  /\ UNCHANGED <<agents, lineage, bank, links, git, directories, files,
                 memory>>

RegisterAdaptation == Register("register", "activate")

\* The active genome, the lineage and the record are three commits.
Activate ==
  /\ Step("activate", "adapt")
  /\ \E c \in made :
       /\ agents' = [agents EXCEPT ![Adapter].genome = c.tree]
       /\ lineage' = lineage \cup {[child |-> Adapter, parent |-> Adapter,
                                    genome |-> c.tree, epoch |-> Epoch]}
  /\ Publish(Adapter, 1)
  /\ made' = {} /\ turn' = turn + 1
  /\ UNCHANGED <<genomes, links, git, directories, files, plan, attempt>>

AdaptationEnds ==
  /\ Step("adapt", "birth")
  /\ ~Adapting
  /\ turn' = 1 /\ attempt' = 1
  /\ UNCHANGED <<store, git, directories, files, plan, made>>

-----------------------------------------------------------------------------
(* Births into the slots of the culled. *)

Slot == Cardinality(DOMAIN agents) + 1
Parent == parents[turn]
ParentGenome == agents[Parent].genome
Birthing == turn <= Births(successes)

\* A clone of the parent's commit in the slot's directory; an invalid mutation
\* is undone by another.
RejectInvalidBirth ==
  /\ Step("birth", "birth")
  /\ Birthing /\ attempt <= BirthAttempts
  /\ worktrees' = Put(worktrees, Slot, genomes[ParentGenome])
  /\ attempt' = attempt + 1
  /\ UNCHANGED <<store, git, states, files, plan, turn, made>>

CommitBirth ==
  /\ Step("birth", "enrol")
  /\ Birthing /\ attempt <= BirthAttempts
  /\ \E tree \in Proposable(ParentGenome) \ {ParentGenome} :
       \E c \in Hashes(tree, ParentGenome, "birth") :
         /\ Push(Slot, c)
         /\ worktrees' = Put(worktrees, Slot, c)
         /\ made' = {c}
  /\ UNCHANGED <<store, states, files, plan, turn, attempt>>

\* Five attempts failed, or the mutation left nothing to commit.
BirthFails ==
  /\ Raise("birth")
  /\ Birthing
  /\ worktrees' = IF attempt > BirthAttempts THEN worktrees
                  ELSE Put(worktrees, Slot, genomes[ParentGenome])
  /\ UNCHANGED <<store, git, states, files, successes, status, faults>>

RejectBirth ==
  /\ Step("enrol", "birth")
  /\ \E c \in made :
       /\ c.tree \in DOMAIN genomes
       /\ Discard(Slot, c, genomes[ParentGenome])
  /\ made' = {} /\ attempt' = attempt + 1
  /\ UNCHANGED <<store, directories, files, plan, turn>>

RegisterBirth == Register("enrol", "insert")

InsertDescendant ==
  /\ Step("insert", "inherit_memory")
  /\ \E c \in made :
       /\ agents' = Put(agents, Slot, [status |-> "active", genome |-> c.tree,
                                       parent |-> Parent])
       /\ lineage' = lineage \cup {[child |-> Slot, parent |-> Parent,
                                    genome |-> c.tree, epoch |-> Epoch]}
  /\ made' = {}
  /\ UNCHANGED <<genomes, bank, links, git, directories, files, plan, turn,
                 attempt>>

Newborn == Cardinality(DOMAIN agents)

InheritMemory ==
  /\ Step("inherit_memory", "inherit_state")
  /\ links' = links \cup {<<Newborn, i>> : i \in Remembers(bank, links, Parent)}
  /\ UNCHANGED <<agents, genomes, lineage, bank, git, directories, files,
                 memory>>

InheritState ==
  /\ Step("inherit_state", "birth")
  /\ states' = Put(states, Newborn, [of |-> states[Parent].of,
                                     touched |-> FALSE])
  /\ turn' = turn + 1 /\ attempt' = 1
  /\ UNCHANGED <<store, git, worktrees, files, plan, made>>

BirthsEnd ==
  /\ Step("birth", "close")
  /\ ~Birthing
  /\ UNCHANGED <<store, git, directories, files, memory>>

-----------------------------------------------------------------------------
(* The epoch is complete with this commit; what follows clears away. *)

Close ==
  /\ Goto("close", "tidy")
  /\ status' = "complete"
  /\ Forget
  /\ UNCHANGED <<store, git, directories, files, successes, after, faults>>

TidySnapshot ==
  /\ Step("tidy", "sweep")
  /\ snapshot' = {}
  /\ UNCHANGED <<store, git, directories, saved, memory>>

SweepStates ==
  /\ Step("sweep", "idle")
  /\ saved' = {}
  /\ UNCHANGED <<store, git, directories, snapshot, memory>>

-----------------------------------------------------------------------------
(* Rollback, before a selection is resumed and after one has failed. *)

Resume ==
  /\ Step("idle", "undo")
  /\ status = "selection_pending"
  /\ after' = "rank"
  /\ Forget
  /\ UNCHANGED <<store, git, directories, files>>

NothingToUndo ==
  /\ Step("undo", after)
  /\ snapshot = {}
  /\ after' = "idle"
  /\ UNCHANGED <<store, git, directories, files, reflected, parents, task>>

Undoing(from, to) == Step(from, to) /\ UNCHANGED memory

\* The records of descendants go first, as long as their rows tell who they
\* are; then every agent row.
ForgetAgents ==
  /\ Undoing("undo", "undo_agents")
  /\ \E s \in snapshot :
       bank' = Only(bank, {i \in DOMAIN bank :
                             bank[i] \notin DOMAIN agents \ DOMAIN s.agents})
  /\ agents' = <<>>
  /\ snapshot # {}
  /\ UNCHANGED <<genomes, lineage, links, git, directories, files>>

RestoreAgents ==
  /\ Undoing("undo_agents", "undo_rows")
  /\ \E s \in snapshot : agents' = s.agents
  /\ UNCHANGED <<genomes, lineage, bank, links, git, directories, files>>

ForgetLineage ==
  /\ Undoing("undo_rows", "undo_memory")
  /\ lineage' = {l \in lineage : l.epoch # Epoch}
  /\ UNCHANGED <<agents, genomes, bank, links, git, directories, files>>

\* Records, links and, like links, ratings.
RestoreMemory ==
  /\ Undoing("undo_memory", "undo_genomes")
  /\ \E s \in snapshot : bank' = Only(bank, s.knowledge) /\ links' = s.links
  /\ UNCHANGED <<agents, genomes, lineage, git, directories, files>>

ForgetGenomes ==
  /\ Undoing("undo_genomes", "undo_refs")
  /\ \E s \in snapshot : genomes' = Only(genomes, s.genomes)
  /\ UNCHANGED <<agents, lineage, bank, links, git, directories, files>>

\* A mutant: new refs are deleted but moved ones are not put back.
ForgetRefs ==
  /\ Undoing("undo_refs", "undo_directories")
  /\ \E s \in snapshot : /\ heads' = Only(heads, DOMAIN s.heads)
                         /\ tags' = tags \cap s.tags
  /\ UNCHANGED <<store, directories, files>>
RestoreRefs ==
  /\ Undoing("undo_refs", "undo_directories")
  /\ \E s \in snapshot : heads' = s.heads /\ tags' = s.tags
  /\ UNCHANGED <<store, directories, files>>

ForgetDirectories ==
  /\ Undoing("undo_directories", "undo_worktrees")
  /\ \E s \in snapshot : /\ states' = Only(states, DOMAIN s.agents)
                         /\ worktrees' = Only(worktrees, DOMAIN s.agents)
  /\ UNCHANGED <<store, git, files>>

Rematerialize ==
  /\ Undoing("undo_worktrees", "undo_states")
  /\ \E s \in snapshot :
       worktrees' = [a \in DOMAIN worktrees |-> genomes[s.agents[a].genome]]
  /\ UNCHANGED <<store, git, states, files>>

\* Without a complete copy of the states there is nothing to restore.
Whole == {s \in saved : s.complete}

NothingToRestore ==
  /\ Undoing("undo_states", "drop_snapshot")
  /\ Whole = {}
  /\ UNCHANGED <<store, git, directories, files>>

\* One directory after the other, in any order, is deleted and copied anew: at
\* any moment at most one is there in part.
RestoreSomeStates ==
  /\ Undoing("undo_states", "restoring")
  /\ \E s \in Whole : \E torn \in DOMAIN s.states :
       \E done \in SUBSET {a \in DOMAIN s.states : states[a] # s.states[a]} :
         states' = [a \in DOMAIN states |->
                      IF a \in done THEN s.states[a]
                      ELSE IF a = torn THEN NobodysState ELSE states[a]]
  /\ UNCHANGED <<store, git, worktrees, files>>

RestoreStates ==
  /\ Undoing("restoring", "drop_states")
  /\ \E s \in Whole :
       states' = [a \in DOMAIN states |->
                    IF a \in DOMAIN s.states THEN s.states[a] ELSE states[a]]
  /\ UNCHANGED <<store, git, worktrees, files>>

\* rmtree takes the entries in any order; at any moment at most one directory
\* is deleted in part.
DropSomeStates ==
  /\ Undoing("drop_states", "dropping")
  /\ \E s \in saved :
       \/ saved' = {[s EXCEPT !.complete = FALSE]}
       \/ \E a \in DOMAIN s.states :
            saved' = {[s EXCEPT !.states[a] = NobodysState]}
  /\ UNCHANGED <<store, git, directories, snapshot>>

DropStates ==
  /\ Undoing("dropping", "drop_snapshot")
  /\ saved' = {}
  /\ UNCHANGED <<store, git, directories, snapshot>>

DropSnapshot ==
  /\ Step("drop_snapshot", after)
  /\ snapshot' = {}
  /\ after' = "idle"
  /\ UNCHANGED <<store, git, directories, saved, reflected, parents, task>>

-----------------------------------------------------------------------------
(* Faults. *)

\* Not once the epoch is complete: RunLifecycle has a run about that.
Fail ==
  /\ pc \in ForwardPoints
  /\ faults < MaxFaults
  /\ Raise(pc)
  /\ faults' = faults + 1
  /\ UNCHANGED <<store, git, directories, files, successes, status>>

\* The process dies, or an exception escapes from a rollback.
Crash ==
  /\ pc \in CrashPoints \ {"idle"}
  /\ faults < MaxFaults
  /\ Goto(pc, "idle") /\ after' = "idle" /\ Forget
  /\ faults' = faults + 1
  /\ UNCHANGED <<store, git, directories, files, successes, status>>

Selecting ==
  NoSuccess \/ Rank \/ SaveStates \/ SaveSnapshot \/ CullAgent \/ CullingEnds
Adaptation ==
  \/ Reflect \/ ReflectionEnds \/ KeepGenome \/ CommitAdaptation
  \/ NothingToCommit \/ RejectAdaptation \/ RegisterAdaptation \/ Activate
  \/ AdaptationEnds
Reproduction ==
  \/ RejectInvalidBirth \/ CommitBirth \/ BirthFails \/ RejectBirth
  \/ RegisterBirth \/ InsertDescendant \/ InheritMemory \/ InheritState
  \/ BirthsEnd \/ Close \/ TidySnapshot \/ SweepStates
Rollback ==
  \/ NothingToUndo \/ ForgetAgents \/ RestoreAgents \/ ForgetLineage
  \/ RestoreMemory \/ ForgetGenomes \/ RestoreRefs \/ ForgetDirectories
  \/ Rematerialize \/ NothingToRestore \/ RestoreSomeStates \/ RestoreStates
  \/ DropSomeStates \/ DropStates \/ DropSnapshot

Next ==
  Selecting \/ Adaptation \/ Reproduction \/ Resume \/ Rollback \/ Fail \/ Crash

Spec == Init /\ [][Next]_vars

-----------------------------------------------------------------------------
(* What a resumption would go on with: what is there once the epoch is       *)
(* complete, what the snapshot holds as long as it is not.                   *)

Restored(s) ==
  [agents |-> s.agents, genomes |-> Only(genomes, s.genomes),
   lineage |-> {l \in lineage : l.epoch # Epoch},
   bank |-> Only(bank, s.knowledge), links |-> s.links, heads |-> s.heads,
   tags |-> s.tags,
   states |-> IF Whole = {} \/ pc = "dropping"
              THEN Only(states, DOMAIN s.agents)
              ELSE (CHOOSE w \in Whole : TRUE).states]

Lasting ==
  IF status = "complete" \/ snapshot = {} THEN Current
  ELSE Restored(CHOOSE s \in snapshot : TRUE)

Atomic == INSTANCE AtomicSelection
            WITH population <- Lasting, selected <- (status = "complete")

\* README.md:277: a failure during culling, reflection or birth rolls the
\* transition back completely.  Wherever the process dies, and however often
\* it dies in recovering from that, the population is the one that was graded
\* or a whole next generation of it.
AllOrNothing == Atomic!Spec

\* A birth is tried five times at most (engine.py:1030), one commit at a time
\* awaits its row, and no founder's directory is ever missing.
TypeOK ==
  /\ status \in {"selection_pending", "complete"}
  /\ pc \in Points
  /\ after \in {"idle", "rank"}
  /\ \A a \in DOMAIN agents : /\ agents[a].status \in {"active", "archived"}
                              /\ agents[a].genome \in Trees
  /\ DOMAIN genomes \subseteq Trees
  /\ Founders \subseteq DOMAIN worktrees /\ Founders \subseteq DOMAIN states
  /\ attempt \in 1..(BirthAttempts + 1)
  /\ Cardinality(made) <= 1 /\ Cardinality(snapshot) <= 1
  /\ Cardinality(saved) <= 1

\* engine.py:920-923: an agent's genome is always registered, and
\* gitstore.py:61: its commit is retained.  Neither a discarded duplicate nor
\* an interrupted rollback leaves a row without what it refers to, although a
\* duplicate made in the same second has the hash of the registered commit.
NothingDangles ==
  /\ \A a \in DOMAIN agents : agents[a].genome \in DOMAIN genomes
  /\ \A t \in DOMAIN genomes :
       genomes[t] \in tags \cup {heads[a] : a \in DOMAIN heads}

\* README.md:188: the elite is preserved exactly as it performed, at every
\* moment of a selection and of its rollback.  A rollback replaces its state
\* directory by the copy of it, which is whole until that is done.
ElitePreserved ==
  \A a \in EliteAgents(successes) :
    /\ a \in DOMAIN agents => agents[a] = Founding.agents[a]
    /\ \/ states[a] = Founding.states[a]
       \/ /\ states[a] = NobodysState /\ status = "selection_pending"
          /\ \E s \in Whole : s.states[a] = Founding.states[a]
    /\ heads[a] = Founding.heads[a]

\* What _verify_agent_genome will ask before the next epoch (engine.py:1282):
\* the repository of every living agent is its genome, and no directory
\* belongs to nobody.  So it is in containers.  README.md:203 promises as much
\* of crashed adaptations, yet where organisms are commands that run in their
\* repository, one that has written to it keeps what it wrote.
ReadyToPerform ==
  status = "complete" /\ successes > 0 =>
    /\ DOMAIN worktrees = DOMAIN agents
    /\ \A a \in DOMAIN agents :
         agents[a].status = "active" => worktrees[a] = genomes[agents[a].genome]

\* README.md:203: "Invalid, duplicate, or crashed adaptations retain the
\* previously scored genome."  No answer of an organism ends the selection.
AdaptationNeverFails == [][pc = "adapt" => pc' # "undo"]_vars
=============================================================================
