# KADATH in TLA+

KADATH (`src/kadath`) evolves a population of agent programs.  A run executes
its organisms for an epoch, freezes what they left, has it graded, selects,
lets the middle cohort adapt, breeds descendants of the elite and goes on with
the next epoch.  The kernel promises that it can die, fail or be paused at any
time and go on from the last durable boundary.  This directory states what that
means and checks it: TLC on small instances, TLAPS for every instance.

## Inventory

| Component | State | Operations | Talks to |
|---|---|---|---|
| Run lifecycle, `engine.py` | rows of `runs` and `epochs`, `objective-definition.json`, `pause.requested`, snapshots | `init` `approve` `run` `pause`, the loop, the handlers | all of the below |
| Selection and heredity, `engine.py` `gitstore.py` `mutations.py` | `agents` `genomes` `lineage`, branches and genome tags, worktrees, states | cohorts, snapshot, cull, adapt, birth, rollback | store, Git, specialists |
| Grading and frozen evidence, `engine.py` `specialists.py` | `frozen-attempts`, seals, grader checkpoints, `scores` | freeze, seal, verify, grade, persist | store, artifacts, specialists |
| Memory bank, `store.py` | `knowledge` `memory_links` `knowledge_ratings` | add, link, rate, trust, rank, delete | the engine, the broker |
| Worker broker and pool, `worker_broker.py` `workers.py` | job table, tokens, slots, permits, counters | request threads, spawn, stop | containers, model provider, store |
| Parent execution and browsers, `containers.py` `executors.py` `browsers.py` | containers, results, repositories | execute with restarts, fleet start and stop | Docker |
| Specialists, `specialists.py` | checkpoints | benchmark checks, fragments, batches, repair, merging, scoring | model provider |
| Administration, `engine.py` `artifacts.py` | rows, artifacts, run directories, exports, locks | export, reset, cleanup, continue, approval of what was continued | all stores |
| Organism runtime, `seed/` | libraries, trace, outbox, result | launch, passes, flush | broker |
| Command line and dashboards, `cli.py` | none | parsing, rendering | not modelled |

How they interact.  One control process owns a run at a time (`_run_guard`, a
file lock).  It calls the store synchronously; every `Store.execute` is a
transaction of its own, so whatever takes two of them can be torn.  Inside one
epoch it runs threads: one per organism, one per grader, the broker's request
threads, worker tasks.  Other processes only write `pause.requested`, read, or
are refused by the lock.

What is hard about it:

* **Crashes between two commits.**  No operation of the engine is one
  transaction.  Recovery is by reading rows, and what it concludes depends on
  which of two commits was the last.
* **Handlers.**  An exception in the loop, an exception in a resumed selection
  and an outage of the graders take three different ways back, and a crash a
  fourth.
* **Undoing selection**, which changes rows, files, Git refs, worktrees and
  memory, one at a time, and which can itself be interrupted and repeated.
* **Threads** of the broker, the pool, the graders and the browser fleet.
* **Rounding and limits**: cohorts, trust tiers, publications, restarts.

`PROJECT.json` lists these hazards at their lines, with the properties that
watch them.

What makes each component correct:

* lifecycle: only whole, verified populations are executed; a frozen one is
  never executed again; a leaderboard is whole or unseen; every attempt starts
  from the state of the accepted epochs; runs end;
* selection: all or nothing, whatever was interrupted; cohorts partition the
  population; the next population has its full size and no duplicate genome;
* grading: no verdict for evidence other than what was frozen; no grade without
  a seal; checkpoints are reused only for the same input;
* memory: trust follows the cohorts; an undone epoch leaves nothing behind;
* broker and pool: limits hold under all interleavings, tokens belong to workers,
  what somebody was told of is in the frozen attempt, and nobody hangs;
* execution: results are the attempt's own, restarts happen exactly while they
  may, and no container is left behind;
* specialists: every fragment is reviewed once, prompts stay within their limit,
  and what was answered is not asked again;
* administration: a run is whole or away, an export that verifies is whole, and
  founders get each memory once;
* organism: the libraries of this epoch, and no accepted work without a record
  while the kernel reads all of them.

| Part | Modules | Run | Proofs |
|---|---|---|---|
| lifecycle | `RunLifecycle` `RunLifecycleInvariant` | `lifecycle` | `RunLifecycleProofs` |
| cohorts | `Cohorts` `Generations` | `generations` | `SelectionProofs` |
| selection | `Selection` `Heredity` `AtomicSelection` | `selection` | `SelectionProofs` |
| broker | `WorkerBroker` `WorkerPool` | `broker` | `WorkerBrokerProofs` |
| execution | `Performance` | `performance` | `PerformanceProofs` |
| grading | `Grading` | `grading` | `GradingProofs` |
| specialists | `Reviewing` `Benchmark` | `reviewing` | `ReviewingProofs` |
| administration | `Administration` | `administration` | `AdministrationProofs` |
| organism | `Organism` | `organism` | `OrganismProofs` |

Each `MC...` module instantiates the one it is named after for TLC.  The
components meet at what one leaves for the other: the lifecycle's `Execute` is
`Performance`, its grading commits are those of `Grading`, whose `Review` is
`Reviewing`; the parents of `WorkerBroker` are those of `Performance`, whose
containers are those of `Organism`.  Only selection is composed by a refinement,
and the broker with its pool in one specification.

## The run lifecycle

### Modules

* `RunLifecycle` is the model: state, actions, specification and properties.
* `RunLifecycleInvariant` has the inductive invariant, in named parts.
* `MCRunLifecycle` gives TLC the sets of points at which faults may strike.
* `RunLifecycleProofs` proves the invariant and what follows from it.

### State and actions

Each action is the code between two commits, and `pc` names the commit that is
next.  `pc = "idle"` means that no process holds the run guard.  `inLoop` tells
which handler an exception would reach; `left` is the rest of the loop's count.

| Code | Actions |
|---|---|
| `_approve_unlocked`, `_clear_generation_one` | `Approve` `ClearGenerationOne` `Found` `FoundingFails` `LockObjective` `ReleaseRun` |
| `pause` | `RequestPause` |
| `_run_unlocked` up to the loop | `Start` `Resume` `EnterLoop` |
| the loop | `NextIteration` `Boundary` `AfterEpoch` `RunEnds` `HonourPause` `LoopEnds` |
| `_execute_epoch` | `RestoreEpochState` `DiscardPartialRows` or `SnapshotEpochState`, then `StartEpoch` `Execute` `Freeze` |
| `_grade_epoch` | `GradersFinish` or `GraderOutage` `OutagePausesRun`; `PersistFirstScores` `PersistLastScore` `PublishEpoch` `AdvanceRun` `SweepSnapshot` |
| `_complete_final_epoch` | `CompleteFinalEpoch` `FinishRun` |
| `_select_and_birth` | `RankEpoch` or `NoSuccess` `FailRun`; `TakeSelectionSnapshot` `CullAndAdapt` `BirthDescendants` `CloseSelection` `ReadyRun` `TidySelection` |
| `_rollback_selection` | `NothingToRollBack` or `BeginRollback` `EndRollback`, from the resumption, from either handler |
| the handlers, `_mark_interrupted` | `HandleSelectionFailure` `MarkInterrupted` `PauseRun` |
| a kill, a power loss, `KeyboardInterrupt`, an exception nobody catches | `Crash` |
| an exception under one of the two `try` | `Fail` |

What is abstracted:

* `pop` stands for the agents, genomes, lineage and refs: the epoch whose
  selection produced them, and whether they are whole, taken apart (`changing`),
  or left over from several attempts at changing them (`mixed`).  Undoing births
  restores exactly what the snapshot holds; a run of culling over anything else
  than a whole population gives a mixed one for good.
* `verdict[e]` is the `scores` of an epoch: none, some, or all of them with or
  without a success.
* `lived[e]` and `rows[e]` count the executions of epoch `e` that left something
  in the organisms' directories and in the knowledge and attempt tables.  They
  are what "discards partial activity" is about.
* `snap` and `selSnap` are the two kinds of snapshots on disk, as sets of
  contents, empty when the file is missing.  Taking one is a single step: both
  are written to a staging name and renamed.
* Steps that repeat from their start whenever they were interrupted are single
  steps: the deletions before a rerun, the copying of directories, a rollback
  apart from its beginning and end, the scores between the first and the last.
  Removing `pause.requested` and pausing the run are one step as well: if the
  process dies in between, the run stops just the same.
* Events are not modelled, nor is the store failing while it writes one.

Bounds: `TotalEpochs` is the run's own parameter; `MaxFaults` bounds crashes,
exceptions and outages together; `CrashPoints` and `FailPoints` are where they
may strike.  Nothing else is bounded.

### Runs

| Run | Question | Result |
|---|---|---|
| `lifecycle` | three epochs, three faults: is every promise of recovery kept, and does a run that is started again after every fault end? | yes, 199 167 states |
| `failed_run` | does a run that ended as failed stop? (README.md:222) | no: a resumed selection sets `failed` and the loop goes on |

In `lifecycle` faults strike everywhere but at the commits at which recovery does
not keep its promises (see "Known exceptions"): no crash at `advancing` and
`finish_run`, no exception at these, `readying` or `tidying`.

Three epochs are one before, one at hand and one behind; an invariant that
relates an epoch to its neighbours, or distinguishes the last, meets every
combination.  Three faults are one that interrupts, one that interrupts the
recovery and one that interrupts the handling of that.  The proofs do away with
both bounds for safety.

Fairness: `FairSpec` asks that the engine's code runs on once it was started
(`WF_vars(Engine)`: it is a sequential program whose every wait has a timeout),
and that the operator approves and starts the run as long as it is not over.  It
asks nothing of pauses, faults or of what the graders say.  Faults are bounded,
so this is the promise that a run ends when faults cease, not that it survives
endless ones.

Each property has a mutant in `RunLifecycle`, a plausible bug in the mapped
code, that the same run catches: no rollback on resumption, knowledge of an
interrupted attempt kept, a snapshot moved instead of copied, a leaderboard
published after its first score.

### Proofs

`RunLifecycleProofs` proves, for every number of epochs and of faults:
`TypeOK`, `SoundPopulation`, `VerifiedParents`, `WholeLeaderboard`,
`CleanAttempt`, `RecoverySnapshotExists` and `CompletedRun` as invariants of
`Spec`, the action properties `NoReExecution` and `VerdictIsFinal`, and that a
pause takes effect.

They assume `RecoverableFaults`: no crash at `advancing` and no exception at
`advancing`, `readying` or `tidying`.  The known exceptions show that none of these
can be dropped for `NoReExecution` and `SoundPopulation`.  The other assumptions
are that a run has at least one epoch and that the number of faults is a natural
number.

None of the properties is inductive.  That an attempt is clean, say, depends on
what the snapshot of its epoch held when it was taken, on the row of the epoch
saying `running` or `interrupted` whenever that snapshot is needed, and on
nothing of a later epoch existing yet.  `IInv` has these connections in parts:

* `ApprovalInv`: what holds before the run is released;
* `TargetInv` and `BehindInv`: at each point of the code, what the rows of the
  epoch at hand and of the one behind it say, and what the loop's counter does;
* `FutureInv`: nothing exists of later epochs;
* `PopulationInv`: where the population is whole, untouched, changing, and that
  the selection snapshot holds an untouched one;
* `StateInv`: what the directories, the bank and the recovery snapshot hold;
* `EndInv`: a complete run.

For each part there is a lemma that every step keeps it, with a case for each
action, and `Inductive` puts them together.  The properties follow from `IInv`
alone.

`PauseTakesEffect` says that a run advances past one epoch at most after it was
asked to pause, past one more if an executed epoch was being graded, or waited to
be graded, before the loop, and past one more for each fault since the request.
`RequestPause` notes all three (`pauseAt`).  Its invariant, `PauseInv`,
rests on `Ahead`: how many epochs the run can still advance past before it looks
at the pause file.  That is none at the end of an iteration, one before, and two
while an epoch is graded outside of the loop, which another one follows inside
it.  A step of the engine that advances makes it smaller by one; only faults make
it larger, by one; and an epoch that waits to be graded while nothing runs was
left there by a fault.

Model-checked only: termination, which is a liveness property under fairness.

## Cohorts and generations

`Cohorts` is the arithmetic of one ranking: `round(size * .30)` with ties to the
even neighbour, the slices of `_select_and_birth` (engine.py:930-937) and the
tiers of `epoch_memory_trust` (store.py:340-352).  A member is its rank, the
successes come first.  The model rounds the exact 3n/10; Python's `round(n *
.30)` gives the same for every `n` below two million, as evaluating both shows.

`Generations` grades, culls and breeds a population for ever, seen as nothing
but its size and the number of successes, so that the properties of the
arithmetic are properties of a specification.  The run `generations`
(`MCGenerations`) takes all sizes from 4, which `init` asks for, to 33, with every
number of successes: every remainder of the rounding, both parities of a tie,
more failures than the target and fewer.

`SelectionProofs`, which needs the same arithmetic, proves the two properties of
the run, that the replacement target is met, and type correctness, for every set
of sizes.  The argument: `TargetBounds` (the target is positive and at most half
of the population, so the elite and the cull do not meet), `Cuts` (where the
slices begin and end), and their cardinalities.  `ScoreboardOK`, which says that a
population is whole whenever it is graded or culled, is inductive by itself.
`BirthsMeetTheTarget` carries the count over to the births of `Selection`.

## Selection

### Modules

* `Heredity`: what the store, Git and the directories hold, as data; the
  founding population; and `NextGeneration(P, Q, s)`, what selection may make of
  a population `P` of whose members `s` succeeded.
* `AtomicSelection`: the promise.  One step, from the graded population to a
  next generation of it, or none.
* `Selection`: the code, from `_select_and_birth` to its last deletion, the
  rollback, crashes and exceptions, resumption.
* `MCSelection`: trees and crash points for TLC.

### State and actions

| State | Code |
|---|---|
| `agents` `genomes` `lineage` `bank` `links` | tables; `bank` gives the owner of each `knowledge` row, `links` is `memory_links` |
| `heads` `tags` | `refs/heads/*` and `refs/tags/genome/*` of the bare repository |
| `worktrees` `states` | `agents/<id>/repository` and `agents/<id>/state` |
| `snapshot` `saved` | `selection-snapshots/epoch-NNNN.json` and `epoch-NNNN-states` |
| `reflected` `parents` `turn` `attempt` `made` | local variables, lost in a crash |

| Code | Actions |
|---|---|
| 907-942, ranking, proof, report | `NoSuccess` or `Rank` |
| `_selection_snapshot` | `SaveStates` `SaveSnapshot` |
| 946-947 | `CullAgent` `CullingEnds` |
| 949-986, the threads | `Reflect` `ReflectionEnds` |
| 987-1010 | `KeepGenome`, or `CommitAdaptation` followed by `RejectAdaptation` or `RegisterAdaptation` `Activate`, or `NothingToCommit`; `AdaptationEnds` |
| 1011-1053 | `RejectInvalidBirth`, or `CommitBirth` followed by `RejectBirth` or `RegisterBirth` `InsertDescendant` `InheritMemory` `InheritState`, or `BirthFails`; `BirthsEnd` |
| 1054-1060 | `Close` `TidySnapshot` `SweepStates` |
| `_rollback_selection` | `NothingToUndo`, or `ForgetAgents` `RestoreAgents` `ForgetLineage` `RestoreMemory` `ForgetGenomes` `RestoreRefs` `ForgetDirectories` `Rematerialize`; `NothingToRestore`, or `RestoreSomeStates` `RestoreStates` `DropSomeStates` `DropStates`; `DropSnapshot` |
| 398-405, the next start | `Resume` |
| an exception in selection; the death of the process | `Fail`; `Crash` |

What is abstracted:

* A genome is its tree.  `_create_genome` compares trees, prompts and the
  runtime; the prompt is a file of the tree and the runtime is the run's own.
* A commit is what its hash is computed from: tree, parent, message and time.
  Of the time only this matters, that two commits may or may not fall in the
  same second: `Hashes` offers both.
* What organisms and specialists answer is arbitrary.  A proposal is the tree of
  its own, that of another genome, or a new one; a checkpointed answer is one
  that may be given again, so checkpoints need no state.
* Agents are numbered in the order of the ranking.
* Ratings are treated by the snapshot and the rollback exactly as links, which
  stand for both.  Reports, events and the `genomes` directory, which follows
  the table, are left out.
* Steps between which a crash makes no difference to what rollback restores are
  one: the three commits of `Activate`, the two of `InsertDescendant` and
  `Register`, loops of deletions that are repeated from their start, the tag and
  the branch of `Push` (both are put back from the same list).  A crash during
  adaptation counts its two records, the thread's and the loop's, together.
* The proofs of adapters and of parents (954, 1021) cannot fail: `Rank` has just
  made every worktree its genome, and the only organisms that run before them
  are those of the middle cohort, which is proved before and has no children.
* `Executor` tells whether organisms run in containers, which mount their
  repository read-only, or as commands in it.  The simulated executor adapts
  nobody and is covered by either.
* Exceptions once the epoch is closed are the lifecycle's, as is the status of the
  run.

### Runs

`selection`: six members give an elite of two, a cull of two and a middle cohort
that vanishes when failures grow; with one agent of an earlier epoch archived,
three new trees (one may be taken by each of two births or adaptations, and one
is left to tell a duplicate from a new one), and the five attempts of the code.
Organisms are containers.  Two faults are one that interrupts selection and one
that interrupts its rollback.  New trees are symmetric.  347 610 states.  It
checks that `Selection` implements `AtomicSelection`: at each moment, what a
resumption would go on with (`Lasting`: the snapshot until the epoch is closed,
then what is there) is the founding population or a whole next generation, in
which the culled are archived and nothing else of them changes, the middle kept
or replaced its genome with its lineage, the elite is what it was, descendants
have a parent in the elite, its state and all it remembers, genomes are distinct
and registered, and every branch is its agent's genome.  `NothingDangles`,
`ElitePreserved` and `ReadyToPerform` say what that view does not show: the
rows, refs and worktrees at moments in between.  Of an elite agent's state
`ElitePreserved` asks that it is there as it was, or, while a rollback deletes the
directory and copies it anew, that the copy it is put back from is whole:
`RestoreSomeStates` is any moment of that loop.

It lets the process die anywhere but while the copy of the states is being
deleted, the known exception at engine.py:1261.

| Run | Question | Result |
|---|---|---|
| `selection` | is selection all or nothing, for every answer and two faults? | yes |
| `nothing_changed` | does an adaptation that is no good leave its organism as it was? (README.md:203) | not when it changes no byte: `git commit` fails and the selection of all is undone |

### Proofs

`SelectionProofs` proves, for every population of four or more, every set of
new trees and every number of faults, `NothingDangles`, `ElitePreserved`,
`ReadyToPerform` and that `Selection` implements `AtomicSelection`.  Two
hypotheses are the known exceptions.  `ElitePreserved` and the refinement are
about what state directories hold, and assume that no crash comes while the saved
states are deleted (`TornStates.cfg`); the other two hold for all crashes.
`ReadyToPerform` assumes containers (`WrittenRepository.cfg`).

`SelectionInv` consists of

* `ControlInv`: which points are reached with which statuses and successes, and
  that parents are of the elite;
* `FilesInv`: the snapshot is that of the founders, the copy of the states is
  whole, and where each must be there;
* `FoundersInv`: what no step takes from the founders, and so the rollback does
  not put back: their genomes, tags, records and lineage;
* `UntouchedInv`: as long as there is no snapshot, everything is as it was;
* `UndoInv`: at each point of the rollback, what is restored by then.  It is
  stated by point, so that a rollback repeated from its start begins with none of
  it and a crash forgets it;
* `GenerationInv`: at each point of the selection, what it has made: who is
  archived, whose genome changed, how many are born, and for each agent the
  genome, branch, worktree, state, lineage and memory that belong together, with
  the one commit that is on its way between them.

`Inside` and `BirthIs` say what the parts mean together, `ForwardStep` and
`UndoingKeeps` what is left to prove of a step of the selection or of its rollback.
For the refinement, `LastingIs` shows that a resumption goes on with the founding
population until the epoch is closed, and `ClosedIs` that what is there then is a
`NextGeneration` of it; that the living are as many as before is a count of who was
culled and who was born (`ReplacedCount`, `PopulationIsWhole`).

## Worker broker and pool

`WorkerPool` is `workers.py`: slots, handles, tasks, shutdown.  `WorkerBroker`
extends it with `worker_broker.py` and the kernel's thread that ends an epoch.
Every request is a thread of its own, whose place is `req[r].at`.

| Code | Actions |
|---|---|
| `POST /knowledge` | `CheckPublication` `AddRecord` `CountPublication` |
| `POST /workers` | `CheckSpawn` `RefuseSpawn` `ReserveWorker` `SubmitWorker` `RegisterWorker` `AnnounceWorker` |
| `POST /chat/completions` | `LookUp` `Identify` `TakeGlobal` `TakeAgent` `TryAgain` `Completion` `GiveUp` `RecordCall` |
| a task of the pool | `StartTask` `RefuseTimeout` `LaunchContainer` `EndContainer` |
| `_execute_epoch` and `stop` | `StopPool` `PoolDrained` `RecordWorker` `StopRaises` `CloseServer` `Freeze` |
| time, containers | `DeadlinePasses` `ParentEnds` |

A step is the code between two points at which another thread could notice.
Names, texts and results are left out; who is told what is kept, because it is
what the freeze is about.  A table that changes size while it is walked raises:
`Identify` compares the size of the token table before and after, `StopRaises`
the job table with the one the loop began with.

`broker`: two parents, two requests of any kind, one slot, one thread, two global
permits and one per organism, two tries; 218 568 states.  With one slot a second
request meets the limit, with one thread a task is queued when the pool shuts
down, with one permit per organism a call waits holding the global one.  Two
requests are the least that race; the proofs take any number.  Fairness:
request threads and tasks are scheduled, every wait on a container or the model
gateway has a timeout, parents end at their deadline.

`WorkerBrokerProofs` proves of the pool that the counter of every parent is the
number of its tasks that hold a slot; the cases are a new task, one that moves and
the shutdown.  It proves that the broker implements the pool's specification
(`BrokerUsesPool`), which carries the pool's results over, and the five safety
properties of the run for any number of parents, requests, slots and permits, over
`BrokerInv`: what a request has done when it gets to a point, and that once the
pool is shut down no parent is alive, nothing is queued, and after draining no
container runs, so nobody is left who could be told anything.  This is why a
record written after the freeze was acknowledged to nobody.  Assumed: finite
sets of parents and requests.  Model-checked only: `EpochSettles`, liveness.

## Performance

`Performance` is `_execute_epoch` from the removal of orphans to the stopped
fleet.  `kernel` is the kernel's thread, `pc[a]` that of an organism's executor,
`launch[a]` that of its browser's launch; `parents[a]` is the set of its
containers that run, by attempt and try, so that one a dead kernel left is told
from the current one.  `clock` distinguishes plenty of time, less than ten
seconds, which is too little for a restart, and the deadline.  `blind` remembers
that `docker ps` failed when orphans were looked for; the code then goes on.

| Code | Actions |
|---|---|
| `_execute_epoch` | `RemoveOrphans` `StartAttempt` `EndPerformance` `RunAgain` `Crash` |
| `BrowserFleet` | `LaunchBrowser` `AwaitBrowser` `CollectBrowser` `AbandonFleet` `FleetAbandoned` `FleetReady` |
| `containers.py`, `executors.py` | `StartParent` `ParentEnds` `AssessTry` `CheckResult` |
| what runs | `WriteResult` `WriteRepository` `OrphanEnds` |

`performance`: two organisms, two tries, two attempts, either executor, with and
without browsers; 983 050 states.  Two attempts are one that leaves containers
and one that finds them.  `OwnResult` and `NothingOutlivesTheEpoch` are about the
Docker executor with a listing that was answered: processes of the command
executor have no label, and nobody looks for them.

`PerformanceProofs` proves the three safety properties for any number of
organisms, tries and attempts.  `TriesInv` is the core: what runs for an organism
is its current try, and only while its thread waits for it; whoever wrote the
result is that try.  `FleetInv` says of each browser that runs that the fleet has
it, or its launch is under way, so that stopping the fleet stops all.  Both hold
as long as docker answered, and the removal of orphans establishes them again
after a crash.  Model-checked only: `PerformanceEnds`, liveness.

## Grading

`Grading` is `_freeze_attempt` and `_grade_epoch`: the files and rows that outlive
the process, a thread for every agent, two repetitions (regrading and executing
again).  A fingerprint is what it hashes; a seal is the contents it covers.
`repository` tells whether an agent's is its registered genome, which verification
asks for as well as for frozen files that are intact and an `attempt.json` that
names this attempt.

| Code | Actions |
|---|---|
| `_freeze_attempt` | `Freeze` `FreezingEnds` |
| a grader's thread, `_verify_agent_genome` and `_kernel_verify_attempt` | `Verify` `Measure` `RecordMeasurement` `Review` `SaveVerdict` `Outage` |
| after the threads | `PauseGrading` or `GradingEnds` `Seal` `DeleteEarlierScores` `Persist` `PublishEpoch` `AdvanceRun` |
| the next start | `Regrade` `Execute` |
| faults | `Crash` `Decay` `Write` |

`grading`: two agents, two measurements a connector may give, two executions, two
faults; 691 438 states.  Two faults are one that leaves a checkpoint or a seal
and one that goes on from it.  Fairness: threads are scheduled, and a run that
stopped is started again.  `GradingCompletes` excepts evidence that
went bad, an `attempt.json` that names something else and a repository that was
written to, all of which the code rejects for ever.  `attempt.json` is damaged only
while no thread is at work on it, between reading it and saving a verdict.  As in the lifecycle, no crash comes between the
two rows that accept an epoch unless there is an execution left for it.

`GradingProofs` proves `OwnEvidence`, `OneAccount` and `SealedAsGraded` for any
number of agents, executions and faults.  `GradingInv` is about one agent at a
time: what its thread has done by the time that it gets to a place (`ThreadInv`),
that its checkpoint is one and says of its input what it was made from
(`CheckpointInv`), and that whatever the memory bank was told of this execution is
in that checkpoint and rests on the measurement that was written down
(`AccountInv`).  The last is why a regrading after a crash repeats the verdict: it
finds the same input.  Model-checked only: `GradingCompletes`, liveness.

## Reviewing

`Benchmark` is what the Architect's checks accept, what a Grader's answer must
contain, and the formulas.  `Reviewing` is how evidence that does not fit a prompt
is cut, packed, reviewed, kept, merged and decided, for the Grader and the
Tweaker.  Fragments, packing and scores are functions; sizes are in units.

| Code | Actions |
|---|---|
| a call with its repair and checkpoint | `Recall` or `AskValid` `AskInvalid` `Keep` |
| a round of merging | `EndRound` `GiveUp` |
| the last call | the Grader's `Decide`; the Tweaker's `RecallReport`, or `AskReport` `KeepReport` |
| outages, crashes, repetition | `Stop` `Resume` `Reexecute` |

`reviewing`: evidence that is empty or of two media files, a streamed and an
encoded text, of up to nine fragments; four rounds, two tries, two faults; 23 313
states.  The proportions are those of the smallest prompt that the settings
allow, so that batches close for size, for entries and for media, and merging
takes several rounds.  `ReviewConverges` asks merged answers to get shorter, which
no code ensures; without it the Grader stops after its last round.  The
benchmarks of the run have weights that make up exactly a hundred, or less.
The Tweaker's report is valid when it names every fragment and gives each birth to
a parent of the elite that has a brief.

`ReviewingProofs` proves the three invariants for any evidence, any sizes of
fragments and prompts, any rounds, tries, notes, faults and answers, and any
number of restarts.  It assumes of the settings (`ReviewingAssumption`) that the
overlap is less than a fragment (specialists.py:373-378, :463-471, :775-779), and
that the floors of the limits, 4 000 and 8 000 characters (540, 565), are no more
than the least prompt, 10 000 (570-571).

* What the recursive functions compute comes first.  Packing adds up sizes
  (`SizeIs`), the entries are those of every fragment once (`EntriesAre`, from
  `FlattenIs`), and every character is in a fragment (`EveryCharacter`, arithmetic
  of `\div`).  These are inductions over data.  The library's induction theorem
  takes an operator for a parameter, which no prover here can instantiate;
  `Induction` is about a set of numbers instead, from the well-foundedness of `<`,
  and `Recursion` shows on it that a function defined step by step exists.
* `ReviewInv` follows the fragments: the items of a round stand for all of them
  and no two for the same one, the answers of the round for the items before
  `place`, and a checkpoint for what its input did (`KeptInv`), of whatever attempt
  it is.  That is why a stale checkpoint does no harm to `EveryFragmentOnce`: its
  input is compared as a whole.  `EveryFragmentOnce` and `BoundedPrompts` follow; the
  second from what closes a batch (`BatchIs`).
* `OnceInv` adds a history for `LittleIsRepeated`: there is a chain of states of
  the computation, each what follows the one before when nothing fails
  (`After`), that has in it where the review is and, for every checkpoint, the
  state whose call it answers (`Chain`, `Recorded`).  No two of the chain are at the
  same call, so a checkpoint at the place of the next call has its very input and
  is recalled, and an answer that is kept adds a checkpoint.  The Tweaker's report,
  asked for once its items are merged, is the last of them.  All this is about one
  execution; another brings other evidence, and its calls are its own.

Model-checked only: `ReviewConverges`, liveness.

## Administration

`Administration` is several processes that give commands on one run: `run`,
`export`, `reset`, `cleanup`, `continue`, `continue-export`, `approve` of what was
continued.  The guard is a lock on a file in the directory that reset moves away,
so `handle[p]` remembers which file a process opened.  `child` is the run that was
continued.

| Code | Actions |
|---|---|
| `_run_guard` | `Ask` `OpenLock` `TakeGuard` |
| `run` | `BeginRun` `StartContainers` `EndRun` |
| `_reset_unlocked`, `cleanup` | `BeginReset` `MoveAside` `DeletePage` `DeleteRows` `CleanupFails` `Restore` `RemoveStaged` |
| `export` | `BeginExport` `ExportReport` `ExportFiles` `ExportArtifacts` `DeleteExport` `PublishExport` |
| `continue_run`, `continue_export` | `Continue` `CopyRepository` `WriteContinuation` |
| `approve` | `Approve` `ClearGenerationOne` `InheritMemories` `InheritState` `EndApproval` |
| a process dies | `Crash` |

`administration`: two processes, five commands, two crashes, a reset that may fail
while it lists artifacts; 1 933 524 states.  Five commands are a run that is
executed, exported, reset, continued and approved, in every order, or the same
command repeated after its process died.  `half_reset` lets the deletion of the
rows fail and finds the run back at its place without its artifacts
(README.md:324).

`AdministrationProofs` proves the four properties for any number of processes,
commands, crashes and pages.  Two processes may each hold "the" lock, one of the
directory that was set aside and one of the stub in its place.
`AdministrationInv` shows why that does no harm: a stub stays once it was opened,
no command gets past its first look at one, and who is past that look holds the
lock of the run's own directory, alone (`GuardInv`, `StepInv`).  On it rest
`PlaceInv`, where the run is while it is reset, `ExportInv`, what an export holds at
each of its steps, and `ApprovalInv`, one approval at a time.  `WholeUnlessAway` and
`ExportIsWhole` assume that of a reset's calls only the listing of the artifacts
fails; `half_reset` shows that the first needs it.  `RemovedIsGone` and
`FoundersOnce` hold whatever fails.

## Organism

`Organism` is one container after another over one state directory: the launcher
with `python-deps`, the passes with their trace, the summaries with the cursor and
the outbox, the files written by truncating and filling, and what the kernel takes
of them.  The container may be killed between any two steps.

| Code | Actions |
|---|---|
| `container_entrypoint.py` | `Start` `Launch` `Install` `Replace` `Mark` |
| `organism.py` over `CodeAgent.run` | `BeginPass` `Step` `MaxStepsReached` `WriteProgress` `WriteCandidate` `WriteResult` `WriteLast` `WriteLastResult` |
| `flush_activity` | `ReadCursor` `WriteCursor` `LogActivity` |
| the kernel | `Assess` `BeginAdaptation` `EndAdaptation` `NextEpoch` |
| time, kills | `Tick` `Kill` |

`organism`: two epochs, two containers each, two passes of one step, genomes with
and without libraries of their own, and an outbox of which the kernel reads two
records; 13 976 461 states.  Two epochs show what is left for the next; two
containers what one that was killed leaves for the other; of three refused
summaries the kernel reads two, as of a hundred and one it reads a hundred.

When the broker refuses a record it goes to the outbox, of which the kernel reads
the last hundred lines before it deletes the file (1371-1372); tools can put
others there (`Note`).  So `AcceptedWorkIsSummarised` excepts results one of whose
records was pushed out (`PushedOut`): see "Known exceptions".

`OrganismProofs` proves both properties for any inputs, steps, passes, tries,
epochs and any number of records that the kernel reads.  `LibrariesInv`: the
marker names this epoch's libraries only when they are installed, which the order
of `Replace` and `Mark` ensures.  `SummaryInv`: between flushes, the lines from the container's first one to the cursor are in a
summary (`CursorInv`), so a flush that was cut off can lose lines of an earlier
container only; a result is about its own container's lines, and is written once
all of them are in a summary (`ResultInv`), which the store has or the outbox.

## Known exceptions

What the code does not promise, or promises and does not keep.  Where a `.cfg` is
named, `tlc -config X.cfg M` shows it; the passing runs leave exactly these cases
out, as their `CrashPoints`, `FailPoints`, benchmarks or guards say.

* A crash between engine.py:742 and 743 executes a frozen, graded population again
  (`TornBoundary.cfg`, `MCRunLifecycle`; README.md:270, 275).
* An exception between engine.py:1055 and 1058 of a resumed selection undoes a
  selection whose epoch is closed (407; `LateRollback.cfg`, `MCRunLifecycle`).
* A crash between engine.py:450 and 451 leaves a run that no command finishes
  (`TornFinish.cfg`, `MCRunLifecycle`; cli.py:129).
* A pause that is asked for while an executed epoch is graded before the loop lets
  a whole further epoch run: nobody looks at the file before the end of the first
  iteration (395-411, 439; `LatePause.cfg`, `MCRunLifecycle`; README.md:280).
* Of the records that the broker refused, the kernel reads the last hundred and
  deletes the rest (engine.py:1371-1372).  An organism over its limit of records
  (worker_broker.py:113-114) with more passes than that loses the earlier
  summaries of work that was accepted (kadath_runtime.py:117-124).
* A rollback that dies in engine.py:1261 is repeated from a half-deleted copy
  (`TornStates.cfg`, `MCSelection`; README.md:277).
* An organism that is a command and wrote to its repository before its adaptation
  failed cannot perform (984; `WrittenRepository.cfg`, `MCSelection`).  One that
  writes while it performs fails the verification of each regrading (685).
* Weights may exceed a hundred by .001 and the score then its range, which raises
  at specialists.py:733 for the perfect agent alone (`UnscoredSuccess.cfg`,
  `MCReviewing`; README.md:180).
* A time limit that is refused (workers.py:119) leaves the browser of its worker
  running until the next removal of orphans (`LeakedBrowser.cfg`,
  `MCWorkerBroker`; README.md:148).
* When docker does not answer the listing of orphans, the run goes on beside them;
  the properties of `Performance` and `RemovedIsGone` except it.
* A container killed while it writes `progress.json` or the marker of
  `python-deps` leaves a file that every later start fails to read, in later
  epochs too (README.md:272).  `BeginPass` and `Launch` show it.
* An export is verified when it is continued, not when the continued run is
  approved (README.md:318).  A source reset in between gives founders without
  memories or states and no error, or an approval that can never succeed; a
  `continue` that fails at copying leaves a run awaiting approval, which is born
  from the seed.
* A crash of a reset after the rename leaves `.<run>.resetting`, and every later
  reset asks for manual inspection; `cleanup` stops at the first guarded run.

## Plan

Done: all parts of the table as models; proofs for all of them.  Every invariant
and action property that a run checks is proved, and so is the refinement.
Liveness is left to TLC: it rests on fairness and ENABLED, which the provers do
not reason about.  Next:

1. Proofs: the properties of `Heredity` that selection rests on, for populations
   that have been through several generations; that the lifecycle's view of
   selection is what `AtomicSelection` promises.
2. `MemoryBank`: deduplication by content, visibility, ratings and links
   (`store.py:288-434`), and inheritance by continued runs.
3. The Birther's batches and the Architect's repair loop; the limits that
   `mutations.py` puts on a change.

## Not modelled

* Vendored smolagents, some 12 700 lines of the repository, of which only the loop
  of `CodeAgent.run` is followed.  The kernel runs it in a container and relies on
  nothing in it.  This is why the map covers a small share of all lines; of the
  kernel's and the seed's own 4 900 lines it is about half.
* What the store does by itself: one upsert per rating, deduplication and
  visibility are queries of one statement each.  The artifact stores' uploads by
  content hash are repeatable; the file store lives in the run's directory.
* Prompts, schemas, media extraction, tie-breaks between equal scores, tools and
  skills of organisms, which they may edit.
* Docker, Git, PostgreSQL, S3 and the model provider beyond what the kernel's use
  of them shows; that a single `Store.execute` or `rename` fails half-way.
* The command line, events and dashboards.
