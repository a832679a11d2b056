-------------------------- MODULE SelectionProofs ---------------------------
(***************************************************************************)
(* A selection is all or nothing, for any population of four or more, any  *)
(* answers of organisms and specialists, and any number of crashes and     *)
(* exceptions.  SelectionInv says what the founders keep at every step,    *)
(* how far a rollback has come, and (GenerationInv) what a selection has   *)
(* made of the founders up to where it is: which rows, refs, directories   *)
(* and records the survivors and the descendants have, so that at the end  *)
(* it is a next generation.  What the state directories hold is known as   *)
(* long as no crash comes while the saved ones are deleted (Intact).       *)
(*                                                                         *)
(* Before that, the arithmetic of a ranking: where its slices begin and    *)
(* end, for selection and for the properties of Generations, whatever the  *)
(* sizes of populations.                                                   *)
(***************************************************************************)
EXTENDS Selection, Generations, FiniteSetTheorems, TLAPS

(* Where the slices of a ranking begin and end.                            *)
\* Rounding stays within a half of three tenths.
LEMMA RoundedBounds ==
  ASSUME NEW n \in Nat
  PROVE  /\ Rounded(n) \in Nat
         /\ 10 * Rounded(n) <= 3 * n + 5
<1> DEFINE tenths == (3 * n) % 10
           whole == (3 * n) \div 10
<1>1. whole \in Nat /\ tenths \in 0..9 /\ 3 * n = 10 * whole + tenths
  OBVIOUS
<1>2. Rounded(n) = IF tenths > 5 \/ (tenths = 5 /\ whole % 2 = 1)
                   THEN whole + 1 ELSE whole
  BY DEF Rounded
<1> HIDE DEF tenths, whole
<1>3. CASE tenths > 5 \/ (tenths = 5 /\ whole % 2 = 1)
  <2>1. Rounded(n) = whole + 1 /\ tenths >= 5
    BY <1>1, <1>2, <1>3
  <2> QED BY <1>1, <2>1
<1>4. CASE ~(tenths > 5 \/ (tenths = 5 /\ whole % 2 = 1))
  <2>1. Rounded(n) = whole
    BY <1>2, <1>4
  <2> QED BY <1>1, <2>1
<1> QED BY <1>3, <1>4

\* From four members on, the elite and as many more fit into the population.
LEMMA TargetBounds ==
  ASSUME NEW n \in Nat, n >= 4
  PROVE  /\ TargetCull(n) \in Nat
         /\ TargetCull(n) >= 1
         /\ 2 * TargetCull(n) <= n
<1>1. Rounded(n) \in Nat /\ 10 * Rounded(n) <= 3 * n + 5
  BY RoundedBounds
<1>2. 2 * Rounded(n) <= n
  BY <1>1
<1> QED BY <1>1, <1>2 DEF TargetCull, AtLeast

\* Below the elite there are enough successes to reach the target.
LEMMA Cuts ==
  ASSUME NEW n \in Nat, n >= 4, NEW s \in 1..n
  PROVE  /\ EliteCount(n, s) \in 1..s
         /\ SuccessfulToCull(n, s) \in Nat
         /\ EliteCount(n, s) <= s - SuccessfulToCull(n, s)
         /\ n - s + SuccessfulToCull(n, s) = AtLeast(TargetCull(n), n - s)
BY TargetBounds DEF EliteCount, SuccessfulToCull, AtLeast, AtMost

\* In terms of ranks, the cohorts are three intervals.
LEMMA Intervals ==
  ASSUME NEW n \in Nat, n >= 4, NEW s \in 1..n
  PROVE  /\ Elites(n, s) = 1..EliteCount(n, s)
         /\ Middle(n, s) =
              (EliteCount(n, s) + 1)..(s - SuccessfulToCull(n, s))
         /\ BottomSuccess(n, s) = (s - SuccessfulToCull(n, s) + 1)..s
         /\ Culled(n, s) = (s - SuccessfulToCull(n, s) + 1)..n
<1>1. /\ EliteCount(n, s) \in 1..s
      /\ SuccessfulToCull(n, s) \in Nat
      /\ EliteCount(n, s) <= s - SuccessfulToCull(n, s)
  BY Cuts
<1>2. BottomSuccess(n, s) = (s - SuccessfulToCull(n, s) + 1)..s
  BY <1>1 DEF BottomSuccess, RemainingSuccess
<1>3. Middle(n, s) = (EliteCount(n, s) + 1)..(s - SuccessfulToCull(n, s))
  BY <1>1 DEF Middle, RemainingSuccess
<1>4. Culled(n, s) = (s - SuccessfulToCull(n, s) + 1)..n
  BY <1>1, <1>2 DEF Culled, Failures
<1> QED BY <1>2, <1>3, <1>4 DEF Elites

\* README.md:190 as a number, for one ranking.
LEMMA CulledCount ==
  ASSUME NEW n \in Nat, n >= 4, NEW s \in 1..n
  PROVE  /\ Cardinality(Culled(n, s)) = AtLeast(TargetCull(n), n - s)
         /\ Cardinality(Culled(n, s)) \in 1..n
<1> DEFINE k == SuccessfulToCull(n, s)
<1>1. k \in Nat /\ k <= s /\ n - s + k = AtLeast(TargetCull(n), n - s)
  BY Cuts
<1>2. Cardinality(Culled(n, s)) =
        IF s - k + 1 > n THEN 0 ELSE n - (s - k + 1) + 1
  <2>1. Culled(n, s) = (s - k + 1)..n
    BY Intervals
  <2>2. s - k + 1 \in Int /\ n \in Int
    BY <1>1
  <2> HIDE DEF k
  <2> QED BY <2>1, <2>2, FS_Interval
<1>3. TargetCull(n) \in Nat /\ TargetCull(n) >= 1
  BY TargetBounds
<1> HIDE DEF k
<1>4. AtLeast(TargetCull(n), n - s) >= 1
  BY <1>3 DEF AtLeast
<1>5. Cardinality(Culled(n, s)) = n - s + k
  BY <1>1, <1>2, <1>4
<1> QED BY <1>1, <1>4, <1>5

\* The store cuts the ranking where the engine does.
LEMMA SameCuts ==
  ASSUME NEW n \in Nat, n >= 4, NEW s \in 1..n
  PROVE  /\ TrustElite(n, s) = EliteCount(n, s)
         /\ MiddleEnd(n, s) = s - SuccessfulToCull(n, s)
<1>1. TrustElite(n, s) = EliteCount(n, s)
  BY DEF TrustElite, EliteCount, TargetCull
<1>2. MiddleEnd(n, s) =
        AtLeast(EliteCount(n, s), s - SuccessfulToCull(n, s))
  BY <1>1 DEF MiddleEnd, SuccessfulToCull, TargetCull
<1> QED BY <1>1, <1>2, Cuts DEF AtLeast
-----------------------------------------------------------------------------
(* A scoreboard of any population, epoch after epoch.                      *)
\* A selection always starts from a whole population with a success in it
\* (engine.py:911), and leaves a whole one (README.md:222).
THEOREM GenerationsTyped == ScoreboardSpec => []ScoreboardOK
<1>1. ScoreboardInit => ScoreboardOK
  BY SizesAssumption DEF ScoreboardInit, ScoreboardOK
<1>2. ScoreboardOK /\ [ScoreboardNext]_scoreboard => ScoreboardOK'
  <2> SUFFICES ASSUME ScoreboardOK, [ScoreboardNext]_scoreboard PROVE ScoreboardOK'
    OBVIOUS
  <2>1. size \in Nat /\ size >= 4
    BY SizesAssumption DEF ScoreboardOK
  <2>2. CASE Grade
    BY <2>1, <2>2 DEF ScoreboardOK, Grade
  <2>3. CASE Cull
    <3>1. winners \in 1..size /\ living = size
      BY <2>1, <2>3 DEF ScoreboardOK, Cull
    <3>2. Cardinality(Culled(size, winners)) \in 1..size
      BY <2>1, <3>1, CulledCount
    <3>3. UNCHANGED <<size, winners>>
      BY <2>3 DEF Cull
    <3>4. Cardinality(Culled(size, winners))' =
            Cardinality(Culled(size, winners))
      BY <3>3
    <3>5. /\ stage' = "birth"
          /\ living' = living - Cardinality(Culled(size, winners))
      BY <2>3 DEF Cull
    <3> QED BY <2>1, <3>1, <3>2, <3>3, <3>4, <3>5 DEF ScoreboardOK
  <2>4. CASE Birth
    BY <2>1, <2>4 DEF ScoreboardOK, Birth
  <2>5. CASE UNCHANGED scoreboard
    <3>1. UNCHANGED <<size, living, winners, stage>>
      BY <2>5 DEF scoreboard
    <3>2. Cardinality(Culled(size, winners))' =
            Cardinality(Culled(size, winners))
      BY <3>1
    <3> QED BY <3>1, <3>2 DEF ScoreboardOK
  <2> QED BY <2>2, <2>3, <2>4, <2>5 DEF ScoreboardNext
<1> QED BY <1>1, <1>2, PTL DEF ScoreboardSpec

\* For every size and outcome: each member is in exactly one cohort and
\* there is an elite (engine.py:934-937).
THEOREM CohortsArePartition == ScoreboardSpec => []CohortsPartition
<1>1. ScoreboardOK => CohortsPartition
  <2> SUFFICES ASSUME ScoreboardOK, stage = "cull" PROVE CohortsPartition
    BY DEF CohortsPartition
  <2>1. size \in Nat /\ size >= 4 /\ winners \in 1..size
    BY SizesAssumption DEF ScoreboardOK
  <2> DEFINE e == EliteCount(size, winners)
             m == winners - SuccessfulToCull(size, winners)
  <2>2. e \in 1..winners /\ m \in e..winners
    BY <2>1, Cuts
  <2>3. /\ Elites(size, winners) = 1..e
        /\ Middle(size, winners) = (e + 1)..m
        /\ Culled(size, winners) = (m + 1)..size
    BY <2>1, Intervals
  <2> HIDE DEF e, m
  <2>4. /\ (1..e) \cup ((e + 1)..m) \cup ((m + 1)..size) = 1..size
        /\ (1..e) \cap ((e + 1)..m) = {}
        /\ (1..e) \cap ((m + 1)..size) = {}
        /\ ((e + 1)..m) \cap ((m + 1)..size) = {}
        /\ 1 \in 1..e
    BY <2>1, <2>2
  <2> QED BY <2>3, <2>4 DEF CohortsPartition
<1> QED BY <1>1, GenerationsTyped, PTL

\* For every size and outcome: as many are replaced as the larger of the
\* target and the failures (README.md:190).
THEOREM TargetIsReplaced == ScoreboardSpec => []ReplacementTarget
<1>1. ScoreboardOK => ReplacementTarget
  BY SizesAssumption, CulledCount DEF ScoreboardOK, ReplacementTarget
<1> QED BY <1>1, GenerationsTyped, PTL

\* For every size and outcome: store.py:342-351 credits a record by the very
\* cohort that engine.py put its owner in.
THEOREM TrustIsByCohort == ScoreboardSpec => []TrustFollowsCohorts
<1>1. ScoreboardOK => TrustFollowsCohorts
  <2> SUFFICES ASSUME ScoreboardOK, stage = "cull", NEW r \in 1..size
               PROVE  /\ Tier(size, winners, r) = "elite"
                           <=> r \in Elites(size, winners)
                      /\ Tier(size, winners, r) = "middle"
                           <=> r \in Middle(size, winners)
                      /\ Tier(size, winners, r) = "bottom"
                           <=> r \in BottomSuccess(size, winners)
                      /\ Tier(size, winners, r) = "failed"
                           <=> r \in Failures(size, winners)
    BY DEF TrustFollowsCohorts
  <2>1. size \in Nat /\ size >= 4 /\ winners \in 1..size
    BY SizesAssumption DEF ScoreboardOK
  <2> DEFINE e == EliteCount(size, winners)
             m == winners - SuccessfulToCull(size, winners)
  <2>2. e \in 1..winners /\ m \in e..winners
    BY <2>1, Cuts
  <2>3. /\ Elites(size, winners) = 1..e
        /\ Middle(size, winners) = (e + 1)..m
        /\ BottomSuccess(size, winners) = (m + 1)..winners
        /\ Failures(size, winners) = (winners + 1)..size
    BY <2>1, Intervals DEF Failures
  <2>4. TrustElite(size, winners) = e /\ MiddleEnd(size, winners) = m
    BY <2>1, SameCuts
  <2> HIDE DEF e, m
  <2>5. Tier(size, winners, r) = IF r > winners THEN "failed"
                                   ELSE IF r <= e THEN "elite"
                                   ELSE IF r <= m THEN "middle"
                                   ELSE "bottom"
    BY <2>4 DEF Tier
  <2> QED BY <2>1, <2>2, <2>3, <2>5
<1> QED BY <1>1, GenerationsTyped, PTL

-----------------------------------------------------------------------------
\* The last of the founders, and what the snapshot and its copy hold of them.
Last == Archived + PopulationSize
Graded == [agents |-> Founding.agents, genomes |-> Founders, knowledge |-> Founders,
           links |-> Founding.links, heads |-> Founding.heads, tags |-> Founding.tags]
Copied == [complete |-> TRUE, states |-> Founding.states]
\* No crash leaves a part of the saved states (TornStates.cfg).
Intact == "dropping" \notin CrashPoints
Elite == EliteAgents(successes)
Survivors == MiddleAgents(successes)
Replaced == CulledAgents(successes)

Early == {"rank", "save_states", "save_snapshot"}
Adaptive == {"adapt", "register", "activate"}
Reproductive == {"birth", "enrol", "insert"}
Inheriting == {"inherit_memory", "inherit_state"}
Changing == {"cull", "reflect", "close"} \cup Adaptive \cup Reproductive \cup Inheriting
Undone(done) == pc \in done \cup {"restoring", "drop_states", "dropping", "drop_snapshot"}

Pending == status = "selection_pending"
Selected == successes > 0 /\ (pc \in Changing \/ status = "complete")

ControlInv ==
  /\ successes \in 0..PopulationSize
  /\ pc \in Points /\ after \in {"idle", "rank"}
  /\ status \in {"selection_pending", "complete"}
  /\ status = "complete" => pc \in {"idle"} \cup TidyPoints
  /\ pc \in TidyPoints => status = "complete"
  /\ pc \in (ForwardPoints \ {"rank"}) \cup TidyPoints => successes > 0
  /\ pc \in ForwardPoints \ {"rank", "close"} => parents \in [1..Births(successes) -> Elite]

FilesInv ==
  /\ snapshot \in {{}, {Graded}}
  /\ pc \in Early \cup {"sweep"} => snapshot = {}
  /\ pc \in Changing \cup (UndoPoints \ {"undo"}) => snapshot = {Graded}
  /\ Intact => /\ pc # "dropping" => saved \in {{}, {Copied}}
               /\ pc \in {"save_snapshot", "restoring", "drop_states"} \cup Changing => saved = {Copied}
               /\ pc = "drop_snapshot" => saved = {}

\* What no step takes away from the founders.
FoundersInv ==
  /\ Founders \subseteq DOMAIN genomes /\ \A t \in Founders : genomes[t] = Seed(t)
  /\ Founders \subseteq DOMAIN bank /\ \A i \in Founders : bank[i] = i
  /\ Founding.lineage \subseteq lineage
  /\ \A l \in lineage : l.epoch = Epoch \/ l \in Founding.lineage
  /\ Founding.tags \subseteq tags
  /\ Founders \subseteq DOMAIN states /\ Founders \subseteq DOMAIN worktrees
  /\ Founders \subseteq DOMAIN heads

\* Before the snapshot there is nothing to take back.
AsFounded ==
  /\ agents = Founding.agents /\ genomes = Founding.genomes /\ lineage = Founding.lineage
  /\ bank = Founding.bank /\ links = Founding.links /\ heads = Founding.heads /\ tags = Founding.tags
  /\ DOMAIN states = Founders /\ DOMAIN worktrees = Founders
  /\ Intact => states = Founding.states
UntouchedInv ==
  Pending /\ snapshot = {} =>
    /\ AsFounded
    /\ pc \in {"save_states", "save_snapshot"} /\ Executor = "docker" =>
         \A a \in Founders : a > Archived => worktrees[a] = Seed(a)

\* How far the rollback has come.
UndoInv ==
  /\ pc = "undo_agents" => agents = <<>>
  /\ Undone({"undo_rows", "undo_memory", "undo_genomes", "undo_refs", "undo_directories",
             "undo_worktrees", "undo_states"}) => agents = Founding.agents
  /\ Undone({"undo_memory", "undo_genomes", "undo_refs", "undo_directories",
             "undo_worktrees", "undo_states"}) => lineage = Founding.lineage
  /\ Undone({"undo_genomes", "undo_refs", "undo_directories",
             "undo_worktrees", "undo_states"}) => bank = Founding.bank /\ links = Founding.links
  /\ Undone({"undo_refs", "undo_directories", "undo_worktrees", "undo_states"}) =>
       genomes = Founding.genomes
  /\ Undone({"undo_directories", "undo_worktrees", "undo_states"}) =>
       heads = Founding.heads /\ tags = Founding.tags
  /\ Undone({"undo_worktrees", "undo_states"}) =>
       states = [a \in Founders |-> states[a]] /\ DOMAIN worktrees = Founders
  /\ Undone({}) /\ pc # "restoring" /\ Intact => states = Founding.states
  /\ Pending /\ snapshot # {} /\ saved = {} /\ Intact => Only(states, Founders) = Founding.states

-----------------------------------------------------------------------------
(* What a selection has made, up to where it is. *)

Born == CASE pc \in Reproductive -> turn - 1
          [] pc \in Inheriting -> turn
          [] pc = "close" \/ status = "complete" -> Births(successes)
          [] OTHER -> 0
Descendants == (Last + 1)..(Last + Born)
Agents == 1..(Last + Born)
\* The directory of the next descendant is there already.
Begun == pc \in {"enrol", "insert"} \/ (pc = "birth" /\ attempt > 1)
Changes(a) == pc \in {"register", "activate"} /\ a = Adapter

TurnInv ==
  /\ pc \in Adaptive => turn \in Nat
  /\ pc \in {"register", "activate"} => Adapting
  /\ pc \in Reproductive \cup Inheriting => turn \in 1..(Births(successes) + 1)
  /\ pc \in {"enrol", "insert"} \cup Inheriting => turn <= Births(successes)
  /\ pc \in Reproductive => attempt \in Nat /\ attempt >= 1
  /\ pc = "birth" /\ ~Birthing => attempt = 1
  /\ pc \in Inheriting => agents[Last + turn].parent = Parent

FounderRow(a) ==
  /\ a \in Replaced => agents[a].genome = a /\ (pc # "cull" => agents[a].status = "archived")
  /\ a \in Survivors =>
       /\ agents[a].status = "active"
       /\ agents[a].genome # a => pc \notin {"cull", "reflect"} /\ ~(pc \in Adaptive /\ a >= Adapter)
  /\ a \notin Replaced \cup Survivors => agents[a] = Founding.agents[a]
  /\ agents[a].parent = 0 /\ agents[a].genome \in {a} \cup Novel
DescendantRow(a) ==
  /\ agents[a].status = "active" /\ agents[a].parent \in Elite
  /\ agents[a].genome \in Novel
  /\ genomes[agents[a].genome].from = agents[a].parent

AgentsInv ==
  /\ DOMAIN agents = Agents
  /\ \A a \in Agents : agents[a] \in [status : {"active", "archived"}, genome : Trees, parent : Nat]
  /\ \A a \in Founders : FounderRow(a)
  /\ \A a \in Descendants : DescendantRow(a)
  /\ \A a, b \in Agents : a # b => agents[a].genome # agents[b].genome
  /\ \A a \in Agents : agents[a].genome \in DOMAIN genomes

\* The commit at hand, and where it has got to.
MadeInv ==
  /\ pc \in {"register", "activate"} => \A c \in made :
       /\ c.by = "adaptation" /\ c.from = Adapter /\ heads[Adapter] = c
       /\ Executor = "docker" => worktrees[Adapter] = c
  /\ pc \in {"enrol", "insert"} => \A c \in made :
       /\ c.by = "birth" /\ c.from = Parent /\ heads[Last + turn] = c
       /\ Last + turn \in DOMAIN heads /\ Last + turn \in DOMAIN worktrees
       /\ Executor = "docker" => worktrees[Last + turn] = c
  /\ pc \in {"register", "enrol"} => \A c \in made : c.tree \in Trees
  /\ pc \in {"activate", "insert"} => \A c \in made :
       /\ c.tree \in Novel \cap DOMAIN genomes /\ genomes[c.tree] = c
       /\ \A a \in Agents : agents[a].genome # c.tree

GenomesInv ==
  \A t \in DOMAIN genomes \ Founders :
    \/ \E a \in Agents : agents[a].genome = t
    \/ pc \in {"activate", "insert"} /\ \E c \in made : c.tree = t

Entry(a) == [child |-> a, parent |-> IF a \in Founders THEN a ELSE agents[a].parent,
             genome |-> agents[a].genome, epoch |-> Epoch]
LineageInv ==
  /\ \A a \in Agents : agents[a].genome \notin Founders => Entry(a) \in lineage
  /\ \A l \in lineage \ Founding.lineage :
       l.genome \notin Founders /\ \E a \in Agents : agents[a].genome = l.genome

HeadsInv ==
  /\ Agents \subseteq DOMAIN heads
  /\ DOMAIN heads \subseteq Agents \cup (IF Begun THEN {Last + turn} ELSE {})
  /\ \A a \in Agents : Changes(a) \/ heads[a] = genomes[agents[a].genome]

WorktreesInv ==
  /\ Agents \subseteq DOMAIN worktrees
  /\ DOMAIN worktrees \subseteq Agents \cup (IF Begun THEN {Last + turn} ELSE {})
  /\ Executor = "docker" =>
       \A a \in Agents :
         agents[a].status = "active" => Changes(a) \/ worktrees[a] = genomes[agents[a].genome]

StatesInv ==
  /\ DOMAIN states = Agents \ (IF pc \in Inheriting THEN {Last + Born} ELSE {})
  /\ Intact => /\ \A a \in Founders \ Survivors : states[a] = Founding.states[a]
               /\ \A a \in Descendants \cap DOMAIN states : states[a].of = agents[a].parent

MemoryInv ==
  /\ Founding.links \subseteq links
  /\ \A a \in Descendants : (pc = "inherit_memory" /\ a = Last + Born) \/
       Remembers(Founding.bank, Founding.links, agents[a].parent) \subseteq Remembers(bank, links, a)

GenerationInv ==
  Selected => /\ TurnInv /\ AgentsInv /\ MadeInv /\ GenomesInv /\ LineageInv
              /\ HeadsInv /\ WorktreesInv /\ StatesInv /\ MemoryInv

SelectionInv ==
  /\ ControlInv /\ FilesInv /\ FoundersInv /\ UntouchedInv /\ UndoInv /\ GenerationInv
  /\ NothingDangles /\ (Intact => ElitePreserved)
-----------------------------------------------------------------------------
(* The data. *)

LEMMA FoundersAre == Last \in Nat /\ Last >= 4 /\ Archived \in Nat /\ Founders = 1..Last
BY PopulationAssumption, ArchivedAssumption DEF Last, Founders

LEMMA FoundingIs ==
  /\ DOMAIN Founding.agents = Founders
  /\ \A a \in Founders :
       Founding.agents[a] = [status |-> IF a <= Archived THEN "archived" ELSE "active", genome |-> a, parent |-> 0]
  /\ Founding.genomes = [t \in Founders |-> Seed(t)]
  /\ Founding.lineage = {[child |-> a, parent |-> 0, genome |-> a, epoch |-> 0] : a \in Founders}
  /\ Founding.bank = [i \in Founders |-> i]
  /\ Founding.links = {<<Archived + 1, Archived + 2>>}
  /\ Founding.heads = [a \in Founders |-> Seed(a)]
  /\ Founding.tags = {Seed(a) : a \in Founders}
  /\ Founding.states = [a \in Founders |-> [of |-> a, touched |-> FALSE]]
BY DEF Founding

LEMMA FounderIs ==
  ASSUME NEW a \in Founders
  PROVE  /\ Founding.agents[a].genome = a /\ Founding.agents[a].parent = 0
         /\ Founding.agents[a].status = IF a <= Archived THEN "archived" ELSE "active"
<1> DEFINE st == IF a <= Archived THEN "archived" ELSE "active"
<1>1. Founding.agents[a] = [status |-> st, genome |-> a, parent |-> 0]
  BY FoundingIs, Zenon
<1> HIDE DEF st
<1>2. Founding.agents[a].genome = a /\ Founding.agents[a].parent = 0 /\ Founding.agents[a].status = st
  BY <1>1
<1> QED BY <1>2 DEF st

LEMMA SeedIs == \A t : Seed(t).by = "seed" /\ Seed(t).tree = t
BY DEF Seed, Commit

\* The cohorts divide the living founders.
LEMMA CohortsAre ==
  ASSUME NEW s \in 0..PopulationSize
  PROVE  /\ EliteAgents(s) \cup MiddleAgents(s) \cup CulledAgents(s) = {a \in Founders : a > Archived}
         /\ EliteAgents(s) \cap MiddleAgents(s) = {}
         /\ EliteAgents(s) \cap CulledAgents(s) = {}
         /\ MiddleAgents(s) \cap CulledAgents(s) = {}
<1> DEFINE n == PopulationSize
           e == EliteCount(n, s)
           k == SuccessfulToCull(n, s)
<1>1. s \in Nat /\ n \in Nat /\ s <= n
  BY PopulationAssumption
<1>2. Rounded(n) \in Nat
  BY <1>1, RoundedBounds
<1>3. TargetCull(n) \in Nat
  BY <1>2 DEF TargetCull, AtLeast
<1>4. e \in Nat /\ e <= s /\ k \in Nat
  BY <1>1, <1>3 DEF EliteCount, SuccessfulToCull, AtLeast, AtMost
<1>5. /\ Elites(n, s) = 1..e
      /\ Middle(n, s) = {r \in (e + 1)..s : r <= s - k}
      /\ Culled(n, s) = {r \in (e + 1)..s : r > s - k} \cup (s + 1)..n
  BY DEF Elites, Middle, Culled, BottomSuccess, Failures, RemainingSuccess
<1> HIDE DEF e, k
<1>6. /\ Elites(n, s) \cup Middle(n, s) \cup Culled(n, s) = 1..n
      /\ Elites(n, s) \cap Middle(n, s) = {}
      /\ Elites(n, s) \cap Culled(n, s) = {}
      /\ Middle(n, s) \cap Culled(n, s) = {}
  BY <1>1, <1>4, <1>5
<1>7. \A R \in SUBSET (1..n) : Members(R) = {a \in Founders : a - Archived \in R}
  BY <1>1, FoundersAre DEF Members, Last
<1>8. /\ EliteAgents(s) = {a \in Founders : a - Archived \in Elites(n, s)}
      /\ MiddleAgents(s) = {a \in Founders : a - Archived \in Middle(n, s)}
      /\ CulledAgents(s) = {a \in Founders : a - Archived \in Culled(n, s)}
  BY <1>6, <1>7 DEF EliteAgents, MiddleAgents, CulledAgents
<1>9. \A a \in Founders : a > Archived <=> a - Archived \in 1..n
  BY <1>1, FoundersAre DEF Last
<1> QED BY <1>6, <1>8, <1>9

LEMMA BirthsCount ==
  ASSUME NEW s \in 0..PopulationSize
  PROVE  /\ Births(s) \in Nat /\ IsFiniteSet(CulledAgents(s))
         /\ IsFiniteSet(EliteAgents(s)) /\ IsFiniteSet(MiddleAgents(s))
<1>1. IsFiniteSet(Founders)
  BY FoundersAre, FS_Interval
<1>2. CulledAgents(s) \subseteq Founders /\ EliteAgents(s) \subseteq Founders /\ MiddleAgents(s) \subseteq Founders
  BY CohortsAre
<1> QED BY <1>1, <1>2, FS_Subset, FS_CardinalityType DEF Births

LEMMA IntervalIs ==
  ASSUME NEW m \in Nat, NEW n \in Nat
  PROVE  IsFiniteSet((m + 1)..(m + n)) /\ Cardinality((m + 1)..(m + n)) = n
<1>1. m + 1 \in Int /\ m + n \in Int
  OBVIOUS
<1>2. /\ IsFiniteSet((m + 1)..(m + n))
      /\ Cardinality((m + 1)..(m + n)) = IF m + 1 > m + n THEN 0 ELSE (m + n) - (m + 1) + 1
  BY <1>1, FS_Interval
<1>3. (IF m + 1 > m + n THEN 0 ELSE (m + n) - (m + 1) + 1) = n
  OBVIOUS
<1> QED BY <1>2, <1>3

\* README.md:190 of a selection itself: as many are born as the target and
\* the failures make it, whoever the agents are.
THEOREM BirthsMeetTheTarget ==
  ASSUME NEW s \in 1..PopulationSize
  PROVE  Births(s) = AtLeast(TargetCull(PopulationSize), PopulationSize - s)
<1> DEFINE n == PopulationSize
           k == SuccessfulToCull(n, s)
           births == n - s + k
<1>1. n \in Nat /\ n >= 4 /\ Archived \in Nat
  BY PopulationAssumption, ArchivedAssumption
<1>2. k \in Nat /\ k <= s /\ births = AtLeast(TargetCull(n), n - s)
  BY <1>1, Cuts
<1>3. Culled(n, s) = (s - k + 1)..n
  BY <1>1, Intervals
<1> HIDE DEF k
<1>4. CulledAgents(s) = (Archived + (s - k) + 1)..((Archived + (s - k)) + births)
  <2>1. \A a \in (Archived + (s - k) + 1)..((Archived + (s - k)) + births) :
           a - Archived \in (s - k + 1)..n /\ Archived + (a - Archived) = a
    BY <1>1, <1>2
  <2>2. \A r \in (s - k + 1)..n : Archived + r \in (Archived + (s - k) + 1)..((Archived + (s - k)) + births)
    BY <1>1, <1>2
  <2> HIDE DEF births
  <2> QED BY <1>3, <2>1, <2>2 DEF CulledAgents, Members
<1>5. Archived + (s - k) \in Nat /\ births \in Nat
  BY <1>1, <1>2
<1> HIDE DEF births
<1>6. Cardinality(CulledAgents(s)) = births
  BY <1>4, <1>5, IntervalIs
<1> QED BY <1>2, <1>6 DEF Births

LEMMA Counted ==
  ASSUME NEW n \in Nat, DOMAIN agents = 1..n
  PROVE  Slot = n + 1 /\ Newborn = n
<1>1. Cardinality(1..n) = n
  BY FS_Interval
<1> QED BY <1>1 DEF Slot, Newborn

\* An adapter is a survivor, found by its rank.
LEMMA AdapterIs ==
  ASSUME NEW s \in 0..PopulationSize, successes = s, Adapting, turn \in Nat
  PROVE  Adapter \in MiddleAgents(s) /\ Adapter \in Founders /\ Adapter > Archived
<1>1. Adapter \in MiddleAgents(s)
  BY DEF Adapting, Adapter, MiddleAgents, Members
<1> QED BY <1>1, CohortsAre
-----------------------------------------------------------------------------
(* What every step keeps. *)

LEMMA SelectionInitially == Init => SelectionInv
<1> SUFFICES ASSUME Init PROVE SelectionInv
  OBVIOUS
<1>1. /\ agents = Founding.agents /\ genomes = Founding.genomes /\ lineage = Founding.lineage
      /\ bank = Founding.bank /\ links = Founding.links /\ heads = Founding.heads
      /\ tags = Founding.tags /\ states = Founding.states
      /\ worktrees = [a \in Founders |-> Seed(a)] /\ snapshot = {} /\ saved = {}
      /\ successes \in 0..PopulationSize /\ status = "selection_pending"
      /\ pc = "rank" /\ after = "idle"
  BY DEF Init
<1>2. ControlInv /\ FilesInv
  BY <1>1 DEF ControlInv, FilesInv, Points, ForwardPoints, TidyPoints, UndoPoints, Early, Changing,
              Adaptive, Reproductive, Inheriting
<1>3. FoundersInv
  BY <1>1, FoundingIs DEF FoundersInv, Epoch
<1>5. UntouchedInv
  BY <1>1, FoundingIs DEF UntouchedInv, AsFounded
<1>6. UndoInv
  BY <1>1 DEF UndoInv, Undone
<1>7. GenerationInv
  BY <1>1 DEF GenerationInv, Selected, Changing, Adaptive, Reproductive, Inheriting
<1>8. NothingDangles
  <2>1. \A a \in Founders : agents[a].genome = a
    BY <1>1, FounderIs
  <2>2. \A t \in Founders : genomes[t] = Seed(t) /\ Seed(t) \in tags
    BY <1>1, FoundingIs
  <2>3. DOMAIN agents = Founders /\ DOMAIN genomes = Founders
    BY <1>1, FoundingIs
  <2> QED BY <2>1, <2>2, <2>3 DEF NothingDangles
<1>9. ElitePreserved
  BY <1>1 DEF ElitePreserved
<1> QED BY <1>2, <1>3, <1>5, <1>6, <1>7, <1>8, <1>9 DEF SelectionInv

\* A step of the selection itself, once the snapshot is there.
LEMMA ForwardControl ==
  ASSUME SelectionInv, pc \in Changing \ {"close"}, pc' \in Changing, after' \in {"idle", "rank"},
         UNCHANGED <<files, successes, status, parents>>
  PROVE  ControlInv' /\ FilesInv' /\ UntouchedInv' /\ UndoInv'
<1> USE DEF files, Changing, Adaptive, Reproductive, Inheriting
<1>1. ControlInv /\ FilesInv /\ snapshot = {Graded} /\ (Intact => saved = {Copied})
  BY DEF SelectionInv, FilesInv
<1>2. ControlInv'
  <2>1. successes > 0 /\ parents \in [1..Births(successes) -> Elite] /\ status = "selection_pending"
    BY <1>1 DEF ControlInv, ForwardPoints, TidyPoints
  <2>2. Elite' = Elite /\ parents' = parents /\ successes' = successes /\ status' = status
    BY DEF Elite
  <2>3. pc' \in Points /\ pc' \notin TidyPoints
    BY DEF Points, ForwardPoints, TidyPoints
  <2> QED BY <1>1, <2>1, <2>2, <2>3 DEF ControlInv
<1>3. FilesInv'
  BY <1>1 DEF FilesInv, Early, UndoPoints
<1>4. UntouchedInv'
  BY <1>1 DEF UntouchedInv
<1>5. UndoInv'
  BY <1>1 DEF UndoInv, Undone
<1> QED BY <1>2, <1>3, <1>4, <1>5

\* What a selection has made so far is sound.
LEMMA SelectedIsSound ==
  ControlInv /\ FoundersInv /\ GenerationInv /\ Selected => NothingDangles /\ (Intact => ElitePreserved)
<1> SUFFICES ASSUME ControlInv, FoundersInv, GenerationInv, Selected
             PROVE  NothingDangles /\ (Intact => ElitePreserved)
  OBVIOUS
<1> USE DEF GenerationInv, Changing, Adaptive, Reproductive, Inheriting
<1>1. /\ successes \in 0..PopulationSize
      /\ TurnInv /\ AgentsInv /\ MadeInv /\ GenomesInv /\ HeadsInv /\ StatesInv
  BY DEF ControlInv
<1>2. \A a : Changes(a) => a \in Survivors /\ a \in Founders /\ agents[a].genome = a
  <2> SUFFICES ASSUME pc \in {"register", "activate"}
               PROVE  Adapter \in Survivors /\ Adapter \in Founders /\ agents[Adapter].genome = Adapter
    BY DEF Changes
  <2>1. Adapting /\ turn \in Nat
    BY <1>1 DEF TurnInv
  <2>2. Adapter \in Survivors /\ Adapter \in Founders
    BY <1>1, <2>1, AdapterIs DEF Survivors
  <2>3. FounderRow(Adapter) /\ Adapter >= Adapter
    BY <1>1, <2>2, FoundersAre DEF AgentsInv
  <2> QED BY <2>2, <2>3 DEF FounderRow
<1>3. NothingDangles
  <2>1. DOMAIN agents = Agents /\ \A a \in Agents : agents[a].genome \in DOMAIN genomes
    BY <1>1 DEF AgentsInv
  <2>2. ASSUME NEW t \in DOMAIN genomes
        PROVE  genomes[t] \in tags \cup {heads[a] : a \in DOMAIN heads}
    <3>1. CASE t \in Founders
      BY <3>1, FoundingIs DEF FoundersInv
    <3>2. CASE t \notin Founders /\ \E a \in Agents : agents[a].genome = t
      <4>1. PICK a \in Agents : agents[a].genome = t
        BY <3>2
      <4>2. heads[a] = genomes[t] /\ a \in DOMAIN heads
        BY <1>1, <1>2, <3>2, <4>1 DEF HeadsInv
      <4> QED BY <4>2
    <3>3. CASE pc \in {"activate", "insert"} /\ \E c \in made : c.tree = t
      <4>1. PICK c \in made : c.tree = t /\ genomes[t] = c
        BY <1>1, <3>3 DEF MadeInv
      <4>2. CASE pc = "activate"
        <5>1. heads[Adapter] = c /\ Adapter \in Founders
          BY <1>1, <1>2, <4>1, <4>2 DEF MadeInv, Changes
        <5> QED BY <4>1, <5>1 DEF FoundersInv
      <4>3. CASE pc = "insert"
        BY <1>1, <4>1, <4>3 DEF MadeInv
      <4> QED BY <3>3, <4>2, <4>3
    <3> QED BY <1>1, <3>1, <3>2, <3>3 DEF GenomesInv
  <2> QED BY <2>1, <2>2 DEF NothingDangles
<1>4. Intact => ElitePreserved
  <2> SUFFICES ASSUME Intact, NEW a \in EliteAgents(successes)
               PROVE  /\ agents[a] = Founding.agents[a] /\ states[a] = Founding.states[a]
                      /\ heads[a] = Founding.heads[a]
    BY DEF ElitePreserved
  <2>1. a \in Founders /\ a \notin Survivors /\ a \notin Replaced
    BY <1>1, CohortsAre DEF Survivors, Replaced
  <2>2. agents[a] = Founding.agents[a] /\ states[a] = Founding.states[a]
    BY <1>1, <2>1 DEF AgentsInv, FounderRow, StatesInv
  <2>3. a \in Agents
    <3>1. Born \in Nat
      BY <1>1, BirthsCount DEF Born, TurnInv
    <3> QED BY <2>1, <3>1, FoundersAre DEF Agents
  <2>4. heads[a] = genomes[a]
    <3>1. ~Changes(a) /\ agents[a].genome = a
      BY <1>2, <2>1, <2>2, FounderIs
    <3> QED BY <1>1, <2>3, <3>1 DEF HeadsInv
  <2> QED BY <2>1, <2>2, <2>4, FoundingIs DEF FoundersInv
<1> QED BY <1>3, <1>4

Made == /\ TurnInv /\ AgentsInv /\ MadeInv /\ GenomesInv /\ LineageInv
        /\ HeadsInv /\ WorktreesInv /\ StatesInv /\ MemoryInv

LEMMA SoundNext ==
  (ControlInv /\ FoundersInv /\ GenerationInv /\ Selected => NothingDangles /\ (Intact => ElitePreserved))'
BY SelectedIsSound, PTL

\* So it is enough to look at what a step of the selection makes.
LEMMA ForwardStep ==
  ASSUME SelectionInv, pc \in Changing \ {"close"}, pc' \in Changing, after' \in {"idle", "rank"},
         UNCHANGED <<files, successes, status, parents>>, FoundersInv', Made'
  PROVE  SelectionInv'
<1>1. ControlInv' /\ FilesInv' /\ UntouchedInv' /\ UndoInv'
  BY ForwardControl
<1>2. GenerationInv'
  BY DEF GenerationInv, Made
<1>3. successes > 0
  BY DEF SelectionInv, ControlInv, ForwardPoints, Changing, Adaptive, Reproductive, Inheriting
<1>4. Selected'
  BY <1>3 DEF Selected
<1>5. NothingDangles' /\ (Intact => ElitePreserved')
  BY <1>1, <1>2, <1>4, SoundNext
<1> QED BY <1>1, <1>2, <1>5 DEF SelectionInv

\* Where a selection is, and whom it is about.
LEMMA Inside ==
  ASSUME SelectionInv, pc \in Changing
  PROVE  /\ Made /\ FoundersInv /\ ControlInv
         /\ successes \in 0..PopulationSize /\ successes > 0 /\ status = "selection_pending"
         /\ Born \in Nat /\ Births(successes) \in Nat
         /\ Elite \cup Survivors \cup Replaced = {a \in Founders : a > Archived}
         /\ Elite \cap Survivors = {} /\ Elite \cap Replaced = {} /\ Survivors \cap Replaced = {}
         /\ Founders \subseteq Agents
<1> USE DEF Changing, Adaptive, Reproductive, Inheriting
<1>1. /\ ControlInv /\ FoundersInv /\ successes \in 0..PopulationSize /\ successes > 0
      /\ status = "selection_pending"
  BY DEF SelectionInv, ControlInv, ForwardPoints, TidyPoints
<1>2. Made
  BY <1>1 DEF SelectionInv, GenerationInv, Made, Selected
<1>3. Born \in Nat /\ Births(successes) \in Nat
  BY <1>1, <1>2, BirthsCount DEF Born, Made, TurnInv
<1>4. Founders \subseteq Agents
  BY <1>3, FoundersAre DEF Agents
<1> QED BY <1>1, <1>2, <1>3, <1>4, CohortsAre DEF Elite, Survivors, Replaced
-----------------------------------------------------------------------------
(* Culling and reflection. *)

LEMMA CullAgentKeeps ==
  ASSUME SelectionInv, CullAgent
  PROVE  SelectionInv'
<1>1. /\ pc = "cull" /\ pc' = "cull" /\ UNCHANGED <<successes, status, genomes, lineage, bank, links, git,
                                                   directories, files, memory>>
  BY DEF CullAgent, Step, Goto
<1> USE <1>1 DEF Changing, Adaptive, Reproductive, Inheriting, git, directories, memory, plan, task
<1>2. PICK a \in Replaced : agents' = [agents EXCEPT ![a].status = "archived"]
  BY DEF CullAgent, ToCull, Replaced
<1> USE Inside DEF Made
<1>3. /\ Born = 0 /\ Born' = 0 /\ Agents' = Agents /\ Descendants = {} /\ Descendants' = {}
      /\ Elite' = Elite /\ Survivors' = Survivors /\ Replaced' = Replaced
  BY FoundersAre DEF Born, Agents, Descendants, Elite, Survivors, Replaced
<1>4. /\ DOMAIN agents' = Agents /\ a \in Founders /\ a \in Agents
      /\ agents'[a] = [agents[a] EXCEPT !.status = "archived"]
      /\ \A b \in Agents \ {a} : agents'[b] = agents[b]
      /\ \A b \in Agents : agents[b] \in [status : {"active", "archived"}, genome : Trees, parent : Nat]
  BY <1>2 DEF AgentsInv
<1>5. /\ agents'[a] \in [status : {"archived"}, genome : Trees, parent : Nat]
      /\ agents'[a].genome = agents[a].genome /\ agents'[a].parent = agents[a].parent
  BY <1>4
<1>6. \A b \in Agents : agents'[b].genome = agents[b].genome /\ agents'[b].parent = agents[b].parent
  BY <1>4, <1>5
<1>7. AgentsInv'
  <2>1. \A b \in Agents : agents'[b] \in [status : {"active", "archived"}, genome : Trees, parent : Nat]
    BY <1>4, <1>5
  <2>2. ASSUME NEW b \in Founders PROVE FounderRow(b)'
    BY <1>2, <1>3, <1>4, <1>5 DEF AgentsInv, FounderRow
  <2> QED BY <1>3, <1>4, <1>6, <2>1, <2>2 DEF AgentsInv
<1>8. FoundersInv'
  BY DEF FoundersInv
<1>9. TurnInv' /\ MadeInv'
  BY DEF TurnInv, MadeInv
<1>10. GenomesInv'
  BY <1>3, <1>6 DEF GenomesInv
<1>11. LineageInv'
  BY <1>3, <1>6 DEF LineageInv, Entry
<1>12. HeadsInv' /\ WorktreesInv'
  BY <1>3, <1>4, <1>5, <1>6 DEF HeadsInv, WorktreesInv, Changes, Begun
<1>13. StatesInv' /\ MemoryInv'
  BY <1>3 DEF StatesInv, MemoryInv
<1>14. after' \in {"idle", "rank"}
  BY DEF ControlInv
<1> QED BY <1>7, <1>8, <1>9, <1>10, <1>11, <1>12, <1>13, <1>14, ForwardStep

LEMMA CullingEndsKeeps ==
  ASSUME SelectionInv, CullingEnds
  PROVE  SelectionInv'
<1>1. /\ pc = "cull" /\ pc' = "reflect" /\ ToCull = {}
      /\ UNCHANGED <<successes, status, store, git, directories, files, memory>>
  BY DEF CullingEnds, Step, Goto
<1> USE <1>1 DEF Changing, Adaptive, Reproductive, Inheriting, store, git, directories, memory, plan, task
<1> USE Inside DEF Made
<1>3. /\ Born = 0 /\ Born' = 0 /\ Agents' = Agents /\ Descendants = {} /\ Descendants' = {}
      /\ Elite' = Elite /\ Survivors' = Survivors /\ Replaced' = Replaced
  BY FoundersAre DEF Born, Agents, Descendants, Elite, Survivors, Replaced
<1>4. AgentsInv'
  <2>1. ASSUME NEW a \in Founders PROVE FounderRow(a)'
    <3>1. a \in Replaced => agents[a].status = "archived"
      BY DEF AgentsInv, ToCull, Replaced
    <3> QED BY <1>3, <3>1 DEF AgentsInv, FounderRow
  <2> QED BY <1>3, <2>1 DEF AgentsInv
<1>5. FoundersInv' /\ TurnInv' /\ MadeInv' /\ GenomesInv'
  BY <1>3 DEF FoundersInv, TurnInv, MadeInv, GenomesInv
<1>6. LineageInv' /\ HeadsInv' /\ WorktreesInv' /\ StatesInv' /\ MemoryInv'
  BY <1>3 DEF LineageInv, Entry, HeadsInv, WorktreesInv, StatesInv, MemoryInv, Changes, Begun
<1>7. after' \in {"idle", "rank"}
  BY DEF ControlInv
<1> QED BY <1>4, <1>5, <1>6, <1>7, ForwardStep

LEMMA ReflectKeeps ==
  ASSUME SelectionInv, Reflect
  PROVE  SelectionInv'
<1>1. /\ pc = "reflect" /\ pc' = "reflect"
      /\ UNCHANGED <<successes, status, store, git, files, after, parents, task>>
  BY DEF Reflect, Step, Goto
<1> USE <1>1 DEF Changing, Adaptive, Reproductive, Inheriting, store, git, task
<1>2. PICK a \in Survivors : states' = [states EXCEPT ![a].touched = TRUE] /\ MayWrite(a)
  BY DEF Reflect, Survivors
<1> USE Inside DEF Made
<1>3. /\ Born = 0 /\ Born' = 0 /\ Agents' = Agents /\ Descendants = {} /\ Descendants' = {}
      /\ Elite' = Elite /\ Survivors' = Survivors /\ Replaced' = Replaced
  BY FoundersAre DEF Born, Agents, Descendants, Elite, Survivors, Replaced
<1>4. DOMAIN worktrees' = DOMAIN worktrees /\ (Executor = "docker" => worktrees' = worktrees)
  BY <1>2 DEF MayWrite, Writable
<1>5. DOMAIN states' = DOMAIN states /\ \A b \in DOMAIN states \ {a} : states'[b] = states[b]
  BY <1>2
<1>6. AgentsInv' /\ TurnInv' /\ MadeInv' /\ GenomesInv' /\ LineageInv' /\ HeadsInv' /\ MemoryInv'
  BY <1>3 DEF AgentsInv, FounderRow, TurnInv, MadeInv, GenomesInv, LineageInv, Entry, HeadsInv, MemoryInv, Changes, Begun
<1>7. FoundersInv'
  BY <1>4, <1>5 DEF FoundersInv
<1>8. WorktreesInv'
  BY <1>3, <1>4 DEF WorktreesInv, Changes, Begun
<1>9. StatesInv'
  BY <1>3, <1>5 DEF StatesInv, FoundersInv
<1>10. after' \in {"idle", "rank"}
  BY DEF ControlInv
<1> QED BY <1>6, <1>7, <1>8, <1>9, <1>10, ForwardStep

LEMMA EliteCountIs ==
  ASSUME NEW s \in 0..PopulationSize
  PROVE  EliteCount(PopulationSize, s) \in Nat
<1>1. Rounded(PopulationSize) \in Nat
  BY PopulationAssumption, RoundedBounds
<1>2. TargetCull(PopulationSize) \in Nat
  BY <1>1 DEF TargetCull, AtLeast
<1> QED BY <1>2 DEF EliteCount, AtMost

LEMMA ReflectionEndsKeeps ==
  ASSUME SelectionInv, ReflectionEnds
  PROVE  SelectionInv'
<1>1. /\ pc = "reflect" /\ pc' = "adapt" /\ turn' = EliteCount(PopulationSize, successes) + 1
      /\ UNCHANGED <<successes, status, store, git, directories, files, plan, attempt, made>>
  BY DEF ReflectionEnds, Step, Goto
<1> USE <1>1 DEF Changing, Adaptive, Reproductive, Inheriting, store, git, directories, plan
<1> USE Inside DEF Made
<1>3. /\ Born = 0 /\ Born' = 0 /\ Agents' = Agents /\ Descendants = {} /\ Descendants' = {}
      /\ Elite' = Elite /\ Survivors' = Survivors /\ Replaced' = Replaced
  BY FoundersAre DEF Born, Agents, Descendants, Elite, Survivors, Replaced
<1>4. turn' \in Nat
  BY EliteCountIs
<1>5. FoundersInv' /\ AgentsInv' /\ TurnInv' /\ MadeInv' /\ GenomesInv'
  BY <1>3, <1>4 DEF FoundersInv, AgentsInv, FounderRow, TurnInv, MadeInv, GenomesInv
<1>6. LineageInv' /\ HeadsInv' /\ WorktreesInv' /\ StatesInv' /\ MemoryInv'
  BY <1>3 DEF LineageInv, Entry, HeadsInv, WorktreesInv, StatesInv, MemoryInv, Changes, Begun
<1>7. after' \in {"idle", "rank"}
  BY DEF ControlInv
<1> QED BY <1>5, <1>6, <1>7, ForwardStep
-----------------------------------------------------------------------------
(* Adaptation. *)

\* New records are added to those there are.
LEMMA Published ==
  ASSUME NEW a, NEW n, Publish(a, n)
  PROVE  /\ DOMAIN bank \subseteq DOMAIN bank'
         /\ \A i \in DOMAIN bank : bank'[i] = bank[i]
BY DEF Publish

\* While organisms adapt there are no descendants; who has its turn has not changed.
LEMMA AdaptingIs ==
  ASSUME SelectionInv, pc \in Adaptive
  PROVE  /\ Born = 0 /\ Agents = Founders /\ Descendants = {} /\ ~Begun /\ turn \in Nat
         /\ Adapting \/ pc \in {"register", "activate"} =>
              /\ Adapter \in Survivors /\ Adapter \in Founders /\ Adapter > Archived
              /\ agents[Adapter].genome = Adapter /\ OldGenome = Adapter
              /\ agents[Adapter].status = "active" /\ genomes[Adapter] = Seed(Adapter)
<1> USE DEF Changing, Adaptive, Reproductive, Inheriting
<1>1. Made /\ FoundersInv /\ successes \in 0..PopulationSize
  BY Inside
<1>2. /\ Born = 0 /\ Agents = Founders /\ Descendants = {} /\ ~Begun /\ turn \in Nat
  BY <1>1, Inside, FoundersAre DEF Born, Agents, Descendants, Begun, Made, TurnInv
<1>3. ASSUME Adapting \/ pc \in {"register", "activate"}
      PROVE  /\ Adapter \in Survivors /\ Adapter \in Founders /\ Adapter > Archived
             /\ agents[Adapter].genome = Adapter /\ OldGenome = Adapter
             /\ agents[Adapter].status = "active" /\ genomes[Adapter] = Seed(Adapter)
  <2>1. Adapting
    BY <1>1, <1>3 DEF Made, TurnInv
  <2>2. Adapter \in Survivors /\ Adapter \in Founders /\ Adapter > Archived
    BY <1>1, <1>2, <2>1, AdapterIs DEF Survivors
  <2>3. FounderRow(Adapter) /\ Adapter >= Adapter
    BY <1>1, <2>2, FoundersAre DEF Made, AgentsInv
  <2> QED BY <1>1, <2>2, <2>3 DEF FounderRow, OldGenome, FoundersInv
<1> QED BY <1>2, <1>3

LEMMA StillAdapting ==
  ASSUME SelectionInv, pc \in Adaptive, pc' \in Adaptive, UNCHANGED <<successes, status>>
  PROVE  /\ Born = 0 /\ Born' = 0 /\ Agents = Founders /\ Agents' = Agents
         /\ Descendants = {} /\ Descendants' = {} /\ ~Begun /\ ~Begun'
         /\ Elite' = Elite /\ Survivors' = Survivors /\ Replaced' = Replaced
<1>1. Born = 0 /\ Agents = Founders /\ Descendants = {} /\ ~Begun
  BY AdaptingIs
<1>2. status' # "complete"
  BY Inside DEF Changing
<1>3. Born' = 0 /\ ~Begun'
  BY <1>2 DEF Born, Begun, Adaptive, Reproductive, Inheriting
<1>4. Agents' = Agents /\ Descendants' = {}
  BY <1>1, <1>3 DEF Agents, Descendants
<1>5. Elite' = Elite /\ Survivors' = Survivors /\ Replaced' = Replaced
  BY DEF Elite, Survivors, Replaced
<1> QED BY <1>1, <1>3, <1>4, <1>5

LEMMA KeepGenomeKeeps ==
  ASSUME SelectionInv, KeepGenome
  PROVE  SelectionInv'
<1>1. /\ pc = "adapt" /\ pc' = "adapt" /\ turn' = turn + 1 /\ Adapting
      /\ UNCHANGED <<successes, status, agents, genomes, lineage, links, git, directories, files,
                     plan, attempt, made>>
  BY DEF KeepGenome, Step, Goto
<1> USE <1>1 DEF Changing, Adaptive, Reproductive, Inheriting, git, directories, plan
<1>2. DOMAIN bank \subseteq DOMAIN bank' /\ \A i \in DOMAIN bank : bank'[i] = bank[i]
  BY Published DEF KeepGenome
<1> USE Inside DEF Made
<1>3. /\ Born = 0 /\ Born' = 0 /\ Agents' = Agents /\ Descendants = {} /\ Descendants' = {}
      /\ Elite' = Elite /\ Survivors' = Survivors /\ Replaced' = Replaced
      /\ turn \in Nat /\ turn' \in Nat /\ Adapter' = Adapter + 1 /\ Adapter \in Nat
  <2>1. turn \in Nat
    BY AdaptingIs
  <2>2. turn' \in Nat /\ Adapter' = Adapter + 1 /\ Adapter \in Nat
    BY <2>1, ArchivedAssumption DEF Adapter
  <2> QED BY <2>1, <2>2, StillAdapting
<1>4. FoundersInv'
  BY <1>2 DEF FoundersInv
<1>5. AgentsInv'
  <2>1. ASSUME NEW a \in Founders PROVE FounderRow(a)'
    BY <1>3, FoundersAre DEF AgentsInv, FounderRow
  <2> QED BY <1>3, <2>1 DEF AgentsInv
<1>6. TurnInv' /\ MadeInv' /\ GenomesInv'
  BY <1>3 DEF TurnInv, MadeInv, GenomesInv
<1>7. LineageInv' /\ HeadsInv' /\ WorktreesInv' /\ StatesInv' /\ MemoryInv'
  BY <1>3 DEF LineageInv, Entry, HeadsInv, WorktreesInv, StatesInv, MemoryInv, Changes, Begun
<1>8. after' \in {"idle", "rank"}
  BY DEF ControlInv
<1> QED BY <1>4, <1>5, <1>6, <1>7, <1>8, ForwardStep

\* What a commit of a proposal is.
LEMMA HashIs ==
  ASSUME NEW tree, NEW from, NEW by, NEW c \in Hashes(tree, from, by)
  PROVE  c.tree = tree /\ c.from = from /\ c.by = by
BY DEF Hashes, Commit

LEMMA CommitAdaptationKeeps ==
  ASSUME SelectionInv, CommitAdaptation
  PROVE  SelectionInv'
<1>1. /\ pc = "adapt" /\ pc' = "register" /\ Adapting
      /\ UNCHANGED <<successes, status, store, states, files, plan, turn, attempt>>
  BY DEF CommitAdaptation, Step, Goto, Proposed
<1> USE <1>1 DEF Changing, Adaptive, Reproductive, Inheriting, store, plan
<1>0. PICK tree \in Proposable(OldGenome) : \E c \in Hashes(tree, OldGenome, "adaptation") :
        /\ Push(Adapter, c) /\ worktrees' = [worktrees EXCEPT ![Adapter] = c] /\ made' = {c}
  BY DEF CommitAdaptation
<1>2. PICK c \in Hashes(tree, OldGenome, "adaptation") :
        /\ Push(Adapter, c) /\ worktrees' = [worktrees EXCEPT ![Adapter] = c] /\ made' = {c}
  BY <1>0
<1> USE Inside DEF Made
<1>3. /\ Born = 0 /\ Born' = 0 /\ Agents' = Agents /\ Descendants = {} /\ Descendants' = {}
      /\ Elite' = Elite /\ Survivors' = Survivors /\ Replaced' = Replaced
      /\ turn \in Nat /\ Adapter' = Adapter /\ Adapting' = Adapting
      /\ Adapter \in Founders /\ Adapter \in Survivors /\ OldGenome = Adapter
      /\ Agents = Founders /\ ~Begun /\ ~Begun'
  <2>1. turn \in Nat /\ Adapter \in Founders /\ Adapter \in Survivors /\ OldGenome = Adapter
    BY AdaptingIs
  <2>2. Adapter' = Adapter /\ Adapting' = Adapting
    BY DEF Adapter, Adapting
  <2> QED BY <2>1, <2>2, StillAdapting
<1>4. c.tree \in Trees /\ c.from = Adapter /\ c.by = "adaptation"
  <2>1. c.tree = tree /\ c.from = OldGenome /\ c.by = "adaptation"
    BY HashIs
  <2>2. tree \in Trees
    BY <1>3, FoundersAre DEF Proposable, Trees
  <2> QED BY <1>3, <2>1, <2>2
<1>5. /\ tags' = tags \cup {c} /\ DOMAIN heads' = DOMAIN heads \cup {Adapter} /\ heads'[Adapter] = c
      /\ \A a \in DOMAIN heads \ {Adapter} : heads'[a] = heads[a]
      /\ DOMAIN worktrees' = DOMAIN worktrees /\ Adapter \in DOMAIN worktrees /\ worktrees'[Adapter] = c
      /\ \A a \in DOMAIN worktrees \ {Adapter} : worktrees'[a] = worktrees[a]
  BY <1>2, <1>3 DEF Push, Put, FoundersInv
<1>6. FoundersInv'
  BY <1>5 DEF FoundersInv
<1>7. AgentsInv' /\ TurnInv' /\ GenomesInv' /\ LineageInv' /\ StatesInv' /\ MemoryInv'
  BY <1>3 DEF AgentsInv, FounderRow, TurnInv, GenomesInv, LineageInv, Entry, StatesInv, MemoryInv
<1>8. MadeInv'
  BY <1>2, <1>3, <1>4, <1>5 DEF MadeInv
<1>9. HeadsInv'
  <2>1. \A a \in Agents : a # Adapter => heads'[a] = genomes[agents[a].genome]
    BY <1>3, <1>5 DEF HeadsInv, Changes
  <2> QED BY <1>3, <1>5, <2>1 DEF HeadsInv, Changes
<1>10. WorktreesInv'
  <2>1. Executor = "docker" => \A a \in Agents : agents[a].status = "active" /\ a # Adapter =>
                                  worktrees'[a] = genomes[agents[a].genome]
    BY <1>3, <1>5 DEF WorktreesInv, Changes
  <2> QED BY <1>3, <1>5, <2>1 DEF WorktreesInv, Changes
<1>11. after' \in {"idle", "rank"}
  BY DEF ControlInv
<1> QED BY <1>6, <1>7, <1>8, <1>9, <1>10, <1>11, ForwardStep

LEMMA RejectAdaptationKeeps ==
  ASSUME SelectionInv, RejectAdaptation
  PROVE  SelectionInv'
<1>1. /\ pc = "register" /\ pc' = "adapt" /\ made' = {} /\ turn' = turn + 1
      /\ worktrees' = [worktrees EXCEPT ![Adapter] = genomes[OldGenome]]
      /\ UNCHANGED <<successes, status, agents, genomes, lineage, links, states, files, plan, attempt>>
  BY DEF RejectAdaptation, Step, Goto
<1> USE <1>1 DEF Changing, Adaptive, Reproductive, Inheriting, plan
<1>2. PICK c \in made : Discard(Adapter, c, genomes[OldGenome])
  BY DEF RejectAdaptation
<1> USE Inside DEF Made
<1>3. /\ Born = 0 /\ Born' = 0 /\ Agents' = Agents /\ Descendants = {} /\ Descendants' = {}
      /\ Elite' = Elite /\ Survivors' = Survivors /\ Replaced' = Replaced
      /\ turn \in Nat /\ turn' \in Nat /\ Adapter' = Adapter + 1 /\ Adapter \in Nat
      /\ Adapter \in Founders /\ OldGenome = Adapter /\ agents[Adapter].genome = Adapter
      /\ Agents = Founders /\ ~Begun /\ ~Begun'
  <2>1. /\ turn \in Nat /\ Adapter \in Founders /\ OldGenome = Adapter /\ agents[Adapter].genome = Adapter
    BY AdaptingIs
  <2>2. turn' \in Nat /\ Adapter' = Adapter + 1 /\ Adapter \in Nat
    BY <2>1, ArchivedAssumption DEF Adapter
  <2> QED BY <2>1, <2>2, StillAdapting
<1>4. DOMAIN bank \subseteq DOMAIN bank' /\ \A i \in DOMAIN bank : bank'[i] = bank[i]
  BY Published DEF RejectAdaptation
<1>5. /\ tags' = tags \ {c} /\ DOMAIN heads' = DOMAIN heads \cup {Adapter} /\ heads'[Adapter] = genomes[Adapter]
      /\ \A a \in DOMAIN heads \ {Adapter} : heads'[a] = heads[a]
      /\ DOMAIN worktrees' = DOMAIN worktrees /\ Adapter \in DOMAIN worktrees
      /\ worktrees'[Adapter] = genomes[Adapter]
      /\ \A a \in DOMAIN worktrees \ {Adapter} : worktrees'[a] = worktrees[a]
  BY <1>2, <1>3 DEF Discard, Put, FoundersInv
<1>6. FoundersInv'
  <2>1. c.by = "adaptation"
    BY DEF MadeInv
  <2>2. c \notin Founding.tags
    BY <2>1, FoundingIs, SeedIs
  <2> QED BY <1>4, <1>5, <2>2 DEF FoundersInv
<1>7. AgentsInv'
  <2>1. ASSUME NEW a \in Founders PROVE FounderRow(a)'
    BY <1>3, FoundersAre DEF AgentsInv, FounderRow
  <2> QED BY <1>3, <2>1 DEF AgentsInv
<1>8. TurnInv' /\ GenomesInv' /\ LineageInv' /\ StatesInv' /\ MemoryInv' /\ MadeInv'
  BY <1>3 DEF TurnInv, GenomesInv, LineageInv, Entry, StatesInv, MemoryInv, MadeInv
<1>9. HeadsInv'
  <2>1. \A a \in Agents : heads'[a] = genomes[agents[a].genome]
    BY <1>3, <1>5 DEF HeadsInv, Changes
  <2> QED BY <1>3, <1>5, <2>1 DEF HeadsInv, Changes
<1>10. WorktreesInv'
  <2>1. Executor = "docker" => \A a \in Agents : agents[a].status = "active" =>
                                  worktrees'[a] = genomes[agents[a].genome]
    BY <1>3, <1>5 DEF WorktreesInv, Changes
  <2> QED BY <1>3, <1>5, <2>1 DEF WorktreesInv, Changes
<1>11. after' \in {"idle", "rank"}
  BY DEF ControlInv
<1> QED BY <1>6, <1>7, <1>8, <1>9, <1>10, <1>11, ForwardStep

\* A commit that is registered was of a tree that nobody had.
LEMMA Registers ==
  ASSUME SelectionInv, NEW from, NEW to, Register(from, to),
         <<from, to>> \in {<<"register", "activate">>, <<"enrol", "insert">>}
  PROVE  /\ pc = from /\ pc' = to
         /\ UNCHANGED <<successes, status, agents, lineage, bank, links, git, directories, files, memory>>
         /\ \E c \in made :
              /\ made = {c} /\ c.tree \in Novel \ DOMAIN genomes /\ c.tree \notin Founders
              /\ DOMAIN genomes' = DOMAIN genomes \cup {c.tree} /\ genomes'[c.tree] = c
              /\ \A t \in DOMAIN genomes : genomes'[t] = genomes[t]
              /\ \A a \in Agents : agents[a].genome # c.tree
<1> USE DEF Changing, Adaptive, Reproductive, Inheriting
<1>1. /\ pc = from /\ pc' = to
      /\ UNCHANGED <<successes, status, agents, lineage, bank, links, git, directories, files, memory>>
  BY DEF Register, Step, Goto
<1>2. PICK c \in made : c.tree \notin DOMAIN genomes /\ genomes' = Put(genomes, c.tree, c)
  BY DEF Register
<1>3. Made /\ FoundersInv
  BY <1>1, Inside
<1>4. \A d \in made : d.tree \in Trees /\ d = heads[IF pc = "register" THEN Adapter ELSE Last + turn]
  BY <1>1, <1>3 DEF Made, MadeInv
<1>5. made = {c}
  BY <1>4
<1>6. c.tree \in Novel \ DOMAIN genomes /\ c.tree \notin Founders
  BY <1>2, <1>3, <1>4 DEF FoundersInv, Trees
<1>7. /\ DOMAIN genomes' = DOMAIN genomes \cup {c.tree} /\ genomes'[c.tree] = c
      /\ \A t \in DOMAIN genomes : genomes'[t] = genomes[t]
  BY <1>2 DEF Put
<1>8. \A a \in Agents : agents[a].genome # c.tree
  BY <1>2, <1>3 DEF Made, AgentsInv
<1> QED BY <1>1, <1>5, <1>6, <1>7, <1>8

LEMMA RegisterKeeps ==
  ASSUME SelectionInv, RegisterAdaptation \/ RegisterBirth
  PROVE  SelectionInv'
<1>1. \/ Register("register", "activate") /\ pc = "register" /\ pc' = "activate"
      \/ Register("enrol", "insert") /\ pc = "enrol" /\ pc' = "insert"
  BY DEF RegisterAdaptation, RegisterBirth, Register, Step, Goto
<1>2. UNCHANGED <<successes, status, agents, lineage, bank, links, git, directories, files, memory>>
  BY <1>1, Registers
<1> USE <1>1, <1>2 DEF Changing, Adaptive, Reproductive, Inheriting, git, directories, memory, plan, task
<1>3. PICK c \in made :
         /\ made = {c} /\ c.tree \in Novel \ DOMAIN genomes /\ c.tree \notin Founders
         /\ DOMAIN genomes' = DOMAIN genomes \cup {c.tree} /\ genomes'[c.tree] = c
         /\ \A t \in DOMAIN genomes : genomes'[t] = genomes[t]
         /\ \A a \in Agents : agents[a].genome # c.tree
  BY <1>1, Registers
<1> USE Inside DEF Made
<1>4. /\ Born' = Born /\ Agents' = Agents /\ Descendants' = Descendants
      /\ Elite' = Elite /\ Survivors' = Survivors /\ Replaced' = Replaced
      /\ (Begun' <=> Begun) /\ Adapter' = Adapter /\ (Adapting' <=> Adapting) /\ Parent' = Parent
      /\ \A a : Changes(a)' <=> Changes(a)
  BY DEF Born, Agents, Descendants, Elite, Survivors, Replaced, Begun, Adapter, Adapting, Parent, Changes
<1>5. \A a \in Agents : genomes'[agents[a].genome] = genomes[agents[a].genome]
  BY <1>3 DEF AgentsInv
<1>6. FoundersInv'
  BY <1>3 DEF FoundersInv
<1>7. AgentsInv'
  <2>1. ASSUME NEW a \in Founders PROVE FounderRow(a)'
    BY <1>4 DEF AgentsInv, FounderRow
  <2>2. ASSUME NEW a \in Descendants PROVE DescendantRow(a)'
    <3>1. a \in Agents
      BY FoundersAre DEF Descendants, Agents
    <3> QED BY <1>4, <1>5, <3>1 DEF AgentsInv, DescendantRow
  <2> QED BY <1>3, <1>4, <2>1, <2>2 DEF AgentsInv
<1>8. TurnInv'
  BY <1>4 DEF TurnInv
<1>9. MadeInv'
  BY <1>3, <1>4 DEF MadeInv
<1>10. GenomesInv'
  BY <1>3, <1>4 DEF GenomesInv
<1>11. LineageInv' /\ StatesInv' /\ MemoryInv'
  BY <1>4 DEF LineageInv, Entry, StatesInv, MemoryInv
<1>12. HeadsInv' /\ WorktreesInv'
  BY <1>4, <1>5 DEF HeadsInv, WorktreesInv
<1>13. after' \in {"idle", "rank"}
  BY DEF ControlInv
<1> QED BY <1>6, <1>7, <1>8, <1>9, <1>10, <1>11, <1>12, <1>13, ForwardStep

LEMMA ActivateKeeps ==
  ASSUME SelectionInv, Activate
  PROVE  SelectionInv'
<1>1. /\ pc = "activate" /\ pc' = "adapt" /\ made' = {} /\ turn' = turn + 1
      /\ UNCHANGED <<successes, status, genomes, links, git, directories, files, plan, attempt>>
  BY DEF Activate, Step, Goto
<1> USE <1>1 DEF Changing, Adaptive, Reproductive, Inheriting, git, directories, plan
<1>2. PICK c \in made :
        /\ agents' = [agents EXCEPT ![Adapter].genome = c.tree]
        /\ lineage' = lineage \cup {[child |-> Adapter, parent |-> Adapter, genome |-> c.tree, epoch |-> Epoch]}
  BY DEF Activate
<1> USE Inside DEF Made
<1>3. /\ Born = 0 /\ Born' = 0 /\ Agents' = Agents /\ Descendants = {} /\ Descendants' = {}
      /\ Elite' = Elite /\ Survivors' = Survivors /\ Replaced' = Replaced
      /\ turn \in Nat /\ turn' \in Nat /\ Adapter' = Adapter + 1 /\ Adapter \in Nat
      /\ Adapter \in Founders /\ Adapter \in Survivors /\ Adapter \notin Replaced
      /\ agents[Adapter].genome = Adapter /\ agents[Adapter].status = "active"
      /\ Agents = Founders /\ ~Begun /\ ~Begun'
  <2>1. /\ Born = 0 /\ turn \in Nat /\ Adapter \in Founders /\ Adapter \in Survivors
        /\ agents[Adapter].genome = Adapter /\ agents[Adapter].status = "active"
        /\ Agents = Founders /\ ~Begun /\ Descendants = {}
    BY AdaptingIs
  <2>2. Adapter \notin Replaced
    BY <2>1
  <2>3. Elite' = Elite /\ Survivors' = Survivors /\ Replaced' = Replaced
    BY DEF Elite, Survivors, Replaced
  <2>4. Born' = 0 /\ ~Begun'
    BY DEF Born, Begun
  <2>5. Agents' = Agents /\ Descendants' = {}
    BY <2>1, <2>4 DEF Agents, Descendants
  <2>6. turn' \in Nat /\ Adapter' = Adapter + 1 /\ Adapter \in Nat
    BY <2>1, FoundersAre DEF Adapter
  <2> QED BY <2>1, <2>2, <2>3, <2>4, <2>5, <2>6
<1>4. /\ c.tree \in Novel \cap DOMAIN genomes /\ genomes[c.tree] = c /\ heads[Adapter] = c
      /\ Executor = "docker" => worktrees[Adapter] = c
      /\ c.tree \notin Founders /\ c.tree \in Trees
      /\ \A a \in Agents : agents[a].genome # c.tree
      /\ \A d \in made : d = c
  BY NovelAssumption DEF MadeInv, Trees
<1>5. DOMAIN bank \subseteq DOMAIN bank' /\ \A i \in DOMAIN bank : bank'[i] = bank[i]
  BY Published DEF Activate
<1>6. /\ DOMAIN agents' = Agents
      /\ agents'[Adapter] = [agents[Adapter] EXCEPT !.genome = c.tree]
      /\ \A a \in Agents \ {Adapter} : agents'[a] = agents[a]
      /\ agents[Adapter] \in [status : {"active", "archived"}, genome : Trees, parent : Nat]
  BY <1>2, <1>3 DEF AgentsInv
<1>7. /\ agents'[Adapter] \in [status : {"active", "archived"}, genome : Trees, parent : Nat]
      /\ agents'[Adapter].genome = c.tree /\ agents'[Adapter].parent = agents[Adapter].parent
      /\ agents'[Adapter].status = agents[Adapter].status
  BY <1>4, <1>6
<1>8. FoundersInv'
  BY <1>2, <1>5 DEF FoundersInv
<1>9. AgentsInv'
  <2>1. \A a \in Agents : agents'[a] \in [status : {"active", "archived"}, genome : Trees, parent : Nat]
    BY <1>6, <1>7 DEF AgentsInv
  <2>2. ASSUME NEW a \in Founders PROVE FounderRow(a)'
    <3>1. CASE a = Adapter
      BY <1>3, <1>4, <1>7, <3>1, FoundersAre DEF AgentsInv, FounderRow
    <3>2. CASE a # Adapter
      BY <1>3, <1>6, <3>2, FoundersAre DEF AgentsInv, FounderRow
    <3> QED BY <3>1, <3>2
  <2>3. \A a, b \in Agents : a # b => agents'[a].genome # agents'[b].genome
    BY <1>4, <1>6, <1>7 DEF AgentsInv
  <2>4. \A a \in Agents : agents'[a].genome \in DOMAIN genomes'
    BY <1>4, <1>6, <1>7 DEF AgentsInv
  <2> QED BY <1>3, <1>6, <2>1, <2>2, <2>3, <2>4 DEF AgentsInv
<1>10. TurnInv' /\ MadeInv' /\ StatesInv' /\ MemoryInv'
  BY <1>3 DEF TurnInv, MadeInv, StatesInv, MemoryInv
<1>11. GenomesInv'
  <2> SUFFICES ASSUME NEW t \in DOMAIN genomes \ Founders PROVE \E a \in Agents : agents'[a].genome = t
    BY <1>3 DEF GenomesInv
  <2>1. CASE t = c.tree
    BY <1>3, <1>7, <2>1
  <2>2. CASE t # c.tree
    <3>1. PICK a \in Agents : agents[a].genome = t
      BY <1>4, <2>2 DEF GenomesInv
    <3> QED BY <1>3, <1>6, <3>1
  <2> QED BY <2>1, <2>2
<1>12. LineageInv'
  <2>1. \A a \in Agents : agents'[a].genome \notin Founders => Entry(a)' \in lineage'
    <3> SUFFICES ASSUME NEW a \in Agents, agents'[a].genome \notin Founders PROVE Entry(a)' \in lineage'
      OBVIOUS
    <3>1. CASE a = Adapter
      BY <1>2, <1>3, <1>7, <3>1 DEF Entry
    <3>2. CASE a # Adapter
      BY <1>2, <1>3, <1>6, <3>2 DEF Entry, LineageInv
    <3> QED BY <3>1, <3>2
  <2>2. ASSUME NEW l \in lineage' \ Founding.lineage
        PROVE  l.genome \notin Founders /\ \E a \in Agents : agents'[a].genome = l.genome
    <3>1. CASE l \in lineage
      <4>1. PICK a \in Agents : agents[a].genome = l.genome /\ l.genome \notin Founders
        BY <2>2, <3>1 DEF LineageInv
      <4> QED BY <1>3, <1>6, <4>1
    <3>2. CASE l \notin lineage
      <4>1. l.genome = c.tree
        BY <1>2, <2>2, <3>2
      <4> QED BY <1>3, <1>4, <1>7, <4>1
    <3> QED BY <3>1, <3>2
  <2> QED BY <1>3, <2>1, <2>2 DEF LineageInv
<1>13. HeadsInv' /\ WorktreesInv'
  <2>1. \A a \in Agents : heads[a] = genomes[agents'[a].genome]
    BY <1>4, <1>6, <1>7 DEF HeadsInv, Changes
  <2>2. Executor = "docker" => \A a \in Agents : agents'[a].status = "active" =>
                                  worktrees[a] = genomes[agents'[a].genome]
    BY <1>4, <1>6, <1>7 DEF WorktreesInv, Changes
  <2> QED BY <1>3, <2>1, <2>2 DEF HeadsInv, WorktreesInv, Changes
<1>14. after' \in {"idle", "rank"}
  BY DEF ControlInv
<1> QED BY <1>8, <1>9, <1>10, <1>11, <1>12, <1>13, <1>14, ForwardStep

LEMMA AdaptationEndsKeeps ==
  ASSUME SelectionInv, AdaptationEnds
  PROVE  SelectionInv'
<1>1. /\ pc = "adapt" /\ pc' = "birth" /\ turn' = 1 /\ attempt' = 1
      /\ UNCHANGED <<successes, status, store, git, directories, files, plan, made>>
  BY DEF AdaptationEnds, Step, Goto
<1> USE <1>1 DEF Changing, Adaptive, Reproductive, Inheriting, store, git, directories, plan
<1> USE Inside DEF Made
<1>3. /\ Born = 0 /\ Born' = 0 /\ Agents' = Agents /\ Descendants = {} /\ Descendants' = {}
      /\ Elite' = Elite /\ Survivors' = Survivors /\ Replaced' = Replaced /\ ~Begun /\ ~Begun'
  BY FoundersAre DEF Born, Agents, Descendants, Elite, Survivors, Replaced, Begun
<1>4. FoundersInv' /\ AgentsInv' /\ MadeInv' /\ GenomesInv'
  BY <1>3 DEF FoundersInv, AgentsInv, FounderRow, MadeInv, GenomesInv
<1>5. TurnInv'
  BY DEF TurnInv
<1>6. LineageInv' /\ HeadsInv' /\ WorktreesInv' /\ StatesInv' /\ MemoryInv'
  BY <1>3 DEF LineageInv, Entry, HeadsInv, WorktreesInv, StatesInv, MemoryInv, Changes
<1>7. after' \in {"idle", "rank"}
  BY DEF ControlInv
<1> QED BY <1>4, <1>5, <1>6, <1>7, ForwardStep
-----------------------------------------------------------------------------
(* Reproduction. *)

\* The birth at hand, and its parent.
LEMMA BirthIs ==
  ASSUME SelectionInv, pc \in Reproductive \cup Inheriting
  PROVE  /\ turn \in Nat /\ turn >= 1 /\ Slot = Last + Born + 1 /\ Newborn = Last + Born
         /\ Agents = Founders \cup Descendants /\ Founders \cap Descendants = {}
         /\ \A a \in Agents : a \in Nat /\ a <= Last + Born
         /\ Last + Born + 1 \notin Agents /\ Last + Born + 1 \notin Founders
         /\ pc \in Reproductive => Born = turn - 1 /\ Last + Born + 1 = Last + turn
         /\ pc \in Inheriting => Born = turn /\ Last + turn \in Agents \cap Descendants /\ ~Begun
         /\ turn <= Births(successes) =>
              /\ Parent \in Elite /\ Parent \in Founders /\ Parent \in Agents
              /\ agents[Parent] = Founding.agents[Parent]
              /\ agents[Parent].genome = Parent /\ ParentGenome = Parent
              /\ genomes[Parent] = Seed(Parent) /\ (Intact => states[Parent] = Founding.states[Parent])
<1> USE Inside DEF Changing, Adaptive, Reproductive, Inheriting
<1>1. turn \in Nat /\ turn >= 1 /\ turn <= Births(successes) + 1
  BY DEF Made, TurnInv
<1>2. pc \in Reproductive => Born = turn - 1 /\ Last + Born + 1 = Last + turn
  BY <1>1, FoundersAre DEF Born
<1>3. Slot = Last + Born + 1 /\ Newborn = Last + Born
  <2>1. DOMAIN agents = 1..(Last + Born) /\ Last + Born \in Nat
    BY FoundersAre DEF Made, AgentsInv, Agents
  <2> QED BY <2>1, Counted
<1>4. Agents = Founders \cup Descendants /\ Founders \cap Descendants = {}
  BY FoundersAre DEF Agents, Descendants
<1>5. /\ Last + Born + 1 \notin Agents /\ Last + Born + 1 \notin Founders
      /\ \A a \in Agents : a \in Nat /\ a <= Last + Born
  BY FoundersAre DEF Agents
<1>6. pc \in Inheriting => Born = turn /\ Last + turn \in Agents \cap Descendants /\ ~Begun
  BY <1>1, FoundersAre DEF Born, Agents, Descendants, Begun
<1>7. ASSUME turn <= Births(successes)
      PROVE  /\ Parent \in Elite /\ Parent \in Founders /\ Parent \in Agents
             /\ agents[Parent] = Founding.agents[Parent]
             /\ agents[Parent].genome = Parent /\ ParentGenome = Parent
             /\ genomes[Parent] = Seed(Parent) /\ (Intact => states[Parent] = Founding.states[Parent])
  <2>1. parents \in [1..Births(successes) -> Elite]
    BY DEF ControlInv, ForwardPoints
  <2>2. Parent \in Elite /\ Parent \in Founders /\ Parent \in Agents
        /\ Parent \notin Survivors /\ Parent \notin Replaced
    BY <1>1, <1>7, <2>1 DEF Parent
  <2>3. agents[Parent] = Founding.agents[Parent] /\ (Intact => states[Parent] = Founding.states[Parent])
    BY <2>2 DEF Made, AgentsInv, FounderRow, StatesInv
  <2> QED BY <2>2, <2>3, FounderIs DEF ParentGenome, FoundersInv
<1> QED BY <1>1, <1>2, <1>3, <1>4, <1>5, <1>6, <1>7

LEMMA RejectInvalidBirthKeeps ==
  ASSUME SelectionInv, RejectInvalidBirth
  PROVE  SelectionInv'
<1>1. /\ pc = "birth" /\ pc' = "birth" /\ Birthing /\ attempt' = attempt + 1
      /\ worktrees' = Put(worktrees, Slot, genomes[ParentGenome])
      /\ UNCHANGED <<successes, status, store, git, states, files, plan, turn, made>>
  BY DEF RejectInvalidBirth, Step, Goto
<1> USE <1>1 DEF Changing, Adaptive, Reproductive, Inheriting, store, git, plan
<1> USE Inside DEF Made
<1>2. /\ turn \in Nat /\ turn >= 1 /\ Slot = Last + turn /\ Slot \notin Agents
      /\ attempt \in Nat /\ attempt >= 1
  BY BirthIs DEF TurnInv
<1>3. /\ Born' = Born /\ Agents' = Agents /\ Descendants' = Descendants
      /\ Elite' = Elite /\ Survivors' = Survivors /\ Replaced' = Replaced
      /\ Begun' /\ (Birthing' <=> Birthing)
  BY <1>2 DEF Born, Agents, Descendants, Elite, Survivors, Replaced, Begun, Birthing
<1>4. /\ DOMAIN worktrees' = DOMAIN worktrees \cup {Last + turn}
      /\ \A a \in Agents : worktrees'[a] = worktrees[a]
  BY <1>2 DEF Put, WorktreesInv
<1>5. FoundersInv'
  BY <1>4 DEF FoundersInv
<1>6. AgentsInv' /\ MadeInv' /\ GenomesInv' /\ LineageInv' /\ StatesInv' /\ MemoryInv'
  BY <1>3 DEF AgentsInv, FounderRow, DescendantRow, MadeInv, GenomesInv, LineageInv, Entry, StatesInv, MemoryInv
<1>7. TurnInv'
  BY <1>2, <1>3 DEF TurnInv
<1>8. HeadsInv'
  BY <1>3 DEF HeadsInv, Changes, Begun
<1>9. WorktreesInv'
  BY <1>3, <1>4 DEF WorktreesInv, Changes, Begun
<1>10. after' \in {"idle", "rank"}
  BY DEF ControlInv
<1> QED BY <1>5, <1>6, <1>7, <1>8, <1>9, <1>10, ForwardStep

LEMMA CommitBirthKeeps ==
  ASSUME SelectionInv, CommitBirth
  PROVE  SelectionInv'
<1>1. /\ pc = "birth" /\ pc' = "enrol" /\ Birthing
      /\ UNCHANGED <<successes, status, store, states, files, plan, turn, attempt>>
  BY DEF CommitBirth, Step, Goto
<1> USE <1>1 DEF Changing, Adaptive, Reproductive, Inheriting, store, plan
<1>2. PICK tree \in Proposable(ParentGenome) : \E c \in Hashes(tree, ParentGenome, "birth") :
        /\ Push(Slot, c) /\ worktrees' = Put(worktrees, Slot, c) /\ made' = {c}
  BY DEF CommitBirth
<1>3. PICK c \in Hashes(tree, ParentGenome, "birth") :
        /\ Push(Slot, c) /\ worktrees' = Put(worktrees, Slot, c) /\ made' = {c}
  BY <1>2
<1> USE Inside DEF Made
<1>4. /\ turn \in Nat /\ turn >= 1 /\ turn <= Births(successes) /\ Slot = Last + turn /\ Slot \notin Agents
      /\ Slot \notin Founders /\ Parent \in Founders /\ ParentGenome = Parent
  BY BirthIs DEF Birthing
<1>5. /\ Born' = Born /\ Agents' = Agents /\ Descendants' = Descendants
      /\ Elite' = Elite /\ Survivors' = Survivors /\ Replaced' = Replaced
      /\ Begun' /\ Parent' = Parent
  BY DEF Born, Agents, Descendants, Elite, Survivors, Replaced, Begun, Parent
<1>6. c.tree \in Trees /\ c.from = Parent /\ c.by = "birth"
  <2>1. c.tree = tree /\ c.from = ParentGenome /\ c.by = "birth"
    BY HashIs
  <2>2. tree \in Trees
    BY <1>4, FoundersAre DEF Proposable, Trees
  <2> QED BY <1>4, <2>1, <2>2
<1>7. /\ tags' = tags \cup {c} /\ DOMAIN heads' = DOMAIN heads \cup {Last + turn} /\ heads'[Last + turn] = c
      /\ \A a \in Agents : heads'[a] = heads[a]
      /\ DOMAIN worktrees' = DOMAIN worktrees \cup {Last + turn} /\ worktrees'[Last + turn] = c
      /\ \A a \in Agents : worktrees'[a] = worktrees[a]
  BY <1>3, <1>4 DEF Push, Put, HeadsInv, WorktreesInv
<1>8. FoundersInv'
  BY <1>7 DEF FoundersInv
<1>9. AgentsInv' /\ GenomesInv' /\ LineageInv' /\ StatesInv' /\ MemoryInv'
  BY <1>5 DEF AgentsInv, FounderRow, DescendantRow, GenomesInv, LineageInv, Entry, StatesInv, MemoryInv
<1>10. TurnInv'
  BY <1>4 DEF TurnInv
<1>11. MadeInv'
  BY <1>3, <1>5, <1>6, <1>7 DEF MadeInv
<1>12. HeadsInv'
  BY <1>5, <1>7 DEF HeadsInv, Changes, Begun
<1>13. WorktreesInv'
  BY <1>5, <1>7 DEF WorktreesInv, Changes, Begun
<1>14. after' \in {"idle", "rank"}
  BY DEF ControlInv
<1> QED BY <1>8, <1>9, <1>10, <1>11, <1>12, <1>13, <1>14, ForwardStep

LEMMA RejectBirthKeeps ==
  ASSUME SelectionInv, RejectBirth
  PROVE  SelectionInv'
<1>1. /\ pc = "enrol" /\ pc' = "birth" /\ made' = {} /\ attempt' = attempt + 1
      /\ UNCHANGED <<successes, status, store, directories, files, plan, turn>>
  BY DEF RejectBirth, Step, Goto
<1> USE <1>1 DEF Changing, Adaptive, Reproductive, Inheriting, store, directories, plan
<1>2. PICK c \in made : Discard(Slot, c, genomes[ParentGenome])
  BY DEF RejectBirth
<1> USE Inside DEF Made
<1>3. /\ turn \in Nat /\ turn >= 1 /\ turn <= Births(successes) /\ Slot = Last + turn /\ Slot \notin Agents
      /\ attempt \in Nat /\ attempt >= 1
  BY BirthIs DEF TurnInv
<1>4. /\ Born' = Born /\ Agents' = Agents /\ Descendants' = Descendants
      /\ Elite' = Elite /\ Survivors' = Survivors /\ Replaced' = Replaced
      /\ Begun /\ Begun' /\ Birthing'
  BY <1>3 DEF Born, Agents, Descendants, Elite, Survivors, Replaced, Begun, Birthing
<1>5. /\ tags' = tags \ {c} /\ DOMAIN heads' = DOMAIN heads \cup {Last + turn}
      /\ \A a \in Agents : heads'[a] = heads[a]
  BY <1>2, <1>3 DEF Discard, Put, HeadsInv
<1>6. FoundersInv'
  <2>1. c.by = "birth"
    BY DEF MadeInv
  <2>2. c \notin Founding.tags
    BY <2>1, FoundingIs, SeedIs
  <2> QED BY <1>5, <2>2 DEF FoundersInv
<1>7. AgentsInv' /\ MadeInv' /\ GenomesInv' /\ LineageInv' /\ StatesInv' /\ MemoryInv'
  BY <1>4 DEF AgentsInv, FounderRow, DescendantRow, MadeInv, GenomesInv, LineageInv, Entry, StatesInv, MemoryInv
<1>8. TurnInv'
  BY <1>3, <1>4 DEF TurnInv
<1>9. HeadsInv'
  BY <1>4, <1>5 DEF HeadsInv, Changes
<1>10. WorktreesInv'
  BY <1>4 DEF WorktreesInv, Changes
<1>11. after' \in {"idle", "rank"}
  BY DEF ControlInv
<1> QED BY <1>6, <1>7, <1>8, <1>9, <1>10, <1>11, ForwardStep

LEMMA InsertDescendantKeeps ==
  ASSUME SelectionInv, InsertDescendant
  PROVE  SelectionInv'
<1>1. /\ pc = "insert" /\ pc' = "inherit_memory" /\ made' = {}
      /\ UNCHANGED <<successes, status, genomes, bank, links, git, directories, files, plan, turn, attempt>>
  BY DEF InsertDescendant, Step, Goto
<1> USE <1>1 DEF Changing, Adaptive, Reproductive, Inheriting, git, directories, plan
<1>2. PICK c \in made :
        /\ agents' = Put(agents, Slot, [status |-> "active", genome |-> c.tree, parent |-> Parent])
        /\ lineage' = lineage \cup {[child |-> Slot, parent |-> Parent, genome |-> c.tree, epoch |-> Epoch]}
  BY DEF InsertDescendant
<1> USE Inside DEF Made
<1> DEFINE new == Last + turn
<1>3. /\ turn \in Nat /\ turn >= 1 /\ turn <= Births(successes) /\ Slot = new /\ new \notin Agents
      /\ new \notin Founders /\ Born = turn - 1 /\ Agents = Founders \cup Descendants
      /\ Founders \cap Descendants = {}
      /\ Parent \in Elite /\ Parent \in Founders /\ Parent \in Nat /\ Begun
  BY BirthIs, FoundersAre DEF TurnInv, Begun
<1>4. /\ Born' = turn /\ Agents' = Agents \cup {new} /\ Descendants' = Descendants \cup {new}
      /\ Elite' = Elite /\ Survivors' = Survivors /\ Replaced' = Replaced
      /\ ~Begun' /\ Parent' = Parent /\ Last + Born' = new /\ new \in Nat
  BY <1>3, FoundersAre DEF Born, Agents, Descendants, Elite, Survivors, Replaced, Begun, Parent
<1>5. /\ c.tree \in Novel \cap DOMAIN genomes /\ genomes[c.tree] = c /\ c.from = Parent
      /\ heads[new] = c /\ new \in DOMAIN heads /\ new \in DOMAIN worktrees
      /\ Executor = "docker" => worktrees[new] = c
      /\ c.tree \notin Founders /\ c.tree \in Trees
      /\ \A a \in Agents : agents[a].genome # c.tree
      /\ \A d \in made : d = c
  BY NovelAssumption DEF MadeInv, Trees
<1>6. /\ DOMAIN agents' = Agents'
      /\ agents'[new] = [status |-> "active", genome |-> c.tree, parent |-> Parent]
      /\ \A a \in Agents : agents'[a] = agents[a]
  BY <1>2, <1>3, <1>4 DEF Put, AgentsInv
<1>7. agents'[new].genome = c.tree /\ agents'[new].parent = Parent /\ agents'[new].status = "active"
  BY <1>6
<1> HIDE DEF new
<1>8. FoundersInv'
  BY <1>2 DEF FoundersInv, Epoch
<1>9. AgentsInv'
  <2>1. \A a \in Agents' : agents'[a] \in [status : {"active", "archived"}, genome : Trees, parent : Nat]
    BY <1>3, <1>4, <1>5, <1>6 DEF AgentsInv
  <2>2. ASSUME NEW a \in Founders PROVE FounderRow(a)'
    BY <1>3, <1>4, <1>6 DEF AgentsInv, FounderRow
  <2>3. ASSUME NEW a \in Descendants' PROVE DescendantRow(a)'
    <3>1. CASE a = new
      BY <1>3, <1>4, <1>5, <1>7, <3>1 DEF DescendantRow
    <3>2. CASE a # new
      BY <1>3, <1>4, <1>6, <3>2 DEF AgentsInv, DescendantRow
    <3> QED BY <3>1, <3>2
  <2>4. \A a, b \in Agents' : a # b => agents'[a].genome # agents'[b].genome
    BY <1>4, <1>5, <1>6, <1>7 DEF AgentsInv
  <2>5. \A a \in Agents' : agents'[a].genome \in DOMAIN genomes'
    BY <1>4, <1>5, <1>6, <1>7 DEF AgentsInv
  <2> QED BY <1>6, <2>1, <2>2, <2>3, <2>4, <2>5 DEF AgentsInv
<1>10. TurnInv'
  BY <1>3, <1>4, <1>7 DEF TurnInv, new
<1>11. MadeInv'
  BY DEF MadeInv
<1>12. GenomesInv'
  BY <1>4, <1>5, <1>6, <1>7 DEF GenomesInv
<1>13. LineageInv'
  <2>1. ASSUME NEW a \in Agents', agents'[a].genome \notin Founders PROVE Entry(a)' \in lineage'
    <3>1. CASE a = new
      BY <1>2, <1>3, <1>7, <3>1 DEF Entry, new
    <3>2. CASE a # new
      BY <1>2, <1>4, <1>6, <2>1, <3>2 DEF Entry, LineageInv
    <3> QED BY <3>1, <3>2
  <2>2. ASSUME NEW l \in lineage' \ Founding.lineage
        PROVE  l.genome \notin Founders /\ \E a \in Agents' : agents'[a].genome = l.genome
    <3>1. CASE l \in lineage
      <4>1. PICK a \in Agents : agents[a].genome = l.genome /\ l.genome \notin Founders
        BY <2>2, <3>1 DEF LineageInv
      <4> QED BY <1>4, <1>6, <4>1
    <3>2. CASE l \notin lineage
      <4>1. l.genome = c.tree
        BY <1>2, <2>2, <3>2
      <4> QED BY <1>4, <1>5, <1>7, <4>1
    <3> QED BY <3>1, <3>2
  <2> QED BY <2>1, <2>2 DEF LineageInv
<1>14. HeadsInv'
  <2>1. DOMAIN heads = Agents'
    BY <1>3, <1>4, <1>5 DEF HeadsInv, new
  <2>2. \A a \in Agents' : heads[a] = genomes[agents'[a].genome]
    BY <1>4, <1>5, <1>6, <1>7 DEF HeadsInv, Changes
  <2> QED BY <1>4, <2>1, <2>2 DEF HeadsInv, Changes
<1>15. WorktreesInv'
  <2>1. DOMAIN worktrees = Agents'
    BY <1>3, <1>4, <1>5 DEF WorktreesInv, new
  <2>2. Executor = "docker" => \A a \in Agents' : agents'[a].status = "active" =>
                                  worktrees[a] = genomes[agents'[a].genome]
    BY <1>4, <1>5, <1>6, <1>7 DEF WorktreesInv, Changes
  <2> QED BY <1>4, <2>1, <2>2 DEF WorktreesInv, Changes
<1>16. StatesInv'
  <2>1. DOMAIN states = Agents
    BY DEF StatesInv
  <2>2. Agents = Agents' \ {Last + Born'} /\ Descendants' \cap Agents \subseteq Descendants
    BY <1>3, <1>4
  <2>3. Intact => \A a \in Descendants \cap Agents : states[a].of = agents'[a].parent
    BY <1>6, <2>1 DEF StatesInv
  <2>4. Intact => \A a \in Founders \ Survivors : states[a] = Founding.states[a]
    BY DEF StatesInv
  <2> QED BY <1>4, <2>1, <2>2, <2>3, <2>4 DEF StatesInv
<1>17. MemoryInv'
  BY <1>3, <1>4, <1>6 DEF MemoryInv
<1>18. after' \in {"idle", "rank"}
  BY DEF ControlInv
<1> QED BY <1>8, <1>9, <1>10, <1>11, <1>12, <1>13, <1>14, <1>15, <1>16, <1>17, <1>18, ForwardStep

\* A child remembers what its parent does, and so what the founder did.
LEMMA InheritMemoryKeeps ==
  ASSUME SelectionInv, InheritMemory
  PROVE  SelectionInv'
<1>1. /\ pc = "inherit_memory" /\ pc' = "inherit_state"
      /\ links' = links \cup {<<Newborn, i>> : i \in Remembers(bank, links, Parent)}
      /\ UNCHANGED <<successes, status, agents, genomes, lineage, bank, git, directories, files, memory>>
  BY DEF InheritMemory, Step, Goto
<1> USE <1>1 DEF Changing, Adaptive, Reproductive, Inheriting, git, directories, memory, plan, task
<1> USE Inside DEF Made
<1>2. /\ turn \in Nat /\ Newborn = Last + turn /\ Born = turn /\ turn <= Births(successes)
      /\ Agents = Founders \cup Descendants /\ Parent \in Founders
      /\ agents[Last + turn].parent = Parent
  BY BirthIs DEF TurnInv
<1>3. /\ Born' = Born /\ Agents' = Agents /\ Descendants' = Descendants
      /\ Elite' = Elite /\ Survivors' = Survivors /\ Replaced' = Replaced
      /\ ~Begun /\ ~Begun' /\ Parent' = Parent
  BY DEF Born, Agents, Descendants, Elite, Survivors, Replaced, Begun, Parent
<1>4. FoundersInv' /\ AgentsInv' /\ TurnInv' /\ MadeInv' /\ GenomesInv'
  BY <1>3 DEF FoundersInv, AgentsInv, FounderRow, DescendantRow, TurnInv, MadeInv, GenomesInv
<1>5. LineageInv' /\ HeadsInv' /\ WorktreesInv' /\ StatesInv'
  BY <1>3 DEF LineageInv, Entry, HeadsInv, WorktreesInv, StatesInv, Changes
<1>6. MemoryInv'
  <2>1. \A a : Remembers(bank, links, a) \subseteq Remembers(bank, links', a)
    BY DEF Remembers
  <2>2. Remembers(bank, links, Parent) \subseteq Remembers(bank, links', Last + turn)
    <3> SUFFICES ASSUME NEW i \in Remembers(bank, links, Parent) PROVE i \in Remembers(bank, links', Last + turn)
      OBVIOUS
    <3>1. <<Last + turn, i>> \in links' /\ <<Last + turn, i>>[1] = Last + turn /\ <<Last + turn, i>>[2] = i
      BY <1>2
    <3> QED BY <3>1 DEF Remembers
  <2>3. Remembers(Founding.bank, Founding.links, Parent) \subseteq Remembers(bank, links, Parent)
    <3> SUFFICES ASSUME NEW i \in Remembers(Founding.bank, Founding.links, Parent)
                 PROVE  i \in Remembers(bank, links, Parent)
      OBVIOUS
    <3>1. CASE i \in DOMAIN Founding.bank /\ Founding.bank[i] = Parent
      BY <3>1, FoundingIs DEF Remembers, FoundersInv
    <3>2. CASE \E l \in Founding.links : l[1] = Parent /\ l[2] = i
      BY <3>2 DEF Remembers, MemoryInv
    <3> QED BY <3>1, <3>2 DEF Remembers
  <2>4. ASSUME NEW a \in Descendants
        PROVE  Remembers(Founding.bank, Founding.links, agents[a].parent) \subseteq Remembers(bank, links', a)
    <3>1. CASE a = Last + turn
      BY <1>2, <2>2, <2>3, <3>1
    <3>2. CASE a # Last + turn
      <4>1. Remembers(Founding.bank, Founding.links, agents[a].parent) \subseteq Remembers(bank, links, a)
        BY <1>2, <3>2 DEF MemoryInv
      <4> QED BY <2>1, <4>1
    <3> QED BY <3>1, <3>2
  <2> QED BY <1>3, <2>4 DEF MemoryInv
<1>7. after' \in {"idle", "rank"}
  BY DEF ControlInv
<1> QED BY <1>4, <1>5, <1>6, <1>7, ForwardStep

LEMMA InheritStateKeeps ==
  ASSUME SelectionInv, InheritState
  PROVE  SelectionInv'
<1>1. /\ pc = "inherit_state" /\ pc' = "birth" /\ turn' = turn + 1 /\ attempt' = 1
      /\ states' = Put(states, Newborn, [of |-> states[Parent].of, touched |-> FALSE])
      /\ UNCHANGED <<successes, status, store, git, worktrees, files, plan, made>>
  BY DEF InheritState, Step, Goto
<1> USE <1>1 DEF Changing, Adaptive, Reproductive, Inheriting, store, git, plan
<1> USE Inside DEF Made
<1>2. /\ turn \in Nat /\ turn >= 1 /\ Newborn = Last + turn /\ Born = turn /\ turn <= Births(successes)
      /\ Agents = Founders \cup Descendants /\ Founders \cap Descendants = {} /\ Last + turn \in Descendants
      /\ (Intact => states[Parent] = Founding.states[Parent]) /\ Parent \in Founders
      /\ agents[Last + turn].parent = Parent /\ ~Begun
  BY BirthIs DEF TurnInv
<1>3. /\ Born' = Born /\ Agents' = Agents /\ Descendants' = Descendants
      /\ Elite' = Elite /\ Survivors' = Survivors /\ Replaced' = Replaced
      /\ ~Begun' /\ turn' \in Nat
  BY <1>2 DEF Born, Agents, Descendants, Elite, Survivors, Replaced, Begun
<1>4. /\ DOMAIN states' = DOMAIN states \cup {Last + turn} /\ (Intact => states'[Last + turn].of = Parent)
      /\ \A a \in Founders \cup Descendants : a # Last + turn => states'[a] = states[a]
  <2>1. Intact => states[Parent].of = Parent
    BY <1>2, FoundingIs
  <2>2. DOMAIN states = Agents \ {Last + turn}
    BY <1>2 DEF StatesInv
  <2> QED BY <1>2, <2>1, <2>2 DEF Put
<1>5. FoundersInv'
  BY <1>2, <1>4 DEF FoundersInv
<1>6. AgentsInv' /\ MadeInv' /\ GenomesInv' /\ LineageInv' /\ MemoryInv'
  BY <1>3 DEF AgentsInv, FounderRow, DescendantRow, MadeInv, GenomesInv, LineageInv, Entry, MemoryInv
<1>7. TurnInv'
  BY <1>2, <1>3 DEF TurnInv
<1>8. HeadsInv' /\ WorktreesInv'
  BY <1>2, <1>3 DEF HeadsInv, WorktreesInv, Changes
<1>9. StatesInv'
  <2>1. DOMAIN states' = Agents
    <3>1. DOMAIN states = Agents \ {Last + turn}
      BY <1>2 DEF StatesInv
    <3> QED BY <1>2, <1>4, <3>1
  <2>2. Intact => \A a \in Founders \ Survivors : states'[a] = Founding.states[a]
    BY <1>2, <1>4 DEF StatesInv
  <2>3. Intact => \A a \in Descendants : states'[a].of = agents[a].parent
    BY <1>2, <1>4 DEF StatesInv
  <2> QED BY <1>3, <2>1, <2>2, <2>3 DEF StatesInv
<1>10. after' \in {"idle", "rank"}
  BY DEF ControlInv
<1> QED BY <1>5, <1>6, <1>7, <1>8, <1>9, <1>10, ForwardStep

LEMMA BirthsEndKeeps ==
  ASSUME SelectionInv, BirthsEnd
  PROVE  SelectionInv'
<1>1. /\ pc = "birth" /\ pc' = "close" /\ ~Birthing
      /\ UNCHANGED <<successes, status, store, git, directories, files, memory>>
  BY DEF BirthsEnd, Step, Goto
<1> USE <1>1 DEF Changing, Adaptive, Reproductive, Inheriting, store, git, directories, memory, plan, task
<1> USE Inside DEF Made
<1>2. turn = Births(successes) + 1 /\ ~Begun /\ Born = turn - 1
  BY BirthIs DEF TurnInv, Birthing, Begun
<1>3. /\ Born' = Born /\ Agents' = Agents /\ Descendants' = Descendants
      /\ Elite' = Elite /\ Survivors' = Survivors /\ Replaced' = Replaced /\ ~Begun'
  BY <1>2 DEF Born, Agents, Descendants, Elite, Survivors, Replaced, Begun
<1>4. FoundersInv' /\ AgentsInv' /\ TurnInv' /\ MadeInv' /\ GenomesInv'
  BY <1>3 DEF FoundersInv, AgentsInv, FounderRow, DescendantRow, TurnInv, MadeInv, GenomesInv
<1>5. LineageInv' /\ HeadsInv' /\ WorktreesInv' /\ StatesInv' /\ MemoryInv'
  BY <1>2, <1>3 DEF LineageInv, Entry, HeadsInv, WorktreesInv, StatesInv, MemoryInv, Changes
<1>6. after' \in {"idle", "rank"}
  BY DEF ControlInv
<1> QED BY <1>4, <1>5, <1>6, ForwardStep
-----------------------------------------------------------------------------
(* Before the snapshot. *)

LEMMA UntouchedIs ==
  ASSUME SelectionInv, Pending, snapshot = {}
  PROVE  /\ agents = Founding.agents /\ genomes = Founding.genomes /\ lineage = Founding.lineage
         /\ bank = Founding.bank /\ links = Founding.links /\ heads = Founding.heads
         /\ tags = Founding.tags /\ (Intact => states = Founding.states)
         /\ DOMAIN states = Founders /\ DOMAIN worktrees = Founders
BY DEF SelectionInv, UntouchedInv, AsFounded

\* The same rows, refs and directories dangle as little and preserve as much.
LEMMA SameIsSound ==
  ASSUME SelectionInv, UNCHANGED <<agents, genomes, heads, tags, states, successes>>,
         UNCHANGED <<saved, status>> \/ (Intact => \A a \in Elite : states[a] = Founding.states[a])
  PROVE  NothingDangles' /\ (Intact => ElitePreserved')
BY DEF SelectionInv, NothingDangles, ElitePreserved, Whole, Elite

LEMMA ElitesAreFounders ==
  ASSUME SelectionInv
  PROVE  \A a \in EliteAgents(successes) : a \in Founders /\ a \in DOMAIN Founding.agents
<1>1. successes \in 0..PopulationSize
  BY DEF SelectionInv, ControlInv
<1> QED BY <1>1, CohortsAre, FoundingIs

LEMMA EarlyKeeps ==
  ASSUME SelectionInv, NoSuccess \/ Rank \/ SaveStates
  PROVE  SelectionInv'
<1>1. /\ pc \in Early /\ UNCHANGED <<store, git, states, snapshot, successes>>
  BY DEF NoSuccess, Rank, SaveStates, Step, Goto, Early, directories, files
<1>2. ControlInv /\ FilesInv /\ FoundersInv /\ Pending /\ snapshot = {}
  BY <1>1 DEF SelectionInv, ControlInv, FilesInv, Early, TidyPoints, Pending
<1> USE DEF store, git, directories, files, memory, plan, task
<1>3. AsFounded /\ (DOMAIN worktrees' = DOMAIN worktrees => AsFounded')
  BY <1>1, <1>2 DEF AsFounded, SelectionInv, UntouchedInv
<1>4. NothingDangles' /\ (Intact => ElitePreserved')
  BY <1>1, <1>2, UntouchedIs, SameIsSound
<1>5. CASE NoSuccess
  <2>1. /\ pc = "rank" /\ pc' = "idle" /\ successes = 0 /\ status' = "complete"
        /\ UNCHANGED <<store, git, directories, files, successes, memory>>
    BY <1>5 DEF NoSuccess, Goto
  <2>2. ControlInv' /\ FilesInv' /\ FoundersInv'
    BY <1>2, <2>1 DEF ControlInv, FilesInv, FoundersInv, Points, ForwardPoints, TidyPoints, UndoPoints, Early, Changing,
                      Adaptive, Reproductive, Inheriting
  <2>3. UntouchedInv' /\ UndoInv' /\ GenerationInv'
    BY <1>2, <2>1 DEF UntouchedInv, UndoInv, Undone, GenerationInv, Selected, Pending
  <2> QED BY <1>4, <2>2, <2>3 DEF SelectionInv
<1>6. CASE Rank
  <2>1. /\ pc = "rank" /\ pc' = "save_states" /\ successes > 0
        /\ worktrees' = [a \in DOMAIN worktrees |->
                           IF agents[a].status = "active" THEN genomes[agents[a].genome] ELSE worktrees[a]]
        /\ parents' \in [1..Births(successes) -> Elite]
        /\ UNCHANGED <<store, git, states, files, after, reflected, task, successes, status>>
    BY <1>6 DEF Rank, Step, Goto, Elite
  <2>2. Elite' = Elite
    BY <2>1 DEF Elite
  <2>3. ControlInv' /\ FilesInv' /\ FoundersInv'
    BY <1>2, <2>1, <2>2 DEF ControlInv, FilesInv, FoundersInv, Points, ForwardPoints, TidyPoints, UndoPoints, Early,
                            Changing, Adaptive, Reproductive, Inheriting
  <2>4. ASSUME NEW a \in Founders, a > Archived PROVE worktrees'[a] = Seed(a)
    <3>1. agents = Founding.agents /\ genomes = Founding.genomes /\ DOMAIN worktrees = Founders
      BY <1>2, UntouchedIs
    <3>2. agents[a].status = "active" /\ agents[a].genome = a
      BY <2>4, <3>1, FounderIs, FoundersAre
    <3> QED BY <2>1, <3>1, <3>2, FoundingIs
  <2>5. UntouchedInv'
    BY <1>2, <1>3, <2>1, <2>4 DEF UntouchedInv
  <2>6. UndoInv' /\ GenerationInv'
    BY <1>2, <2>1 DEF UndoInv, Undone, GenerationInv, Selected, Changing, Adaptive, Reproductive, Inheriting, Pending
  <2> QED BY <1>4, <2>3, <2>5, <2>6 DEF SelectionInv
<1>7. CASE SaveStates
  <2>1. /\ pc = "save_states" /\ pc' = "save_snapshot" /\ saved' = {[complete |-> TRUE, states |-> states]}
        /\ UNCHANGED <<store, git, directories, snapshot, memory, successes, status>>
    BY <1>7 DEF SaveStates, Step, Goto
  <2>2. Intact => saved' = {Copied}
    BY <1>2, <2>1, UntouchedIs DEF Copied
  <2>3. ControlInv' /\ FilesInv' /\ FoundersInv'
    BY <1>2, <2>1, <2>2 DEF ControlInv, FilesInv, FoundersInv, Points, ForwardPoints, TidyPoints, UndoPoints, Early,
                            Changing, Adaptive, Reproductive, Inheriting, Elite
  <2>4. UntouchedInv'
    BY <1>2, <1>3, <2>1 DEF UntouchedInv, SelectionInv
  <2>5. UndoInv' /\ GenerationInv'
    BY <1>2, <2>1 DEF UndoInv, Undone, GenerationInv, Selected, Changing, Adaptive, Reproductive, Inheriting, Pending
  <2> QED BY <1>4, <2>3, <2>4, <2>5 DEF SelectionInv
<1> QED BY <1>5, <1>6, <1>7

\* With the snapshot the selection begins, from the founders as they are.
LEMMA SaveSnapshotKeeps ==
  ASSUME SelectionInv, SaveSnapshot
  PROVE  SelectionInv'
<1>1. /\ pc = "save_snapshot" /\ pc' = "cull"
      /\ snapshot' = {[agents |-> agents, genomes |-> DOMAIN genomes, knowledge |-> DOMAIN bank,
                       links |-> links, heads |-> heads, tags |-> tags]}
      /\ UNCHANGED <<store, git, directories, saved, memory, successes, status>>
  BY DEF SaveSnapshot, Step, Goto
<1> USE <1>1 DEF store, git, directories, memory, plan, task
<1>2. /\ ControlInv /\ FilesInv /\ FoundersInv /\ Pending /\ snapshot = {} /\ successes > 0
      /\ successes \in 0..PopulationSize /\ (Intact => saved = {Copied})
  BY DEF SelectionInv, ControlInv, FilesInv, Early, TidyPoints, ForwardPoints, Pending
<1>3. /\ agents = Founding.agents /\ genomes = Founding.genomes /\ lineage = Founding.lineage
      /\ bank = Founding.bank /\ links = Founding.links /\ heads = Founding.heads
      /\ tags = Founding.tags /\ (Intact => states = Founding.states)
      /\ DOMAIN states = Founders /\ DOMAIN worktrees = Founders
  BY <1>2, UntouchedIs
<1>4. snapshot' = {Graded}
  <2>1. DOMAIN genomes = Founders /\ DOMAIN bank = Founders
    BY <1>3, FoundingIs
  <2> QED BY <1>3, <2>1 DEF Graded
<1>5. ControlInv' /\ FilesInv' /\ FoundersInv'
  BY <1>2, <1>4 DEF ControlInv, FilesInv, FoundersInv, Points, ForwardPoints, TidyPoints, UndoPoints, Early,
                    Changing, Adaptive, Reproductive, Inheriting, Elite
<1>6. UntouchedInv' /\ UndoInv'
  BY <1>2, <1>4 DEF UntouchedInv, UndoInv, Undone
<1>7. NothingDangles' /\ (Intact => ElitePreserved')
  BY <1>3, SameIsSound
<1>8. /\ Agents' = Founders /\ Descendants' = {} /\ ~Begun' /\ (\A a : ~Changes(a)')
      /\ Elite' = Elite /\ Survivors' = Survivors /\ Replaced' = Replaced
  <2>1. status' # "complete"
    BY <1>2 DEF Pending
  <2>2. Born' = 0
    BY <2>1 DEF Born, Reproductive, Inheriting
  <2>3. ~Begun' /\ (\A a : ~Changes(a)')
    BY DEF Begun, Changes
  <2>4. Elite' = Elite /\ Survivors' = Survivors /\ Replaced' = Replaced
    BY DEF Elite, Survivors, Replaced
  <2> QED BY <2>2, <2>3, <2>4, FoundersAre DEF Agents, Descendants
<1>9. /\ Survivors \cup Replaced \subseteq {a \in Founders : a > Archived}
      /\ Survivors \cap Replaced = {}
  BY <1>2, CohortsAre DEF Survivors, Replaced
<1>10. \A a \in Founders : /\ agents[a].genome = a /\ agents[a].parent = 0
                           /\ a > Archived => agents[a].status = "active"
                           /\ agents[a].status \in {"active", "archived"}
  BY <1>3, FounderIs, FoundersAre
<1>11. AgentsInv'
  <2>1. DOMAIN agents = Founders /\ DOMAIN genomes = Founders
    BY <1>3, FoundingIs
  <2>2. ASSUME NEW a \in Founders
        PROVE  agents[a] \in [status : {"active", "archived"}, genome : Trees, parent : Nat]
    <3> DEFINE st == IF a <= Archived THEN "archived" ELSE "active"
    <3>1. agents[a] = [status |-> st, genome |-> a, parent |-> 0]
      BY <1>3, FoundingIs, Zenon
    <3>2. st \in {"active", "archived"} /\ a \in Trees
      BY DEF Trees
    <3> HIDE DEF st
    <3> QED BY <3>1, <3>2
  <2>3. ASSUME NEW a \in Founders PROVE FounderRow(a)'
    BY <1>3, <1>8, <1>9, <1>10 DEF FounderRow
  <2> QED BY <1>8, <1>10, <2>1, <2>2, <2>3 DEF AgentsInv
<1>12. TurnInv' /\ MadeInv'
  BY DEF TurnInv, MadeInv, Adaptive, Reproductive, Inheriting
<1>13. GenomesInv' /\ LineageInv'
  BY <1>3, <1>8, <1>10, FoundingIs DEF GenomesInv, LineageInv
<1>14. HeadsInv' /\ StatesInv'
  BY <1>3, <1>8, <1>10, FoundingIs DEF HeadsInv, StatesInv, Inheriting
<1>15. WorktreesInv'
  <2>1. Executor = "docker" => \A a \in Founders : a > Archived => worktrees[a] = Seed(a)
    BY <1>2 DEF SelectionInv, UntouchedInv
  <2>2. ASSUME NEW a \in Founders, agents[a].status = "active" PROVE a > Archived /\ genomes[agents[a].genome] = Seed(a)
    BY <1>3, <1>10, <2>2, FounderIs, FoundingIs, FoundersAre
  <2> QED BY <1>3, <1>8, <2>1, <2>2 DEF WorktreesInv
<1>16. MemoryInv'
  BY <1>3, <1>8 DEF MemoryInv
<1>17. GenerationInv'
  BY <1>11, <1>12, <1>13, <1>14, <1>15, <1>16 DEF GenerationInv
<1> QED BY <1>5, <1>6, <1>7, <1>17 DEF SelectionInv
-----------------------------------------------------------------------------
(* The end of a selection, and the ways out of it. *)

\* Once all are born, what is cleared away is nothing of the generation's.
LEMMA CompletedKeeps ==
  ASSUME SelectionInv, pc \in {"close"} \cup TidyPoints, pc' \in {"idle"} \cup TidyPoints,
         status' = "complete", UNCHANGED <<store, git, directories, successes>>,
         after' \in {"idle", "rank"},
         snapshot' \in {{}, snapshot}, pc' = "sweep" => snapshot' = {},
         saved' \in {{}, saved}
  PROVE  SelectionInv'
<1> USE DEF store, git, directories, TidyPoints
<1>1. /\ ControlInv /\ FilesInv /\ FoundersInv /\ successes > 0 /\ successes \in 0..PopulationSize
  BY DEF SelectionInv, ControlInv, ForwardPoints
<1>2. Selected /\ Made
  BY <1>1 DEF SelectionInv, GenerationInv, Made, Selected, Changing, ControlInv
<1>3. /\ Born = Births(successes) /\ Born' = Born /\ ~Begun /\ ~Begun' /\ \A a : ~Changes(a) /\ ~Changes(a)'
      /\ Elite' = Elite /\ Survivors' = Survivors /\ Replaced' = Replaced
  BY <1>1 DEF ControlInv, Born, Begun, Changes, Reproductive, Inheriting, Elite, Survivors, Replaced
<1>4. Agents' = Agents /\ Descendants' = Descendants
  BY <1>3 DEF Agents, Descendants
<1> USE DEF Adaptive, Reproductive, Inheriting
<1>5. ControlInv'
  BY <1>1 DEF ControlInv, Points, ForwardPoints
<1>6. FilesInv'
  BY <1>1 DEF FilesInv, Early, Changing, UndoPoints
<1>7. UntouchedInv' /\ UndoInv'
  BY DEF UntouchedInv, UndoInv, Undone, Pending
<1>8. FoundersInv'
  BY <1>1 DEF FoundersInv
<1>9. NothingDangles' /\ (Intact => ElitePreserved')
  <2>1. Elite \subseteq Founders \ Survivors
    BY <1>1, CohortsAre DEF Elite, Survivors
  <2> QED BY <1>2, <2>1, SameIsSound DEF Made, StatesInv
<1>10. AgentsInv' /\ TurnInv' /\ MadeInv' /\ GenomesInv'
  BY <1>2, <1>3, <1>4 DEF Made, AgentsInv, FounderRow, DescendantRow, TurnInv, MadeInv, GenomesInv
<1>11. LineageInv' /\ HeadsInv' /\ WorktreesInv' /\ StatesInv' /\ MemoryInv'
  BY <1>2, <1>3, <1>4 DEF Made, LineageInv, Entry, HeadsInv, WorktreesInv, StatesInv, MemoryInv
<1> QED BY <1>5, <1>6, <1>7, <1>8, <1>9, <1>10, <1>11 DEF SelectionInv, GenerationInv

\* Where a run is that has a selection to take back, or none.
LEMMA OutsideKeeps ==
  ASSUME SelectionInv, Pending, Intact => pc # "dropping", pc' \in {"idle", "undo"}, after' \in {"idle", "rank"},
         UNCHANGED <<store, git, states, files, successes, status>>,
         DOMAIN worktrees \subseteq DOMAIN worktrees', worktrees' = worktrees \/ pc \in Changing
  PROVE  SelectionInv'
<1> USE DEF store, git, files, Changing, Adaptive, Reproductive, Inheriting
<1>1. ControlInv /\ FilesInv /\ FoundersInv /\ UntouchedInv /\ UndoInv
  BY DEF SelectionInv
<1>2. ControlInv' /\ FilesInv' /\ FoundersInv'
  BY <1>1 DEF ControlInv, FilesInv, FoundersInv, Points, ForwardPoints, TidyPoints, UndoPoints, Early, Pending
<1>3. snapshot = {} => worktrees' = worktrees
  BY <1>1 DEF FilesInv
<1>4. UntouchedInv'
  BY <1>1, <1>3 DEF UntouchedInv, AsFounded, Pending
<1>5. UndoInv' /\ GenerationInv'
  BY <1>1 DEF UndoInv, Undone, GenerationInv, Selected, Pending
<1> QED BY <1>2, <1>4, <1>5, SameIsSound DEF SelectionInv

LEMMA ExitsKeep ==
  ASSUME SelectionInv,
         \/ NothingToCommit \/ BirthFails \/ Fail \/ Crash \/ Resume \/ NothingToUndo
         \/ Close \/ TidySnapshot \/ SweepStates
  PROVE  SelectionInv'
<1> USE DEF store, git, directories, files, memory, plan, task
<1>1. ControlInv
  BY DEF SelectionInv
<1>2. CASE NothingToCommit \/ BirthFails
  <2>1. /\ pc \in {"adapt", "birth"} /\ pc' = "undo" /\ after' = "idle"
        /\ UNCHANGED <<store, git, states, files, successes, status>>
    BY <1>2 DEF NothingToCommit, BirthFails, Raise, Goto
  <2>2. DOMAIN worktrees \subseteq DOMAIN worktrees'
    BY <1>2 DEF NothingToCommit, BirthFails, Put
  <2>3. Pending /\ pc \in Changing
    BY <1>1, <2>1 DEF ControlInv, Pending, TidyPoints, Changing, Adaptive, Reproductive
  <2> QED BY <2>1, <2>2, <2>3, OutsideKeeps
<1>3. CASE Fail
  <2>1. /\ pc \in ForwardPoints /\ pc' = "undo" /\ after' = "idle"
        /\ UNCHANGED <<store, git, directories, files, successes, status>>
    BY <1>3 DEF Fail, Raise, Goto
  <2>2. Pending
    BY <1>1, <2>1 DEF ControlInv, Pending, TidyPoints, ForwardPoints
  <2>3. pc # "dropping"
    BY <2>1 DEF ForwardPoints
  <2> QED BY <2>1, <2>2, <2>3, OutsideKeeps
<1>4. CASE Crash
  <2>1. /\ pc # "idle" /\ (Intact => pc # "dropping") /\ pc' = "idle" /\ after' = "idle"
        /\ UNCHANGED <<store, git, directories, files, successes, status>>
    BY <1>4 DEF Crash, Goto, Intact
  <2>2. CASE Pending
    BY <2>1, <2>2, OutsideKeeps
  <2>3. CASE ~Pending
    <3>1. status = "complete" /\ pc \in TidyPoints
      BY <1>1, <2>1, <2>3 DEF ControlInv, Pending
    <3> QED BY <2>1, <3>1, CompletedKeeps
  <2> QED BY <2>2, <2>3
<1>5. CASE Resume
  <2>1. /\ pc = "idle" /\ pc' = "undo" /\ Pending /\ after' = "rank"
        /\ UNCHANGED <<store, git, directories, files, successes, status>>
    BY <1>5 DEF Resume, Step, Goto, Pending
  <2> QED BY <2>1, OutsideKeeps
<1>6. CASE NothingToUndo
  <2>1. /\ pc = "undo" /\ pc' = after /\ after' = "idle" /\ snapshot = {}
        /\ UNCHANGED <<store, git, directories, files, successes, status, parents>>
    BY <1>6 DEF NothingToUndo, Step, Goto
  <2>2. Pending /\ after \in {"idle", "rank"}
    BY <1>1, <2>1 DEF ControlInv, Pending, TidyPoints
  <2>3. CASE after = "idle"
    BY <2>1, <2>2, <2>3, OutsideKeeps
  <2>4. CASE after = "rank"
    <3>1. FilesInv /\ FoundersInv /\ UntouchedInv
      BY DEF SelectionInv
    <3>2. ControlInv' /\ FilesInv' /\ FoundersInv'
      BY <1>1, <2>1, <2>2, <2>4, <3>1 DEF ControlInv, FilesInv, FoundersInv, Points, ForwardPoints, TidyPoints,
                                   UndoPoints, Early, Changing, Adaptive, Reproductive, Inheriting, Pending
    <3>3. UntouchedInv' /\ UndoInv' /\ GenerationInv'
      BY <2>1, <2>2, <2>4, <3>1 DEF UntouchedInv, AsFounded, UndoInv, Undone, GenerationInv, Selected, Pending,
                                    Changing, Adaptive, Reproductive, Inheriting
    <3> QED BY <2>1, <3>2, <3>3, SameIsSound DEF SelectionInv
  <2> QED BY <2>2, <2>3, <2>4
<1>7. CASE Close
  <2>1. /\ pc = "close" /\ pc' = "tidy" /\ status' = "complete"
        /\ UNCHANGED <<store, git, directories, files, successes, after>>
    BY <1>7 DEF Close, Goto
  <2>2. after' \in {"idle", "rank"}
    BY <1>1, <2>1 DEF ControlInv
  <2> QED BY <2>1, <2>2, CompletedKeeps DEF TidyPoints
<1>8. CASE TidySnapshot \/ SweepStates
  <2>1. /\ pc \in TidyPoints /\ pc' \in {"idle", "sweep"} /\ pc' \in {"idle"} \cup TidyPoints
        /\ UNCHANGED <<store, git, directories, successes, status, after>>
        /\ snapshot' \in {{}, snapshot} /\ (pc' = "sweep" => snapshot' = {}) /\ saved' \in {{}, saved}
    BY <1>8 DEF TidySnapshot, SweepStates, Step, Goto, TidyPoints
  <2>2. status' = "complete" /\ after' \in {"idle", "rank"}
    BY <1>1, <2>1 DEF ControlInv
  <2> QED BY <2>1, <2>2, CompletedKeeps
<1> QED BY <1>2, <1>3, <1>4, <1>5, <1>6, <1>7, <1>8
-----------------------------------------------------------------------------
(* The rollback, one effect after another. *)

\* While a snapshot is taken back, only what the effect at hand touches is in question.
LEMMA UndoingKeeps ==
  ASSUME SelectionInv, pc \in UndoPoints, snapshot = {Graded}, snapshot' = snapshot,
         pc' \in UndoPoints \ {"undo"}, UNCHANGED <<successes, status, after>>,
         FoundersInv', UndoInv', NothingDangles', (Intact => ElitePreserved'),
         Intact => /\ pc' # "dropping" => saved' \in {{}, {Copied}}
                   /\ pc' \in {"restoring", "drop_states"} => saved' = {Copied}
                   /\ pc' = "drop_snapshot" => saved' = {}
  PROVE  SelectionInv'
<1>1. ControlInv /\ Pending
  BY DEF SelectionInv, ControlInv, UndoPoints, TidyPoints, Pending
<1>2. ControlInv'
  BY <1>1 DEF ControlInv, Points, UndoPoints, ForwardPoints, TidyPoints, Pending
<1>3. FilesInv'
  BY DEF FilesInv, UndoPoints, Early, Changing, Adaptive, Reproductive, Inheriting
<1>4. UntouchedInv' /\ GenerationInv'
  BY <1>1 DEF UntouchedInv, GenerationInv, Selected, Pending, UndoPoints, Changing, Adaptive, Reproductive,
              Inheriting
<1> QED BY <1>2, <1>3, <1>4 DEF SelectionInv

\* What a rollback starts from, and what it finds there.
LEMMA UndoIs ==
  ASSUME SelectionInv, pc \in UndoPoints, snapshot # {}
  PROVE  /\ snapshot = {Graded} /\ FoundersInv /\ UndoInv /\ Pending
         /\ Intact => /\ pc # "dropping" => saved \in {{}, {Copied}}
                      /\ pc \in {"restoring", "drop_states"} => saved = {Copied}
                      /\ pc = "drop_snapshot" => saved = {}
<1>1. ControlInv /\ FilesInv
  BY DEF SelectionInv
<1> QED BY <1>1 DEF SelectionInv, ControlInv, FilesInv, UndoPoints, TidyPoints, Pending

LEMMA GradedIs ==
  /\ Graded.agents = Founding.agents /\ Graded.genomes = Founders /\ Graded.knowledge = Founders
  /\ Graded.links = Founding.links /\ Graded.heads = Founding.heads /\ Graded.tags = Founding.tags
  /\ Copied.complete = TRUE /\ Copied.states = Founding.states
BY DEF Graded, Copied

\* The founders' part of what is there is what they had.
LEMMA OnlyFounders ==
  ASSUME FoundersInv
  PROVE  /\ Only(bank, Founders) = Founding.bank /\ Only(genomes, Founders) = Founding.genomes
         /\ {l \in lineage : l.epoch # Epoch} = Founding.lineage
         /\ DOMAIN Only(states, Founders) = Founders /\ DOMAIN Only(worktrees, Founders) = Founders
         /\ \A a \in Founders : Only(states, Founders)[a] = states[a]
<1>1. Only(bank, Founders) = Founding.bank
  BY FoundingIs DEF FoundersInv, Only
<1>2. Only(genomes, Founders) = Founding.genomes
  BY FoundingIs DEF FoundersInv, Only
<1>3. {l \in lineage : l.epoch # Epoch} = Founding.lineage
  <2>1. \A l \in Founding.lineage : l.epoch # Epoch
    BY FoundingIs DEF Epoch
  <2> QED BY <2>1 DEF FoundersInv
<1>4. DOMAIN Only(states, Founders) = Founders /\ DOMAIN Only(worktrees, Founders) = Founders
  BY DEF FoundersInv, Only
<1>5. \A a \in Founders : Only(states, Founders)[a] = states[a]
  BY DEF FoundersInv, Only
<1> QED BY <1>1, <1>2, <1>3, <1>4, <1>5

LEMMA ForgetAgentsKeeps ==
  ASSUME SelectionInv, ForgetAgents
  PROVE  SelectionInv'
<1>1. /\ pc = "undo" /\ pc' = "undo_agents" /\ agents' = <<>> /\ snapshot # {}
      /\ UNCHANGED <<successes, status, memory, genomes, lineage, links, git, directories, files>>
  BY DEF ForgetAgents, Undoing, Step, Goto
<1> USE <1>1 DEF memory, plan, git, directories, files
<1>2. pc \in UndoPoints /\ pc' \in UndoPoints \ {"undo"}
  BY DEF UndoPoints
<1>3. snapshot = {Graded} /\ FoundersInv /\ UndoInv /\ Pending /\ (Intact => saved \in {{}, {Copied}})
  BY <1>2, UndoIs
<1>4. bank' = Only(bank, {i \in DOMAIN bank : bank[i] \notin DOMAIN agents \ DOMAIN Founding.agents})
  BY <1>3, GradedIs DEF ForgetAgents
<1>5. FoundersInv'
  BY <1>3, <1>4, FoundingIs DEF FoundersInv, Only
<1>6. UndoInv'
  BY <1>3 DEF UndoInv, Undone, Pending
<1>7. NothingDangles'
  <2>1. DOMAIN agents' = {}
    OBVIOUS
  <2> QED BY <2>1 DEF SelectionInv, NothingDangles
<1>8. (Intact => ElitePreserved')
  BY DEF SelectionInv, ElitePreserved, Whole
<1> QED BY <1>2, <1>3, <1>5, <1>6, <1>7, <1>8, UndoingKeeps

LEMMA RestoreAgentsKeeps ==
  ASSUME SelectionInv, RestoreAgents, snapshot # {}
  PROVE  SelectionInv'
<1>1. /\ pc = "undo_agents" /\ pc' = "undo_rows"
      /\ UNCHANGED <<successes, status, memory, genomes, lineage, bank, links, git, directories, files>>
  BY DEF RestoreAgents, Undoing, Step, Goto
<1> USE <1>1 DEF memory, plan, git, directories, files
<1>2. pc \in UndoPoints /\ pc' \in UndoPoints \ {"undo"}
  BY DEF UndoPoints
<1>3. snapshot = {Graded} /\ FoundersInv /\ UndoInv /\ Pending /\ (Intact => saved \in {{}, {Copied}})
  BY <1>2, UndoIs
<1>4. agents' = Founding.agents
  BY <1>3, GradedIs DEF RestoreAgents
<1>5. FoundersInv'
  BY <1>3 DEF FoundersInv
<1>6. UndoInv'
  BY <1>3, <1>4 DEF UndoInv, Undone, Pending
<1>7. NothingDangles'
  <2>1. \A a \in DOMAIN agents' : agents'[a].genome \in DOMAIN genomes
    BY <1>3, <1>4, FoundingIs, FounderIs DEF FoundersInv
  <2> QED BY <2>1 DEF SelectionInv, NothingDangles
<1>8. (Intact => ElitePreserved')
  BY <1>4 DEF SelectionInv, ElitePreserved, Whole
<1> QED BY <1>2, <1>3, <1>5, <1>6, <1>7, <1>8, UndoingKeeps

LEMMA ForgetLineageKeeps ==
  ASSUME SelectionInv, ForgetLineage, snapshot # {}
  PROVE  SelectionInv'
<1>1. /\ pc = "undo_rows" /\ pc' = "undo_memory" /\ lineage' = {l \in lineage : l.epoch # Epoch}
      /\ UNCHANGED <<successes, status, memory, agents, genomes, bank, links, git, directories, files>>
  BY DEF ForgetLineage, Undoing, Step, Goto
<1> USE <1>1 DEF memory, plan, git, directories, files
<1>2. pc \in UndoPoints /\ pc' \in UndoPoints \ {"undo"}
  BY DEF UndoPoints
<1>3. snapshot = {Graded} /\ FoundersInv /\ UndoInv /\ Pending /\ (Intact => saved \in {{}, {Copied}})
  BY <1>2, UndoIs
<1>4. lineage' = Founding.lineage
  BY <1>3, OnlyFounders
<1>5. FoundersInv'
  BY <1>3, <1>4 DEF FoundersInv
<1>6. UndoInv'
  BY <1>3, <1>4 DEF UndoInv, Undone, Pending
<1> QED BY <1>2, <1>3, <1>5, <1>6, UndoingKeeps, SameIsSound

LEMMA RestoreMemoryKeeps ==
  ASSUME SelectionInv, RestoreMemory, snapshot # {}
  PROVE  SelectionInv'
<1>1. /\ pc = "undo_memory" /\ pc' = "undo_genomes"
      /\ UNCHANGED <<successes, status, memory, agents, genomes, lineage, git, directories, files>>
  BY DEF RestoreMemory, Undoing, Step, Goto
<1> USE <1>1 DEF memory, plan, git, directories, files
<1>2. pc \in UndoPoints /\ pc' \in UndoPoints \ {"undo"}
  BY DEF UndoPoints
<1>3. snapshot = {Graded} /\ FoundersInv /\ UndoInv /\ Pending /\ (Intact => saved \in {{}, {Copied}})
  BY <1>2, UndoIs
<1>4. bank' = Founding.bank /\ links' = Founding.links
  BY <1>3, GradedIs, OnlyFounders DEF RestoreMemory
<1>5. FoundersInv'
  BY <1>3, <1>4, FoundingIs DEF FoundersInv
<1>6. UndoInv'
  BY <1>3, <1>4 DEF UndoInv, Undone, Pending
<1> QED BY <1>2, <1>3, <1>5, <1>6, UndoingKeeps, SameIsSound

LEMMA ForgetGenomesKeeps ==
  ASSUME SelectionInv, ForgetGenomes, snapshot # {}
  PROVE  SelectionInv'
<1>1. /\ pc = "undo_genomes" /\ pc' = "undo_refs"
      /\ UNCHANGED <<successes, status, memory, agents, lineage, bank, links, git, directories, files>>
  BY DEF ForgetGenomes, Undoing, Step, Goto
<1> USE <1>1 DEF memory, plan, git, directories, files
<1>2. pc \in UndoPoints /\ pc' \in UndoPoints \ {"undo"}
  BY DEF UndoPoints
<1>3. snapshot = {Graded} /\ FoundersInv /\ UndoInv /\ Pending /\ (Intact => saved \in {{}, {Copied}})
  BY <1>2, UndoIs
<1>4. genomes' = Founding.genomes
  BY <1>3, GradedIs, OnlyFounders DEF ForgetGenomes
<1>5. FoundersInv'
  BY <1>3, <1>4, FoundingIs DEF FoundersInv
<1>6. UndoInv'
  BY <1>3, <1>4 DEF UndoInv, Undone, Pending
<1>7. NothingDangles'
  <2>1. agents' = Founding.agents
    BY <1>3 DEF UndoInv, Undone
  <2>2. \A a \in DOMAIN agents' : agents'[a].genome \in DOMAIN genomes'
    BY <1>4, <2>1, FoundingIs, FounderIs
  <2>3. \A t \in DOMAIN genomes' : genomes'[t] \in tags
    BY <1>3, <1>4, FoundingIs DEF FoundersInv
  <2> QED BY <2>2, <2>3 DEF NothingDangles
<1>8. (Intact => ElitePreserved')
  BY DEF SelectionInv, ElitePreserved, Whole
<1> QED BY <1>2, <1>3, <1>5, <1>6, <1>7, <1>8, UndoingKeeps

LEMMA RestoreRefsKeeps ==
  ASSUME SelectionInv, RestoreRefs, snapshot # {}
  PROVE  SelectionInv'
<1>1. /\ pc = "undo_refs" /\ pc' = "undo_directories"
      /\ UNCHANGED <<successes, status, memory, store, directories, files>>
  BY DEF RestoreRefs, Undoing, Step, Goto
<1> USE <1>1 DEF memory, plan, store, directories, files
<1>2. pc \in UndoPoints /\ pc' \in UndoPoints \ {"undo"}
  BY DEF UndoPoints
<1>3. snapshot = {Graded} /\ FoundersInv /\ UndoInv /\ Pending /\ (Intact => saved \in {{}, {Copied}})
  BY <1>2, UndoIs
<1>4. heads' = Founding.heads /\ tags' = Founding.tags
  BY <1>3, GradedIs DEF RestoreRefs
<1>5. FoundersInv'
  BY <1>3, <1>4, FoundingIs DEF FoundersInv
<1>6. UndoInv'
  BY <1>3, <1>4 DEF UndoInv, Undone, Pending
<1>7. NothingDangles'
  <2>1. genomes = Founding.genomes
    BY <1>3 DEF UndoInv, Undone
  <2>2. \A t \in DOMAIN genomes : genomes[t] \in tags'
    BY <1>4, <2>1, FoundingIs
  <2> QED BY <2>2 DEF SelectionInv, NothingDangles
<1>8. (Intact => ElitePreserved')
  BY <1>4 DEF SelectionInv, ElitePreserved, Whole
<1> QED BY <1>2, <1>3, <1>5, <1>6, <1>7, <1>8, UndoingKeeps

LEMMA ForgetDirectoriesKeeps ==
  ASSUME SelectionInv, ForgetDirectories, snapshot # {}
  PROVE  SelectionInv'
<1>1. /\ pc = "undo_directories" /\ pc' = "undo_worktrees"
      /\ UNCHANGED <<successes, status, memory, store, git, files>>
  BY DEF ForgetDirectories, Undoing, Step, Goto
<1> USE <1>1 DEF memory, plan, store, git, files
<1>2. pc \in UndoPoints /\ pc' \in UndoPoints \ {"undo"}
  BY DEF UndoPoints
<1>3. snapshot = {Graded} /\ FoundersInv /\ UndoInv /\ Pending /\ (Intact => saved \in {{}, {Copied}})
  BY <1>2, UndoIs
<1>4. states' = Only(states, Founders) /\ worktrees' = Only(worktrees, Founders)
  BY <1>3, GradedIs, FoundingIs DEF ForgetDirectories
<1>5. /\ DOMAIN states' = Founders /\ DOMAIN worktrees' = Founders
      /\ \A a \in Founders : states'[a] = states[a]
  BY <1>3, <1>4, OnlyFounders
<1>6. FoundersInv'
  BY <1>3, <1>5 DEF FoundersInv
<1>7. Only(states', Founders) = Only(states, Founders)
  BY <1>5, OnlyFounders, <1>3 DEF Only
<1>8. UndoInv'
  <2>1. states' = [a \in Founders |-> states'[a]]
    BY <1>4, <1>5 DEF Only
  <2> QED BY <1>3, <1>5, <1>7, <2>1 DEF UndoInv, Undone, Pending
<1>9. NothingDangles'
  BY DEF SelectionInv, NothingDangles
<1>10. (Intact => ElitePreserved')
  BY <1>5, ElitesAreFounders DEF SelectionInv, ElitePreserved, Whole
<1> QED BY <1>2, <1>3, <1>6, <1>8, <1>9, <1>10, UndoingKeeps

LEMMA RematerializeKeeps ==
  ASSUME SelectionInv, Rematerialize, snapshot # {}
  PROVE  SelectionInv'
<1>1. /\ pc = "undo_worktrees" /\ pc' = "undo_states" /\ DOMAIN worktrees' = DOMAIN worktrees
      /\ UNCHANGED <<successes, status, memory, store, git, states, files>>
  BY DEF Rematerialize, Undoing, Step, Goto
<1> USE <1>1 DEF memory, plan, store, git, files
<1>2. pc \in UndoPoints /\ pc' \in UndoPoints \ {"undo"}
  BY DEF UndoPoints
<1>3. snapshot = {Graded} /\ FoundersInv /\ UndoInv /\ Pending /\ (Intact => saved \in {{}, {Copied}})
  BY <1>2, UndoIs
<1>4. FoundersInv'
  BY <1>3 DEF FoundersInv
<1>5. UndoInv'
  BY <1>3 DEF UndoInv, Undone, Pending
<1> QED BY <1>2, <1>3, <1>4, <1>5, UndoingKeeps, SameIsSound

\* With a copy of the states they come from there; without one, the rollback
\* that threw it away had put them back.
LEMMA WholeIs ==
  ASSUME saved \in {{}, {Copied}}
  PROVE  Whole = saved
BY GradedIs DEF Whole

LEMMA NothingToRestoreKeeps ==
  ASSUME SelectionInv, NothingToRestore, snapshot # {}
  PROVE  SelectionInv'
<1>1. /\ pc = "undo_states" /\ pc' = "drop_snapshot" /\ Whole = {}
      /\ UNCHANGED <<successes, status, memory, store, git, directories, files>>
  BY DEF NothingToRestore, Undoing, Step, Goto
<1> USE DEF memory, plan, store, git, directories, files
<1>2. pc \in UndoPoints /\ pc' \in UndoPoints \ {"undo"}
  BY <1>1 DEF UndoPoints
<1>3. snapshot = {Graded} /\ FoundersInv /\ UndoInv /\ Pending /\ (Intact => saved \in {{}, {Copied}})
  BY <1>1, <1>2, UndoIs
<1>4. DOMAIN states = Founders /\ DOMAIN worktrees = Founders
  BY <1>1, <1>3 DEF UndoInv, Undone
<1>5. ASSUME Intact
      PROVE  saved = {} /\ states = Founding.states
  <2>1. saved = {}
    BY <1>1, <1>3, <1>5, WholeIs
  <2>2. Only(states, Founders) = Founding.states
    BY <1>3, <1>5, <2>1 DEF UndoInv
  <2>3. states = Only(states, Founders)
    BY <1>1, <1>3 DEF UndoInv, Undone, Only
  <2> QED BY <2>1, <2>2, <2>3
<1>6. FoundersInv'
  BY <1>1, <1>3 DEF FoundersInv
<1>7. UndoInv'
  BY <1>1, <1>3, <1>4, <1>5 DEF UndoInv, Undone, Pending
<1>8. NothingDangles' /\ (Intact => ElitePreserved')
  BY <1>1, SameIsSound
<1> QED BY <1>1, <1>2, <1>3, <1>5, <1>6, <1>7, <1>8, UndoingKeeps

\* Until all are back a directory may be there in part, and the copy is whole.
LEMMA RestoreSomeStatesKeeps ==
  ASSUME SelectionInv, RestoreSomeStates, snapshot # {}
  PROVE  SelectionInv'
<1>1. /\ pc = "undo_states" /\ pc' = "restoring" /\ DOMAIN states' = DOMAIN states
      /\ UNCHANGED <<successes, status, memory, store, git, worktrees, files>>
  BY DEF RestoreSomeStates, Undoing, Step, Goto
<1> USE DEF memory, plan, store, git, files
<1>2. pc \in UndoPoints /\ pc' \in UndoPoints \ {"undo"}
  BY <1>1 DEF UndoPoints
<1>3. snapshot = {Graded} /\ FoundersInv /\ UndoInv /\ Pending /\ (Intact => saved \in {{}, {Copied}})
  BY <1>1, <1>2, UndoIs
<1>4. DOMAIN states = Founders /\ DOMAIN worktrees = Founders
  BY <1>1, <1>3 DEF UndoInv, Undone
<1>5. Intact => saved = {Copied} /\ Whole = {Copied}
  <2>1. Whole # {}
    BY DEF RestoreSomeStates
  <2> QED BY <1>3, <2>1, WholeIs
<1>6. FoundersInv'
  BY <1>1, <1>3 DEF FoundersInv
<1>7. UndoInv'
  <2>1. states' = [a \in Founders |-> states'[a]]
    BY <1>4 DEF RestoreSomeStates
  <2> QED BY <1>1, <1>3, <1>4, <1>5, <2>1 DEF UndoInv, Undone, Pending
<1>8. NothingDangles'
  BY <1>1 DEF SelectionInv, NothingDangles
<1>9. ASSUME Intact PROVE ElitePreserved'
  <2>1. ElitePreserved /\ Whole' = Whole
    BY <1>1, <1>9 DEF SelectionInv, Whole
  <2>2. ASSUME NEW a \in Elite
        PROVE  states'[a] \in {Founding.states[a], NobodysState}
    <3>1. a \in DOMAIN states /\ states[a] \in {Founding.states[a], NobodysState}
      BY <1>4, <2>1, <2>2, ElitesAreFounders DEF ElitePreserved, Elite
    <3>2. PICK torn, done : states' = [b \in DOMAIN states |->
                                         IF b \in done THEN Copied.states[b]
                                         ELSE IF b = torn THEN NobodysState ELSE states[b]]
      BY <1>5, <1>9 DEF RestoreSomeStates
    <3> QED BY <3>1, <3>2, GradedIs
  <2>3. \E s \in Whole' : \A a : s.states[a] = Founding.states[a]
    BY <1>5, <1>9, <2>1, GradedIs
  <2>4. status' = "selection_pending"
    BY <1>1, <1>3 DEF Pending
  <2> QED BY <1>1, <2>1, <2>2, <2>3, <2>4 DEF ElitePreserved, Elite
<1> QED BY <1>1, <1>2, <1>3, <1>5, <1>6, <1>7, <1>8, <1>9, UndoingKeeps

LEMMA RestoreStatesKeeps ==
  ASSUME SelectionInv, RestoreStates, snapshot # {}
  PROVE  SelectionInv'
<1>1. /\ pc = "restoring" /\ pc' = "drop_states" /\ DOMAIN states' = DOMAIN states
      /\ UNCHANGED <<successes, status, memory, store, git, worktrees, files>>
  BY DEF RestoreStates, Undoing, Step, Goto
<1> USE DEF memory, plan, store, git, files
<1>2. pc \in UndoPoints /\ pc' \in UndoPoints \ {"undo"}
  BY <1>1 DEF UndoPoints
<1>3. snapshot = {Graded} /\ FoundersInv /\ UndoInv /\ Pending /\ (Intact => saved = {Copied})
  BY <1>1, <1>2, UndoIs
<1>4. DOMAIN states = Founders /\ DOMAIN worktrees = Founders
  BY <1>1, <1>3 DEF UndoInv, Undone
<1>5. ASSUME Intact PROVE states' = Founding.states
  <2>1. Whole = {Copied}
    BY <1>3, <1>5, WholeIs
  <2>2. DOMAIN Copied.states = Founders
    BY GradedIs, FoundingIs
  <2>3. states' = [a \in Founders |-> Copied.states[a]]
    BY <1>4, <2>1, <2>2 DEF RestoreStates
  <2> QED BY <2>3, GradedIs, FoundingIs
<1>6. FoundersInv'
  BY <1>1, <1>3 DEF FoundersInv
<1>7. UndoInv'
  <2>1. states' = [a \in Founders |-> states'[a]]
    BY <1>4 DEF RestoreStates
  <2> QED BY <1>1, <1>3, <1>4, <1>5, <2>1 DEF UndoInv, Undone, Pending
<1>8. NothingDangles'
  BY <1>1 DEF SelectionInv, NothingDangles
<1>9. (Intact => ElitePreserved')
  BY <1>1, <1>5 DEF SelectionInv, ElitePreserved
<1> QED BY <1>1, <1>2, <1>3, <1>6, <1>7, <1>8, <1>9, UndoingKeeps

LEMMA DropStatesKeeps ==
  ASSUME SelectionInv, DropSomeStates \/ DropStates, snapshot # {}
  PROVE  SelectionInv'
<1>1. /\ \/ pc = "drop_states" /\ pc' = "dropping"
         \/ pc = "dropping" /\ pc' = "drop_snapshot" /\ saved' = {}
      /\ UNCHANGED <<successes, status, memory, store, git, directories, snapshot>>
  BY DEF DropSomeStates, DropStates, Undoing, Step, Goto
<1> USE DEF memory, plan, store, git, directories
<1>2. pc \in UndoPoints /\ pc' \in UndoPoints \ {"undo"}
  BY <1>1 DEF UndoPoints
<1>3. snapshot = {Graded} /\ FoundersInv /\ UndoInv /\ Pending
  BY <1>1, <1>2, UndoIs
<1>4. FoundersInv'
  BY <1>1, <1>3 DEF FoundersInv
<1>5. Intact => states = Founding.states /\ Only(states, Founders) = Founding.states
  <2>1. Intact => states = Founding.states
    BY <1>1, <1>3 DEF UndoInv, Undone
  <2> QED BY <2>1, FoundingIs DEF Only
<1>6. UndoInv'
  BY <1>1, <1>3, <1>5 DEF UndoInv, Undone, Pending
<1>7. NothingDangles' /\ (Intact => ElitePreserved')
  BY <1>1, <1>5, SameIsSound
<1> QED BY <1>1, <1>2, <1>3, <1>4, <1>6, <1>7, UndoingKeeps

\* What the rollback leaves is what was graded.
LEMMA DropSnapshotKeeps ==
  ASSUME SelectionInv, DropSnapshot
  PROVE  SelectionInv'
<1>1. /\ pc = "drop_snapshot" /\ pc' = after /\ after' = "idle" /\ snapshot' = {}
      /\ UNCHANGED <<successes, status, store, git, directories, saved, parents>>
  BY DEF DropSnapshot, Step, Goto
<1> USE DEF store, git, directories
<1>2. ControlInv /\ FilesInv /\ FoundersInv /\ UndoInv
  BY DEF SelectionInv
<1>3. after \in {"idle", "rank"} /\ Pending /\ (Intact => saved = {})
  BY <1>1, <1>2 DEF ControlInv, FilesInv, TidyPoints, Pending
<1>4. AsFounded
  BY <1>1, <1>2 DEF UndoInv, Undone, AsFounded
<1>5. AsFounded'
  BY <1>1, <1>4 DEF AsFounded
<1>6. ControlInv'
  BY <1>1, <1>2, <1>3 DEF ControlInv, Points, ForwardPoints, TidyPoints, Pending
<1>7. FilesInv'
  BY <1>1, <1>3 DEF FilesInv, Early, Changing, Adaptive, Reproductive, Inheriting, UndoPoints
<1>8. FoundersInv'
  BY <1>1, <1>2 DEF FoundersInv
<1>9. UntouchedInv'
  BY <1>1, <1>3, <1>4, <1>5 DEF UntouchedInv
<1>10. UndoInv' /\ GenerationInv'
  BY <1>1, <1>3 DEF UndoInv, Undone, GenerationInv, Selected, Changing, Adaptive, Reproductive, Inheriting, Pending
<1>11. NothingDangles' /\ (Intact => ElitePreserved')
  BY <1>1, SameIsSound
<1> QED BY <1>6, <1>7, <1>8, <1>9, <1>10, <1>11 DEF SelectionInv
-----------------------------------------------------------------------------
(* Every step. *)

LEMMA SelectionStutters ==
  ASSUME SelectionInv, UNCHANGED vars
  PROVE  SelectionInv'
<1> USE DEF vars, store, git, directories, files, memory, plan, task
<1>1. /\ Born' = Born /\ Elite' = Elite /\ Survivors' = Survivors /\ Replaced' = Replaced
      /\ Begun' = Begun /\ \A a : Changes(a)' = Changes(a)
  BY DEF Born, Elite, Survivors, Replaced, Begun, Changes, Adapter, Births
<1>2. Agents' = Agents /\ Descendants' = Descendants
  BY <1>1 DEF Agents, Descendants
<1>3. ControlInv' /\ FilesInv' /\ FoundersInv'
  BY <1>1 DEF SelectionInv, ControlInv, FilesInv, FoundersInv
<1>4. UntouchedInv' /\ UndoInv'
  BY DEF SelectionInv, UntouchedInv, UndoInv, Undone, Pending, AsFounded
<1>5. NothingDangles' /\ (Intact => ElitePreserved')
  BY SameIsSound
<1>6. CASE Selected
  <2>1. Made
    BY <1>6 DEF SelectionInv, GenerationInv, Made
  <2>2. AgentsInv' /\ TurnInv' /\ MadeInv' /\ GenomesInv'
    BY <1>1, <1>2, <2>1 DEF Made, AgentsInv, FounderRow, DescendantRow, TurnInv, MadeInv, GenomesInv, Adapting,
                            Adapter, Birthing, Parent
  <2>3. LineageInv' /\ HeadsInv' /\ WorktreesInv' /\ StatesInv' /\ MemoryInv'
    BY <1>1, <1>2, <2>1 DEF Made, LineageInv, Entry, HeadsInv, WorktreesInv, StatesInv, MemoryInv
  <2> QED BY <1>3, <1>4, <1>5, <2>2, <2>3 DEF SelectionInv, GenerationInv
<1>7. CASE ~Selected
  BY <1>3, <1>4, <1>5, <1>7 DEF SelectionInv, GenerationInv, Selected
<1> QED BY <1>6, <1>7

LEMMA SelectionStep ==
  ASSUME SelectionInv, [Next]_vars
  PROVE  SelectionInv'
<1>1. CASE Selecting
  BY <1>1, EarlyKeeps, SaveSnapshotKeeps, CullAgentKeeps, CullingEndsKeeps DEF Selecting
<1>2. CASE Adaptation
  BY <1>2, ReflectKeeps, ReflectionEndsKeeps, KeepGenomeKeeps, CommitAdaptationKeeps, ExitsKeep, RejectAdaptationKeeps,
     RegisterKeeps, ActivateKeeps, AdaptationEndsKeeps DEF Adaptation
<1>3. CASE Reproduction
  BY <1>3, RejectInvalidBirthKeeps, CommitBirthKeeps, ExitsKeep, RejectBirthKeeps, RegisterKeeps, InsertDescendantKeeps,
     InheritMemoryKeeps, InheritStateKeeps, BirthsEndKeeps DEF Reproduction
<1>4. CASE Resume \/ Fail \/ Crash
  BY <1>4, ExitsKeep
<1>5. CASE Rollback
  <2>1. CASE NothingToUndo \/ ForgetAgents \/ DropSnapshot
    BY <2>1, ExitsKeep, ForgetAgentsKeeps, DropSnapshotKeeps
  <2>2. CASE ~(NothingToUndo \/ ForgetAgents \/ DropSnapshot)
    <3>1. pc \in UndoPoints \ {"undo"}
      BY <1>5, <2>2 DEF Rollback, RestoreAgents, ForgetLineage, RestoreMemory, ForgetGenomes, RestoreRefs,
           ForgetDirectories, Rematerialize, NothingToRestore, RestoreSomeStates, RestoreStates, DropSomeStates,
           DropStates, Undoing, Step, Goto, UndoPoints
    <3>2. snapshot # {}
      BY <3>1 DEF SelectionInv, FilesInv
    <3> QED BY <1>5, <2>2, <3>2, RestoreAgentsKeeps, ForgetLineageKeeps, RestoreMemoryKeeps, ForgetGenomesKeeps,
               RestoreRefsKeeps, ForgetDirectoriesKeeps, RematerializeKeeps, NothingToRestoreKeeps,
               RestoreSomeStatesKeeps, RestoreStatesKeeps, DropStatesKeeps
            DEF Rollback
  <2> QED BY <2>1, <2>2
<1>6. CASE UNCHANGED vars
  BY <1>6, SelectionStutters
<1> QED BY <1>1, <1>2, <1>3, <1>4, <1>5, <1>6 DEF Next

\* engine.py:896-1119 and 1121-1206: the inductive invariant of a selection and
\* its rollback, of any size, whatever is answered and wherever it is cut short.
THEOREM SelectionIsInvariant == Spec => []SelectionInv
<1>1. Init => SelectionInv
  BY SelectionInitially
<1>2. SelectionInv /\ [Next]_vars => SelectionInv'
  BY SelectionStep
<1> QED BY <1>1, <1>2, PTL DEF Spec

\* engine.py:920-923 and gitstore.py:61: an agent's genome is always registered
\* and its commit is retained, wherever a selection or its rollback is cut short.
THEOREM NothingEverDangles == Spec => []NothingDangles
<1>1. SelectionInv => NothingDangles
  BY DEF SelectionInv
<1> QED BY <1>1, SelectionIsInvariant, PTL

\* README.md:188: the elite is preserved exactly as it performed, unless a crash
\* leaves a part of the saved states, which the next rollback would restore.
THEOREM EliteIsPreserved ==
  ASSUME "dropping" \notin CrashPoints
  PROVE  Spec => []ElitePreserved
<1>1. SelectionInv => ElitePreserved
  BY DEF SelectionInv, Intact
<1> QED BY <1>1, SelectionIsInvariant, PTL

\* engine.py:1282: in containers, the repository of every living agent is its
\* genome when the epoch is complete, and every directory belongs to an agent.
THEOREM PopulationIsReady ==
  ASSUME Executor = "docker"
  PROVE  Spec => []ReadyToPerform
<1>1. SelectionInv => ReadyToPerform
  <2> SUFFICES ASSUME SelectionInv, status = "complete", successes > 0
               PROVE  /\ DOMAIN worktrees = DOMAIN agents
                      /\ \A a \in DOMAIN agents :
                           agents[a].status = "active" => worktrees[a] = genomes[agents[a].genome]
    BY DEF ReadyToPerform
  <2>1. AgentsInv /\ WorktreesInv
    BY DEF SelectionInv, GenerationInv, Selected
  <2>2. ~Begun /\ \A a : ~Changes(a)
    BY DEF SelectionInv, ControlInv, Begun, Changes, TidyPoints
  <2> QED BY <2>1, <2>2 DEF AgentsInv, WorktreesInv
<1> QED BY <1>1, SelectionIsInvariant, PTL
-----------------------------------------------------------------------------
(* The abstract specification speaks of the same things in the same words. *)

LEMMA AtomicCohorts ==
  ASSUME NEW s
  PROVE  /\ Atomic!CulledAgents(s) = CulledAgents(s) /\ Atomic!MiddleAgents(s) = MiddleAgents(s)
         /\ Atomic!EliteAgents(s) = EliteAgents(s)
BY DEF Atomic!CulledAgents, CulledAgents, Atomic!MiddleAgents, MiddleAgents, Atomic!EliteAgents, EliteAgents,
       Atomic!Members, Members, Atomic!Culled, Culled, Atomic!Middle, Middle, Atomic!Elites, Elites,
       Atomic!BottomSuccess, BottomSuccess, Atomic!Failures, Failures, Atomic!RemainingSuccess, RemainingSuccess,
       Atomic!EliteCount, EliteCount, Atomic!SuccessfulToCull, SuccessfulToCull, Atomic!TargetCull, TargetCull,
       Atomic!Rounded, Rounded, Atomic!AtLeast, AtLeast, Atomic!AtMost, AtMost

LEMMA AtomicFounding == Atomic!Founding = Founding
BY DEF Atomic!Founding, Founding, Atomic!Founders, Founders, Atomic!Seed, Seed, Atomic!Commit, Commit

LEMMA AtomicGeneration ==
  ASSUME NEW P, NEW Q, NEW s
  PROVE  Atomic!NextGeneration(P, Q, s) <=> NextGeneration(P, Q, s)
<1>1. \A S : Atomic!Cardinality(S) = Cardinality(S)
  BY DEF Atomic!Cardinality, Cardinality
<1>2. Atomic!Registered(P, Q) <=> Registered(P, Q)
  BY DEF Atomic!Registered, Registered, Atomic!Only, Only
<1>3. Atomic!DescendantsAreHeirs(P, Q, s) <=> DescendantsAreHeirs(P, Q, s)
  BY AtomicCohorts DEF Atomic!DescendantsAreHeirs, DescendantsAreHeirs, Atomic!Remembers, Remembers, Atomic!Epoch, Epoch
<1>4. Atomic!SurvivorsAreKept(P, Q, s) <=> SurvivorsAreKept(P, Q, s)
  BY AtomicCohorts DEF Atomic!SurvivorsAreKept, SurvivorsAreKept, Atomic!Epoch, Epoch
<1> QED BY <1>1, <1>2, <1>3, <1>4 DEF Atomic!NextGeneration, NextGeneration

-----------------------------------------------------------------------------
(* What a resumption would go on with: the founders, until the end. *)

LEMMA LastingIs ==
  ASSUME SelectionInv, Intact
  PROVE  /\ Pending => Lasting = Founding
         /\ ~Pending => Lasting = Current
<1>1. ControlInv /\ FilesInv /\ FoundersInv /\ UntouchedInv /\ UndoInv
  BY DEF SelectionInv
<1>2. CASE ~Pending
  BY <1>1, <1>2 DEF Lasting, ControlInv, Pending
<1>3. CASE Pending /\ snapshot = {}
  BY <1>1, <1>3 DEF Lasting, UntouchedInv, AsFounded, Current, Founding
<1>4. CASE Pending /\ snapshot # {}
  <2>1. snapshot = {Graded} /\ (CHOOSE s \in snapshot : TRUE) = Graded
    BY <1>1, <1>4 DEF FilesInv
  <2>2. Lasting = Restored(Graded)
    BY <1>4, <2>1 DEF Lasting, Pending
  <2> DEFINE kept == IF Whole = {} \/ pc = "dropping"
                     THEN Only(states, Founders) ELSE (CHOOSE w \in Whole : TRUE).states
  <2>3. kept = Founding.states
    <3>1. CASE pc = "dropping"
      <4>1. states = Founding.states
        BY <1>1, <3>1 DEF UndoInv, Undone
      <4> QED BY <3>1, <4>1, FoundingIs DEF Only
    <3>2. CASE pc # "dropping" /\ saved = {}
      <4>1. Whole = {}
        BY <3>2, WholeIs
      <4> QED BY <1>1, <1>4, <3>2, <4>1 DEF UndoInv
    <3>3. CASE pc # "dropping" /\ saved = {Copied}
      <4>1. Whole = {Copied}
        BY <3>3, WholeIs
      <4>2. kept = (CHOOSE w \in Whole : TRUE).states
        BY <3>3, <4>1
      <4>3. (CHOOSE w \in Whole : TRUE) = Copied
        BY <4>1
      <4> QED BY <4>2, <4>3, GradedIs
    <3> QED BY <1>1, <3>1, <3>2, <3>3 DEF FilesInv
  <2> HIDE DEF kept
  <2>4. Restored(Graded) =
          [agents |-> Founding.agents, genomes |-> Founding.genomes, lineage |-> Founding.lineage,
           bank |-> Founding.bank, links |-> Founding.links, heads |-> Founding.heads, tags |-> Founding.tags,
           states |-> kept]
    <3>1. Restored(Graded).states = kept
      BY GradedIs, FoundingIs DEF Restored, kept
    <3>2. DOMAIN Graded.agents = Founders
      BY GradedIs, FoundingIs
    <3> QED BY <1>1, <3>1, <3>2, GradedIs, OnlyFounders DEF Restored, kept
  <2>5. Founding =
          [agents |-> Founding.agents, genomes |-> Founding.genomes, lineage |-> Founding.lineage,
           bank |-> Founding.bank, links |-> Founding.links, heads |-> Founding.heads, tags |-> Founding.tags,
           states |-> Founding.states]
    BY DEF Founding
  <2> QED BY <1>4, <2>2, <2>3, <2>4, <2>5
<1> QED BY <1>2, <1>3, <1>4

\* Who is there at the end of a selection, and who of them lives.
LEMMA LivingAre ==
  ASSUME SelectionInv, pc = "close"
  PROVE  /\ Made /\ FoundersInv /\ successes \in 0..PopulationSize
         /\ Born = Births(successes) /\ Born \in Nat /\ ~Begun /\ \A a : ~Changes(a)
         /\ Agents = Founders \cup Descendants /\ Founders \cap Descendants = {}
         /\ DOMAIN agents = Agents
         /\ {a \in Agents : agents[a].status = "active"} =
              ({a \in Founders : a > Archived} \ Replaced) \cup Descendants
<1> USE DEF Changing, Adaptive, Reproductive, Inheriting
<1>1. /\ Made /\ FoundersInv /\ successes \in 0..PopulationSize /\ Born \in Nat
      /\ Elite \cup Survivors \cup Replaced = {a \in Founders : a > Archived}
      /\ Elite \cap Survivors = {} /\ Elite \cap Replaced = {} /\ Survivors \cap Replaced = {}
  BY Inside
<1>2. Born = Births(successes) /\ ~Begun /\ \A a : ~Changes(a)
  BY DEF Born, Begun, Changes
<1>3. Agents = Founders \cup Descendants /\ Founders \cap Descendants = {} /\ DOMAIN agents = Agents
  BY <1>1, FoundersAre DEF Agents, Descendants, Made, AgentsInv
<1>4. ASSUME NEW a \in Founders
      PROVE  agents[a].status = "active" <=> a > Archived /\ a \notin Replaced
  <2>1. FounderRow(a)
    BY <1>1 DEF Made, AgentsInv
  <2>2. CASE a \in Replaced
    BY <2>1, <2>2 DEF FounderRow
  <2>3. CASE a \in Survivors
    BY <1>1, <2>1, <2>3 DEF FounderRow
  <2>4. CASE a \notin Replaced \cup Survivors
    <3>1. agents[a].status = IF a <= Archived THEN "archived" ELSE "active"
      BY <2>1, <2>4, FounderIs DEF FounderRow
    <3> QED BY <2>4, <3>1, FoundersAre
  <2> QED BY <2>2, <2>3, <2>4
<1>5. \A a \in Descendants : agents[a].status = "active"
  BY <1>1 DEF Made, AgentsInv, DescendantRow
<1> QED BY <1>1, <1>2, <1>3, <1>4, <1>5

\* As many as one takes away, and others put in their place.
LEMMA ReplacedCount ==
  ASSUME NEW S, NEW T, NEW U, NEW n \in Nat, NEW k \in Nat,
         IsFiniteSet(S), Cardinality(S) = n, T \subseteq S, Cardinality(T) = k,
         IsFiniteSet(U), Cardinality(U) = k, S \cap U = {}
  PROVE  Cardinality((S \ T) \cup U) = n
<1>1. S \cap T = T /\ (S \ T) \cap U = {}
  OBVIOUS
<1>2. IsFiniteSet(S \ T) /\ Cardinality(S \ T) = Cardinality(S) - Cardinality(S \cap T)
  BY FS_Difference
<1>3. Cardinality(S \ T) = n - k
  BY <1>1, <1>2
<1>4. Cardinality((S \ T) \cup U) = Cardinality(S \ T) + Cardinality(U) - Cardinality((S \ T) \cap U)
  BY <1>2, FS_Union
<1>5. Cardinality((S \ T) \cap U) = 0
  BY <1>1, FS_EmptySet
<1>6. Cardinality((S \ T) \cup U) = (n - k) + k - 0
  BY <1>3, <1>4, <1>5
<1> QED BY <1>6

\* As many are born as are culled.
LEMMA PopulationIsWhole ==
  ASSUME SelectionInv, pc = "close"
  PROVE  Cardinality({a \in Agents : agents[a].status = "active"}) = PopulationSize
<1> DEFINE ranked == {a \in Founders : a > Archived}
<1>1. /\ successes \in 0..PopulationSize /\ Born = Births(successes) /\ Born \in Nat
      /\ Founders \cap Descendants = {}
      /\ {a \in Agents : agents[a].status = "active"} = (ranked \ Replaced) \cup Descendants
  BY LivingAre
<1>2. Replaced \subseteq ranked /\ Cardinality(Replaced) = Born
  BY <1>1, CohortsAre DEF Replaced, Births
<1>3. IsFiniteSet(ranked) /\ Cardinality(ranked) = PopulationSize
  <2>1. ranked = (Archived + 1)..(Archived + PopulationSize)
    BY FoundersAre DEF Last
  <2> HIDE DEF ranked
  <2> QED BY <2>1, IntervalIs, PopulationAssumption, ArchivedAssumption
<1>4. IsFiniteSet(Descendants) /\ Cardinality(Descendants) = Born
  BY <1>1, FoundersAre, IntervalIs DEF Descendants
<1>5. ranked \cap Descendants = {}
  BY <1>1
<1> HIDE DEF ranked
<1>6. Cardinality((ranked \ Replaced) \cup Descendants) = PopulationSize
  BY <1>1, <1>2, <1>3, <1>4, <1>5, PopulationAssumption, ReplacedCount
<1> QED BY <1>1, <1>6

\* engine.py:896-1119: what a selection has made when it commits its epoch.
LEMMA ClosedIs ==
  ASSUME SelectionInv, Intact, pc = "close"
  PROVE  NextGeneration(Founding, Current, successes)
<1>1. /\ Made /\ FoundersInv /\ successes \in 0..PopulationSize
      /\ ~Begun /\ \A a : ~Changes(a)
      /\ Agents = Founders \cup Descendants /\ Founders \cap Descendants = {}
      /\ DOMAIN agents = Agents /\ DOMAIN Founding.agents = Founders
  BY LivingAre, FoundingIs
<1>2. /\ Current.agents = agents /\ Current.genomes = genomes /\ Current.lineage = lineage
      /\ Current.bank = bank /\ Current.links = links /\ Current.heads = heads
      /\ Current.tags = tags /\ Current.states = states
  BY DEF Current
<1> USE DEF Made
<1>3. \A a \in Agents : agents[a].genome \notin Founders =>
        [child |-> a, parent |-> IF a \in Founders THEN a ELSE agents[a].parent,
         genome |-> agents[a].genome, epoch |-> Epoch] \in lineage
  BY <1>1 DEF LineageInv, Entry
<1>4. SurvivorsAreKept(Founding, Current, successes)
  <2> SUFFICES ASSUME NEW a \in Founders
               PROVE  CASE a \in Replaced -> agents[a] = [Founding.agents[a] EXCEPT !.status = "archived"]
                        [] a \in Survivors ->
                             /\ agents[a] = [Founding.agents[a] EXCEPT !.genome = agents[a].genome]
                             /\ agents[a].genome # Founding.agents[a].genome =>
                                  [child |-> a, parent |-> a, genome |-> agents[a].genome, epoch |-> Epoch] \in lineage
                        [] OTHER -> agents[a] = Founding.agents[a] /\ states[a] = Founding.states[a]
    BY <1>1, <1>2 DEF SurvivorsAreKept, Replaced, Survivors
  <2>1. /\ FounderRow(a) /\ a \in Agents
        /\ agents[a] \in [status : {"active", "archived"}, genome : Trees, parent : Nat]
    BY <1>1 DEF AgentsInv
  <2>2. Survivors \cap Replaced = {}
    BY <1>1, CohortsAre DEF Survivors, Replaced
  <2> DEFINE st == IF a <= Archived THEN "archived" ELSE "active"
  <2>3. Founding.agents[a] = [status |-> st, genome |-> a, parent |-> 0]
    BY FoundingIs, Zenon
  <2>4. a > Archived => st = "active"
    BY FoundersAre
  <2> HIDE DEF st
  <2>5. CASE a \in Replaced
    <3>1. agents[a].genome = a /\ agents[a].status = "archived" /\ agents[a].parent = 0
      BY <2>1, <2>5 DEF FounderRow
    <3>2. agents[a] = [Founding.agents[a] EXCEPT !.status = "archived"]
      BY <2>1, <2>3, <3>1
    <3> QED BY <2>2, <2>5, <3>2
  <2>6. CASE a \in Survivors
    <3>1. agents[a].status = "active" /\ agents[a].parent = 0 /\ agents[a].genome \in {a} \cup Novel
      BY <2>1, <2>6 DEF FounderRow
    <3>2. st = "active"
      BY <1>1, <2>4, <2>6, CohortsAre DEF Survivors
    <3>3. agents[a] = [Founding.agents[a] EXCEPT !.genome = agents[a].genome]
      BY <2>1, <2>3, <3>1, <3>2
    <3>4. agents[a].genome # a => agents[a].genome \notin Founders
      BY <3>1, NovelAssumption
    <3>5. agents[a].genome # Founding.agents[a].genome =>
            [child |-> a, parent |-> a, genome |-> agents[a].genome, epoch |-> Epoch] \in lineage
      BY <1>3, <2>1, <2>3, <3>4
    <3> QED BY <2>2, <2>6, <3>3, <3>5
  <2>7. CASE a \notin Replaced \cup Survivors
    <3>1. agents[a] = Founding.agents[a] /\ states[a] = Founding.states[a]
      BY <1>1, <2>1, <2>7 DEF FounderRow, StatesInv
    <3> QED BY <2>7, <3>1
  <2> QED BY <2>5, <2>6, <2>7
<1>5. DescendantsAreHeirs(Founding, Current, successes)
  <2> SUFFICES ASSUME NEW a \in Descendants
               PROVE  /\ agents[a].status = "active" /\ agents[a].parent \in EliteAgents(successes)
                      /\ [child |-> a, parent |-> agents[a].parent, genome |-> agents[a].genome,
                          epoch |-> Epoch] \in lineage
                      /\ genomes[agents[a].genome].from = Founding.agents[agents[a].parent].genome
                      /\ states[a].of = agents[a].parent
                      /\ Remembers(Founding.bank, Founding.links, agents[a].parent) \subseteq Remembers(bank, links, a)
    BY <1>1, <1>2 DEF DescendantsAreHeirs
  <2>1. DescendantRow(a) /\ a \in Agents /\ a \notin Founders
    BY <1>1 DEF AgentsInv
  <2>2. agents[a].genome \notin Founders
    BY <2>1, NovelAssumption DEF DescendantRow
  <2>3. Founding.agents[agents[a].parent].genome = agents[a].parent
    <3>1. agents[a].parent \in Founders
      BY <1>1, <2>1, CohortsAre DEF DescendantRow, Elite
    <3> QED BY <3>1, FounderIs
  <2>4. states[a].of = agents[a].parent
    BY <1>1, <2>1 DEF StatesInv, Inheriting
  <2>5. Remembers(Founding.bank, Founding.links, agents[a].parent) \subseteq Remembers(bank, links, a)
    BY <1>1 DEF MemoryInv
  <2> QED BY <1>3, <2>1, <2>2, <2>3, <2>4, <2>5 DEF DescendantRow, Elite
<1>6. Registered(Founding, Current)
  <2>1. DOMAIN Founding.genomes = Founders /\ DOMAIN Founding.bank = Founders
    BY FoundingIs
  <2>2. Only(genomes, Founders) = Founding.genomes /\ Only(bank, Founders) = Founding.bank
    BY <1>1, OnlyFounders
  <2>3. Founding.lineage \subseteq lineage /\ Founding.links \subseteq links
    BY <1>1 DEF FoundersInv, MemoryInv
  <2>4. DOMAIN genomes \ Founders \subseteq {agents[a].genome : a \in Agents}
    BY <1>1 DEF GenomesInv
  <2>5. DOMAIN genomes \ Founders = {l.genome : l \in lineage \ Founding.lineage}
    <3>1. ASSUME NEW t \in DOMAIN genomes \ Founders
          PROVE  \E l \in lineage \ Founding.lineage : l.genome = t
      <4>1. PICK a \in Agents : agents[a].genome = t
        BY <2>4
      <4> DEFINE entry == [child |-> a, parent |-> IF a \in Founders THEN a ELSE agents[a].parent,
                           genome |-> agents[a].genome, epoch |-> Epoch]
      <4>2. entry \in lineage /\ entry.genome = t /\ entry.epoch = 1
        BY <1>3, <4>1 DEF Epoch
      <4>3. \A l \in Founding.lineage : l.epoch = 0
        BY FoundingIs
      <4> HIDE DEF entry
      <4> QED BY <4>2, <4>3
    <3>2. ASSUME NEW l \in lineage \ Founding.lineage
          PROVE  l.genome \in DOMAIN genomes \ Founders
      BY <1>1 DEF LineageInv, AgentsInv
    <3> QED BY <3>1, <3>2
  <2>6. DOMAIN heads = Agents /\ \A a \in Agents : heads[a] = genomes[agents[a].genome]
    BY <1>1 DEF HeadsInv
  <2>7. DOMAIN states = Agents
    BY <1>1 DEF StatesInv, Inheriting
  <2> QED BY <1>1, <1>2, <2>1, <2>2, <2>3, <2>4, <2>5, <2>6, <2>7 DEF Registered
<1>7. Cardinality({a \in DOMAIN agents : agents[a].status = "active"}) = PopulationSize
  BY <1>1, PopulationIsWhole
<1>8. \A a, b \in Agents : a # b => agents[a].genome # agents[b].genome
  BY <1>1 DEF AgentsInv
<1> QED BY <1>1, <1>2, <1>4, <1>5, <1>6, <1>7, <1>8 DEF NextGeneration

-----------------------------------------------------------------------------
(* Every step is a step of the abstract specification, or changes nothing of *)
(* what a resumption would go on with.                                       *)

LEMMA SuccessesStay == [Next]_vars => UNCHANGED successes
<1> SUFFICES ASSUME [Next]_vars PROVE UNCHANGED successes
  OBVIOUS
<1> USE DEF Step, Undoing
<1>1. CASE Selecting
  BY <1>1 DEF Selecting, NoSuccess, Rank, SaveStates, SaveSnapshot, CullAgent, CullingEnds
<1>2. CASE Adaptation
  BY <1>2 DEF Adaptation, Reflect, ReflectionEnds, KeepGenome, CommitAdaptation, NothingToCommit, RejectAdaptation,
              RegisterAdaptation, Register, Activate, AdaptationEnds
<1>3. CASE Reproduction
  BY <1>3 DEF Reproduction, RejectInvalidBirth, CommitBirth, BirthFails, RejectBirth, RegisterBirth, Register,
              InsertDescendant, InheritMemory, InheritState, BirthsEnd, Close, TidySnapshot, SweepStates
<1>4. CASE Resume \/ Fail \/ Crash
  BY <1>4 DEF Resume, Fail, Crash
<1>5. CASE Rollback
  BY <1>5 DEF Rollback, NothingToUndo, ForgetAgents, RestoreAgents, ForgetLineage, RestoreMemory, ForgetGenomes,
              RestoreRefs, ForgetDirectories, Rematerialize, NothingToRestore, RestoreSomeStates, RestoreStates,
              DropSomeStates, DropStates, DropSnapshot
<1>6. CASE UNCHANGED vars
  BY <1>6 DEF vars
<1> QED BY <1>1, <1>2, <1>3, <1>4, <1>5, <1>6 DEF Next

\* Only these two commit the epoch, and nothing reopens it.
LEMMA StatusStays == [Next]_vars => UNCHANGED status \/ NoSuccess \/ Close
<1> SUFFICES ASSUME [Next]_vars PROVE UNCHANGED status \/ NoSuccess \/ Close
  OBVIOUS
<1> USE DEF Step, Undoing
<1>1. CASE Selecting
  BY <1>1 DEF Selecting, Rank, SaveStates, SaveSnapshot, CullAgent, CullingEnds
<1>2. CASE Adaptation
  BY <1>2 DEF Adaptation, Reflect, ReflectionEnds, KeepGenome, CommitAdaptation, NothingToCommit, RejectAdaptation,
              RegisterAdaptation, Register, Activate, AdaptationEnds
<1>3. CASE Reproduction
  BY <1>3 DEF Reproduction, RejectInvalidBirth, CommitBirth, BirthFails, RejectBirth, RegisterBirth, Register,
              InsertDescendant, InheritMemory, InheritState, BirthsEnd, TidySnapshot, SweepStates
<1>4. CASE Resume \/ Fail \/ Crash
  BY <1>4 DEF Resume, Fail, Crash
<1>5. CASE Rollback
  BY <1>5 DEF Rollback, NothingToUndo, ForgetAgents, RestoreAgents, ForgetLineage, RestoreMemory, ForgetGenomes,
              RestoreRefs, ForgetDirectories, Rematerialize, NothingToRestore, RestoreSomeStates, RestoreStates,
              DropSomeStates, DropStates, DropSnapshot
<1>6. CASE UNCHANGED vars
  BY <1>6 DEF vars
<1> QED BY <1>1, <1>2, <1>3, <1>4, <1>5, <1>6 DEF Next

\* What remains of a run whose epoch is complete: clearing away.
LEMMA CompleteStays ==
  ASSUME SelectionInv, ~Pending, [Next]_vars
  PROVE  UNCHANGED Current
<1>1. pc \in {"idle"} \cup TidyPoints /\ status # "selection_pending"
  BY DEF SelectionInv, ControlInv, Pending
<1> USE DEF Step, Goto, Undoing, TidyPoints, store, git, directories
<1>2. CASE Selecting
  BY <1>1, <1>2 DEF Selecting, NoSuccess, Rank, SaveStates, SaveSnapshot, CullAgent, CullingEnds
<1>3. CASE Adaptation
  BY <1>1, <1>3 DEF Adaptation, Reflect, ReflectionEnds, KeepGenome, CommitAdaptation, NothingToCommit, Raise,
                    RejectAdaptation, RegisterAdaptation, Register, Activate, AdaptationEnds
<1>4. CASE Reproduction
  <2>1. TidySnapshot \/ SweepStates
    BY <1>1, <1>4 DEF Reproduction, RejectInvalidBirth, CommitBirth, BirthFails, RejectBirth, RegisterBirth, Register,
                      InsertDescendant, InheritMemory, InheritState, BirthsEnd, Close, Raise
  <2> QED BY <2>1 DEF TidySnapshot, SweepStates, Current
<1>5. CASE Resume \/ Fail \/ Crash
  <2>1. Crash
    BY <1>1, <1>5 DEF Resume, Fail, ForwardPoints
  <2> QED BY <2>1 DEF Crash, Current
<1>6. CASE Rollback
  BY <1>1, <1>6 DEF Rollback, NothingToUndo, ForgetAgents, RestoreAgents, ForgetLineage, RestoreMemory, ForgetGenomes,
                    RestoreRefs, ForgetDirectories, Rematerialize, NothingToRestore, RestoreSomeStates,
                    RestoreStates, DropSomeStates, DropStates,
                    DropSnapshot
<1>7. CASE UNCHANGED vars
  BY <1>7 DEF vars, Current
<1> QED BY <1>2, <1>3, <1>4, <1>5, <1>6, <1>7 DEF Next

LEMMA LastingIsNow ==
  SelectionInv /\ Intact => (Pending => Lasting = Founding) /\ (~Pending => Lasting = Current)
BY LastingIs

LEMMA LastingIsNext ==
  (SelectionInv /\ Intact => (Pending => Lasting = Founding) /\ (~Pending => Lasting = Current))'
BY LastingIsNow, PTL

LEMMA AtomicStep ==
  ASSUME SelectionInv, SelectionInv', Intact, [Next]_vars
  PROVE  [Atomic!Next]_(Atomic!vars)
<1>1. successes' = successes /\ (status' = status \/ NoSuccess \/ Close)
  BY SuccessesStay, StatusStays
<1>2. status \in {"selection_pending", "complete"} /\ status' \in {"selection_pending", "complete"}
  BY DEF SelectionInv, ControlInv
<1>3. Founding' = Founding
  OBVIOUS
<1>4. /\ Pending => Lasting = Founding
      /\ ~Pending => Lasting = Current
      /\ Pending' => Lasting' = Founding
      /\ ~Pending' => Lasting' = Current'
  BY <1>3, LastingIsNow, LastingIsNext
<1>5. CASE status' = status
  <2>1. Lasting' = Lasting
    BY <1>4, <1>5, CompleteStays DEF Pending
  <2> QED BY <1>1, <1>5, <2>1 DEF Atomic!vars
<1>6. CASE NoSuccess
  <2>1. /\ pc = "rank" /\ status' = "complete" /\ successes = 0
        /\ UNCHANGED <<store, git, states>>
    BY <1>6 DEF NoSuccess, Goto, directories
  <2>2. Pending /\ ~Pending'
    BY <2>1 DEF SelectionInv, ControlInv, TidyPoints, Pending
  <2>3. Lasting' = Lasting
    <3>1. snapshot = {}
      BY <2>1 DEF SelectionInv, FilesInv, Early
    <3>2. Current' = Current
      BY <2>1 DEF Current, store, git
    <3>3. Current = Founding
      BY <2>2, <3>1 DEF SelectionInv, UntouchedInv, AsFounded, Current, Founding
    <3> QED BY <1>4, <2>2, <3>2, <3>3
  <2>4. Atomic!Select
    BY <1>1, <1>2, <2>1, <2>2, <2>3 DEF Atomic!Select, Pending
  <2> QED BY <2>4 DEF Atomic!Next
<1>7. CASE Close
  <2>1. /\ pc = "close" /\ status' = "complete" /\ UNCHANGED <<store, git, states>>
    BY <1>7 DEF Close, Goto, directories
  <2>2. Pending /\ ~Pending' /\ successes > 0
    BY <2>1 DEF SelectionInv, ControlInv, TidyPoints, ForwardPoints, Pending
  <2>3. Current' = Current
    BY <2>1 DEF Current, store, git
  <2>4. NextGeneration(Lasting, Lasting', successes)
    BY <1>4, <2>1, <2>2, <2>3, ClosedIs
  <2>5. Atomic!NextGeneration(Lasting, Lasting', successes)
    BY <2>4, AtomicGeneration
  <2>6. successes # 0
    BY <2>2 DEF SelectionInv, ControlInv
  <2>7. Atomic!Select
    BY <1>1, <1>2, <2>1, <2>2, <2>5, <2>6 DEF Atomic!Select, Pending
  <2> QED BY <2>7 DEF Atomic!Next
<1> QED BY <1>1, <1>5, <1>6, <1>7

\* README.md:277: a selection happens as a whole or not at all, and once: what a
\* run would go on with is the graded population until the epoch is committed,
\* and from then on one next generation of it.  TornStates.cfg shows that the
\* hypothesis is needed.
THEOREM SelectionIsAtomic ==
  ASSUME "dropping" \notin CrashPoints
  PROVE  Spec => AllOrNothing
<1> USE DEF Intact
<1>1. Init => Atomic!Init
  <2> SUFFICES ASSUME Init PROVE Atomic!Init
    OBVIOUS
  <2>1. SelectionInv /\ Pending
    BY SelectionInitially DEF Init, Pending
  <2>2. Lasting = Founding
    BY <2>1, LastingIs
  <2>3. successes \in 0..PopulationSize /\ status # "complete"
    BY DEF Init
  <2> QED BY <2>2, <2>3, AtomicFounding DEF Atomic!Init
<1>2. SelectionInv /\ SelectionInv' /\ [Next]_vars => [Atomic!Next]_(Atomic!vars)
  BY AtomicStep
<1> QED BY <1>1, <1>2, SelectionIsInvariant, PTL DEF Spec, AllOrNothing, Atomic!Spec
=============================================================================
