------------------------------ MODULE Heredity ------------------------------
(***************************************************************************)
(* What selection is about, as data: a population is a record of what the  *)
(* store, the Git repository and the agents' directories hold of it.  A    *)
(* genome is the tree it was made from (create_genome rejects a second one *)
(* with the same content), a commit is what Git computes its hash from.    *)
(* Agents are numbered; the archived ones of earlier epochs come first and *)
(* the others in the order of the epoch's ranking, which loses nothing:    *)
(* no code depends on the number of an agent that exists.                  *)
(***************************************************************************)
EXTENDS Cohorts, FiniteSets

CONSTANTS
  PopulationSize,  \* runs.population_size
  Archived,        \* agents that earlier epochs replaced
  Novel            \* trees that nobody has yet

ASSUME PopulationAssumption == PopulationSize \in Nat /\ PopulationSize >= 4
ASSUME ArchivedAssumption == Archived \in Nat

Founders == 1..(Archived + PopulationSize)
ASSUME NovelAssumption == Novel \cap Founders = {}

Trees == Founders \cup Novel
Epoch == 1  \* the epoch that is selected; what was there before says 0

\* The agents of a cohort, given as ranks.
Members(ranks) == {Archived + r : r \in ranks}
EliteAgents(s) == Members(Elites(PopulationSize, s))
MiddleAgents(s) == Members(Middle(PopulationSize, s))
CulledAgents(s) == Members(Culled(PopulationSize, s))
Births(s) == Cardinality(CulledAgents(s))

Commit(tree, from, by, at) ==
  [tree |-> tree, from |-> from, by |-> by, at |-> at]
Seed(i) == Commit(i, 0, "seed", 1)

\* f changed, or extended, at x.
Put(f, x, v) == [y \in DOMAIN f \cup {x} |-> IF y = x THEN v ELSE f[y]]
Only(f, S) == [x \in DOMAIN f \cap S |-> f[x]]

\* An agent remembers its own records and those it has links to.
Remembers(bank, links, a) ==
  {i \in DOMAIN bank : bank[i] = a} \cup {l[2] : l \in {m \in links : m[1] = a}}

-----------------------------------------------------------------------------
\* A graded population: every genome is registered, tagged and a branch; each
\* agent owns a memory and the first of the living has inherited another.
Founding ==
  [agents  |-> [a \in Founders |->
                  [status |-> IF a <= Archived THEN "archived" ELSE "active",
                   genome |-> a, parent |-> 0]],
   genomes |-> [t \in Founders |-> Seed(t)],
   lineage |-> {[child |-> a, parent |-> 0, genome |-> a, epoch |-> 0]
                  : a \in Founders},
   bank    |-> [i \in Founders |-> i],
   links   |-> {<<Archived + 1, Archived + 2>>},
   heads   |-> [a \in Founders |-> Seed(a)],
   tags    |-> {Seed(a) : a \in Founders},
   states  |-> [a \in Founders |-> [of |-> a, touched |-> FALSE]]]

\* Q is what selection may make of P, of whose members s succeeded.
SurvivorsAreKept(P, Q, s) ==
  \A a \in DOMAIN P.agents :
    LET old == P.agents[a]
        new == Q.agents[a]
    IN  CASE a \in CulledAgents(s) -> new = [old EXCEPT !.status = "archived"]
          [] a \in MiddleAgents(s) ->
               /\ new = [old EXCEPT !.genome = new.genome]
               /\ new.genome # old.genome =>
                    [child |-> a, parent |-> a, genome |-> new.genome,
                     epoch |-> Epoch] \in Q.lineage
          [] OTHER -> new = old /\ Q.states[a] = P.states[a]

DescendantsAreHeirs(P, Q, s) ==
  \A a \in DOMAIN Q.agents \ DOMAIN P.agents :
    LET parent == Q.agents[a].parent
    IN  /\ Q.agents[a].status = "active"
        /\ parent \in EliteAgents(s)
        /\ [child |-> a, parent |-> parent, genome |-> Q.agents[a].genome,
            epoch |-> Epoch] \in Q.lineage
        /\ Q.genomes[Q.agents[a].genome].from = P.agents[parent].genome
        /\ Q.states[a].of = parent
        /\ Remembers(P.bank, P.links, parent) \subseteq
             Remembers(Q.bank, Q.links, a)

Registered(P, Q) ==
  LET made == DOMAIN Q.genomes \ DOMAIN P.genomes
  IN  /\ Only(Q.genomes, DOMAIN P.genomes) = P.genomes
      /\ P.lineage \subseteq Q.lineage
      /\ made = {l.genome : l \in Q.lineage \ P.lineage}
      /\ made \subseteq {Q.agents[a].genome : a \in DOMAIN Q.agents}
      /\ DOMAIN Q.heads = DOMAIN Q.agents
      /\ DOMAIN Q.states = DOMAIN Q.agents
      /\ \A a \in DOMAIN Q.agents :
           Q.heads[a] = Q.genomes[Q.agents[a].genome]
      /\ Only(Q.bank, DOMAIN P.bank) = P.bank
      /\ P.links \subseteq Q.links

NextGeneration(P, Q, s) ==
  LET living == {a \in DOMAIN Q.agents : Q.agents[a].status = "active"}
  IN  /\ DOMAIN P.agents \subseteq DOMAIN Q.agents
      /\ Cardinality(living) = PopulationSize
      /\ \A a, b \in living : a # b => Q.agents[a].genome # Q.agents[b].genome
      /\ SurvivorsAreKept(P, Q, s)
      /\ DescendantsAreHeirs(P, Q, s)
      /\ Registered(P, Q)
=============================================================================
