---------------------------- MODULE Generations ----------------------------
(***************************************************************************)
(* Epoch after epoch of one population, seen only as a scoreboard: it is   *)
(* graded, with any number of successes, then selected.  States the        *)
(* properties of Cohorts for every population that init accepts.  Its      *)
(* names are not those of Selection, so that one module can be about both. *)
(***************************************************************************)
EXTENDS Cohorts, FiniteSets

CONSTANT Sizes  \* the population sizes to consider

\* engine.py:199: "population must be at least 4".
ASSUME SizesAssumption == Sizes \subseteq {n \in Nat : n >= 4}

VARIABLES
  size,       \* runs.population_size
  living,     \* agents whose status is active
  winners,  \* scores of the epoch whose outcome is success
  stage       \* what the epoch needs next

scoreboard == <<size, living, winners, stage>>

ScoreboardInit ==
  /\ size \in Sizes
  /\ living = size
  /\ winners = 0
  /\ stage = "grade"

Grade ==
  /\ stage = "grade"
  /\ winners' \in 0..living
  /\ stage' = IF winners' = 0 THEN "failed" ELSE "cull"
  /\ UNCHANGED <<size, living>>

Cull ==
  /\ stage = "cull"
  /\ living' = living - Cardinality(Culled(size, winners))
  /\ stage' = "birth"
  /\ UNCHANGED <<size, winners>>

Birth ==
  /\ stage = "birth"
  /\ living' = living + Cardinality(Culled(size, winners))
  /\ stage' = "grade"
  /\ UNCHANGED <<size, winners>>

ScoreboardNext == Grade \/ Cull \/ Birth

ScoreboardSpec == ScoreboardInit /\ [][ScoreboardNext]_scoreboard

-----------------------------------------------------------------------------
\* Only a population with a success is culled (engine.py:911), and a whole
\* one: births bring it back to its configured size (README.md:222).
ScoreboardOK ==
  /\ size \in Sizes
  /\ living \in 0..size
  /\ winners \in 0..size
  /\ stage \in {"grade", "cull", "birth", "failed"}
  /\ stage \in {"grade", "cull", "failed"} => living = size
  /\ stage = "birth" => living + Cardinality(Culled(size, winners)) = size
  /\ stage \in {"cull", "birth"} => winners > 0

\* Every ranked member is in exactly one cohort, and there are parents: the
\* slices of engine.py:934-937 neither overlap nor lose anyone.
CohortsPartition ==
  stage = "cull" =>
    /\ Elites(size, winners) \cup Middle(size, winners)
         \cup Culled(size, winners) = 1..size
    /\ Elites(size, winners) \cap Middle(size, winners) = {}
    /\ Elites(size, winners) \cap Culled(size, winners) = {}
    /\ Middle(size, winners) \cap Culled(size, winners) = {}
    /\ Elites(size, winners) # {}

\* README.md:190: the failures are culled first, successes only to reach the
\* target, and when failures exceed the target all of them are replaced.
\* There are always as many successes below the elite as that takes.
ReplacementTarget ==
  stage = "cull" =>
    Cardinality(Culled(size, winners)) =
      AtLeast(TargetCull(size), size - winners)

\* The memory bank credits a record by the cohort its owner was in: the
\* arithmetic of store.py:342-351 cuts where that of the engine does.
TrustFollowsCohorts ==
  stage = "cull" =>
    \A r \in 1..size :
      /\ Tier(size, winners, r) = "elite" <=> r \in Elites(size, winners)
      /\ Tier(size, winners, r) = "middle" <=> r \in Middle(size, winners)
      /\ Tier(size, winners, r) = "bottom"
           <=> r \in BottomSuccess(size, winners)
      /\ Tier(size, winners, r) = "failed"
           <=> r \in Failures(size, winners)
=============================================================================
