-------------------------- MODULE AtomicSelection --------------------------
(***************************************************************************)
(* What selection promises, whatever befalls the process: it happens as a  *)
(* whole or not at all, and once (README.md:277).  Without a success the   *)
(* run ends and its population is left as it is (README.md:222).           *)
(***************************************************************************)
EXTENDS Heredity

VARIABLES
  population,  \* what the run would go on with if it were resumed now
  successes,   \* how many of the epoch's members succeeded
  selected     \* the epoch has been selected

vars == <<population, successes, selected>>

Init ==
  /\ population = Founding
  /\ successes \in 0..PopulationSize
  /\ selected = FALSE

Select ==
  /\ ~selected
  /\ selected' = TRUE
  /\ IF successes = 0
     THEN population' = population
     ELSE NextGeneration(population, population', successes)
  /\ UNCHANGED successes

Next == Select

Spec == Init /\ [][Next]_vars
=============================================================================
