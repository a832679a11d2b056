----------------------------- MODULE Benchmark -----------------------------
(***************************************************************************)
(* The locked benchmark: what ArchitectAgent accepts as one, what a Grader *)
(* has to answer about it, and the formulas by which the kernel turns the  *)
(* facts of the answer into a score (specialists.py).  Weights are in      *)
(* thousandths of a percent; the fraction of a criterion is a multiple of  *)
(* 1/Unit.  The wording of a benchmark and the shape of its JSON are left  *)
(* out.                                                                    *)
(***************************************************************************)
EXTENDS Integers, Sequences, FiniteSetsExt

CONSTANT Unit
ASSUME UnitAssumption == Unit \in Nat \ {0}

Hundred == 100000
Tolerance == 1

Sum(f) == MapThenSumSet(LAMBDA i : f[i], DOMAIN f)
Clamped(x) == Max({0, Min({Unit, x})})

AcceptableMeasurement(m) ==
    /\ m.type = "numeric_linear" =>
          IF m.direction = "higher" THEN m.target > m.minimum ELSE m.target < m.minimum
    /\ m.type = "levels" => Cardinality(DOMAIN m.levels) >= 2

\* What the Architect's answer is checked for before a user approves it.
Acceptable(b) ==
    /\ b.low < b.high
    /\ b.rubric # <<>> /\ b.ties # <<>> /\ b.failures # {} /\ b.outputs # {} /\ b.frauds # {}
    /\ \A i \in DOMAIN b.rubric : b.rubric[i].weight > 0 /\ AcceptableMeasurement(b.rubric[i])
    /\ LET total == Sum([i \in DOMAIN b.rubric |-> b.rubric[i].weight])
       IN total - Hundred \in -Tolerance..Tolerance
    /\ \A i \in DOMAIN b.ties : b.ties[i].maximum > b.ties[i].minimum /\ b.ties[i].weight > 0

\* The fraction that a measured value, or a level, earns of a criterion.
Fraction(m, value) ==
    CASE m.type = "binary" -> IF value = 1 THEN Unit ELSE 0
      [] m.type = "numeric_linear" ->
            Clamped(IF m.direction = "higher"
                    THEN ((value - m.minimum) * Unit) \div (m.target - m.minimum)
                    ELSE ((m.minimum - value) * Unit) \div (m.minimum - m.target))
      [] m.type = "levels" -> m.levels[value]

\* The answer is about exactly what is locked, what it says is of the right
\* type, and what counts for or against the agent cites evidence, all of it
\* among what the kernel verified.
KeepsContract(b, answer, verified) ==
    /\ DOMAIN answer.facts = DOMAIN b.rubric
    /\ \A i \in DOMAIN b.rubric :
          /\ answer.facts[i].refs \subseteq verified
          /\ b.rubric[i].type = "levels" => answer.facts[i].value \in DOMAIN b.rubric[i].levels
          /\ Fraction(b.rubric[i], answer.facts[i].value) > 0 => answer.facts[i].refs # {}
    /\ DOMAIN answer.failures = b.failures
    /\ \A f \in b.failures : /\ answer.failures[f].refs \subseteq verified
                             /\ answer.failures[f].triggered => answer.failures[f].refs # {}
    /\ DOMAIN answer.frauds = b.frauds
    /\ \A f \in b.frauds : /\ answer.frauds[f].refs \subseteq verified
                           /\ answer.frauds[f].refs # {}
    /\ DOMAIN answer.ties = DOMAIN b.ties
    /\ \A i \in DOMAIN b.ties : answer.ties[i].refs \subseteq verified /\ answer.ties[i].refs # {}

Rejected(b, answer) == \/ \E f \in b.failures : answer.failures[f].triggered
                       \/ \E f \in b.frauds : ~answer.frauds[f].passed

Earned(b, answer) ==
    Sum([i \in DOMAIN b.rubric |-> b.rubric[i].weight * Fraction(b.rubric[i], answer.facts[i].value)])

\* Scaled by Hundred * Unit, so that nothing is rounded.
Score(b, answer) == b.low * Hundred * Unit + (b.high - b.low) * Earned(b, answer)
InRange(b, score) == b.low * Hundred * Unit <= score /\ score <= b.high * Hundred * Unit
=============================================================================
