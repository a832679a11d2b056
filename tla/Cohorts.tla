------------------------------ MODULE Cohorts ------------------------------
(***************************************************************************)
(* Who is kept, who adapts and who is replaced after an epoch, and what    *)
(* the memory bank later thinks of each of them.  _select_and_birth        *)
(* (engine.py) and epoch_memory_trust (store.py) cut the same ranking, in  *)
(* which successes come before failures, each with arithmetic of its own.  *)
(* A member is its rank: n of them were scored and the first s succeeded.  *)
(***************************************************************************)
EXTENDS Integers

AtLeast(a, b) == IF a > b THEN a ELSE b
AtMost(a, b) == IF a < b THEN a ELSE b

\* round(n * .30): a tie goes to the even neighbour.
Rounded(n) ==
  LET tenths == (3 * n) % 10
      whole == (3 * n) \div 10
  IN  IF tenths > 5 \/ (tenths = 5 /\ whole % 2 = 1) THEN whole + 1 ELSE whole

-----------------------------------------------------------------------------
(* Selection. *)

TargetCull(n) == AtLeast(1, Rounded(n))
EliteCount(n, s) == AtMost(TargetCull(n), s)

SuccessfulToCull(n, s) == AtLeast(0, TargetCull(n) - (n - s))

Elites(n, s) == 1..EliteCount(n, s)
RemainingSuccess(n, s) == (EliteCount(n, s) + 1)..s
\* remaining_success[-k:], all of it when it is shorter than k.
BottomSuccess(n, s) ==
  {r \in RemainingSuccess(n, s) : r > s - SuccessfulToCull(n, s)}
\* A mutant: remaining_success[:-k] also when k is 0.
MiddleUnguarded(n, s) ==
  {r \in RemainingSuccess(n, s) :
     /\ SuccessfulToCull(n, s) # 0
     /\ r <= s - SuccessfulToCull(n, s)}
Middle(n, s) ==
  {r \in RemainingSuccess(n, s) : r <= s - SuccessfulToCull(n, s)}
Failures(n, s) == (s + 1)..n
Culled(n, s) == BottomSuccess(n, s) \cup Failures(n, s)

-----------------------------------------------------------------------------
(* The trust in what a member remembers of the epoch, as tiers: 1.0 down to *)
(* 0.90 for the elite, 0.65, 0.25 and 0.10.                                 *)

TrustElite(n, s) == IF s = 0 THEN 0 ELSE AtMost(AtLeast(1, Rounded(n)), s)
\* A mutant: the target is cut off rather than rounded.
MiddleEndTruncated(n, s) ==
  AtLeast(TrustElite(n, s),
          s - AtLeast(0, AtLeast(1, (3 * n) \div 10) - (n - s)))
MiddleEnd(n, s) ==
  AtLeast(TrustElite(n, s),
          s - AtLeast(0, AtLeast(1, Rounded(n)) - (n - s)))

Tier(n, s, r) ==
  IF r > s THEN "failed"
  ELSE IF r <= TrustElite(n, s) THEN "elite"
  ELSE IF r <= MiddleEnd(n, s) THEN "middle"
  ELSE "bottom"
=============================================================================
