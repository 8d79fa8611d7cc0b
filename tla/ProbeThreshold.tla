--------------------------- MODULE ProbeThreshold ---------------------------
(***************************************************************************)
(* choose_entropy_threshold of src/vla_recovery_bench/diagnostic_probe.py. *)
(* A clean episode is summarised by the largest risk and the largest       *)
(* entropy of its rows, on a scale of levels.  A threshold lies at a level *)
(* x (2x) or just above it (2x + 1, numpy's nextafter): values alarm when  *)
(* they are at the threshold or above.                                     *)
(***************************************************************************)
EXTENDS Integers, FiniteSets

CONSTANTS RateNum, RateDen   \* union_episode_rate_max, a fraction

ASSUME RateAssumption == RateNum \in Nat \ {0} /\ RateDen \in Nat /\ RateNum < RateDen

\* What is kept of a clean episode.
Summary == [risk : Nat, entropy : Nat]

Above(level) == 2 * level + 1

\* Alarms that the budget allows among n episodes.
Allowed(n) == (RateNum * n) \div RateDen

RiskAlarms(clean, risk) == {i \in DOMAIN clean : 2 * clean[i].risk >= risk}
JointAlarms(clean, risk, entropy) ==
  RiskAlarms(clean, risk) \cup {i \in DOMAIN clean : 2 * clean[i].entropy >= entropy}

WithinBudget(clean, risk, entropy) ==
  RateDen * Cardinality(JointAlarms(clean, risk, entropy)) <= RateNum * Cardinality(DOMAIN clean)

\* Risk alarms consume the budget first.
Capacity(clean, risk) == Allowed(Cardinality(DOMAIN clean)) - Cardinality(RiskAlarms(clean, risk))

\* The k-th smallest entropy of the episodes given, k from 1.
KthEntropy(clean, episodes, k) ==
  CHOOSE x \in {clean[i].entropy : i \in episodes} :
    /\ Cardinality({i \in episodes : clean[i].entropy < x}) < k
    /\ Cardinality({i \in episodes : clean[i].entropy <= x}) >= k

\* Mutant: the order statistic one place too high.
ChooseEntropyThresholdOneHigher(clean, risk) ==
  LET rest == DOMAIN clean \ RiskAlarms(clean, risk)
      capacity == Capacity(clean, risk)
  IN IF capacity >= Cardinality(rest) THEN 0
     ELSE IF capacity = 0 THEN Above(KthEntropy(clean, rest, Cardinality(rest)))
     ELSE Above(KthEntropy(clean, rest, Cardinality(rest) - capacity + 1))

\* The order statistic that leaves as many episodes above it as the budget has
\* room for; with no room, that is the largest.
ChooseEntropyThreshold(clean, risk) ==
  LET rest == DOMAIN clean \ RiskAlarms(clean, risk)
      capacity == Capacity(clean, risk)
  IN IF capacity >= Cardinality(rest) THEN 0
     ELSE Above(KthEntropy(clean, rest, Cardinality(rest) - capacity))

\* A threshold may be chosen, and the check of the choice passes.
ChoiceSucceeds(clean, risk) ==
  /\ Capacity(clean, risk) >= 0
  /\ Cardinality(JointAlarms(clean, risk, ChooseEntropyThreshold(clean, risk)))
       <= Allowed(Cardinality(DOMAIN clean))

\* The reference: the budget is kept, and by no lower threshold.
IsLeastWithinBudget(clean, risk, entropy) ==
  /\ WithinBudget(clean, risk, entropy)
  /\ \A lower \in 0..(entropy - 1) : ~WithinBudget(clean, risk, lower)
=============================================================================
