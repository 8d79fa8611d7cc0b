-------------------------- MODULE ProbeLockProofs --------------------------
(***************************************************************************)
(* The choice of the entropy threshold for any number of clean episodes,   *)
(* any risks, entropies and budget; then the lock of the probe for any     *)
(* number of lockers and runs, any documents and scores, and any number of *)
(* replaced files.                                                         *)
(***************************************************************************)
EXTENDS ProbeLock, FiniteSetTheorems, TLAPS

-----------------------------------------------------------------------------
(* The choice of the threshold.                                            *)

LEMMA LeastNatural ==
  ASSUME NEW T \in SUBSET Nat, T # {}
  PROVE  \E x \in T : \A y \in T : x <= y
  <1>1. IsWellFoundedOn(OpToRel(<, Nat), Nat)
    BY NatLessThanWellFounded
  <1>2. PICK x \in T : \A y \in T : <<y, x>> \notin OpToRel(<, Nat)
    BY <1>1, WFMin
  <1>3. \A y \in T : ~(y < x)
    BY <1>2 DEF OpToRel
  <1> QED
    BY <1>3

\* One of finitely many episodes has the largest entropy.
LEMMA SomeIsLargest ==
  ASSUME NEW E, IsFiniteSet(E), E # {}, NEW f \in [E -> Nat]
  PROVE  \E i \in E : \A j \in E : f[j] <= f[i]
  <1> DEFINE Larger(i) == {j \in E : f[j] > f[i]}
             T == {Cardinality(Larger(i)) : i \in E}
  <1>1. \A i \in E : IsFiniteSet(Larger(i)) /\ Cardinality(Larger(i)) \in Nat
    BY FS_Subset, FS_CardinalityType
  <1>2. PICK i \in E : \A j \in E : Cardinality(Larger(i)) <= Cardinality(Larger(j))
    <2>1. T \in SUBSET Nat /\ T # {}
      BY <1>1
    <2>2. PICK least \in T : \A y \in T : least <= y
      BY <2>1, LeastNatural
    <2>3. PICK i \in E : least = Cardinality(Larger(i))
      BY <2>2
    <2>4. \A j \in E : Cardinality(Larger(j)) \in T
      OBVIOUS
    <2> QED
      BY <2>2, <2>3, <2>4
  <1>3. ASSUME NEW j \in E, f[j] > f[i]
        PROVE  FALSE
    <2>1. Larger(j) \subseteq Larger(i)
      BY <1>3
    <2>2. j \in Larger(i) /\ j \notin Larger(j)
      BY <1>3
    <2>3. Cardinality(Larger(j)) <= Cardinality(Larger(i))
          /\ (Cardinality(Larger(j)) = Cardinality(Larger(i)) => Larger(j) = Larger(i))
      BY <1>1, <2>1, FS_Subset
    <2> HIDE DEF Larger
    <2>4. Cardinality(Larger(j)) = Cardinality(Larger(i))
      BY <1>1, <1>2, <1>3, <2>3
    <2> QED
      BY <2>2, <2>3, <2>4
  <1> QED
    BY <1>3

\* The order statistic exists, so the definition by CHOOSE says what it means.
LEMMA KthEntropyExists ==
  ASSUME NEW I, NEW clean \in [I -> Summary],
         NEW E \in SUBSET I, IsFiniteSet(E), NEW k \in 1..Cardinality(E)
  PROVE  /\ KthEntropy(clean, E, k) \in Nat
         /\ Cardinality({i \in E : clean[i].entropy < KthEntropy(clean, E, k)}) < k
         /\ Cardinality({i \in E : clean[i].entropy <= KthEntropy(clean, E, k)}) >= k
  <1> DEFINE Below(x) == {i \in E : clean[i].entropy < x}
             UpTo(x) == {i \in E : clean[i].entropy <= x}
             S == {clean[i].entropy : i \in E}
             T == {x \in S : Cardinality(UpTo(x)) >= k}
             f == [i \in E |-> clean[i].entropy]
  <1>1. f \in [E -> Nat] /\ S \subseteq Nat
    BY DEF Summary
  <1>2. \A x : /\ IsFiniteSet(Below(x)) /\ Cardinality(Below(x)) \in Nat
               /\ IsFiniteSet(UpTo(x)) /\ Cardinality(UpTo(x)) \in Nat
    BY FS_Subset, FS_CardinalityType
  <1>3. Cardinality(E) \in Nat /\ E # {}
    BY FS_CardinalityType, FS_EmptySet
  <1>4. T # {}
    <2>1. PICK i \in E : \A j \in E : f[j] <= f[i]
      BY <1>1, <1>3, SomeIsLargest
    <2>2. UpTo(clean[i].entropy) = E
      BY <2>1
    <2> QED
      BY <1>3, <2>2
  <1>5. PICK least \in T : \A y \in T : least <= y
    <2>1. T \in SUBSET Nat
      BY <1>1
    <2> QED
      BY <1>4, <2>1, LeastNatural
  <1>6. least \in S /\ least \in Nat /\ Cardinality(UpTo(least)) >= k
    BY <1>1
  <1>7. Cardinality(Below(least)) < k
    <2>1. CASE Below(least) = {}
      <3>1. Cardinality(Below(least)) = 0
        BY <2>1, FS_EmptySet
      <3>2. 0 < k
        BY <1>3
      <3> QED
        BY <3>1, <3>2
    <2>2. CASE Below(least) # {}
      <3> DEFINE B == Below(least)
                 g == [i \in B |-> clean[i].entropy]
      <3>1. g \in [B -> Nat] /\ B \subseteq E
        BY <1>1
      <3>2. PICK i \in B : \A j \in B : g[j] <= g[i]
        <4> HIDE DEF B, g
        <4> QED
          BY <1>2, <2>2, <3>1, SomeIsLargest DEF B
      <3>3. i \in E /\ clean[i].entropy < least
        OBVIOUS
      <3> DEFINE y == clean[i].entropy
      <3>4. y \in S /\ y \in Nat
        BY <1>1, <3>3
      <3>5. ~(Cardinality(UpTo(y)) >= k)
        <4>1. y \in T => least <= y
          BY <1>5
        <4>2. y \notin T
          <5> HIDE DEF T
          <5> QED
            BY <1>6, <3>3, <3>4, <4>1
        <4>3. y \in T <=> Cardinality(UpTo(y)) >= k
          <5> HIDE DEF y, UpTo, S
          <5> QED
            BY <3>4
        <4> QED
          BY <4>2, <4>3
      <3>6. B \subseteq UpTo(y)
        BY <3>2
      <3>7. Cardinality(B) <= Cardinality(UpTo(y))
        BY <1>2, <3>6, FS_Subset
      <3>8. Cardinality(B) \in Nat /\ Cardinality(UpTo(y)) \in Nat /\ k \in Nat
        <4> HIDE DEF y, UpTo, Below
        <4> QED
          BY <1>2, <1>3
      <3> HIDE DEF y, UpTo, B
      <3> QED
        BY <3>5, <3>7, <3>8 DEF B
    <2> QED
      BY <2>1, <2>2
  <1> DEFINE kth == KthEntropy(clean, E, k)
  <1>8. /\ kth \in S
        /\ Cardinality(Below(kth)) < k
        /\ Cardinality(UpTo(kth)) >= k
    <2>1. \E z \in S : Cardinality(Below(z)) < k /\ Cardinality(UpTo(z)) >= k
      BY <1>6, <1>7
    <2>2. kth = CHOOSE z \in S : Cardinality(Below(z)) < k /\ Cardinality(UpTo(z)) >= k
      BY DEF KthEntropy
    <2> HIDE DEF kth, Below, UpTo, S
    <2> QED
      BY <2>1, <2>2
  <1> QED
    BY <1>1, <1>8

LEMMA QuotientBounds ==
  ASSUME NEW a \in Nat, NEW b \in Nat \ {0}
  PROVE  a \div b \in Nat /\ b * (a \div b) <= a /\ a < b * ((a \div b) + 1)
  OBVIOUS

LEMMA ProductIsMonotone ==
  ASSUME NEW a \in Nat, NEW b \in Nat, NEW c \in Nat, b <= c
  PROVE  a * b <= a * c
  <1>1. PICK d \in Nat : c = b + d
    <2>1. c - b \in Nat /\ c = b + (c - b)
      OBVIOUS
    <2> QED
      BY <2>1
  <1>2. a * c = a * b + a * d /\ a * d >= 0 /\ a * b \in Nat
    BY <1>1
  <1> QED
    BY <1>2

\* A number of alarms is within the budget when it is allowed.
LEMMA AllowedIsTheBudget ==
  ASSUME NEW n \in Nat, NEW alarms \in Nat
  PROVE  /\ Allowed(n) \in Nat
         /\ RateDen * alarms <= RateNum * n <=> alarms <= Allowed(n)
  <1>1. RateNum * n \in Nat /\ RateDen \in Nat \ {0}
    BY RateAssumption
  <1> DEFINE allowed == Allowed(n)
  <1>2. allowed \in Nat /\ RateDen * allowed <= RateNum * n /\ RateNum * n < RateDen * (allowed + 1)
    BY <1>1, QuotientBounds DEF Allowed
  <1> HIDE DEF allowed
  <1>3. ASSUME alarms <= allowed
        PROVE  RateDen * alarms <= RateNum * n
    <2>1. RateDen * alarms <= RateDen * allowed
      BY <1>1, <1>2, <1>3, ProductIsMonotone
    <2>2. RateDen * alarms \in Nat /\ RateDen * allowed \in Nat
      BY <1>1, <1>2
    <2> QED
      BY <1>1, <1>2, <2>1, <2>2
  <1>4. ASSUME ~(alarms <= allowed)
        PROVE  ~(RateDen * alarms <= RateNum * n)
    <2>1. RateDen * (allowed + 1) <= RateDen * alarms
      BY <1>1, <1>2, <1>4, ProductIsMonotone
    <2>2. RateDen * alarms \in Nat /\ RateDen * (allowed + 1) \in Nat
      BY <1>1, <1>2
    <2> QED
      BY <1>1, <1>2, <2>1, <2>2
  <1> QED
    BY <1>2, <1>3, <1>4 DEF allowed

\* The episodes that alarm by entropy only, and how many there are in all.
LEMMA JointAlarmsCount ==
  ASSUME NEW I, IsFiniteSet(I), NEW clean \in [I -> Summary], NEW risk \in Nat,
         NEW entropy \in Nat
  PROVE  LET late == {i \in I \ RiskAlarms(clean, risk) : 2 * clean[i].entropy >= entropy}
         IN /\ Cardinality(RiskAlarms(clean, risk)) \in Nat
            /\ Cardinality(late) \in Nat
            /\ Cardinality(JointAlarms(clean, risk, entropy))
                 = Cardinality(RiskAlarms(clean, risk)) + Cardinality(late)
  <1> DEFINE R == RiskAlarms(clean, risk)
             late == {i \in I \ R : 2 * clean[i].entropy >= entropy}
  <1>1. R \subseteq I
    BY DEF RiskAlarms
  <1>2. IsFiniteSet(R) /\ IsFiniteSet(late)
    BY <1>1, FS_Subset
  <1>3. JointAlarms(clean, risk, entropy) = R \cup late
    BY DEF JointAlarms
  <1>4. R \cap late = {}
    OBVIOUS
  <1> HIDE DEF R, late
  <1>5. Cardinality(R) \in Nat /\ Cardinality(late) \in Nat
    BY <1>2, FS_CardinalityType
  <1>6. Cardinality(R \cup late) = Cardinality(R) + Cardinality(late) - Cardinality(R \cap late)
    BY <1>2, FS_Union
  <1>7. Cardinality(R \cap late) = 0
    BY <1>4, FS_EmptySet
  <1>8. Cardinality(JointAlarms(clean, risk, entropy)) = Cardinality(R) + Cardinality(late)
    BY <1>3, <1>5, <1>6, <1>7
  <1> QED
    BY <1>5, <1>8 DEF R, late

\* choose_entropy_threshold: for every set of clean episodes with risks and
\* entropies of any size, whenever the risk alarms alone keep the budget, the
\* threshold chosen keeps it too and no lower one does.
THEOREM ChosenThresholdIsLeast ==
  ASSUME NEW I, IsFiniteSet(I), I # {}, NEW clean \in [I -> Summary], NEW risk \in Nat,
         Capacity(clean, risk) >= 0
  PROVE  /\ ChooseEntropyThreshold(clean, risk) \in Nat
         /\ IsLeastWithinBudget(clean, risk, ChooseEntropyThreshold(clean, risk))
  <1> DEFINE R == RiskAlarms(clean, risk)
             rest == I \ R
             n == Cardinality(I)
             r == Cardinality(R)
             m == Cardinality(rest)
             c == Capacity(clean, risk)
             late(entropy) == {i \in rest : 2 * clean[i].entropy >= entropy}
  <1>1. R \subseteq I /\ DOMAIN clean = I
    BY DEF RiskAlarms
  <1>2. IsFiniteSet(R) /\ IsFiniteSet(rest)
    BY <1>1, FS_Subset
  <1>3. r \in Nat /\ m \in Nat /\ n \in Nat /\ n # 0
    BY <1>2, FS_CardinalityType, FS_EmptySet
  <1>4. n = r + m
    <2>1. I \cap R = R /\ IsFiniteSet(I)
      BY <1>1
    <2>2. Cardinality(I \ R) = Cardinality(I) - Cardinality(I \cap R)
      BY <2>1, FS_Difference
    <2>3. Cardinality(I \cap R) = Cardinality(R)
      BY <2>1
    <2> HIDE DEF R
    <2> QED
      BY <1>3, <2>2, <2>3
  <1>5. Allowed(n) \in Nat /\ c = Allowed(n) - r
    BY <1>1, <1>3, AllowedIsTheBudget DEF Capacity
  <1>6. c \in Nat /\ c < m
    <2>1. ~(RateDen * n <= RateNum * n)
      <3>1. RateNum \in Nat /\ RateDen \in Nat /\ RateNum + 1 <= RateDen
        BY RateAssumption
      <3>2. n * (RateNum + 1) <= n * RateDen
        BY <1>3, <3>1, ProductIsMonotone
      <3>3. n * (RateNum + 1) = n * RateNum + n /\ n * RateNum \in Nat /\ n * RateDen \in Nat
        BY <1>3, <3>1
      <3>4. RateNum * n = n * RateNum /\ RateDen * n = n * RateDen
        BY <1>3, <3>1
      <3> QED
        BY <1>3, <3>2, <3>3, <3>4
    <2>2. ~(n <= Allowed(n))
      BY <1>3, <2>1, AllowedIsTheBudget
    <2> QED
      BY <1>3, <1>4, <1>5, <2>2
  <1> DEFINE k == m - c
             kth == KthEntropy(clean, rest, k)
             chosen == 2 * kth + 1
  <1>7. /\ kth \in Nat
        /\ Cardinality({i \in rest : clean[i].entropy < kth}) < k
        /\ Cardinality({i \in rest : clean[i].entropy <= kth}) >= k
    <2>1. k \in 1..Cardinality(rest) /\ rest \in SUBSET I
      BY <1>3, <1>6
    <2> HIDE DEF rest, k
    <2> QED
      BY <1>2, <2>1, KthEntropyExists
  <1>8. ChooseEntropyThreshold(clean, risk) = chosen /\ chosen \in Nat
    <2>1. ~(c >= m)
      BY <1>3, <1>6
    <2>2. ChooseEntropyThreshold(clean, risk) = Above(KthEntropy(clean, rest, m - c))
      BY <1>1, <2>1 DEF ChooseEntropyThreshold
    <2> HIDE DEF kth
    <2> QED
      BY <1>7, <2>2 DEF Above, kth
  \* The budget is kept exactly when no more than c of the rest alarm.
  <1>9. \A entropy \in Nat :
          /\ Cardinality(late(entropy)) \in Nat
          /\ WithinBudget(clean, risk, entropy) <=> Cardinality(late(entropy)) <= c
    <2> TAKE entropy \in Nat
    <2> DEFINE q == Cardinality(late(entropy))
               joint == Cardinality(JointAlarms(clean, risk, entropy))
    <2>1. q \in Nat /\ joint = r + q
      BY JointAlarmsCount
    <2>2. WithinBudget(clean, risk, entropy) <=> RateDen * joint <= RateNum * n
      BY <1>1 DEF WithinBudget
    <2> HIDE DEF q, joint, n, r, c
    <2>3. joint \in Nat
      BY <1>3, <2>1
    <2>4. WithinBudget(clean, risk, entropy) <=> joint <= Allowed(n)
      BY <1>3, <2>2, <2>3, AllowedIsTheBudget
    <2>5. q \in Nat /\ (WithinBudget(clean, risk, entropy) <=> q <= c)
      BY <1>3, <1>5, <1>6, <2>1, <2>4
    <2> QED
      BY <2>5 DEF q
  <1>10. Cardinality(late(chosen)) <= c
    <2> DEFINE upTo == {i \in rest : clean[i].entropy <= kth}
    <2>1. late(chosen) = rest \ upTo
      <3>1. \A i \in rest : clean[i].entropy \in Nat
        BY DEF Summary
      <3>2. \A x, y \in Nat : 2 * x >= 2 * y + 1 <=> ~(x <= y)
        OBVIOUS
      <3> HIDE DEF rest, kth
      <3> QED
        BY <1>7, <3>1, <3>2
    <2>2. upTo \subseteq rest /\ rest \cap upTo = upTo
      OBVIOUS
    <2>3. IsFiniteSet(upTo) /\ Cardinality(upTo) \in Nat
      BY <1>2, <2>2, FS_Subset, FS_CardinalityType
    <2> HIDE DEF upTo, rest, kth
    <2>4. Cardinality(rest \ upTo) = Cardinality(rest) - Cardinality(upTo)
      BY <1>2, <2>2, FS_Difference
    <2>5. Cardinality(upTo) >= k
      BY <1>7 DEF upTo
    <2>6. Cardinality(late(chosen)) = m - Cardinality(upTo)
      BY <2>1, <2>4
    <2> HIDE DEF late, c, chosen, m
    <2> QED
      BY <1>3, <1>6, <2>3, <2>5, <2>6
  <1>11. \A lower \in 0..(chosen - 1) : ~(Cardinality(late(lower)) <= c)
    <2> TAKE lower \in 0..(chosen - 1)
    <2> DEFINE below == {i \in rest : clean[i].entropy < kth}
    <2>1. below \subseteq rest /\ rest \cap below = below
      OBVIOUS
    <2>2. IsFiniteSet(below) /\ Cardinality(below) \in Nat
      BY <1>2, <2>1, FS_Subset, FS_CardinalityType
    <2>3. rest \ below \subseteq late(lower)
      <3>1. \A i \in rest : clean[i].entropy \in Nat
        BY DEF Summary
      <3>2. lower \in Nat /\ lower <= 2 * kth
        <4> HIDE DEF kth
        <4> QED
          BY <1>7
      <3>3. \A x \in Nat : ~(x < kth) => 2 * x >= lower
        <4> HIDE DEF kth
        <4> QED
          BY <1>7, <3>2
      <3> HIDE DEF rest, kth
      <3> QED
        BY <3>1, <3>3
    <2>4. IsFiniteSet(late(lower)) /\ Cardinality(late(lower)) \in Nat
      BY <1>2, FS_Subset, FS_CardinalityType
    <2> HIDE DEF late, below, rest, kth
    <2>5. Cardinality(rest \ below) = Cardinality(rest) - Cardinality(below)
      BY <1>2, <2>1, FS_Difference
    <2>6. Cardinality(rest \ below) <= Cardinality(late(lower))
      BY <2>3, <2>4, FS_Subset
    <2>7. Cardinality(below) < k
      BY <1>7 DEF below
    <2> HIDE DEF c
    <2> QED
      BY <1>3, <1>6, <2>2, <2>4, <2>5, <2>6, <2>7
  <1>12. 0..(chosen - 1) \subseteq Nat
    BY <1>8
  <1> HIDE DEF chosen, late, c
  <1>13. IsLeastWithinBudget(clean, risk, chosen)
    BY <1>8, <1>9, <1>10, <1>11, <1>12 DEF IsLeastWithinBudget
  <1> QED
    BY <1>8, <1>13

\* The check at the end of choose_entropy_threshold never fails: the function
\* raises for a budget that the risk alarms exceed and in no other case.
COROLLARY ChoiceFailsByRiskOnly ==
  ASSUME NEW I, IsFiniteSet(I), I # {}, NEW clean \in [I -> Summary], NEW risk \in Nat,
         Capacity(clean, risk) >= 0
  PROVE  ChoiceSucceeds(clean, risk)
  <1> DEFINE chosen == ChooseEntropyThreshold(clean, risk)
             n == Cardinality(I)
             joint == Cardinality(JointAlarms(clean, risk, chosen))
  <1>1. chosen \in Nat /\ WithinBudget(clean, risk, chosen)
    BY ChosenThresholdIsLeast DEF IsLeastWithinBudget
  <1>2. n \in Nat /\ DOMAIN clean = I
    BY FS_CardinalityType
  <1>3. joint \in Nat
    <2> HIDE DEF chosen
    <2> DEFINE late == {i \in I \ RiskAlarms(clean, risk) : 2 * clean[i].entropy >= chosen}
    <2>1. /\ Cardinality(RiskAlarms(clean, risk)) \in Nat /\ Cardinality(late) \in Nat
          /\ joint = Cardinality(RiskAlarms(clean, risk)) + Cardinality(late)
      BY <1>1, JointAlarmsCount
    <2> HIDE DEF joint, late
    <2> QED
      BY <2>1
  <1>4. RateDen * joint <= RateNum * n
    BY <1>1, <1>2 DEF WithinBudget
  <1> HIDE DEF joint, n
  <1>5. joint <= Allowed(n)
    BY <1>2, <1>3, <1>4, AllowedIsTheBudget
  <1> QED
    BY <1>2, <1>5 DEF ChoiceSucceeds, joint, n
-----------------------------------------------------------------------------
(* The lock.                                                               *)

\* What the gate of the mixed sources reads has the settings of v1.0.
ContractHolds(content) ==
  content # None => Contract(Document[content]) = Contract(Document[Approved["v1.0"]])

SeedsIn(content, partition) == Document[content].splits[partition]

\* The thresholds in a lock belong to one monitor and keep the budget on the
\* blocks of the protocols the gates read.
Sound(scores, lock) ==
  /\ ContractHolds(lock.mixed)
  /\ \E m \in Checkpoints :
       /\ lock.risk = RiskThreshold[m]
       /\ IsLeastWithinBudget(scores[m][SeedsIn(lock.calibration, "calibration")], lock.risk, lock.entropy)
       /\ WithinBudget(scores[m][SeedsIn(lock.validation, "validation")], lock.risk, lock.entropy)

\* The places of a locker from which a step has been passed.
PastHashing == {"claiming", "writing lock", "sealing", "locked"}
PastHoldout == PastHashing \cup {"hashing"}
PastChoice == PastHoldout \cup {"validating"}
PastMonitor == PastChoice \cup {"calibrating"}
PastValidation == PastMonitor \cup {"metrics", "loading monitor"}
PastCalibration == PastValidation \cup {"validation gate"}
PastMixed == PastCalibration \cup {"calibration gate"}
PastSources == PastMixed \cup {"mixed gate"}
PastRelock == PastSources \cup {"sources"}
PastDocuments == PastRelock \cup {"loading parent", "checking parent"}

\* What a locker has made sure of, by the place it is at.
DocumentHolds(target, my) == my.protocol \in Replacements[target] /\ ContractHolds(my.mixed)
SourcesHold(my) == my.source.calibration \in Protocols /\ my.source.validation \in Protocols
GateHolds(my, partition) == my[partition] \in DOMAIN Document

LockerHolds(target, scores, place, my) ==
  /\ place \in PastDocuments => DocumentHolds(target, my)
  /\ place \in PastSources => SourcesHold(my)
  /\ place \in PastCalibration => GateHolds(my, "calibration")
  /\ place \in PastValidation => GateHolds(my, "validation")
  /\ place \in PastMonitor => my.loaded \in Checkpoints
  /\ place \in PastChoice =>
       IsLeastWithinBudget(scores[my.loaded][SeedsIn(my["calibration"], "calibration")],
                           RiskThreshold[my.loaded], my.entropy)
  /\ place \in PastHoldout =>
       WithinBudget(scores[my.loaded][SeedsIn(my["validation"], "validation")],
                    RiskThreshold[my.loaded], my.entropy)
  /\ place \in PastHashing => Sound(scores, my.lock)

\* What a run has made sure of, by the place it is at.
RunPastCheckpoint == {"checking seal", "started"}
RunPastRelock == RunPastCheckpoint \cup {"checking checkpoint"}
RunPastProtocol == RunPastRelock \cup {"checking protocol"}
RunPastLock == RunPastProtocol \cup {"hashing protocol", "loading protocol"}
RunPastMonitor == RunPastLock \cup {"reading lock"}

RunHolds(target, scores, place, my) ==
  /\ place \in RunPastMonitor => my.loaded \in Checkpoints
  /\ place \in RunPastLock => Sound(scores, my.lock)
  /\ place \in RunPastProtocol =>
       my.protocol \in Replacements[target] /\ Relocked(Document[my.protocol])
  /\ place \in RunPastRelock =>
       /\ VersionOf(my.protocol) \in Versions
       /\ SeedsAre(Document[my.protocol], SeedsOf(VersionOf(my.protocol)))
       /\ my.lock.version = VersionOf(my.protocol)
  /\ place \in RunPastCheckpoint => my.lock.risk = RiskThreshold[my.loaded]

FilesHold == DOMAIN file = Paths /\ \A p \in Paths : file[p] \in Replacements[p]
ScoresHold == score \in [Checkpoints -> [Blocks -> Seq(Summary) \ {<<>>}]]
ArgsHold ==
  /\ DOMAIN args \subseteq Process
  /\ \A q \in DOMAIN args : args[q].protocol \in Protocols /\ args[q].output \in DOMAIN dir
  /\ \A q \in Process : pc[q] # "idle" => q \in DOMAIN args
ShapeHolds ==
  /\ DOMAIN pc = Process /\ DOMAIN me = Process
  /\ \A q \in Process : DOMAIN me[q] = DOMAIN NoLocals
DirsHold ==
  \A o \in DOMAIN dir :
     /\ DOMAIN dir[o] = DOMAIN EmptyDir
     /\ dir[o].lock \in {None, Torn} \/ Sound(score, dir[o].lock)

LockInv ==
  /\ FilesHold /\ ScoresHold /\ ArgsHold /\ ShapeHolds /\ DirsHold
  /\ \A l \in Lockers : LockerHolds(args[l].protocol, score, pc[l], me[l])
  /\ \A r \in Runs : RunHolds(args[r].protocol, score, pc[r], me[r])

-----------------------------------------------------------------------------
LEMMA RelockPins ==
  ASSUME NEW c, Relocked(Document[c]), NEW parent, NEW hash,
         ValidRelock(Document[c], parent, hash)
  PROVE  LET d == Document[c]
             v == VersionOf(c)
         IN /\ v \in Versions /\ SeedsAre(d, SeedsOf(v))
            /\ v \in {"1.3", "1.4"} => d.sources.validation.path = "self"
            /\ v = "1.4" => d.sources.calibration.path = "self"
            /\ v = "1.3" => d.sources.calibration.hash = Approved["v1.2"]
  <1> DEFINE d == Document[c]
  <1>1. VersionOf(c) = d.version
    BY DEF VersionOf
  <1>2. CASE d.version = "1.2" /\ ValidRelockV12(d, parent, hash)
    BY <1>1, <1>2 DEF ValidRelockV12, Versions, SeedsOf
  <1>3. CASE d.version = "1.3" /\ ValidRelockV13(d, parent, hash)
    BY <1>1, <1>3 DEF ValidRelockV13, Versions, SeedsOf
  <1>4. CASE d.version = "1.4" /\ ValidRelockV14(d, parent, hash)
    BY <1>1, <1>4 DEF ValidRelockV14, Versions, SeedsOf
  <1> QED
    BY <1>2, <1>3, <1>4 DEF ValidRelock

\* Where a step of a process leads.
LEMMA Proceeds ==
  ASSUME LockInv, NEW q \in Process, NEW passed \in BOOLEAN, NEW next, Proceed(q, passed, next)
  PROVE  /\ DOMAIN pc' = Process
         /\ \A p \in Process : p # q => pc'[p] = pc[p]
         /\ passed => pc'[q] = next
         /\ ~passed /\ q \in Lockers => pc'[q] = "failing"
         /\ ~passed /\ q \in Runs => pc'[q] = "refused"
  BY NoneAssumption DEF Proceed, LockInv, ShapeHolds

LEMMA Keeps ==
  ASSUME LockInv, NEW q \in Process, NEW my, Keep(q, my)
  PROVE  /\ DOMAIN me' = Process
         /\ me'[q] = my
         /\ \A p \in Process : p # q => me'[p] = me[p]
  BY DEF Keep, LockInv, ShapeHolds

LEMMA Unkept ==
  ASSUME LockInv, NEW q \in Process, UNCHANGED me
  PROVE  /\ DOMAIN me' = Process
         /\ me'[q] = me[q]
         /\ \A p \in Process : p # q => me'[p] = me[p]
  BY DEF LockInv, ShapeHolds

\* A step of one process keeps the invariant when it keeps its own part.
LEMMA StepOfOne ==
  ASSUME LockInv, NEW q \in Process, q \in DOMAIN args, UNCHANGED <<file, score, args>>,
         DOMAIN pc' = Process, \A p \in Process : p # q => pc'[p] = pc[p],
         DOMAIN me' = Process, \A p \in Process : p # q => me'[p] = me[p],
         DOMAIN me'[q] = DOMAIN NoLocals,
         DOMAIN dir' = DOMAIN dir, DirsHold',
         q \in Lockers => LockerHolds(args[q].protocol, score, pc'[q], me'[q]),
         q \in Runs => RunHolds(args[q].protocol, score, pc'[q], me'[q])
  PROVE  LockInv'
  <1>1. FilesHold' /\ ScoresHold'
    BY DEF LockInv, FilesHold, ScoresHold
  <1>2. ArgsHold'
    BY DEF LockInv, ArgsHold
  <1>3. ShapeHolds'
    BY DEF LockInv, ShapeHolds
  <1>4. \A l \in Lockers : LockerHolds(args[l].protocol, score, pc'[l], me'[l])
    BY DEF LockInv, Process
  <1>5. \A r \in Runs : RunHolds(args[r].protocol, score, pc'[r], me'[r])
    BY DEF LockInv, Process
  <1> QED
    BY <1>1, <1>2, <1>3, <1>4, <1>5 DEF LockInv

\* At the places off the way nothing is claimed.
LEMMA OffTheWay ==
  ASSUME NEW target, NEW scores, NEW my, NEW place \in {"failing", "writing failure", "sealing failure", "failed", "killed"}
  PROVE  LockerHolds(target, scores, place, my)
  BY DEF LockerHolds, PastDocuments, PastRelock, PastSources, PastMixed, PastCalibration,
         PastValidation, PastMonitor, PastChoice, PastHoldout, PastHashing

LEMMA Refused ==
  ASSUME NEW target, NEW scores, NEW my
  PROVE  RunHolds(target, scores, "refused", my)
  BY DEF RunHolds, RunPastMonitor, RunPastLock, RunPastProtocol, RunPastRelock, RunPastCheckpoint

LEMMA DirsUnchanged ==
  ASSUME LockInv, UNCHANGED <<dir, score>>
  PROVE  DOMAIN dir' = DOMAIN dir /\ DirsHold'
  BY DEF LockInv, DirsHold

\* Documents in the files of protocols.
LEMMA FilesAreDocuments ==
  ASSUME LockInv, NEW p \in Protocols
  PROVE  file[p] \in Replacements[p] /\ file[p] \in DOMAIN Document
  BY DEF LockInv, FilesHold, Protocols

LEMMA LockerMoves ==
  ASSUME LockInv, NEW l \in Lockers, pc[l] # "idle", UNCHANGED <<file, score, args>>,
         NEW passed \in BOOLEAN, NEW next, Proceed(l, passed, next),
         NEW my, DOMAIN my = DOMAIN NoLocals, Keep(l, my) \/ (UNCHANGED me /\ my = me[l]),
         DOMAIN dir' = DOMAIN dir, DirsHold',
         passed => LockerHolds(args[l].protocol, score, next, my)
  PROVE  LockInv'
  <1>1. l \in Process /\ l \notin Runs /\ l \in DOMAIN args
    BY NoneAssumption DEF Process, LockInv, ArgsHold
  <1>2. /\ DOMAIN pc' = Process
        /\ \A p \in Process : p # l => pc'[p] = pc[p]
        /\ passed => pc'[l] = next
        /\ ~passed => pc'[l] = "failing"
    BY <1>1, Proceeds
  <1>3. /\ DOMAIN me' = Process
        /\ me'[l] = my
        /\ \A p \in Process : p # l => me'[p] = me[p]
    BY <1>1, Keeps, Unkept
  <1>4. LockerHolds(args[l].protocol, score, pc'[l], me'[l])
    BY <1>2, <1>3, OffTheWay
  <1> QED
    BY <1>1, <1>2, <1>3, <1>4, StepOfOne

LEMMA RunMoves ==
  ASSUME LockInv, NEW r \in Runs, pc[r] # "idle", UNCHANGED <<file, score, args, dir>>,
         NEW passed \in BOOLEAN, NEW next, Proceed(r, passed, next),
         NEW my, DOMAIN my = DOMAIN NoLocals, Keep(r, my) \/ (UNCHANGED me /\ my = me[r]),
         passed => RunHolds(args[r].protocol, score, next, my)
  PROVE  LockInv'
  <1>1. r \in Process /\ r \notin Lockers /\ r \in DOMAIN args
    BY NoneAssumption DEF Process, LockInv, ArgsHold
  <1>2. /\ DOMAIN pc' = Process
        /\ \A p \in Process : p # r => pc'[p] = pc[p]
        /\ passed => pc'[r] = next
        /\ ~passed => pc'[r] = "refused"
    BY <1>1, Proceeds
  <1>3. /\ DOMAIN me' = Process
        /\ me'[r] = my
        /\ \A p \in Process : p # r => me'[p] = me[p]
    BY <1>1, Keeps, Unkept
  <1>4. RunHolds(args[r].protocol, score, pc'[r], me'[r])
    BY <1>2, <1>3, Refused
  <1>5. DOMAIN dir' = DOMAIN dir /\ DirsHold'
    BY DirsUnchanged
  <1> QED
    BY <1>1, <1>2, <1>3, <1>4, <1>5, StepOfOne

LEMMA LockerFacts ==
  ASSUME LockInv, NEW l \in Lockers, pc[l] # "idle"
  PROVE  /\ l \in Process /\ l \in DOMAIN args /\ args[l].protocol \in Protocols
         /\ args[l].output \in DOMAIN dir
         /\ DOMAIN me[l] = DOMAIN NoLocals
         /\ LockerHolds(args[l].protocol, score, pc[l], me[l])
  BY DEF LockInv, ArgsHold, ShapeHolds, Process

LEMMA RunFacts ==
  ASSUME LockInv, NEW r \in Runs, pc[r] # "idle"
  PROVE  /\ r \in Process /\ r \in DOMAIN args /\ args[r].protocol \in Protocols
         /\ DOMAIN me[r] = DOMAIN NoLocals
         /\ RunHolds(args[r].protocol, score, pc[r], me[r])
  BY DEF LockInv, ArgsHold, ShapeHolds, Process

LEMMA VersionIs ==
  ASSUME NEW c, NEW S \in SUBSET Versions
  PROVE  IsVersion(Document[c], S) <=> VersionOf(c) \in S
  BY NoneAssumption DEF IsVersion, VersionOf

-----------------------------------------------------------------------------
(* The steps of a locker.                                                  *)

LEMMA LoadDocumentsInv ==
  ASSUME LockInv, NEW l \in Lockers, LoadDocuments(l)
  PROVE  LockInv'
  <1> DEFINE my == [NoLocals EXCEPT !.protocol = file[Target(l)], !.probe = file["probe"]]
             next == IF Relocked(Document[file[Target(l)]]) THEN "loading parent" ELSE "sources"
  <1>1. pc[l] # "idle" /\ Keep(l, my) /\ Proceed(l, TRUE, next) /\ UNCHANGED <<file, score, args, dir>>
    BY DEF LoadDocuments
  <1>2. args[l].protocol \in Protocols
    BY <1>1, LockerFacts
  <1>3. DocumentHolds(args[l].protocol, my)
    BY <1>2, FilesAreDocuments DEF Target, NoLocals, DocumentHolds, ContractHolds
  <1>4. LockerHolds(args[l].protocol, score, next, my)
    <2>1. next \in {"loading parent", "sources"}
      OBVIOUS
    <2> HIDE DEF my, next
    <2> QED
      BY <1>3, <2>1
      DEF LockerHolds, PastDocuments, PastRelock, PastSources, PastMixed, PastCalibration,
          PastValidation, PastMonitor, PastChoice, PastHoldout, PastHashing
  <1>5. DOMAIN my = DOMAIN NoLocals
    BY DEF NoLocals
  <1> HIDE DEF my, next
  <1> QED
    BY <1>1, <1>4, <1>5, LockerMoves, DirsUnchanged

LEMMA LoadParentInv ==
  ASSUME LockInv, NEW l \in Lockers, LoadParent(l)
  PROVE  LockInv'
  <1> DEFINE my == IF ParentExists(Doc(l))
                   THEN [me[l] EXCEPT !.parent = file[Doc(l).parent.path]] ELSE me[l]
             passed == ParentExists(Doc(l))
  <1>1. /\ pc[l] = "loading parent" /\ Proceed(l, passed, "checking parent")
        /\ Keep(l, my) \/ (UNCHANGED me /\ my = me[l])
        /\ UNCHANGED <<file, score, args, dir>>
    BY DEF LoadParent
  <1>2. DOMAIN me[l] = DOMAIN NoLocals /\ LockerHolds(args[l].protocol, score, "loading parent", me[l])
    BY <1>1, LockerFacts
  <1>3. DOMAIN my = DOMAIN NoLocals /\ my.protocol = me[l].protocol
        /\ my.mixed = me[l].mixed
    BY <1>2 DEF NoLocals
  <1>4. LockerHolds(args[l].protocol, score, "checking parent", my)
    <2> HIDE DEF my
    <2> QED
      BY <1>2, <1>3
      DEF LockerHolds, DocumentHolds, PastDocuments, PastRelock, PastSources, PastMixed, PastCalibration,
          PastValidation, PastMonitor, PastChoice, PastHoldout, PastHashing
  <1>5. passed \in BOOLEAN
    BY DEF ParentExists
  <1> HIDE DEF my, passed
  <1> QED
    BY <1>1, <1>3, <1>4, <1>5, LockerMoves, DirsUnchanged

LEMMA CheckRelockInv ==
  ASSUME LockInv, NEW l \in Lockers, CheckRelock(l)
  PROVE  LockInv'
  <1> DEFINE passed == ValidRelock(Doc(l), Document[me[l].parent], file[Doc(l).parent.path])
  <1>1. /\ pc[l] = "checking parent" /\ Proceed(l, passed, "sources")
        /\ UNCHANGED <<file, score, args, me, dir>>
    BY DEF CheckRelock
  <1>2. /\ DOMAIN me[l] = DOMAIN NoLocals
        /\ LockerHolds(args[l].protocol, score, "checking parent", me[l])
    BY <1>1, LockerFacts
  <1>3. LockerHolds(args[l].protocol, score, "sources", me[l])
    BY <1>2
    DEF LockerHolds, PastDocuments, PastRelock, PastSources, PastMixed, PastCalibration,
        PastValidation, PastMonitor, PastChoice, PastHoldout, PastHashing
  <1>4. passed \in BOOLEAN
    BY DEF ValidRelock
  <1> HIDE DEF passed
  <1> QED
    BY <1>1, <1>2, <1>3, <1>4, LockerMoves, DirsUnchanged

LEMMA ResolveSourcesInv ==
  ASSUME LockInv, NEW l \in Lockers, ResolveSources(l)
  PROVE  LockInv'
  <1> DEFINE probe == ProbeDocument[me[l].probe]
             v == VersionOf(me[l].protocol)
             declares == IsVersion(Doc(l), {"1.3", "1.4"})
             path(partition) ==
               IF declares /\ Doc(l).sources[partition].path # "self"
               THEN Doc(l).sources[partition].path
               ELSE Target(l)
             my == [me[l] EXCEPT !.source =
                      [calibration |-> path("calibration"), validation |-> path("validation")]]
             next == IF IsVersion(Doc(l), {"1.3"}) THEN "mixed gate" ELSE "calibration gate"
             valid == ValidProbeProtocol(probe, Doc(l)) /\ probe.version = "1.1"
  <1>1. /\ pc[l] = "sources" /\ Keep(l, my) /\ UNCHANGED <<file, score, args, dir>>
        /\ \E agrees \in (IF declares THEN BOOLEAN ELSE {TRUE}) :
             Proceed(l, ValidProbeProtocol(probe, Doc(l)) /\ probe.version = "1.1" /\ agrees, next)
    BY DEF ResolveSources
  <1>2. PICK agrees \in BOOLEAN :
          Proceed(l, ValidProbeProtocol(probe, Doc(l)) /\ probe.version = "1.1" /\ agrees, next)
    BY <1>1
  <1>3. /\ DOMAIN me[l] = DOMAIN NoLocals /\ args[l].protocol \in Protocols
        /\ LockerHolds(args[l].protocol, score, "sources", me[l])
    BY <1>1, LockerFacts
  <1>4. DocumentHolds(args[l].protocol, me[l])
    BY <1>3 DEF LockerHolds, PastDocuments, PastRelock
  <1>5. /\ DOMAIN my = DOMAIN NoLocals /\ my.protocol = me[l].protocol /\ my.mixed = me[l].mixed
        /\ my.source.calibration = path("calibration") /\ my.source.validation = path("validation")
    <2> HIDE DEF path
    <2> QED
      BY <1>3 DEF NoLocals
  <1>6. declares <=> v \in {"1.3", "1.4"}
    BY VersionIs DEF Versions, Doc
  <1>7. SourcesHold(my)
    <2>1. me[l].protocol \in DOMAIN Document
      BY <1>3, <1>4 DEF Protocols, DocumentHolds
    <2>2. declares => /\ Doc(l).sources["calibration"].path \in Protocols \cup {"self"}
                      /\ Doc(l).sources["validation"].path \in Protocols \cup {"self"}
      <3> HIDE DEF declares
      <3> QED
        BY <1>6, <2>1, DocumentAssumption DEF Doc
    <2>3. path("calibration") \in Protocols /\ path("validation") \in Protocols
      <3> HIDE DEF declares
      <3> QED
        BY <1>3, <2>2 DEF Target
    <2> HIDE DEF my, path
    <2> QED
      BY <1>5, <2>3 DEF SourcesHold
  <1>8. next \in {"mixed gate", "calibration gate"}
    OBVIOUS
  <1>9. LockerHolds(args[l].protocol, score, next, my)
    <2> HIDE DEF my, next
    <2>1. DocumentHolds(args[l].protocol, my)
      BY <1>4, <1>5 DEF DocumentHolds
    <2> QED
      BY <1>7, <1>8, <2>1
      DEF LockerHolds, PastDocuments, PastRelock, PastSources, PastMixed, PastCalibration,
          PastValidation, PastMonitor, PastChoice, PastHoldout, PastHashing
  <1> DEFINE passed == ValidProbeProtocol(probe, Doc(l)) /\ probe.version = "1.1" /\ agrees
  <1>10. passed \in BOOLEAN /\ Proceed(l, passed, next)
    BY <1>2
  <1> HIDE DEF my, next, passed
  <1>11. DOMAIN dir' = DOMAIN dir /\ DirsHold'
    BY <1>1, DirsUnchanged
  <1> QED
    BY <1>1, <1>5, <1>9, <1>10, <1>11, LockerMoves

\* The target is valid for v1.3, so that its calibration source is v1.2 of the
\* registered settings; the gate wants the target to have the same.
LEMMA MixedGateInv ==
  ASSUME LockInv, NEW l \in Lockers, MixedGate(l)
  PROVE  LockInv'
  <1> DEFINE target == Document[file[Target(l)]]
             passed == /\ ValidMonitorProtocol(target)
                       /\ IsVersion(target, {"1.3"}) /\ ParentExists(target)
                       /\ ValidRelock(target, Document[file[target.parent.path]], file[target.parent.path])
                       /\ SourcesMatch(target, me[l].source)
             kept == [me[l] EXCEPT !.mixed = file[Target(l)]]
             my == IF passed THEN kept ELSE me[l]
  <1>1. /\ pc[l] = "mixed gate" /\ Proceed(l, passed, "calibration gate")
        /\ UNCHANGED <<file, score, args, dir>>
        /\ Keep(l, my) \/ (UNCHANGED me /\ my = me[l])
    BY DEF MixedGate
  <1>2. /\ DOMAIN me[l] = DOMAIN NoLocals
        /\ LockerHolds(args[l].protocol, score, "mixed gate", me[l])
    BY <1>1, LockerFacts
  <1>3. DocumentHolds(args[l].protocol, me[l]) /\ SourcesHold(me[l])
    BY <1>2 DEF LockerHolds, PastDocuments, PastRelock, PastSources
  <1>4. /\ DOMAIN kept = DOMAIN NoLocals /\ kept.protocol = me[l].protocol
        /\ kept.source = me[l].source /\ kept.mixed = file[Target(l)]
    BY <1>2 DEF NoLocals
  <1> HIDE DEF kept
  <1>5. ASSUME passed
        PROVE  ContractHolds(file[Target(l)])
    <2>1. VersionOf(file[Target(l)]) = "1.3" /\ Relocked(target)
      <3>1. IsVersion(target, {"1.3"})
        BY <1>5
      <3> QED
        BY <3>1 DEF IsVersion, VersionOf
    <2>2. target.sources.calibration.hash = Approved["v1.2"]
      <3>1. ValidRelock(target, Document[file[target.parent.path]], file[target.parent.path])
        BY <1>5
      <3> QED
        BY <2>1, <3>1, RelockPins
    <2>3. /\ file[me[l].source.calibration] = Approved["v1.2"]
          /\ Contract(Document[file[me[l].source.calibration]]) = Contract(target)
      BY <1>5, <2>2 DEF SourcesMatch
    <2> QED
      BY <2>3, PinnedAssumption DEF ContractHolds
  <1>6. ASSUME passed
        PROVE  LockerHolds(args[l].protocol, score, "calibration gate", kept)
    <2>1. DocumentHolds(args[l].protocol, kept) /\ SourcesHold(kept)
      BY <1>3, <1>4, <1>5, <1>6 DEF DocumentHolds, SourcesHold
    <2> QED
      BY <2>1
      DEF LockerHolds, PastDocuments, PastRelock, PastSources, PastMixed, PastCalibration,
          PastValidation, PastMonitor, PastChoice, PastHoldout, PastHashing
  <1>7. passed \in BOOLEAN
    OBVIOUS
  <1> HIDE DEF passed
  <1>8. DOMAIN my = DOMAIN NoLocals /\ (passed => my = kept)
    BY <1>2, <1>4
  <1> HIDE DEF my
  <1>9. passed => LockerHolds(args[l].protocol, score, "calibration gate", my)
    BY <1>6, <1>8
  <1> QED
    BY <1>1, <1>7, <1>8, <1>9, LockerMoves, DirsUnchanged

\* The gate of a partition keeps which document it read.
LEMMA GateReadsTheDocument ==
  ASSUME LockInv, NEW l \in Lockers, pc[l] \in PastMixed,
         NEW partition \in {"calibration", "validation"}, NEW next, FormalGate(l, partition, next)
  PROVE  LET my == [me[l] EXCEPT ![partition] = file[me[l].source[partition]]]
         IN /\ \E passed \in BOOLEAN : Proceed(l, passed, next)
            /\ Keep(l, my) /\ UNCHANGED <<file, score, args, dir>>
            /\ DOMAIN my = DOMAIN NoLocals
            /\ GateHolds(my, partition)
  <1> DEFINE content == file[me[l].source[partition]]
             d == Document[content]
             valid == /\ ValidMonitorProtocol(d)
                      /\ Relocked(d) =>
                           /\ ParentExists(d)
                           /\ ValidRelock(d, Document[file[d.parent.path]], file[d.parent.path])
             my == [me[l] EXCEPT ![partition] = content]
  <1>1. PICK collected \in BOOLEAN : Proceed(l, valid /\ collected, next)
    BY DEF FormalGate
  <1>2. Keep(l, my) /\ UNCHANGED <<file, score, args, dir>>
    BY DEF FormalGate
  <1>3. /\ DOMAIN me[l] = DOMAIN NoLocals
        /\ LockerHolds(args[l].protocol, score, pc[l], me[l])
    <2>1. pc[l] # "idle"
      BY DEF PastMixed, PastCalibration, PastValidation, PastMonitor, PastChoice, PastHoldout, PastHashing
    <2> QED
      BY <2>1, LockerFacts
  <1>4. me[l].source[partition] \in Protocols
    BY <1>3 DEF LockerHolds, PastSources, SourcesHold
  <1>5. content \in DOMAIN Document
    BY <1>4, FilesAreDocuments
  <1>6. my[partition] = content /\ DOMAIN my = DOMAIN NoLocals
    BY <1>3 DEF NoLocals
  <1>7. GateHolds(my, partition)
    <2> HIDE DEF my, content
    <2> QED
      BY <1>5, <1>6 DEF GateHolds
  <1>8. \E passed \in BOOLEAN : Proceed(l, passed, next)
    <2> DEFINE passed == valid /\ collected
    <2>1. passed \in BOOLEAN /\ Proceed(l, passed, next)
      BY <1>1
    <2> HIDE DEF passed
    <2> QED
      BY <2>1
  <1> QED
    BY <1>2, <1>6, <1>7, <1>8

\* What is known of the documents does not change when another local does.
LEMMA DocumentsKept ==
  ASSUME NEW target, NEW old, NEW my, my.protocol = old.protocol, my.mixed = old.mixed,
         my.source = old.source
  PROVE  /\ DocumentHolds(target, old) => DocumentHolds(target, my)
         /\ SourcesHold(old) => SourcesHold(my)
  BY DEF DocumentHolds, SourcesHold

LEMMA GateCalibrationInv ==
  ASSUME LockInv, NEW l \in Lockers, GateCalibration(l)
  PROVE  LockInv'
  <1>1. /\ pc[l] = "calibration gate"
        /\ FormalGate(l, "calibration", "validation gate")
    BY DEF GateCalibration
  <1>2. pc[l] \in PastMixed
    BY <1>1 DEF PastMixed
  <1> DEFINE my == [me[l] EXCEPT !["calibration"] = file[me[l].source["calibration"]]]
  <1>3. PICK passed \in BOOLEAN : Proceed(l, passed, "validation gate")
    BY <1>1, <1>2, GateReadsTheDocument
  <1>4. /\ Keep(l, my) /\ UNCHANGED <<file, score, args, dir>>
        /\ DOMAIN my = DOMAIN NoLocals
        /\ GateHolds(my, "calibration")
    BY <1>1, <1>2, GateReadsTheDocument
  <1>5. /\ DOMAIN me[l] = DOMAIN NoLocals
        /\ LockerHolds(args[l].protocol, score, "calibration gate", me[l])
    BY <1>1, LockerFacts
  <1>6. my.protocol = me[l].protocol /\ my.mixed = me[l].mixed /\ my.source = me[l].source
    BY <1>4, <1>5 DEF NoLocals
  <1> HIDE DEF my
  <1>7. /\ DocumentHolds(args[l].protocol, me[l]) /\ SourcesHold(me[l])
    BY <1>5 DEF LockerHolds, PastDocuments, PastRelock, PastSources, PastMixed
  <1>8. /\ DocumentHolds(args[l].protocol, my) /\ SourcesHold(my)
    BY <1>6, <1>7, DocumentsKept
  <1>9. passed => LockerHolds(args[l].protocol, score, "validation gate", my)
    BY <1>4, <1>8
    DEF LockerHolds, PastDocuments, PastRelock, PastSources, PastMixed, PastCalibration,
        PastValidation, PastMonitor, PastChoice, PastHoldout, PastHashing
  <1>10. DOMAIN dir' = DOMAIN dir /\ DirsHold'
    BY <1>4, DirsUnchanged
  <1>11. pc[l] # "idle" /\ UNCHANGED <<file, score, args>>
    BY <1>1, <1>4
  <1>12. Proceed(l, passed, "validation gate") /\ Keep(l, my) /\ DOMAIN my = DOMAIN NoLocals
    BY <1>3, <1>4
  <1> QED
    BY <1>9, <1>10, <1>11, <1>12, LockerMoves

LEMMA GateValidationInv ==
  ASSUME LockInv, NEW l \in Lockers, GateValidation(l)
  PROVE  LockInv'
  <1>1. /\ pc[l] = "validation gate"
        /\ FormalGate(l, "validation", "metrics")
    BY DEF GateValidation
  <1>2. pc[l] \in PastMixed
    BY <1>1 DEF PastMixed, PastCalibration
  <1> DEFINE my == [me[l] EXCEPT !["validation"] = file[me[l].source["validation"]]]
  <1>3. PICK passed \in BOOLEAN : Proceed(l, passed, "metrics")
    BY <1>1, <1>2, GateReadsTheDocument
  <1>4. /\ Keep(l, my) /\ UNCHANGED <<file, score, args, dir>>
        /\ DOMAIN my = DOMAIN NoLocals
        /\ GateHolds(my, "validation")
    BY <1>1, <1>2, GateReadsTheDocument
  <1>5. /\ DOMAIN me[l] = DOMAIN NoLocals
        /\ LockerHolds(args[l].protocol, score, "validation gate", me[l])
    BY <1>1, LockerFacts
  <1>6. my.protocol = me[l].protocol /\ my.mixed = me[l].mixed /\ my.source = me[l].source /\ my["calibration"] = me[l]["calibration"]
    BY <1>4, <1>5 DEF NoLocals
  <1> HIDE DEF my
  <1>7. /\ DocumentHolds(args[l].protocol, me[l]) /\ SourcesHold(me[l])
        /\ GateHolds(me[l], "calibration")
    BY <1>5 DEF LockerHolds, PastDocuments, PastRelock, PastSources, PastMixed, PastCalibration
  <1>8. /\ DocumentHolds(args[l].protocol, my) /\ SourcesHold(my)
    BY <1>6, <1>7, DocumentsKept
  <1>9. GateHolds(my, "calibration")
    BY <1>6, <1>7 DEF GateHolds
  <1>10. passed => LockerHolds(args[l].protocol, score, "metrics", my)
    BY <1>4, <1>8, <1>9
    DEF LockerHolds, PastDocuments, PastRelock, PastSources, PastMixed, PastCalibration,
        PastValidation, PastMonitor, PastChoice, PastHoldout, PastHashing
  <1>11. DOMAIN dir' = DOMAIN dir /\ DirsHold'
    BY <1>4, DirsUnchanged
  <1>12. pc[l] # "idle" /\ UNCHANGED <<file, score, args>>
    BY <1>1, <1>4
  <1>13. Proceed(l, passed, "metrics") /\ Keep(l, my) /\ DOMAIN my = DOMAIN NoLocals
    BY <1>3, <1>4
  <1> QED
    BY <1>10, <1>11, <1>12, <1>13, LockerMoves

\* Once both gates have passed, what is known of the documents they read.
LEMMA GatesKept ==
  ASSUME NEW target, NEW scores, NEW place \in PastValidation, NEW old, NEW my,
         LockerHolds(target, scores, place, old),
         my.protocol = old.protocol, my.mixed = old.mixed, my.source = old.source,
         my["calibration"] = old["calibration"], my["validation"] = old["validation"]
  PROVE  /\ DocumentHolds(target, my) /\ SourcesHold(my)
         /\ GateHolds(my, "calibration") /\ GateHolds(my, "validation")
  <1>1. /\ DocumentHolds(target, old) /\ SourcesHold(old)
        /\ GateHolds(old, "calibration") /\ GateHolds(old, "validation")
    BY DEF LockerHolds, PastDocuments, PastRelock, PastSources, PastMixed, PastCalibration
  <1>2. DocumentHolds(target, my) /\ SourcesHold(my)
    BY <1>1, DocumentsKept
  <1> QED
    BY <1>1, <1>2 DEF GateHolds

LEMMA CheckMetricsInv ==
  ASSUME LockInv, NEW l \in Lockers, CheckMetrics(l)
  PROVE  LockInv'
  <1> DEFINE metrics == Metrics[file["metrics"]]
             passed == metrics.passed /\ metrics.model \in {None, file["monitor"]}
             next == "loading monitor"
             my == [me[l] EXCEPT !.hash = file["monitor"]]
  <1>1. /\ pc[l] = "metrics" /\ Keep(l, my) /\ Proceed(l, passed, next)
        /\ UNCHANGED <<file, score, args, dir>>
    BY DEF CheckMetrics
  <1>2. /\ DOMAIN me[l] = DOMAIN NoLocals
        /\ LockerHolds(args[l].protocol, score, "metrics", me[l])
    BY <1>1, LockerFacts
  <1>3. /\ DOMAIN my = DOMAIN NoLocals /\ my.protocol = me[l].protocol /\ my.mixed = me[l].mixed
        /\ my.source = me[l].source
        /\ my["calibration"] = me[l]["calibration"] /\ my["validation"] = me[l]["validation"]
    BY <1>2 DEF NoLocals
  <1> HIDE DEF my, passed
  <1>4. "metrics" \in PastValidation
    BY DEF PastValidation
  <1>5. /\ DocumentHolds(args[l].protocol, my) /\ SourcesHold(my)
        /\ GateHolds(my, "calibration") /\ GateHolds(my, "validation")
    BY <1>2, <1>3, <1>4, GatesKept
  <1>6. LockerHolds(args[l].protocol, score, next, my)
    BY <1>5
    DEF LockerHolds, PastDocuments, PastRelock, PastSources, PastMixed, PastCalibration,
        PastValidation, PastMonitor, PastChoice, PastHoldout, PastHashing
  <1>7. PICK went \in BOOLEAN : Proceed(l, went, next)
    <2>1. Proceed(l, TRUE, next) \/ Proceed(l, FALSE, next)
      BY <1>1 DEF Proceed
    <2> QED
      BY <2>1
  <1>8. DOMAIN dir' = DOMAIN dir /\ DirsHold'
    BY <1>1, DirsUnchanged
  <1> HIDE DEF next
  <1> QED
    BY <1>1, <1>3, <1>6, <1>7, <1>8, LockerMoves

LEMMA LoadMonitorInv ==
  ASSUME LockInv, NEW l \in Lockers, LoadMonitor(l)
  PROVE  LockInv'
  <1> DEFINE next == "calibrating"
             my == [me[l] EXCEPT !.loaded = file["monitor"]]
  <1>1. /\ pc[l] = "loading monitor" /\ Keep(l, my) /\ Proceed(l, TRUE, next)
        /\ UNCHANGED <<file, score, args, dir>>
    BY DEF LoadMonitor
  <1>2. /\ DOMAIN me[l] = DOMAIN NoLocals
        /\ LockerHolds(args[l].protocol, score, "loading monitor", me[l])
    BY <1>1, LockerFacts
  <1>3. /\ DOMAIN my = DOMAIN NoLocals /\ my.protocol = me[l].protocol /\ my.mixed = me[l].mixed
        /\ my.source = me[l].source
        /\ my["calibration"] = me[l]["calibration"] /\ my["validation"] = me[l]["validation"]
        /\ my.loaded = file["monitor"]
    BY <1>2 DEF NoLocals
  <1>4. file["monitor"] \in Checkpoints
    BY ThresholdAssumption DEF LockInv, FilesHold
  <1> HIDE DEF my
  <1>5. "loading monitor" \in PastValidation
    BY DEF PastValidation
  <1>6. /\ DocumentHolds(args[l].protocol, my) /\ SourcesHold(my)
        /\ GateHolds(my, "calibration") /\ GateHolds(my, "validation")
    BY <1>2, <1>3, <1>5, GatesKept
  <1>7. LockerHolds(args[l].protocol, score, next, my)
    BY <1>3, <1>4, <1>6
    DEF LockerHolds, PastDocuments, PastRelock, PastSources, PastMixed, PastCalibration,
        PastValidation, PastMonitor, PastChoice, PastHoldout, PastHashing
  <1>8. DOMAIN dir' = DOMAIN dir /\ DirsHold'
    BY <1>1, DirsUnchanged
  <1> HIDE DEF next
  <1> QED
    BY <1>1, <1>3, <1>7, <1>8, LockerMoves

\* The summaries of the clean episodes of a block are a function on a finite set.
LEMMA ScoresAreSummaries ==
  ASSUME LockInv, NEW m \in Checkpoints, NEW b \in Blocks
  PROVE  \E I : /\ IsFiniteSet(I) /\ I # {}
               /\ score[m][b] \in [I -> Summary]
  <1>1. score[m][b] \in Seq(Summary) \ {<<>>}
    BY DEF LockInv, ScoresHold
  <1>2. PICK n \in Nat : score[m][b] \in [1..n -> Summary] /\ n = Len(score[m][b])
    BY <1>1
  <1>3. n # 0
    BY <1>1, <1>2
  <1>4. IsFiniteSet(1..n)
    BY FS_Interval
  <1>5. 1 \in 1..n
    BY <1>3
  <1> QED
    BY <1>2, <1>4, <1>5

LEMMA CalibrateInv ==
  ASSUME LockInv, NEW l \in Lockers, Calibrate(l)
  PROVE  LockInv'
  <1> DEFINE clean == Summaries(l, Seeds(l, "calibration"))
             risk == Risk(l)
             chosen == ChooseEntropyThreshold(clean, risk)
             passed == ChoiceSucceeds(clean, risk)
             next == "validating"
             kept == [me[l] EXCEPT !.entropy = chosen]
             my == IF Capacity(clean, risk) >= 0 THEN kept ELSE me[l]
  <1>1. /\ pc[l] = "calibrating" /\ Proceed(l, passed, next)
        /\ Keep(l, my) \/ (UNCHANGED me /\ my = me[l])
        /\ UNCHANGED <<file, score, args, dir>>
    BY DEF Calibrate
  <1>2. /\ DOMAIN me[l] = DOMAIN NoLocals
        /\ LockerHolds(args[l].protocol, score, "calibrating", me[l])
    BY <1>1, LockerFacts
  <1>3. /\ DOMAIN kept = DOMAIN NoLocals /\ kept.protocol = me[l].protocol /\ kept.mixed = me[l].mixed
        /\ kept.source = me[l].source
        /\ kept["calibration"] = me[l]["calibration"] /\ kept["validation"] = me[l]["validation"]
        /\ kept.loaded = me[l].loaded /\ kept.entropy = chosen
    <2> HIDE DEF chosen
    <2> QED
      BY <1>2 DEF NoLocals
  <1>4. "calibrating" \in PastValidation
    BY DEF PastValidation, PastMonitor
  <1> HIDE DEF kept
  <1>5. /\ DocumentHolds(args[l].protocol, kept) /\ SourcesHold(kept)
        /\ GateHolds(kept, "calibration") /\ GateHolds(kept, "validation")
    BY <1>2, <1>3, <1>4, GatesKept
  <1>6. me[l].loaded \in Checkpoints /\ Seeds(l, "calibration") \in Blocks
    <2>1. me[l].loaded \in Checkpoints
      BY <1>2 DEF LockerHolds, PastMonitor
    <2>2. Seeds(l, "calibration") \in Blocks
      BY <1>3, <1>5, DocumentAssumption DEF GateHolds, Seeds
    <2> QED
      BY <2>1, <2>2
  <1>7. ASSUME passed
        PROVE  /\ my = kept
               /\ IsLeastWithinBudget(score[kept.loaded][SeedsIn(kept["calibration"], "calibration")],
                                      RiskThreshold[kept.loaded], kept.entropy)
    <2>1. PICK I : IsFiniteSet(I) /\ I # {} /\ clean \in [I -> Summary]
      BY <1>6, ScoresAreSummaries DEF Summaries
    <2>2. risk \in Nat
      BY <1>6, ThresholdAssumption DEF Risk
    <2>3. Capacity(clean, risk) >= 0
      BY <1>7 DEF ChoiceSucceeds
    <2>4. IsLeastWithinBudget(clean, risk, chosen)
      <3> HIDE DEF clean, risk
      <3> QED
        BY <2>1, <2>2, <2>3, ChosenThresholdIsLeast
    <2>5. clean = score[kept.loaded][SeedsIn(kept["calibration"], "calibration")]
          /\ risk = RiskThreshold[kept.loaded]
      BY <1>3 DEF Summaries, Risk, Seeds, SeedsIn
    <2> HIDE DEF clean, risk, chosen
    <2> QED
      BY <1>3, <2>3, <2>4, <2>5
  <1>8. ASSUME passed
        PROVE  LockerHolds(args[l].protocol, score, next, kept)
    <2> HIDE DEF passed
    <2> QED
      BY <1>3, <1>5, <1>6, <1>7, <1>8
      DEF LockerHolds, PastDocuments, PastRelock, PastSources, PastMixed, PastCalibration,
          PastValidation, PastMonitor, PastChoice, PastHoldout, PastHashing
  <1>9. DOMAIN my = DOMAIN NoLocals
    BY <1>2, <1>3
  <1>10. DOMAIN dir' = DOMAIN dir /\ DirsHold'
    BY <1>1, DirsUnchanged
  <1>11. passed \in BOOLEAN
    BY DEF ChoiceSucceeds
  <1>12. passed => LockerHolds(args[l].protocol, score, next, my)
    <2> HIDE DEF passed, next, my
    <2> QED
      BY <1>7, <1>8
  <1> HIDE DEF passed, next, my
  <1> QED
    BY <1>1, <1>9, <1>10, <1>11, <1>12, LockerMoves

LEMMA ValidateInv ==
  ASSUME LockInv, NEW l \in Lockers, Validate(l)
  PROVE  LockInv'
  <1> DEFINE passed == HoldoutPasses(l)
             next == "hashing"
  <1>1. /\ pc[l] = "validating" /\ Proceed(l, passed, next)
        /\ UNCHANGED <<file, score, args, me, dir>>
    BY DEF Validate
  <1>2. /\ DOMAIN me[l] = DOMAIN NoLocals
        /\ LockerHolds(args[l].protocol, score, "validating", me[l])
    BY <1>1, LockerFacts
  <1>3. ASSUME passed
        PROVE  WithinBudget(score[me[l].loaded][SeedsIn(me[l]["validation"], "validation")],
                            RiskThreshold[me[l].loaded], me[l].entropy)
    BY <1>3 DEF HoldoutPasses, Summaries, Risk, Seeds, SeedsIn
  <1>4. passed \in BOOLEAN
    BY DEF HoldoutPasses
  <1>5. ASSUME passed
        PROVE  LockerHolds(args[l].protocol, score, next, me[l])
    <2> HIDE DEF passed
    <2> QED
      BY <1>2, <1>3, <1>5
      DEF LockerHolds, PastDocuments, PastRelock, PastSources, PastMixed, PastCalibration,
          PastValidation, PastMonitor, PastChoice, PastHoldout, PastHashing
  <1>6. DOMAIN dir' = DOMAIN dir /\ DirsHold'
    BY <1>1, DirsUnchanged
  <1> HIDE DEF passed, next
  <1> QED
    BY <1>1, <1>2, <1>4, <1>5, <1>6, LockerMoves

LEMMA HashInputsInv ==
  ASSUME LockInv, NEW l \in Lockers, HashInputs(l)
  PROVE  LockInv'
  <1> DEFINE lock == Lock(l)
             next == "claiming"
             my == [me[l] EXCEPT !.lock = lock]
  <1>1. /\ pc[l] = "hashing" /\ Proceed(l, TRUE, next) /\ Keep(l, my)
        /\ UNCHANGED <<file, score, args, dir>>
    BY DEF HashInputs
  <1>2. /\ DOMAIN me[l] = DOMAIN NoLocals
        /\ LockerHolds(args[l].protocol, score, "hashing", me[l])
    BY <1>1, LockerFacts
  <1>3. /\ lock.risk = RiskThreshold[me[l].loaded] /\ lock.entropy = me[l].entropy
        /\ lock.mixed = me[l].mixed
        /\ lock.calibration = me[l]["calibration"] /\ lock.validation = me[l]["validation"]
    BY DEF Lock, Risk
  <1> HIDE DEF lock
  <1>4. /\ DOMAIN my = DOMAIN NoLocals /\ my.protocol = me[l].protocol /\ my.mixed = me[l].mixed
        /\ my.source = me[l].source
        /\ my["calibration"] = me[l]["calibration"] /\ my["validation"] = me[l]["validation"]
        /\ my.loaded = me[l].loaded /\ my.entropy = me[l].entropy /\ my.lock = lock
    BY <1>2 DEF NoLocals
  <1>5. "hashing" \in PastValidation
    BY DEF PastValidation, PastMonitor, PastChoice, PastHoldout
  <1> HIDE DEF my
  <1>6. /\ DocumentHolds(args[l].protocol, my) /\ SourcesHold(my)
        /\ GateHolds(my, "calibration") /\ GateHolds(my, "validation")
    BY <1>2, <1>4, <1>5, GatesKept
  <1>7. /\ my.loaded \in Checkpoints
        /\ IsLeastWithinBudget(score[my.loaded][SeedsIn(my["calibration"], "calibration")],
                               RiskThreshold[my.loaded], my.entropy)
        /\ WithinBudget(score[my.loaded][SeedsIn(my["validation"], "validation")],
                        RiskThreshold[my.loaded], my.entropy)
    BY <1>2, <1>4 DEF LockerHolds, PastMonitor, PastChoice, PastHoldout
  <1>8. ContractHolds(lock.mixed)
    BY <1>3, <1>4, <1>6 DEF DocumentHolds
  <1>9. Sound(score, lock)
    BY <1>3, <1>4, <1>7, <1>8 DEF Sound
  <1>10. LockerHolds(args[l].protocol, score, next, my)
    BY <1>4, <1>6, <1>7, <1>9
    DEF LockerHolds, PastDocuments, PastRelock, PastSources, PastMixed, PastCalibration,
        PastValidation, PastMonitor, PastChoice, PastHoldout, PastHashing
  <1>11. DOMAIN dir' = DOMAIN dir /\ DirsHold'
    BY <1>1, DirsUnchanged
  <1> HIDE DEF next
  <1> QED
    BY <1>1, <1>4, <1>10, <1>11, LockerMoves

\* Whatever is written, what is at the name of the lock is sound.
LEMMA WritesKeep ==
  ASSUME LockInv, NEW l \in Lockers, args[l].output \in DOMAIN dir, UNCHANGED score,
         NEW name \in DOMAIN EmptyDir, NEW content, Write(l, name, content),
         name = "lock" => content \in {None, Torn} \/ Sound(score, content)
  PROVE  DOMAIN dir' = DOMAIN dir /\ DirsHold'
  <1> DEFINE o == args[l].output
  <1>1. dir' = [dir EXCEPT ![o] = [dir[o] EXCEPT ![name] = content]]
    BY DEF Write
  <1>2. DirsHold
    BY DEF LockInv
  <1> HIDE DEF o
  <1>3. DOMAIN dir' = DOMAIN dir
    BY <1>1
  <1>4. ASSUME NEW p \in DOMAIN dir
        PROVE  /\ DOMAIN dir'[p] = DOMAIN EmptyDir
               /\ dir'[p].lock \in {None, Torn} \/ Sound(score, dir'[p].lock)
    <2>1. DOMAIN dir[p] = DOMAIN EmptyDir
      BY <1>2 DEF DirsHold
    <2>2. dir[p].lock \in {None, Torn} \/ Sound(score, dir[p].lock)
      BY <1>2 DEF DirsHold
    <2>3. CASE p # o
      <3>1. dir'[p] = dir[p]
        BY <1>1, <2>3
      <3> QED
        BY <2>1, <2>2, <3>1
    <2>4. CASE p = o
      <3>1. dir'[p] = [dir[p] EXCEPT ![name] = content]
        BY <1>1, <2>4
      <3>2. DOMAIN dir'[p] = DOMAIN dir[p]
        BY <3>1
      <3>3. "lock" \in DOMAIN dir[p]
        BY <2>1 DEF EmptyDir
      <3>4. dir'[p].lock = IF name = "lock" THEN content ELSE dir[p].lock
        BY <3>1, <3>3
      <3> QED
        BY <2>1, <2>2, <3>2, <3>4
    <2> QED
      BY <2>3, <2>4
  <1> QED
    BY <1>3, <1>4 DEF DirsHold

\* A locker leaves the way.
LEMMA LockerLeaves ==
  ASSUME LockInv, NEW l \in Lockers, pc[l] # "idle", UNCHANGED <<file, score, args, me>>,
         NEW place \in {"failing", "writing failure", "sealing failure", "failed", "killed"},
         pc' = [pc EXCEPT ![l] = place],
         DOMAIN dir' = DOMAIN dir, DirsHold'
  PROVE  LockInv'
  <1>1. l \in Process /\ l \notin Runs /\ l \in DOMAIN args /\ DOMAIN me[l] = DOMAIN NoLocals
    BY NoneAssumption, LockerFacts
  <1>2. DOMAIN pc' = Process /\ pc'[l] = place /\ \A p \in Process : p # l => pc'[p] = pc[p]
    BY <1>1 DEF LockInv, ShapeHolds
  <1>3. DOMAIN me' = Process /\ me'[l] = me[l] /\ \A p \in Process : p # l => me'[p] = me[p]
    BY <1>1, Unkept
  <1>4. LockerHolds(args[l].protocol, score, pc'[l], me'[l])
    BY <1>2, OffTheWay
  <1> QED
    BY <1>1, <1>2, <1>3, <1>4, StepOfOne

LEMMA ClaimInv ==
  ASSUME LockInv, NEW l \in Lockers, Claim(l)
  PROVE  LockInv'
  <1> DEFINE passed == Output(l) = EmptyDir
             next == "writing lock"
  <1>1. /\ pc[l] = "claiming" /\ Proceed(l, passed, next)
        /\ UNCHANGED <<file, score, args, me, dir>>
    BY DEF Claim
  <1>2. /\ DOMAIN me[l] = DOMAIN NoLocals
        /\ LockerHolds(args[l].protocol, score, "claiming", me[l])
    BY <1>1, LockerFacts
  <1>3. LockerHolds(args[l].protocol, score, next, me[l])
    BY <1>2
    DEF LockerHolds, PastDocuments, PastRelock, PastSources, PastMixed, PastCalibration,
        PastValidation, PastMonitor, PastChoice, PastHoldout, PastHashing
  <1>4. passed \in BOOLEAN
    OBVIOUS
  <1>5. DOMAIN dir' = DOMAIN dir /\ DirsHold'
    BY <1>1, DirsUnchanged
  <1> HIDE DEF passed, next
  <1> QED
    BY <1>1, <1>2, <1>3, <1>4, <1>5, LockerMoves

LEMMA WriteLockInv ==
  ASSUME LockInv, NEW l \in Lockers, WriteLock(l)
  PROVE  LockInv'
  <1> DEFINE passed == Output(l).lock = None
             next == "sealing"
  <1>1. /\ pc[l] = "writing lock" /\ Proceed(l, passed, next)
        /\ Write(l, "lock", me[l].lock) \/ UNCHANGED dir
        /\ UNCHANGED <<file, score, args, me>>
    BY DEF WriteLock
  <1>2. /\ DOMAIN me[l] = DOMAIN NoLocals /\ args[l].output \in DOMAIN dir
        /\ LockerHolds(args[l].protocol, score, "writing lock", me[l])
    BY <1>1, LockerFacts
  <1>3. LockerHolds(args[l].protocol, score, next, me[l])
    BY <1>2
    DEF LockerHolds, PastDocuments, PastRelock, PastSources, PastMixed, PastCalibration,
        PastValidation, PastMonitor, PastChoice, PastHoldout, PastHashing
  <1>4. passed \in BOOLEAN
    OBVIOUS
  <1>5. DOMAIN dir' = DOMAIN dir /\ DirsHold'
    <2>1. Sound(score, me[l].lock)
      BY <1>2 DEF LockerHolds, PastHashing
    <2>2. "lock" \in DOMAIN EmptyDir
      BY DEF EmptyDir
    <2> QED
      BY <1>1, <1>2, <2>1, <2>2, WritesKeep, DirsUnchanged
  <1> HIDE DEF passed, next
  <1> QED
    BY <1>1, <1>2, <1>3, <1>4, <1>5, LockerMoves

LEMMA SealInv ==
  ASSUME LockInv, NEW l \in Lockers, Seal(l)
  PROVE  LockInv'
  <1> DEFINE passed == Output(l).artifact = None
             next == "locked"
             content == [status |-> "passed", lock |-> Output(l).lock]
  <1>1. /\ pc[l] = "sealing" /\ Proceed(l, passed, next)
        /\ Write(l, "artifact", content) \/ UNCHANGED dir
        /\ UNCHANGED <<file, score, args, me>>
    BY DEF Seal
  <1>2. /\ DOMAIN me[l] = DOMAIN NoLocals /\ args[l].output \in DOMAIN dir
        /\ LockerHolds(args[l].protocol, score, "sealing", me[l])
    BY <1>1, LockerFacts
  <1>3. LockerHolds(args[l].protocol, score, next, me[l])
    BY <1>2
    DEF LockerHolds, PastDocuments, PastRelock, PastSources, PastMixed, PastCalibration,
        PastValidation, PastMonitor, PastChoice, PastHoldout, PastHashing
  <1>4. passed \in BOOLEAN
    OBVIOUS
  <1> HIDE DEF content
  <1>5. DOMAIN dir' = DOMAIN dir /\ DirsHold'
    <2>1. "artifact" \in DOMAIN EmptyDir
      BY DEF EmptyDir
    <2> QED
      BY <1>1, <1>2, <2>1, WritesKeep, DirsUnchanged
  <1> HIDE DEF passed, next
  <1> QED
    BY <1>1, <1>2, <1>3, <1>4, <1>5, LockerMoves

LEMMA ClaimForFailureInv ==
  ASSUME LockInv, NEW l \in Lockers, ClaimForFailure(l)
  PROVE  LockInv'
  <1> DEFINE place == IF Output(l) = EmptyDir THEN "writing failure" ELSE "failed"
  <1>1. /\ pc[l] # "idle" /\ pc' = [pc EXCEPT ![l] = place]
        /\ UNCHANGED <<file, score, args, me, dir>>
    BY DEF ClaimForFailure
  <1>2. place \in {"failing", "writing failure", "sealing failure", "failed", "killed"}
    OBVIOUS
  <1>3. DOMAIN dir' = DOMAIN dir /\ DirsHold'
    BY <1>1, DirsUnchanged
  <1> HIDE DEF place
  <1> QED
    BY <1>1, <1>2, <1>3, LockerLeaves

LEMMA WriteFailureInv ==
  ASSUME LockInv, NEW l \in Lockers, WriteFailure(l)
  PROVE  LockInv'
  <1> DEFINE place == IF Output(l).failure = None THEN "sealing failure" ELSE "failed"
  <1>1. /\ pc[l] # "idle" /\ pc' = [pc EXCEPT ![l] = place]
        /\ Write(l, "failure", "failure") \/ UNCHANGED dir
        /\ UNCHANGED <<file, score, args, me>>
    BY DEF WriteFailure
  <1>2. place \in {"failing", "writing failure", "sealing failure", "failed", "killed"}
    OBVIOUS
  <1>3. DOMAIN dir' = DOMAIN dir /\ DirsHold'
    <2>1. "failure" \in DOMAIN EmptyDir /\ args[l].output \in DOMAIN dir
      BY <1>1, LockerFacts DEF EmptyDir
    <2> QED
      BY <1>1, <2>1, WritesKeep, DirsUnchanged
  <1> HIDE DEF place
  <1> QED
    BY <1>1, <1>2, <1>3, LockerLeaves

LEMMA SealFailureInv ==
  ASSUME LockInv, NEW l \in Lockers, SealFailure(l)
  PROVE  LockInv'
  <1> DEFINE content == [status |-> "failed", lock |-> None]
  <1>1. /\ pc[l] # "idle" /\ pc' = [pc EXCEPT ![l] = "failed"]
        /\ Write(l, "artifact", content) \/ UNCHANGED dir
        /\ UNCHANGED <<file, score, args, me>>
    BY DEF SealFailure
  <1> HIDE DEF content
  <1>2. DOMAIN dir' = DOMAIN dir /\ DirsHold'
    <2>1. "artifact" \in DOMAIN EmptyDir /\ args[l].output \in DOMAIN dir
      BY <1>1, LockerFacts DEF EmptyDir
    <2> QED
      BY <1>1, <2>1, WritesKeep, DirsUnchanged
  <1> QED
    BY <1>1, <1>2, LockerLeaves

LEMMA KilledInv ==
  ASSUME LockInv, NEW l \in Lockers, Killed(l)
  PROVE  LockInv'
  <1>1. /\ pc[l] # "idle" /\ pc' = [pc EXCEPT ![l] = "killed"]
        /\ UNCHANGED dir \/ \E name \in {"lock", "artifact", "failure"} : Write(l, name, Torn)
        /\ UNCHANGED <<file, score, args, me>>
    BY DEF Killed
  <1>2. DOMAIN dir' = DOMAIN dir /\ DirsHold'
    <2>1. DOMAIN EmptyDir = {"lock", "artifact", "failure"} /\ args[l].output \in DOMAIN dir
      BY <1>1, LockerFacts DEF EmptyDir
    <2> QED
      BY <1>1, <2>1, WritesKeep, DirsUnchanged
  <1> QED
    BY <1>1, <1>2, LockerLeaves

-----------------------------------------------------------------------------
(* The steps of a run.                                                     *)

LEMMA LoadConfigurationInv ==
  ASSUME LockInv, NEW r \in Runs, LoadConfiguration(r)
  PROVE  LockInv'
  <1> DEFINE probe == ProbeDocument[file["probe"]]
             protocol == Document[file[Target(r)]]
             passed == ValidProbeProtocol(probe, protocol) /\ Metrics[file["metrics"]].passed
             next == "loading checkpoint"
  <1>1. /\ pc[r] # "idle" /\ Proceed(r, passed, next) /\ UNCHANGED <<file, score, args, me, dir>>
    BY DEF LoadConfiguration
  <1>2. DOMAIN me[r] = DOMAIN NoLocals
    BY <1>1, RunFacts
  <1>3. RunHolds(args[r].protocol, score, next, me[r])
    BY DEF RunHolds, RunPastMonitor, RunPastLock, RunPastProtocol, RunPastRelock, RunPastCheckpoint
  <1>4. PICK went \in BOOLEAN : Proceed(r, went, next)
    <2>1. Proceed(r, TRUE, next) \/ Proceed(r, FALSE, next)
      BY <1>1 DEF Proceed
    <2> QED
      BY <2>1
  <1> HIDE DEF next
  <1> QED
    BY <1>1, <1>2, <1>3, <1>4, RunMoves

LEMMA LoadCheckpointInv ==
  ASSUME LockInv, NEW r \in Runs, LoadCheckpoint(r)
  PROVE  LockInv'
  <1> DEFINE next == "reading lock"
             my == [me[r] EXCEPT !.loaded = file["monitor"]]
  <1>1. /\ pc[r] # "idle" /\ Proceed(r, TRUE, next) /\ Keep(r, my) /\ UNCHANGED <<file, score, args, dir>>
    BY DEF LoadCheckpoint
  <1>2. DOMAIN me[r] = DOMAIN NoLocals
    BY <1>1, RunFacts
  <1>3. DOMAIN my = DOMAIN NoLocals /\ my.loaded = file["monitor"]
    BY <1>2 DEF NoLocals
  <1>4. file["monitor"] \in Checkpoints
    BY ThresholdAssumption DEF LockInv, FilesHold
  <1> HIDE DEF my
  <1>5. RunHolds(args[r].protocol, score, next, my)
    BY <1>3, <1>4
    DEF RunHolds, RunPastMonitor, RunPastLock, RunPastProtocol, RunPastRelock, RunPastCheckpoint
  <1> HIDE DEF next
  <1> QED
    BY <1>1, <1>3, <1>5, RunMoves

LEMMA ReadLockInv ==
  ASSUME LockInv, NEW r \in Runs, ReadLock(r)
  PROVE  LockInv'
  <1> DEFINE next == "hashing protocol"
             lock == Output(r).lock
             passed == lock \notin {None, Torn}
             my == [me[r] EXCEPT !.lock = lock]
  <1>1. /\ pc[r] = "reading lock" /\ Proceed(r, passed, next) /\ Keep(r, my)
        /\ UNCHANGED <<file, score, args, dir>>
    BY DEF ReadLock
  <1>2. /\ DOMAIN me[r] = DOMAIN NoLocals /\ r \in DOMAIN args
        /\ RunHolds(args[r].protocol, score, "reading lock", me[r])
    BY <1>1, RunFacts
  <1>3. me[r].loaded \in Checkpoints
    BY <1>2 DEF RunHolds, RunPastMonitor
  <1>4. args[r].output \in DOMAIN dir
    BY <1>2 DEF LockInv, ArgsHold
  <1>5. passed => Sound(score, lock)
    BY <1>4 DEF LockInv, DirsHold, Output
  <1>6. passed \in BOOLEAN
    OBVIOUS
  <1> HIDE DEF lock, passed
  <1>7. DOMAIN my = DOMAIN NoLocals /\ my.loaded = me[r].loaded /\ my.lock = lock
    BY <1>2 DEF NoLocals
  <1> HIDE DEF my
  <1>8. passed => RunHolds(args[r].protocol, score, next, my)
    BY <1>3, <1>5, <1>7
    DEF RunHolds, RunPastMonitor, RunPastLock, RunPastProtocol, RunPastRelock, RunPastCheckpoint
  <1> HIDE DEF next
  <1> QED
    BY <1>1, <1>6, <1>7, <1>8, RunMoves

LEMMA HashProtocolInv ==
  ASSUME LockInv, NEW r \in Runs, HashProtocol(r)
  PROVE  LockInv'
  <1> DEFINE next == "loading protocol"
             passed == me[r].lock.protocol = file[Target(r)]
  <1>1. /\ pc[r] = "hashing protocol" /\ Proceed(r, passed, next)
        /\ UNCHANGED <<file, score, args, me, dir>>
    BY DEF HashProtocol
  <1>2. /\ DOMAIN me[r] = DOMAIN NoLocals
        /\ RunHolds(args[r].protocol, score, "hashing protocol", me[r])
    BY <1>1, RunFacts
  <1>3. passed \in BOOLEAN
    OBVIOUS
  <1>4. RunHolds(args[r].protocol, score, next, me[r])
    BY <1>2
    DEF RunHolds, RunPastMonitor, RunPastLock, RunPastProtocol, RunPastRelock, RunPastCheckpoint
  <1> HIDE DEF next, passed
  <1> QED
    BY <1>1, <1>2, <1>3, <1>4, RunMoves

LEMMA LoadProtocolInv ==
  ASSUME LockInv, NEW r \in Runs, LoadProtocol(r)
  PROVE  LockInv'
  <1> DEFINE d == Document[file[Target(r)]]
             next == "checking protocol"
             passed == IsVersion(d, Versions) /\ ParentExists(d)
             kept == [me[r] EXCEPT !.protocol = file[Target(r)], !.parent = file[d.parent.path]]
             my == IF passed THEN kept ELSE me[r]
  <1>1. /\ pc[r] = "loading protocol" /\ Proceed(r, passed, next)
        /\ Keep(r, my) \/ (UNCHANGED me /\ my = me[r])
        /\ UNCHANGED <<file, score, args, dir>>
    BY DEF LoadProtocol
  <1>2. /\ DOMAIN me[r] = DOMAIN NoLocals /\ args[r].protocol \in Protocols
        /\ RunHolds(args[r].protocol, score, "loading protocol", me[r])
    BY <1>1, RunFacts
  <1>3. me[r].loaded \in Checkpoints /\ Sound(score, me[r].lock)
    BY <1>2 DEF RunHolds, RunPastMonitor, RunPastLock, RunPastProtocol, RunPastRelock, RunPastCheckpoint
  <1>4. /\ DOMAIN kept = DOMAIN NoLocals /\ kept.loaded = me[r].loaded
        /\ kept.lock = me[r].lock /\ kept.protocol = file[Target(r)]
    BY <1>2 DEF NoLocals
  <1> HIDE DEF kept
  <1>5. kept.protocol \in Replacements[args[r].protocol]
    BY <1>2, <1>4, FilesAreDocuments DEF Target
  <1>6. passed => Relocked(Document[kept.protocol])
    BY <1>4 DEF IsVersion
  <1>7. passed \in BOOLEAN
    BY DEF IsVersion, ParentExists, Relocked
  <1>8. DOMAIN my = DOMAIN NoLocals /\ (passed => my = kept)
    <2> HIDE DEF passed
    <2> QED
      BY <1>2, <1>4
  <1> HIDE DEF passed, my
  <1>9. ASSUME passed
        PROVE  RunHolds(args[r].protocol, score, next, kept)
    BY <1>3, <1>4, <1>5, <1>6, <1>9
    DEF RunHolds, RunPastMonitor, RunPastLock, RunPastProtocol, RunPastRelock, RunPastCheckpoint
  <1>10. passed => RunHolds(args[r].protocol, score, next, my)
    BY <1>8, <1>9
  <1> HIDE DEF next
  <1> QED
    BY <1>1, <1>7, <1>8, <1>10, RunMoves

LEMMA CheckProtocolInv ==
  ASSUME LockInv, NEW r \in Runs, CheckProtocol(r)
  PROVE  LockInv'
  <1> DEFINE next == "checking checkpoint"
             valid == ValidRelock(Doc(r), Document[me[r].parent], file[Doc(r).parent.path])
             passed == valid /\ VersionAgrees(r)
  <1>1. /\ pc[r] = "checking protocol" /\ Proceed(r, passed, next)
        /\ UNCHANGED <<file, score, args, me, dir>>
    BY DEF CheckProtocol
  <1>2. /\ DOMAIN me[r] = DOMAIN NoLocals
        /\ RunHolds(args[r].protocol, score, "checking protocol", me[r])
    BY <1>1, RunFacts
  <1>3. /\ me[r].loaded \in Checkpoints /\ Sound(score, me[r].lock)
        /\ me[r].protocol \in Replacements[args[r].protocol] /\ Relocked(Document[me[r].protocol])
    BY <1>2 DEF RunHolds, RunPastMonitor, RunPastLock, RunPastProtocol
  <1>4. passed \in BOOLEAN
    BY DEF ValidRelock, VersionAgrees
  <1>5. ASSUME passed
        PROVE  /\ VersionOf(me[r].protocol) \in Versions
               /\ SeedsAre(Document[me[r].protocol], SeedsOf(VersionOf(me[r].protocol)))
               /\ me[r].lock.version = VersionOf(me[r].protocol)
    <2>1. ValidRelock(Document[me[r].protocol], Document[me[r].parent], file[Doc(r).parent.path])
      BY <1>5 DEF Doc
    <2>2. me[r].lock.version = VersionOf(me[r].protocol)
      BY <1>3, <1>5 DEF VersionAgrees, VersionOf, Doc
    <2> QED
      BY <1>3, <2>1, <2>2, RelockPins
  <1> HIDE DEF passed
  <1>6. ASSUME passed
        PROVE  RunHolds(args[r].protocol, score, next, me[r])
    BY <1>3, <1>5, <1>6
    DEF RunHolds, RunPastMonitor, RunPastLock, RunPastProtocol, RunPastRelock, RunPastCheckpoint
  <1> HIDE DEF next
  <1> QED
    BY <1>1, <1>2, <1>4, <1>6, RunMoves

LEMMA CheckCheckpointInv ==
  ASSUME LockInv, NEW r \in Runs, CheckCheckpoint(r)
  PROVE  LockInv'
  <1> DEFINE next == "checking seal"
             passed == CheckpointAgrees(r) /\ me[r].lock.probe = file["probe"]
  <1>1. /\ pc[r] = "checking checkpoint" /\ Proceed(r, passed, next)
        /\ UNCHANGED <<file, score, args, me, dir>>
    BY DEF CheckCheckpoint
  <1>2. /\ DOMAIN me[r] = DOMAIN NoLocals
        /\ RunHolds(args[r].protocol, score, "checking checkpoint", me[r])
    BY <1>1, RunFacts
  <1>3. passed \in BOOLEAN
    BY DEF CheckpointAgrees
  <1>4. passed => me[r].lock.risk = RiskThreshold[me[r].loaded]
    BY DEF CheckpointAgrees, Risk
  <1> HIDE DEF passed
  <1>5. passed => RunHolds(args[r].protocol, score, next, me[r])
    BY <1>2, <1>4
    DEF RunHolds, RunPastMonitor, RunPastLock, RunPastProtocol, RunPastRelock, RunPastCheckpoint
  <1> HIDE DEF next
  <1> QED
    BY <1>1, <1>2, <1>3, <1>5, RunMoves

LEMMA CheckSealInv ==
  ASSUME LockInv, NEW r \in Runs, CheckSeal(r)
  PROVE  LockInv'
  <1> DEFINE next == "started"
             artifact == Output(r).artifact
             passed == /\ artifact \notin {None, Torn}
                       /\ artifact = [status |-> "passed", lock |-> Output(r).lock]
  <1>1. /\ pc[r] = "checking seal" /\ Proceed(r, passed, next)
        /\ UNCHANGED <<file, score, args, me, dir>>
    BY DEF CheckSeal
  <1>2. /\ DOMAIN me[r] = DOMAIN NoLocals
        /\ RunHolds(args[r].protocol, score, "checking seal", me[r])
    BY <1>1, RunFacts
  <1>3. passed \in BOOLEAN
    OBVIOUS
  <1> HIDE DEF passed
  <1>4. RunHolds(args[r].protocol, score, next, me[r])
    BY <1>2
    DEF RunHolds, RunPastMonitor, RunPastLock, RunPastProtocol, RunPastRelock, RunPastCheckpoint
  <1> HIDE DEF next
  <1> QED
    BY <1>1, <1>2, <1>3, <1>4, RunMoves

-----------------------------------------------------------------------------
LEMMA ReplaceInv ==
  ASSUME LockInv, NEW p \in Paths, Replace(p)
  PROVE  LockInv'
  <1>1. PICK c \in Replacements[p] : file' = [file EXCEPT ![p] = c]
    BY DEF Replace
  <1>2. UNCHANGED <<score, args, pc, me, dir>>
    BY DEF Replace
  <1>3. FilesHold'
    BY <1>1 DEF LockInv, FilesHold
  <1>4. ScoresHold' /\ ArgsHold' /\ ShapeHolds' /\ DirsHold'
    BY <1>2 DEF LockInv, ScoresHold, ArgsHold, ShapeHolds, DirsHold
  <1> QED
    BY <1>2, <1>3, <1>4 DEF LockInv

LEMMA InitInv ==
  ASSUME Init
  PROVE  LockInv
  <1>1. PICK s \in Scenarios : file = s.file /\ score = s.score /\ args = s.args
    BY DEF Init
  <1>2. FilesHold /\ ScoresHold
    BY <1>1, ScenarioAssumption DEF FilesHold, ScoresHold
  <1>3. /\ DOMAIN args \subseteq Process
        /\ \A q \in DOMAIN args : args[q].protocol \in Protocols
    BY <1>1, ScenarioAssumption DEF Process
  <1>4. ArgsHold
    <2>1. \A q \in DOMAIN args : args[q].output \in DOMAIN dir
      BY DEF Init
    <2>2. \A q \in Process : pc[q] # "idle" => q \in DOMAIN args
      BY DEF Init
    <2> QED
      BY <1>3, <2>1, <2>2 DEF ArgsHold
  <1>5. ShapeHolds
    BY DEF Init, ShapeHolds
  <1>6. DirsHold
    BY DEF Init, DirsHold, EmptyDir
  <1>7. \A q \in Process : pc[q] \in {"starting", "idle"}
    BY DEF Init
  <1>8. ASSUME NEW l \in Lockers
        PROVE  LockerHolds(args[l].protocol, score, pc[l], me[l])
    <2>1. pc[l] \in {"starting", "idle"}
      BY <1>7 DEF Process
    <2> QED
      BY <2>1
      DEF LockerHolds, PastDocuments, PastRelock, PastSources, PastMixed, PastCalibration,
          PastValidation, PastMonitor, PastChoice, PastHoldout, PastHashing
  <1>9. ASSUME NEW r \in Runs
        PROVE  RunHolds(args[r].protocol, score, pc[r], me[r])
    <2>1. pc[r] \in {"starting", "idle"}
      BY <1>7 DEF Process
    <2> QED
      BY <2>1
      DEF RunHolds, RunPastMonitor, RunPastLock, RunPastProtocol, RunPastRelock, RunPastCheckpoint
  <1> QED
    BY <1>2, <1>4, <1>5, <1>6, <1>8, <1>9 DEF LockInv

LEMMA NextInv ==
  ASSUME LockInv, [Next]_vars
  PROVE  LockInv'
  <1>1. ASSUME NEW l \in Lockers, Issue(l)
        PROVE  LockInv'
    BY <1>1, LoadDocumentsInv, LoadParentInv, CheckRelockInv, ResolveSourcesInv, MixedGateInv,
       GateCalibrationInv, GateValidationInv, CheckMetricsInv, LoadMonitorInv, CalibrateInv,
       ValidateInv, HashInputsInv, ClaimInv, WriteLockInv, SealInv, ClaimForFailureInv,
       WriteFailureInv, SealFailureInv, KilledInv
    DEF Issue
  <1>2. ASSUME NEW r \in Runs, Use(r)
        PROVE  LockInv'
    BY <1>2, LoadConfigurationInv, LoadCheckpointInv, ReadLockInv, HashProtocolInv,
       LoadProtocolInv, CheckProtocolInv, CheckCheckpointInv, CheckSealInv
    DEF Use
  <1>3. ASSUME NEW p \in Paths, Replace(p)
        PROVE  LockInv'
    BY <1>3, ReplaceInv
  <1>4. ASSUME UNCHANGED vars
        PROVE  LockInv'
    BY <1>4
    DEF vars, LockInv, FilesHold, ScoresHold, ArgsHold, ShapeHolds, DirsHold
  <1> QED
    BY <1>1, <1>2, <1>3, <1>4 DEF Next

LEMMA LockInvAlways == Spec => []LockInv
  BY InitInv, NextInv, PTL DEF Spec

-----------------------------------------------------------------------------
\* What the entropy threshold of a locker is, from its choice to the sealed lock
\* (lock_threshold): the least one that keeps the union budget on the clean
\* calibration episodes, for any number of lockers and any scores.
THEOREM ChosenThresholdsAreLeast == Spec => []LockedThresholdIsLeast
  <1>1. LockInv => LockedThresholdIsLeast
    <2> SUFFICES ASSUME LockInv, NEW l \in Chosen
                 PROVE  IsLeastWithinBudget(Summaries(l, Seeds(l, "calibration")), Risk(l), me[l].entropy)
      BY DEF LockedThresholdIsLeast
    <2>1. l \in Lockers /\ pc[l] \in PastChoice
      BY DEF Chosen, PastChoice, PastHoldout, PastHashing
    <2>2. LockerHolds(args[l].protocol, score, pc[l], me[l])
      BY <2>1 DEF LockInv
    <2> QED
      BY <2>1, <2>2 DEF LockerHolds, Summaries, Risk, Seeds, SeedsIn
  <1> QED
    BY <1>1, LockInvAlways, PTL

\* What a run may rely on once _validate_lock has accepted a lock whose gates read
\* the protocol the run holds: with the thresholds in it the budget is kept on both
\* blocks of that protocol, for the monitor the run holds in memory, however many
\* files are replaced between the steps of any number of lockers and runs.
THEOREM RunsAlwaysKeepTheBudget == Spec => []RunsKeepTheBudget
  <1>1. LockInv => RunsKeepTheBudget
    <2> SUFFICES ASSUME LockInv, NEW r \in Started, GatesReadTheProtocol(r)
                 PROVE  LET splits == Doc(r).splits
                            entropy == me[r].lock.entropy
                        IN /\ IsLeastWithinBudget(Summaries(r, splits.calibration), Risk(r), entropy)
                           /\ WithinBudget(Summaries(r, splits.validation), Risk(r), entropy)
      BY DEF RunsKeepTheBudget
    <2>1. r \in Runs /\ pc[r] = "started"
      BY DEF Started
    <2>2. RunHolds(args[r].protocol, score, "started", me[r])
      BY <2>1 DEF LockInv
    <2>3. /\ me[r].loaded \in Checkpoints /\ Sound(score, me[r].lock)
          /\ SeedsAre(Doc(r), SeedsOf(VersionOf(me[r].protocol)))
          /\ me[r].lock.risk = RiskThreshold[me[r].loaded]
      BY <2>2 DEF RunHolds, RunPastMonitor, RunPastLock, RunPastProtocol, RunPastRelock,
                  RunPastCheckpoint, Doc
    <2> DEFINE calibration == SeedsIn(me[r].lock.calibration, "calibration")
               validation == SeedsIn(me[r].lock.validation, "validation")
    <2>4. PICK m \in Checkpoints :
            /\ me[r].lock.risk = RiskThreshold[m]
            /\ IsLeastWithinBudget(score[m][calibration], me[r].lock.risk, me[r].lock.entropy)
            /\ WithinBudget(score[m][validation], me[r].lock.risk, me[r].lock.entropy)
      BY <2>3 DEF Sound
    <2>5. m = me[r].loaded
      BY <2>3, <2>4, ThresholdAssumption
    <2>6. Doc(r).splits.validation = validation
      BY DEF GatesReadTheProtocol, Doc, SeedsIn
    \* The seeds of v1.2 are those v1.3 keeps for its calibration.
    <2>7. Doc(r).splits.calibration = calibration
      <3>1. CASE VersionOf(me[r].protocol) = "1.3"
        BY <2>3, <3>1, PinnedAssumption DEF GatesReadTheProtocol, SeedsAre, SeedsOf, RelockSeeds, SeedsIn
      <3>2. CASE VersionOf(me[r].protocol) # "1.3"
        BY <3>2 DEF GatesReadTheProtocol, Doc, SeedsIn
      <3> QED
        BY <3>1, <3>2
    <2> HIDE DEF calibration, validation
    <2> QED
      BY <2>3, <2>4, <2>5, <2>6, <2>7 DEF Summaries, Risk
  <1> QED
    BY <1>1, LockInvAlways, PTL

-----------------------------------------------------------------------------
(* The approval of the protocols that are run.                             *)

Registered == Without(Document[Approved["v1.0"]], {})
Good(c) == Without(Document[c], RelockV14Metadata) = Registered

\* The relocks whose parent the validator pins, and the path it pins.
PinnedVersions == {"1.2", "1.4"}
ParentPath(v) == IF v = "1.4" THEN "v1.3" ELSE "v1.0"
Proper(v, files) == ParentPath(v) \in Paths /\ files[ParentPath(v)] = Approved[ParentPath(v)]

\* To mislead a run once the relock has been validated takes the replacement of
\* its protocol and that of the parent, and the parent has to be back when its
\* hash is taken: three replacements.  This is what is left to do with one.
Guarded(v, files, left) == left <= 1 /\ (left = 1 => Proper(v, files))

\* What the validator has made sure of for a content: the parent is the approved
\* one while two replacements are left, and the content is a good relock or the
\* replacements left cannot hide what it is.
Kept(v, files, left, c) ==
  /\ Proper(v, files) \/ left <= 1
  /\ (VersionOf(c) = v /\ Good(c)) \/ Guarded(v, files, left)

\* The parent a run has read is the right one, or will be found out.
ParentKept(v, files, left, my) ==
  \/ Good(my.protocol)
  \/ Document[my.protocol].parent.path = ParentPath(v) =>
       \/ my.parent = Approved[ParentPath(v)]
       \/ left = 0 /\ files[ParentPath(v)] = my.parent

\* Before it validates its protocol, a locker still holds what is in the files as
\* long as none has been replaced.
LockerKeeps(v, files, left, target, place, my) ==
  /\ place \in {"loading parent", "checking parent"} /\ left = 2 => files[target] = my.protocol
  /\ place = "checking parent" =>
       /\ Document[my.protocol].parent.path \in Paths
       /\ left = 2 => files[Document[my.protocol].parent.path] = my.parent
  /\ place \in PastRelock /\ VersionOf(my.protocol) = v => Kept(v, files, left, files[target])
  /\ place \in PastHashing /\ my.lock.version = v => Kept(v, files, left, my.lock.protocol)

RunKeeps(v, files, left, target, place, my) ==
  place \in RunPastLock /\ my.lock.version = v =>
    /\ place = "hashing protocol" => Kept(v, files, left, my.lock.protocol)
    /\ place = "loading protocol" => Kept(v, files, left, files[target])
    /\ place = "checking protocol" => ParentKept(v, files, left, my)
    /\ place \in RunPastRelock => Good(my.protocol)

LockKept(v, files, left, lock) ==
  lock \notin {None, Torn} /\ lock.version = v => Kept(v, files, left, lock.protocol)

ApprovalInv(v) ==
  /\ edits \in 0..2
  /\ \A o \in DOMAIN dir : LockKept(v, file, edits, dir[o].lock)
  /\ \A l \in Lockers : LockerKeeps(v, file, edits, args[l].protocol, pc[l], me[l])
  /\ \A r \in Runs : RunKeeps(v, file, edits, args[r].protocol, pc[r], me[r])

\* A document that is the registered one but for fields of a relock is good.
LEMMA GoodWithout ==
  ASSUME NEW c, NEW fields \in SUBSET RelockV14Metadata, Without(Document[c], fields) = Registered
  PROVE  Good(c)
  <1> DEFINE d == Document[c]
             e == Document[Approved["v1.0"]]
             part(f) == IF f = "splits" THEN [p \in {"pilot", "train", "final_test"} |-> d.splits[p]] ELSE d[f]
  <1>1. DOMAIN Without(d, fields) = DOMAIN d \ fields /\ DOMAIN Registered = DOMAIN e
    BY DEF Without, Registered
  <1>2. DOMAIN d \ fields = DOMAIN e /\ DOMAIN e \cap RelockV14Metadata = {}
    BY <1>1, PinnedAssumption
  <1>3. DOMAIN d \ fields = DOMAIN d \ RelockV14Metadata
    BY <1>2
  <1>4. Without(d, fields) = [f \in DOMAIN d \ fields |-> part(f)]
    BY DEF Without
  <1>5. Without(d, RelockV14Metadata) = [f \in DOMAIN d \ RelockV14Metadata |-> part(f)]
    BY DEF Without
  <1> HIDE DEF part
  <1> QED
    BY <1>3, <1>4, <1>5 DEF Good

\* The approved parent of a relock is not of its version.
LEMMA ApprovedIsAnother ==
  ASSUME NEW v \in PinnedVersions
  PROVE  VersionOf(Approved[ParentPath(v)]) # v
  <1>1. CASE v = "1.2"
    <2>1. "version" \in RelockV14Metadata
      BY DEF RelockV14Metadata, RelockV13Metadata, RelockMetadata
    <2>2. ~Relocked(Document[Approved["v1.0"]])
      BY <2>1, PinnedAssumption DEF Relocked
    <2> QED
      BY <1>1, <2>2, NoneAssumption DEF VersionOf, ParentPath, Versions
  <1>2. CASE v = "1.4"
    BY <1>2, PinnedAssumption DEF ParentPath
  <1> QED
    BY <1>1, <1>2 DEF PinnedVersions

\* The validator of v1.2 and of v1.4 pins the parent, path and content.
LEMMA ParentIsPinned ==
  ASSUME NEW v \in PinnedVersions, NEW c, VersionOf(c) = v, NEW parent, NEW hash,
         ValidRelock(Document[c], parent, hash)
  PROVE  Document[c].parent.path = ParentPath(v) /\ hash = Approved[ParentPath(v)]
  <1>1. Document[c].version = v
    BY NoneAssumption DEF VersionOf, Versions, PinnedVersions
  <1>2. CASE v = "1.2"
    BY <1>1, <1>2 DEF ValidRelock, ValidRelockV12, ParentAgrees, ParentPath
  <1>3. CASE v = "1.4"
    BY <1>1, <1>3 DEF ValidRelock, ValidRelockV14, ParentAgrees, ParentPath
  <1> QED
    BY <1>2, <1>3 DEF PinnedVersions

\* A relock that is valid by the right parent is good.
LEMMA ValidByProperIsGood ==
  ASSUME NEW v \in PinnedVersions, NEW c, VersionOf(c) = v, NEW hash,
         ValidRelock(Document[c], Document[Approved[ParentPath(v)]], hash)
  PROVE  Good(c)
  <1>1. Document[c].version = v
    BY NoneAssumption DEF VersionOf, Versions, PinnedVersions
  <1>2. CASE v = "1.2"
    <2>1. Without(Document[c], RelockMetadata) = Registered
      BY <1>1, <1>2 DEF ValidRelock, ValidRelockV12, ParentPath, Registered
    <2>2. RelockMetadata \in SUBSET RelockV14Metadata
      BY DEF RelockV14Metadata, RelockV13Metadata
    <2> QED
      BY <2>1, <2>2, GoodWithout
  <1>3. CASE v = "1.4"
    BY <1>1, <1>3, PinnedAssumption DEF ValidRelock, ValidRelockV14, ParentPath, Registered, Good
  <1> QED
    BY <1>2, <1>3 DEF PinnedVersions

-----------------------------------------------------------------------------
\* What a replacement leaves of what the validator has made sure of.
LEMMA ReplacementLeavesKept ==
  ASSUME NEW v, NEW files, NEW others, NEW left \in 1..2, NEW c, Kept(v, files, left, c)
  PROVE  Kept(v, others, left - 1, c)
  <1>1. left - 1 <= 1
    OBVIOUS
  <1>2. Guarded(v, files, left) => Guarded(v, others, left - 1)
    <2> SUFFICES ASSUME left <= 1
                 PROVE  Guarded(v, others, left - 1)
      BY DEF Guarded
    <2>1. left - 1 # 1
      OBVIOUS
    <2> QED
      BY <1>1, <2>1 DEF Guarded
  <1> QED
    BY <1>1, <1>2 DEF Kept

\* Also of the content at a path when that is the one replaced: the parent then
\* is at another, and is the right one still.
LEMMA ReplacementLeavesTarget ==
  ASSUME LockInv, NEW v \in PinnedVersions, edits \in 0..2,
         NEW p \in Paths, Replace(p), NEW target \in Protocols,
         Kept(v, file, edits, file[target])
  PROVE  Kept(v, file', edits', file'[target])
  <1>1. /\ edits \in 1..2 /\ edits' = edits - 1
    BY DEF Replace
  <1>2. PICK c \in Replacements[p] : file' = [file EXCEPT ![p] = c]
    BY DEF Replace
  <1>3. DOMAIN file = Paths
    BY DEF LockInv, FilesHold
  <1>4. CASE p # target
    <2>1. file'[target] = file[target]
      BY <1>2, <1>4
    <2>2. Kept(v, file', edits - 1, file[target])
      BY <1>1, ReplacementLeavesKept
    <2> QED
      BY <1>1, <2>1, <2>2
  <1>5. CASE p = target
    <2>1. edits - 1 <= 1
      BY <1>1
    <2>2. ASSUME edits - 1 = 1
          PROVE  Proper(v, file')
      <3>1. ~(edits <= 1)
        BY <1>1, <2>2
      <3>2. Proper(v, file) /\ VersionOf(file[target]) = v
        BY <3>1 DEF Kept, Guarded
      <3>3. ParentPath(v) # target
        BY <3>2, ApprovedIsAnother DEF Proper
      <3>4. file'[ParentPath(v)] = file[ParentPath(v)]
        BY <1>2, <1>5, <3>3
      <3> QED
        BY <3>2, <3>4 DEF Proper
    <2>3. Kept(v, file', edits - 1, file'[target])
      BY <2>1, <2>2 DEF Kept, Guarded
    <2> QED
      BY <1>1, <2>3
  <1> QED
    BY <1>4, <1>5

LEMMA ReplaceKeepsApproval ==
  ASSUME LockInv, NEW v \in PinnedVersions, ApprovalInv(v), NEW p \in Paths, Replace(p)
  PROVE  ApprovalInv(v)'
  <1>1. /\ edits > 0 /\ edits' = edits - 1 /\ UNCHANGED <<args, pc, me, dir>>
    BY DEF Replace
  <1>2. edits \in 0..2 /\ edits \in 1..2
    BY <1>1 DEF ApprovalInv
  <1>3. edits' \in 0..2 /\ edits' # 2
    BY <1>1, <1>2
  <1>4. ASSUME NEW c, Kept(v, file, edits, c)
        PROVE  Kept(v, file', edits', c)
    <2>1. Kept(v, file', edits - 1, c)
      BY <1>1, <1>2, <1>4, ReplacementLeavesKept
    <2> QED
      BY <1>1, <2>1
  <1>5. ASSUME NEW target \in Protocols, Kept(v, file, edits, file[target])
        PROVE  Kept(v, file', edits', file'[target])
    BY <1>2, <1>5, ReplacementLeavesTarget
  <1>6. ASSUME NEW o \in DOMAIN dir
        PROVE  LockKept(v, file', edits', dir[o].lock)
    BY <1>4 DEF ApprovalInv, LockKept
  <1>7. ASSUME NEW l \in Lockers
        PROVE  LockerKeeps(v, file', edits', args[l].protocol, pc[l], me[l])
    <2>1. LockerKeeps(v, file, edits, args[l].protocol, pc[l], me[l])
      BY DEF ApprovalInv
    <2>2. pc[l] \in PastRelock => args[l].protocol \in Protocols
      <3>1. pc[l] \in PastRelock => pc[l] # "idle"
        BY DEF PastRelock, PastSources, PastMixed, PastCalibration, PastValidation, PastMonitor, PastChoice,
               PastHoldout, PastHashing
      <3> QED
        BY <3>1, LockerFacts
    <2> QED
      BY <1>3, <1>4, <1>5, <2>1, <2>2 DEF LockerKeeps
  <1>8. ASSUME NEW r \in Runs
        PROVE  RunKeeps(v, file', edits', args[r].protocol, pc[r], me[r])
    <2>1. RunKeeps(v, file, edits, args[r].protocol, pc[r], me[r])
      BY DEF ApprovalInv
    <2>2. pc[r] = "loading protocol" => args[r].protocol \in Protocols
      BY RunFacts
    <2>3. ParentKept(v, file, edits, me[r]) => ParentKept(v, file', edits', me[r])
      <3>1. edits # 0
        BY <1>1
      <3> QED
        BY <3>1 DEF ParentKept
    <2> QED
      BY <1>4, <1>5, <2>1, <2>2, <2>3 DEF RunKeeps
  <1> QED
    BY <1>1, <1>3, <1>6, <1>7, <1>8 DEF ApprovalInv

\* A step of one process keeps the approval when it keeps its own part.
LEMMA ApprovalOfOne ==
  ASSUME NEW v, ApprovalInv(v), NEW q \in Process, UNCHANGED <<file, edits, args>>,
         \A p \in Process : p # q => pc'[p] = pc[p],
         \A p \in Process : p # q => me'[p] = me[p],
         \A o \in DOMAIN dir' : LockKept(v, file, edits, dir'[o].lock),
         q \in Lockers => LockerKeeps(v, file, edits, args[q].protocol, pc'[q], me'[q]),
         q \in Runs => RunKeeps(v, file, edits, args[q].protocol, pc'[q], me'[q])
  PROVE  ApprovalInv(v)'
  <1>1. \A l \in Lockers : LockerKeeps(v, file, edits, args[l].protocol, pc'[l], me'[l])
    BY DEF ApprovalInv, Process
  <1>2. \A r \in Runs : RunKeeps(v, file, edits, args[r].protocol, pc'[r], me'[r])
    BY DEF ApprovalInv, Process
  <1> QED
    BY <1>1, <1>2 DEF ApprovalInv

\* Off the way, nothing is claimed here either.
LEMMA LeavesNothingToKeep ==
  ASSUME NEW v, NEW files, NEW left, NEW target, NEW my,
         NEW place \in {"failing", "writing failure", "sealing failure", "failed", "killed"}
  PROVE  LockerKeeps(v, files, left, target, place, my)
  BY DEF LockerKeeps, PastRelock, PastSources, PastMixed, PastCalibration, PastValidation, PastMonitor,
         PastChoice, PastHoldout, PastHashing

LEMMA RefusedKeepsNothing ==
  ASSUME NEW v, NEW files, NEW left, NEW target, NEW my
  PROVE  RunKeeps(v, files, left, target, "refused", my)
  BY DEF RunKeeps, RunPastLock, RunPastProtocol, RunPastRelock, RunPastCheckpoint

LEMMA LockerKeepsApproval ==
  ASSUME LockInv, NEW v, ApprovalInv(v), NEW l \in Lockers, UNCHANGED <<file, edits, args>>,
         NEW passed \in BOOLEAN, NEW next, Proceed(l, passed, next),
         NEW my, Keep(l, my) \/ (UNCHANGED me /\ my = me[l]),
         \A o \in DOMAIN dir' : LockKept(v, file, edits, dir'[o].lock),
         passed => LockerKeeps(v, file, edits, args[l].protocol, next, my)
  PROVE  ApprovalInv(v)'
  <1>1. l \in Process /\ l \notin Runs
    BY NoneAssumption DEF Process
  <1>2. /\ \A p \in Process : p # l => pc'[p] = pc[p]
        /\ passed => pc'[l] = next
        /\ ~passed => pc'[l] = "failing"
    BY <1>1, Proceeds
  <1>3. me'[l] = my /\ \A p \in Process : p # l => me'[p] = me[p]
    BY <1>1, Keeps, Unkept
  <1>4. LockerKeeps(v, file, edits, args[l].protocol, pc'[l], me'[l])
    BY <1>2, <1>3, LeavesNothingToKeep
  <1> QED
    BY <1>1, <1>2, <1>3, <1>4, ApprovalOfOne

LEMMA RunKeepsApproval ==
  ASSUME LockInv, NEW v, ApprovalInv(v), NEW r \in Runs, UNCHANGED <<file, edits, args, dir>>,
         NEW passed \in BOOLEAN, NEW next, Proceed(r, passed, next),
         NEW my, Keep(r, my) \/ (UNCHANGED me /\ my = me[r]),
         passed => RunKeeps(v, file, edits, args[r].protocol, next, my)
  PROVE  ApprovalInv(v)'
  <1>1. r \in Process /\ r \notin Lockers
    BY NoneAssumption DEF Process
  <1>2. /\ \A p \in Process : p # r => pc'[p] = pc[p]
        /\ passed => pc'[r] = next
        /\ ~passed => pc'[r] = "refused"
    BY <1>1, Proceeds
  <1>3. me'[r] = my /\ \A p \in Process : p # r => me'[p] = me[p]
    BY <1>1, Keeps, Unkept
  <1>4. RunKeeps(v, file, edits, args[r].protocol, pc'[r], me'[r])
    BY <1>2, <1>3, RefusedKeepsNothing
  <1>5. \A o \in DOMAIN dir' : LockKept(v, file, edits, dir'[o].lock)
    BY DEF ApprovalInv
  <1> QED
    BY <1>1, <1>2, <1>3, <1>4, <1>5, ApprovalOfOne

\* A locker that goes on as it was: what it has read and locked stays, and it is
\* past the validator, or past the hashing, when it was.
LEMMA LockerGoesOn ==
  ASSUME LockInv, NEW v, ApprovalInv(v), NEW l \in Lockers, UNCHANGED <<file, edits, args>>,
         NEW passed, NEW next, Proceed(l, passed, next),
         NEW my, Keep(l, my) \/ (UNCHANGED me /\ my = me[l]),
         \A o \in DOMAIN dir' : LockKept(v, file, edits, dir'[o].lock),
         next \notin {"loading parent", "checking parent"},
         next \in PastRelock => pc[l] \in PastRelock /\ my.protocol = me[l].protocol,
         next \in PastHashing => pc[l] \in PastHashing /\ my.lock = me[l].lock
  PROVE  ApprovalInv(v)'
  <1>1. PICK went \in BOOLEAN : Proceed(l, went, next)
    <2>1. Proceed(l, TRUE, next) \/ Proceed(l, FALSE, next)
      BY DEF Proceed
    <2> QED
      BY <2>1
  <1>2. LockerKeeps(v, file, edits, args[l].protocol, pc[l], me[l])
    BY DEF ApprovalInv
  <1>3. LockerKeeps(v, file, edits, args[l].protocol, next, my)
    BY <1>2 DEF LockerKeeps
  <1> QED
    BY <1>1, <1>3, LockerKeepsApproval

LEMMA DirsStillKeep ==
  ASSUME NEW v, ApprovalInv(v), UNCHANGED dir
  PROVE  \A o \in DOMAIN dir' : LockKept(v, file, edits, dir'[o].lock)
  BY DEF ApprovalInv

\* The protocol and its parent, as long as no file has been replaced.
LEMMA ReadingKeepsApproval ==
  ASSUME LockInv, NEW v \in PinnedVersions, ApprovalInv(v), NEW l \in Lockers,
         LoadDocuments(l) \/ LoadParent(l)
  PROVE  ApprovalInv(v)'
  <1>1. CASE LoadDocuments(l)
    <2> DEFINE my == [NoLocals EXCEPT !.protocol = file[Target(l)], !.probe = file["probe"]]
               next == IF Relocked(Document[file[Target(l)]]) THEN "loading parent" ELSE "sources"
    <2>1. Keep(l, my) /\ Proceed(l, TRUE, next) /\ UNCHANGED <<file, edits, args, dir>>
      BY <1>1 DEF LoadDocuments
    <2>2. my.protocol = file[args[l].protocol]
      BY DEF NoLocals, Target
    <2>3. next \in {"loading parent", "sources"}
          /\ (next = "sources" => VersionOf(file[args[l].protocol]) = None)
      BY DEF VersionOf, Target
    <2> HIDE DEF my, next
    <2>4. next # "checking parent" /\ next \notin PastHashing
          /\ (next \in PastRelock => VersionOf(my.protocol) # v)
      BY <2>2, <2>3, NoneAssumption
      DEF PinnedVersions, Versions, PastRelock, PastSources, PastMixed, PastCalibration, PastValidation,
          PastMonitor, PastChoice, PastHoldout, PastHashing
    <2>5. LockerKeeps(v, file, edits, args[l].protocol, next, my)
      BY <2>2, <2>4 DEF LockerKeeps
    <2> QED
      BY <2>1, <2>5, LockerKeepsApproval, DirsStillKeep
  <1>2. CASE LoadParent(l)
    <2> DEFINE passed == ParentExists(Doc(l))
               kept == [me[l] EXCEPT !.parent = file[Doc(l).parent.path]]
               my == IF passed THEN kept ELSE me[l]
               next == "checking parent"
    <2>1. /\ Proceed(l, passed, next) /\ UNCHANGED <<file, edits, args, dir>>
          /\ Keep(l, my) \/ (UNCHANGED me /\ my = me[l])
          /\ pc[l] = "loading parent"
      BY <1>2 DEF LoadParent
    <2>2. DOMAIN me[l] = DOMAIN NoLocals
      BY <2>1, LockerFacts
    <2>3. kept.protocol = me[l].protocol /\ kept.parent = file[Document[me[l].protocol].parent.path]
      BY <2>2 DEF NoLocals, Doc
    <2>4. passed \in BOOLEAN /\ (passed => Document[me[l].protocol].parent.path \in Paths)
      BY DEF ParentExists, Doc
    <2> HIDE DEF kept, passed
    <2>5. passed => my = kept
      OBVIOUS
    <2>6. edits = 2 => file[args[l].protocol] = me[l].protocol
      BY <2>1 DEF ApprovalInv, LockerKeeps
    <2>7. next \notin PastRelock /\ next \notin PastHashing
      BY DEF PastRelock, PastSources, PastMixed, PastCalibration, PastValidation, PastMonitor,
             PastChoice, PastHoldout, PastHashing
    <2> HIDE DEF my, next
    <2>8. passed => LockerKeeps(v, file, edits, args[l].protocol, next, my)
      BY <2>3, <2>4, <2>5, <2>6, <2>7 DEF LockerKeeps
    <2> QED
      BY <2>1, <2>4, <2>8, LockerKeepsApproval, DirsStillKeep
  <1> QED
    BY <1>1, <1>2

\* The validator has the hash of the parent taken now: the parent is the approved
\* one, and the protocol is good unless a file has been replaced before.
LEMMA ValidatorApproves ==
  ASSUME LockInv, NEW v \in PinnedVersions, ApprovalInv(v), NEW l \in Lockers, CheckRelock(l)
  PROVE  ApprovalInv(v)'
  <1> DEFINE c == me[l].protocol
             d == Document[c]
             hash == file[d.parent.path]
             passed == ValidRelock(d, Document[me[l].parent], hash)
             next == "sources"
  <1>1. /\ pc[l] = "checking parent" /\ Proceed(l, passed, next)
        /\ UNCHANGED <<file, edits, args, me, dir>>
    BY DEF CheckRelock, Doc
  <1>2. /\ d.parent.path \in Paths
        /\ edits = 2 => file[args[l].protocol] = c /\ hash = me[l].parent
    BY <1>1 DEF ApprovalInv, LockerKeeps
  <1>3. ASSUME passed, VersionOf(c) = v
        PROVE  Kept(v, file, edits, file[args[l].protocol])
    <2>1. d.parent.path = ParentPath(v) /\ hash = Approved[ParentPath(v)]
      BY <1>3, ParentIsPinned
    <2>2. Proper(v, file)
      BY <1>2, <2>1 DEF Proper
    <2>3. CASE edits = 2
      <3>1. Good(c)
        BY <1>2, <1>3, <2>1, <2>3, ValidByProperIsGood
      <3> QED
        BY <1>2, <1>3, <2>2, <2>3, <3>1 DEF Kept
    <2>4. CASE edits # 2
      <3>1. edits <= 1
        BY <2>4 DEF ApprovalInv
      <3> QED
        BY <2>2, <3>1 DEF Kept, Guarded
    <2> QED
      BY <2>3, <2>4
  <1>4. passed \in BOOLEAN
    BY DEF ValidRelock
  <1>5. next \notin PastHashing /\ next \notin {"loading parent", "checking parent"}
    BY DEF PastHashing
  <1> HIDE DEF passed, next
  <1>6. passed => LockerKeeps(v, file, edits, args[l].protocol, next, me[l])
    BY <1>3, <1>5 DEF LockerKeeps
  <1> QED
    BY <1>1, <1>4, <1>6, LockerKeepsApproval, DirsStillKeep

\* The steps from the validator to the hashing only move on.
LEMMA ChoosingKeepsApproval ==
  ASSUME LockInv, NEW v \in PinnedVersions, ApprovalInv(v), NEW l \in Lockers,
         \/ ResolveSources(l) \/ MixedGate(l) \/ GateCalibration(l) \/ GateValidation(l)
         \/ CheckMetrics(l) \/ LoadMonitor(l) \/ Calibrate(l) \/ Validate(l) \/ Claim(l)
  PROVE  ApprovalInv(v)'
  <1>1. ASSUME NEW next, \E passed : Proceed(l, passed, next), pc[l] # "idle",
               NEW my, Keep(l, my) \/ (UNCHANGED me /\ my = me[l]),
               UNCHANGED <<file, edits, args, dir>>,
               pc[l] \in PastRelock, next \in PastHashing => pc[l] \in PastHashing,
               next \notin {"loading parent", "checking parent"},
               my.protocol = me[l].protocol, my.lock = me[l].lock
        PROVE  ApprovalInv(v)'
    <2>1. PICK passed : Proceed(l, passed, next)
      BY <1>1
    <2> QED
      BY <1>1, <2>1, LockerGoesOn, DirsStillKeep
  <1>2. pc[l] \in {"sources", "mixed gate", "calibration gate", "validation gate",
                    "metrics", "loading monitor", "calibrating", "validating", "claiming"}
    BY DEF ResolveSources, MixedGate, GateCalibration, GateValidation, CheckMetrics, LoadMonitor,
           Calibrate, Validate, Claim
  <1>3. pc[l] \in PastRelock
    BY <1>2 DEF PastRelock, PastSources, PastMixed, PastCalibration, PastValidation, PastMonitor, PastChoice,
                PastHoldout, PastHashing
  <1>4. DOMAIN me[l] = DOMAIN NoLocals
    BY <1>2, LockerFacts
  <1>11. ASSUME NEW partition \in {"calibration", "validation"}, NEW next \in {"validation gate", "metrics"},
                FormalGate(l, partition, next)
         PROVE  ApprovalInv(v)'
    <2> DEFINE my == [me[l] EXCEPT ![partition] = file[me[l].source[partition]]]
    <2>1. /\ \E passed : Proceed(l, passed, next)
          /\ Keep(l, my) /\ UNCHANGED <<file, edits, args, dir>>
      BY <1>11 DEF FormalGate
    <2>2. my.protocol = me[l].protocol /\ my.lock = me[l].lock
      BY <1>4 DEF NoLocals
    <2>3. next \notin PastHashing /\ next \notin {"loading parent", "checking parent"}
      BY DEF PastHashing
    <2> HIDE DEF my
    <2> QED
      BY <1>1, <1>2, <1>3, <2>1, <2>2, <2>3
  <1>5. CASE GateCalibration(l) \/ GateValidation(l)
    BY <1>5, <1>11 DEF GateCalibration, GateValidation
  <1>12. CASE ResolveSources(l)
    <2>1. /\ UNCHANGED <<file, edits, args, dir>>
          /\ \E next \in {"mixed gate", "calibration gate"} : \E passed : Proceed(l, passed, next)
          /\ \E paths : Keep(l, [me[l] EXCEPT !.source = paths])
      BY <1>12 DEF ResolveSources
    <2>2. PICK next \in {"mixed gate", "calibration gate"} : \E passed : Proceed(l, passed, next)
      BY <2>1
    <2>3. PICK paths : Keep(l, [me[l] EXCEPT !.source = paths])
      BY <2>1
    <2> DEFINE my == [me[l] EXCEPT !.source = paths]
    <2>4. my.protocol = me[l].protocol /\ my.lock = me[l].lock
      BY <1>4 DEF NoLocals
    <2>5. next \notin PastHashing /\ next \notin {"loading parent", "checking parent"}
      BY DEF PastHashing
    <2>6. Keep(l, my)
      BY <2>3
    <2> HIDE DEF my
    <2> QED
      BY <1>1, <1>2, <1>3, <2>1, <2>2, <2>4, <2>5, <2>6
  <1>13. CASE MixedGate(l)
    <2> DEFINE next == "calibration gate"
               kept == [me[l] EXCEPT !.mixed = file[Target(l)]]
    <2>1. /\ \E passed : Proceed(l, passed, next)
          /\ Keep(l, kept) \/ UNCHANGED me
          /\ UNCHANGED <<file, edits, args, dir>>
      BY <1>13 DEF MixedGate
    <2>2. kept.protocol = me[l].protocol /\ kept.lock = me[l].lock
      BY <1>4 DEF NoLocals
    <2>3. next \notin PastHashing /\ next \notin {"loading parent", "checking parent"}
      BY DEF PastHashing
    <2> HIDE DEF kept
    <2> HIDE DEF next
    <2>4. CASE Keep(l, kept)
      BY <1>1, <1>2, <1>3, <2>1, <2>2, <2>3, <2>4
    <2>5. CASE UNCHANGED me
      BY <1>1, <1>2, <1>3, <2>1, <2>3, <2>5
    <2> QED
      BY <2>1, <2>4, <2>5
  <1>6. CASE CheckMetrics(l)
    <2> DEFINE next == "loading monitor"
               my == [me[l] EXCEPT !.hash = file["monitor"]]
    <2>1. /\ \E passed : Proceed(l, passed, next)
          /\ Keep(l, my) /\ UNCHANGED <<file, edits, args, dir>>
      BY <1>6 DEF CheckMetrics
    <2>2. my.protocol = me[l].protocol /\ my.lock = me[l].lock
      BY <1>4 DEF NoLocals
    <2>3. next \notin PastHashing /\ next \notin {"loading parent", "checking parent"}
      BY DEF PastHashing
    <2> HIDE DEF my
    <2> HIDE DEF next
    <2> QED
      BY <1>1, <1>2, <1>3, <2>1, <2>2, <2>3
  <1>7. CASE LoadMonitor(l)
    <2> DEFINE next == "calibrating"
               my == [me[l] EXCEPT !.loaded = file["monitor"]]
    <2>1. /\ \E passed : Proceed(l, passed, next)
          /\ Keep(l, my) /\ UNCHANGED <<file, edits, args, dir>>
      BY <1>7 DEF LoadMonitor
    <2>2. my.protocol = me[l].protocol /\ my.lock = me[l].lock
      BY <1>4 DEF NoLocals
    <2>3. next \notin PastHashing /\ next \notin {"loading parent", "checking parent"}
      BY DEF PastHashing
    <2> HIDE DEF my
    <2> HIDE DEF next
    <2> QED
      BY <1>1, <1>2, <1>3, <2>1, <2>2, <2>3
  <1>8. CASE Calibrate(l)
    <2> DEFINE next == "validating"
               clean == Summaries(l, Seeds(l, "calibration"))
               chosen == [me[l] EXCEPT !.entropy = ChooseEntropyThreshold(clean, Risk(l))]
               my == IF Capacity(clean, Risk(l)) >= 0 THEN chosen ELSE me[l]
    <2>1. /\ \E passed : Proceed(l, passed, next)
          /\ Keep(l, my) \/ (UNCHANGED me /\ my = me[l])
          /\ UNCHANGED <<file, edits, args, dir>>
      <3>1. /\ Proceed(l, ChoiceSucceeds(clean, Risk(l)), next)
            /\ IF Capacity(clean, Risk(l)) >= 0 THEN Keep(l, chosen) ELSE UNCHANGED me
            /\ UNCHANGED <<file, edits, args, dir>>
        BY <1>8 DEF Calibrate
      <3> HIDE DEF clean, chosen
      <3> QED
        BY <3>1
    <2>2. chosen.protocol = me[l].protocol /\ chosen.lock = me[l].lock
      BY <1>4 DEF NoLocals
    <2> HIDE DEF chosen, clean
    <2>3. my.protocol = me[l].protocol /\ my.lock = me[l].lock
      BY <2>2
    <2>4. next \notin PastHashing /\ next \notin {"loading parent", "checking parent"}
      BY DEF PastHashing
    <2> HIDE DEF my
    <2> HIDE DEF next
    <2> QED
      BY <1>1, <1>2, <1>3, <2>1, <2>3, <2>4
  <1>9. CASE Validate(l)
    <2> DEFINE next == "hashing"
    <2>1. /\ \E passed : Proceed(l, passed, next)
          /\ UNCHANGED <<file, edits, args, me, dir>>
      BY <1>9 DEF Validate
    <2>2. next \notin PastHashing /\ next \notin {"loading parent", "checking parent"}
      BY DEF PastHashing
    <2> HIDE DEF next
    <2> QED
      BY <1>1, <1>2, <1>3, <2>1, <2>2
  <1>10. CASE Claim(l)
    <2> DEFINE next == "writing lock"
    <2>1. /\ \E passed : Proceed(l, passed, next) /\ pc[l] = "claiming"
          /\ UNCHANGED <<file, edits, args, me, dir>>
      BY <1>10 DEF Claim
    <2>2. "claiming" \in PastHashing /\ next \notin {"loading parent", "checking parent"}
      BY DEF PastHashing
    <2> HIDE DEF next
    <2> QED
      BY <1>1, <1>3, <2>1, <2>2
  <1> QED
    BY <1>5, <1>6, <1>7, <1>8, <1>9, <1>10, <1>12, <1>13

\* The lock takes the protocol that is at the path now.
LEMMA HashingApproves ==
  ASSUME LockInv, NEW v \in PinnedVersions, ApprovalInv(v), NEW l \in Lockers, HashInputs(l)
  PROVE  ApprovalInv(v)'
  <1> DEFINE lock == Lock(l)
             my == [me[l] EXCEPT !.lock = lock]
             next == "claiming"
  <1>1. /\ pc[l] = "hashing" /\ Proceed(l, TRUE, next) /\ Keep(l, my)
        /\ UNCHANGED <<file, edits, args, dir>>
    BY DEF HashInputs
  <1>2. DOMAIN me[l] = DOMAIN NoLocals
    BY <1>1, LockerFacts
  <1>3. lock.protocol = file[args[l].protocol] /\ lock.version = VersionOf(me[l].protocol)
    BY DEF Lock, Target
  <1> HIDE DEF lock
  <1>4. my.protocol = me[l].protocol /\ my.lock = lock
    BY <1>2 DEF NoLocals
  <1>5. pc[l] \in PastRelock /\ next \notin {"loading parent", "checking parent"}
    BY <1>1 DEF PastRelock, PastSources, PastMixed, PastCalibration, PastValidation, PastMonitor, PastChoice,
                PastHoldout
  <1>6. LockerKeeps(v, file, edits, args[l].protocol, pc[l], me[l])
    BY DEF ApprovalInv
  <1>7. VersionOf(me[l].protocol) = v => Kept(v, file, edits, file[args[l].protocol])
    BY <1>5, <1>6 DEF LockerKeeps
  <1> HIDE DEF my, next
  <1>8. LockerKeeps(v, file, edits, args[l].protocol, next, my)
    BY <1>3, <1>4, <1>5, <1>7 DEF LockerKeeps
  <1> QED
    BY <1>1, <1>8, LockerKeepsApproval, DirsStillKeep

\* Whatever is written, a lock at its name is kept.
LEMMA WritesKeepApproval ==
  ASSUME LockInv, NEW v, ApprovalInv(v), NEW l \in Lockers, args[l].output \in DOMAIN dir,
         NEW name \in DOMAIN EmptyDir, NEW content, Write(l, name, content),
         name = "lock" => LockKept(v, file, edits, content)
  PROVE  \A o \in DOMAIN dir' : LockKept(v, file, edits, dir'[o].lock)
  <1> DEFINE o == args[l].output
  <1>1. dir' = [dir EXCEPT ![o] = [dir[o] EXCEPT ![name] = content]]
    BY DEF Write
  <1>2. DOMAIN dir[o] = DOMAIN EmptyDir /\ "lock" \in DOMAIN EmptyDir
    BY DEF LockInv, DirsHold, EmptyDir
  <1>3. \A p \in DOMAIN dir : LockKept(v, file, edits, dir[p].lock)
    BY DEF ApprovalInv
  <1> HIDE DEF o
  <1>4. DOMAIN dir' = DOMAIN dir
    BY <1>1
  <1>5. ASSUME NEW p \in DOMAIN dir
        PROVE  LockKept(v, file, edits, dir'[p].lock)
    <2>1. CASE p # o
      <3>1. dir'[p] = dir[p]
        BY <1>1, <2>1
      <3> QED
        BY <1>3, <3>1
    <2>2. CASE p = o
      <3>1. dir'[p] = [dir[p] EXCEPT ![name] = content]
        BY <1>1, <2>2
      <3>2. dir'[p].lock = IF name = "lock" THEN content ELSE dir[p].lock
        BY <1>2, <2>2, <3>1
      <3> QED
        BY <1>3, <3>2
    <2> QED
      BY <2>1, <2>2
  <1> QED
    BY <1>4, <1>5

LEMMA LeavingKeepsApproval ==
  ASSUME LockInv, NEW v, ApprovalInv(v), NEW l \in Lockers, UNCHANGED <<file, edits, args, me>>,
         NEW place \in {"failing", "writing failure", "sealing failure", "failed", "killed"},
         pc' = [pc EXCEPT ![l] = place],
         \A o \in DOMAIN dir' : LockKept(v, file, edits, dir'[o].lock)
  PROVE  ApprovalInv(v)'
  <1>1. l \in Process /\ l \notin Runs
    BY NoneAssumption DEF Process
  <1>2. pc'[l] = place /\ \A p \in Process : p # l => pc'[p] = pc[p]
    BY <1>1 DEF LockInv, ShapeHolds
  <1>3. \A p \in Process : p # l => me'[p] = me[p]
    OBVIOUS
  <1>4. LockerKeeps(v, file, edits, args[l].protocol, pc'[l], me'[l])
    BY <1>2, LeavesNothingToKeep
  <1> QED
    BY <1>1, <1>2, <1>3, <1>4, ApprovalOfOne

LEMMA SealingKeepsApproval ==
  ASSUME LockInv, NEW v \in PinnedVersions, ApprovalInv(v), NEW l \in Lockers, WriteLock(l) \/ Seal(l)
  PROVE  ApprovalInv(v)'
  <1>1. /\ pc[l] \in {"writing lock", "sealing"}
        /\ UNCHANGED <<file, edits, args, me>>
    BY DEF WriteLock, Seal
  <1>2. /\ pc[l] \in PastRelock /\ pc[l] \in PastHashing
        /\ args[l].output \in DOMAIN dir
    <2>1. pc[l] # "idle"
      BY <1>1
    <2>2. pc[l] \in PastHashing
      BY <1>1 DEF PastHashing
    <2> QED
      BY <2>1, <2>2, LockerFacts DEF PastRelock, PastSources, PastMixed, PastCalibration, PastValidation, PastMonitor,
         PastChoice, PastHoldout
  <1>3. CASE WriteLock(l)
    <2> DEFINE passed == Output(l).lock = None
               next == "sealing"
    <2>1. Proceed(l, passed, next) /\ (Write(l, "lock", me[l].lock) \/ UNCHANGED dir)
      BY <1>3 DEF WriteLock
    <2>2. LockKept(v, file, edits, me[l].lock)
      BY <1>2 DEF ApprovalInv, LockerKeeps, LockKept
    <2>3. \A o \in DOMAIN dir' : LockKept(v, file, edits, dir'[o].lock)
      <3>1. "lock" \in DOMAIN EmptyDir
        BY DEF EmptyDir
      <3> QED
        BY <1>2, <2>1, <2>2, <3>1, WritesKeepApproval, DirsStillKeep
    <2>4. next \notin {"loading parent", "checking parent"}
      OBVIOUS
    <2> HIDE DEF passed, next
    <2> QED
      BY <1>1, <1>2, <2>1, <2>3, <2>4, LockerGoesOn
  <1>4. CASE Seal(l)
    <2> DEFINE passed == Output(l).artifact = None
               next == "locked"
               content == [status |-> "passed", lock |-> Output(l).lock]
    <2>1. Proceed(l, passed, next) /\ (Write(l, "artifact", content) \/ UNCHANGED dir)
      BY <1>4 DEF Seal
    <2> HIDE DEF content
    <2>2. \A o \in DOMAIN dir' : LockKept(v, file, edits, dir'[o].lock)
      <3>1. "artifact" \in DOMAIN EmptyDir
        BY DEF EmptyDir
      <3> QED
        BY <1>2, <2>1, <3>1, WritesKeepApproval, DirsStillKeep
    <2>3. next \notin {"loading parent", "checking parent"}
      OBVIOUS
    <2> HIDE DEF passed, next
    <2> QED
      BY <1>1, <1>2, <2>1, <2>2, <2>3, LockerGoesOn
  <1> QED
    BY <1>3, <1>4

\* The failure path, and a locker that is killed.
LEMMA FailingKeepsApproval ==
  ASSUME LockInv, NEW v, ApprovalInv(v), NEW l \in Lockers,
         ClaimForFailure(l) \/ WriteFailure(l) \/ SealFailure(l) \/ Killed(l)
  PROVE  ApprovalInv(v)'
  <1>1. /\ pc[l] # "idle" /\ UNCHANGED <<file, edits, args, me>>
        /\ \E place \in {"failing", "writing failure", "sealing failure", "failed", "killed"} :
             pc' = [pc EXCEPT ![l] = place]
    BY DEF ClaimForFailure, WriteFailure, SealFailure, Killed
  <1>2. \/ UNCHANGED dir
        \/ \E name \in {"failure", "artifact"} : \E content : Write(l, name, content)
        \/ Write(l, "lock", Torn)
    BY DEF ClaimForFailure, WriteFailure, SealFailure, Killed
  <1>3. args[l].output \in DOMAIN dir
    BY <1>1, LockerFacts
  <1>4. DOMAIN EmptyDir = {"lock", "artifact", "failure"} /\ LockKept(v, file, edits, Torn)
    BY DEF EmptyDir, LockKept
  <1>5. \A o \in DOMAIN dir' : LockKept(v, file, edits, dir'[o].lock)
    <2>1. CASE UNCHANGED dir
      BY <2>1, DirsStillKeep
    <2>2. ASSUME NEW name \in {"failure", "artifact"}, NEW content, Write(l, name, content)
          PROVE  \A o \in DOMAIN dir' : LockKept(v, file, edits, dir'[o].lock)
      BY <1>3, <1>4, <2>2, WritesKeepApproval
    <2>3. CASE Write(l, "lock", Torn)
      BY <1>3, <1>4, <2>3, WritesKeepApproval
    <2> QED
      BY <1>2, <2>1, <2>2, <2>3
  <1> QED
    BY <1>1, <1>5, LeavingKeepsApproval

-----------------------------------------------------------------------------
(* The runs.                                                               *)

\* Before it reads the lock.
LEMMA StartingKeepsApproval ==
  ASSUME LockInv, NEW v, ApprovalInv(v), NEW r \in Runs, LoadConfiguration(r) \/ LoadCheckpoint(r)
  PROVE  ApprovalInv(v)'
  <1>1. PICK next \in {"loading checkpoint", "reading lock"} : \E passed : Proceed(r, passed, next)
    BY DEF LoadConfiguration, LoadCheckpoint
  <1>2. PICK passed : Proceed(r, passed, next)
    BY <1>1
  <1>3. PICK went \in BOOLEAN : Proceed(r, went, next)
    <2>1. Proceed(r, TRUE, next) \/ Proceed(r, FALSE, next)
      BY <1>2 DEF Proceed
    <2> QED
      BY <2>1
  <1>4. PICK my : Keep(r, my) \/ (UNCHANGED me /\ my = me[r])
    BY DEF LoadConfiguration, LoadCheckpoint
  <1>5. UNCHANGED <<file, edits, args, dir>>
    BY DEF LoadConfiguration, LoadCheckpoint
  <1>6. RunKeeps(v, file, edits, args[r].protocol, next, my)
    BY <1>1 DEF RunKeeps, RunPastLock, RunPastProtocol, RunPastRelock, RunPastCheckpoint
  <1> QED
    BY <1>3, <1>4, <1>5, <1>6, RunKeepsApproval

LEMMA ReadingTheLockKeepsApproval ==
  ASSUME LockInv, NEW v, ApprovalInv(v), NEW r \in Runs, ReadLock(r)
  PROVE  ApprovalInv(v)'
  <1> DEFINE next == "hashing protocol"
             lock == Output(r).lock
             passed == lock \notin {None, Torn}
             my == [me[r] EXCEPT !.lock = lock]
  <1>1. /\ pc[r] = "reading lock" /\ Proceed(r, passed, next) /\ Keep(r, my)
        /\ UNCHANGED <<file, edits, args, dir>>
    BY DEF ReadLock
  <1>2. DOMAIN me[r] = DOMAIN NoLocals /\ args[r].output \in DOMAIN dir
    BY <1>1, RunFacts DEF LockInv, ArgsHold
  <1>3. passed => LockKept(v, file, edits, lock)
    BY <1>2 DEF ApprovalInv, Output
  <1>4. passed \in BOOLEAN
    OBVIOUS
  <1>5. passed /\ lock.version = v => Kept(v, file, edits, lock.protocol)
    BY <1>3 DEF LockKept
  <1> HIDE DEF lock, passed
  <1>6. my.lock = lock
    BY <1>2 DEF NoLocals
  <1> HIDE DEF my
  <1>7. passed => RunKeeps(v, file, edits, args[r].protocol, next, my)
    BY <1>5, <1>6 DEF RunKeeps, RunPastRelock, RunPastCheckpoint
  <1> HIDE DEF next
  <1> QED
    BY <1>1, <1>4, <1>7, RunKeepsApproval

LEMMA HashingTheProtocolKeepsApproval ==
  ASSUME LockInv, NEW v, ApprovalInv(v), NEW r \in Runs, HashProtocol(r)
  PROVE  ApprovalInv(v)'
  <1> DEFINE next == "loading protocol"
             passed == me[r].lock.protocol = file[Target(r)]
  <1>1. /\ pc[r] = "hashing protocol" /\ Proceed(r, passed, next)
        /\ UNCHANGED <<file, edits, args, me, dir>>
    BY DEF HashProtocol
  <1>2. RunKeeps(v, file, edits, args[r].protocol, "hashing protocol", me[r])
    BY <1>1 DEF ApprovalInv
  <1>3. me[r].lock.version = v => Kept(v, file, edits, me[r].lock.protocol)
    BY <1>2 DEF RunKeeps, RunPastLock
  <1>4. passed => RunKeeps(v, file, edits, args[r].protocol, next, me[r])
    BY <1>3 DEF RunKeeps, RunPastRelock, RunPastCheckpoint, Target
  <1>5. passed \in BOOLEAN
    OBVIOUS
  <1> HIDE DEF next, passed
  <1> QED
    BY <1>1, <1>4, <1>5, RunKeepsApproval

\* The protocol is good, or the parent read with it is the right one, or no file
\* is replaced any more and the hash taken next is that of the parent read.
LEMMA LoadingTheProtocolKeepsApproval ==
  ASSUME LockInv, NEW v \in PinnedVersions, ApprovalInv(v), NEW r \in Runs, LoadProtocol(r)
  PROVE  ApprovalInv(v)'
  <1> DEFINE d == Document[file[Target(r)]]
             next == "checking protocol"
             passed == IsVersion(d, Versions) /\ ParentExists(d)
             kept == [me[r] EXCEPT !.protocol = file[Target(r)], !.parent = file[d.parent.path]]
             my == IF passed THEN kept ELSE me[r]
  <1>1. /\ pc[r] = "loading protocol" /\ Proceed(r, passed, next)
        /\ Keep(r, my) \/ (UNCHANGED me /\ my = me[r])
        /\ UNCHANGED <<file, edits, args, dir>>
    BY DEF LoadProtocol
  <1>2. DOMAIN me[r] = DOMAIN NoLocals
    BY <1>1, RunFacts
  <1>3. /\ kept.lock = me[r].lock /\ kept.protocol = file[Target(r)]
        /\ kept.parent = file[Document[kept.protocol].parent.path]
    BY <1>2 DEF NoLocals
  <1> HIDE DEF kept
  <1>4. passed \in BOOLEAN /\ (passed => my = kept)
    BY DEF IsVersion, ParentExists, Relocked
  <1> HIDE DEF passed, my
  <1>5. RunKeeps(v, file, edits, args[r].protocol, "loading protocol", me[r])
    BY <1>1 DEF ApprovalInv
  <1>6. ASSUME me[r].lock.version = v
        PROVE  ParentKept(v, file, edits, kept)
    <2>1. Kept(v, file, edits, kept.protocol)
      BY <1>3, <1>5, <1>6 DEF RunKeeps, RunPastLock, Target
    <2>2. CASE Good(kept.protocol)
      BY <2>2 DEF ParentKept
    <2>3. CASE Guarded(v, file, edits)
      <3> SUFFICES ASSUME Document[kept.protocol].parent.path = ParentPath(v)
                   PROVE  \/ kept.parent = Approved[ParentPath(v)]
                          \/ edits = 0 /\ file[ParentPath(v)] = kept.parent
        BY DEF ParentKept
      <3>1. kept.parent = file[ParentPath(v)]
        BY <1>3
      <3>2. CASE edits = 1
        BY <2>3, <3>1, <3>2 DEF Guarded, Proper
      <3>3. CASE edits # 1
        <4>1. edits = 0
          BY <2>3, <3>3 DEF Guarded, ApprovalInv
        <4> QED
          BY <3>1, <4>1
      <3> QED
        BY <3>2, <3>3
    <2> QED
      BY <2>1, <2>2, <2>3 DEF Kept
  <1>7. passed => RunKeeps(v, file, edits, args[r].protocol, next, my)
    <2> SUFFICES ASSUME passed
                 PROVE  RunKeeps(v, file, edits, args[r].protocol, next, kept)
      BY <1>4
    <2> QED
      BY <1>3, <1>6 DEF RunKeeps, RunPastRelock, RunPastCheckpoint
  <1> HIDE DEF next
  <1> QED
    BY <1>1, <1>4, <1>7, RunKeepsApproval

LEMMA CheckingTheProtocolApproves ==
  ASSUME LockInv, NEW v \in PinnedVersions, ApprovalInv(v), NEW r \in Runs, CheckProtocol(r)
  PROVE  ApprovalInv(v)'
  <1> DEFINE next == "checking checkpoint"
             d == Document[me[r].protocol]
             hash == file[d.parent.path]
             valid == ValidRelock(d, Document[me[r].parent], hash)
             passed == valid /\ VersionAgrees(r)
  <1>1. /\ pc[r] = "checking protocol" /\ Proceed(r, passed, next)
        /\ UNCHANGED <<file, edits, args, me, dir>>
    BY DEF CheckProtocol, Doc
  <1>2. /\ args[r].protocol \in Protocols
        /\ RunHolds(args[r].protocol, score, "checking protocol", me[r])
    BY <1>1, RunFacts
  <1>3. me[r].protocol \in DOMAIN Document /\ Relocked(d)
    BY <1>2 DEF RunHolds, RunPastProtocol, Protocols
  <1>4. RunKeeps(v, file, edits, args[r].protocol, "checking protocol", me[r])
    BY <1>1 DEF ApprovalInv
  <1>5. ASSUME passed, me[r].lock.version = v
        PROVE  Good(me[r].protocol)
    <2>1. VersionOf(me[r].protocol) = v
      BY <1>3, <1>5 DEF VersionAgrees, VersionOf, Doc
    <2>2. ParentKept(v, file, edits, me[r])
      BY <1>4, <1>5 DEF RunKeeps, RunPastLock, RunPastProtocol
    <2>3. valid
      BY <1>5
    <2>4. d.parent.path = ParentPath(v) /\ hash = Approved[ParentPath(v)]
      BY <2>1, <2>3, ParentIsPinned
    <2>5. Good(me[r].protocol) \/ me[r].parent = Approved[ParentPath(v)]
      BY <2>2, <2>4 DEF ParentKept
    <2> QED
      BY <2>1, <2>3, <2>5, ValidByProperIsGood
  <1>6. passed \in BOOLEAN
    BY DEF ValidRelock, VersionAgrees
  <1> HIDE DEF passed
  <1>7. passed => RunKeeps(v, file, edits, args[r].protocol, next, me[r])
    BY <1>5 DEF RunKeeps
  <1> HIDE DEF next
  <1> QED
    BY <1>1, <1>6, <1>7, RunKeepsApproval

\* The checks that are left do not look at the protocol.
LEMMA LastChecksKeepApproval ==
  ASSUME LockInv, NEW v, ApprovalInv(v), NEW r \in Runs, CheckCheckpoint(r) \/ CheckSeal(r)
  PROVE  ApprovalInv(v)'
  <1>1. PICK next \in {"checking seal", "started"} : \E passed : Proceed(r, passed, next)
    BY DEF CheckCheckpoint, CheckSeal
  <1>2. PICK passed : Proceed(r, passed, next)
    BY <1>1
  <1>3. PICK went \in BOOLEAN : Proceed(r, went, next)
    <2>1. Proceed(r, TRUE, next) \/ Proceed(r, FALSE, next)
      BY <1>2 DEF Proceed
    <2> QED
      BY <2>1
  <1>4. pc[r] \in {"checking checkpoint", "checking seal"} /\ UNCHANGED <<file, edits, args, me, dir>>
    BY DEF CheckCheckpoint, CheckSeal
  <1>5. RunKeeps(v, file, edits, args[r].protocol, pc[r], me[r])
    BY DEF ApprovalInv
  <1>6. me[r].lock.version = v => Good(me[r].protocol)
    BY <1>4, <1>5 DEF RunKeeps, RunPastLock, RunPastProtocol, RunPastRelock, RunPastCheckpoint
  <1>7. RunKeeps(v, file, edits, args[r].protocol, next, me[r])
    BY <1>1, <1>6 DEF RunKeeps
  <1> QED
    BY <1>3, <1>4, <1>7, RunKeepsApproval

-----------------------------------------------------------------------------
LEMMA InitApproves ==
  ASSUME Init, NEW v \in PinnedVersions, \A s \in Scenarios : s.edits <= 2
  PROVE  ApprovalInv(v)
  <1>1. PICK s \in Scenarios : edits = s.edits
    BY DEF Init
  <1>2. edits \in 0..2
    BY <1>1, ScenarioAssumption
  <1>3. \A q \in Process : pc[q] \in {"starting", "idle"}
    BY DEF Init
  <1>4. \A o \in DOMAIN dir : dir[o].lock = None
    BY DEF Init, EmptyDir
  <1>5. ASSUME NEW l \in Lockers
        PROVE  LockerKeeps(v, file, edits, args[l].protocol, pc[l], me[l])
    <2>1. pc[l] \in {"starting", "idle"}
      BY <1>3 DEF Process
    <2> QED
      BY <2>1 DEF LockerKeeps, PastRelock, PastSources, PastMixed, PastCalibration, PastValidation,
                  PastMonitor, PastChoice, PastHoldout, PastHashing
  <1>6. ASSUME NEW r \in Runs
        PROVE  RunKeeps(v, file, edits, args[r].protocol, pc[r], me[r])
    <2>1. pc[r] \in {"starting", "idle"}
      BY <1>3 DEF Process
    <2> QED
      BY <2>1 DEF RunKeeps, RunPastLock, RunPastProtocol, RunPastRelock, RunPastCheckpoint
  <1> QED
    BY <1>2, <1>4, <1>5, <1>6 DEF ApprovalInv, LockKept

LEMMA NextApproves ==
  ASSUME LockInv, NEW v \in PinnedVersions, ApprovalInv(v), [Next]_vars
  PROVE  ApprovalInv(v)'
  <1>1. ASSUME NEW l \in Lockers, Issue(l)
        PROVE  ApprovalInv(v)'
    BY <1>1, ReadingKeepsApproval, ValidatorApproves, ChoosingKeepsApproval,
       HashingApproves, SealingKeepsApproval, FailingKeepsApproval
    DEF Issue
  <1>2. ASSUME NEW r \in Runs, Use(r)
        PROVE  ApprovalInv(v)'
    BY <1>2, StartingKeepsApproval, ReadingTheLockKeepsApproval, HashingTheProtocolKeepsApproval,
       LoadingTheProtocolKeepsApproval, CheckingTheProtocolApproves, LastChecksKeepApproval
    DEF Use
  <1>3. ASSUME NEW p \in Paths, Replace(p)
        PROVE  ApprovalInv(v)'
    BY <1>3, ReplaceKeepsApproval
  <1>4. ASSUME UNCHANGED vars
        PROVE  ApprovalInv(v)'
    BY <1>4 DEF vars, ApprovalInv
  <1> QED
    BY <1>1, <1>2, <1>3, <1>4 DEF Next

Approvals == LockInv /\ \A v \in PinnedVersions : ApprovalInv(v)

LEMMA ApprovalsAlways ==
  ASSUME \A s \in Scenarios : s.edits <= 2
  PROVE  Spec => []Approvals
  <1>1. Init => Approvals
    BY InitInv, InitApproves DEF Approvals
  <1>2. Approvals /\ [Next]_vars => Approvals'
    <2> SUFFICES ASSUME Approvals, [Next]_vars
                 PROVE  Approvals'
      OBVIOUS
    <2>1. LockInv
      BY DEF Approvals
    <2>2. LockInv'
      BY <2>1, NextInv
    <2>3. ASSUME NEW v \in PinnedVersions
          PROVE  ApprovalInv(v)'
      <3>1. ApprovalInv(v)
        BY DEF Approvals
      <3> QED
        BY <2>1, <3>1, NextApproves
    <2> QED
      BY <2>2, <2>3 DEF Approvals
  <1> QED
    BY <1>1, <1>2, PTL DEF Spec

LEMMA StartedIsGood ==
  ASSUME LockInv, NEW v \in PinnedVersions, ApprovalInv(v), NEW r \in Started,
         VersionOf(me[r].protocol) = v
  PROVE  Without(Doc(r), RelockV14Metadata) = Without(Document[Approved["v1.0"]], {})
  <1>1. r \in Runs /\ pc[r] = "started"
    BY DEF Started
  <1>2. RunHolds(args[r].protocol, score, "started", me[r])
    BY <1>1 DEF LockInv
  <1>3. me[r].lock.version = v
    BY <1>2 DEF RunHolds, RunPastRelock, RunPastCheckpoint
  <1>4. RunKeeps(v, file, edits, args[r].protocol, "started", me[r])
    BY <1>1 DEF ApprovalInv
  <1>5. Good(me[r].protocol)
    BY <1>3, <1>4 DEF RunKeeps, RunPastLock, RunPastProtocol, RunPastRelock, RunPastCheckpoint
  <1> QED
    BY <1>5 DEF Good, Registered, Doc

\* A v1.3 relock that is run has the settings of the registered protocol when the
\* lock records that the gate of the mixed sources read it, whatever parent it names
\* and however many files are replaced: that gate compares its contract with that of
\* v1.2 (validate_mixed_source_shard_set), and v1.2 is pinned.
THEOREM V13RunsHaveTheContract ==
  Spec => [](\A r \in Started :
               VersionOf(me[r].protocol) = "1.3" /\ me[r].lock.mixed = me[r].protocol =>
                 Contract(Doc(r)) = Contract(Document[Approved["v1.0"]]))
  <1> DEFINE SameContract ==
               \A r \in Started :
                 VersionOf(me[r].protocol) = "1.3" /\ me[r].lock.mixed = me[r].protocol =>
                   Contract(Doc(r)) = Contract(Document[Approved["v1.0"]])
  <1>1. LockInv => SameContract
    <2> SUFFICES ASSUME LockInv, NEW r \in Started, me[r].lock.mixed = me[r].protocol
                 PROVE  Contract(Doc(r)) = Contract(Document[Approved["v1.0"]])
      OBVIOUS
    <2>1. r \in Runs /\ pc[r] = "started"
      BY DEF Started
    <2>2. args[r].protocol \in Protocols /\ RunHolds(args[r].protocol, score, "started", me[r])
      BY <2>1, RunFacts
    <2>3. Sound(score, me[r].lock) /\ me[r].protocol \in Replacements[args[r].protocol]
      BY <2>2 DEF RunHolds, RunPastLock, RunPastProtocol, RunPastRelock, RunPastCheckpoint
    <2>4. me[r].protocol # None
      BY <2>2, <2>3, NoneAssumption DEF Protocols
    <2> QED
      BY <2>3, <2>4 DEF Sound, ContractHolds, Doc
  <1> QED
    BY <1>1, LockInvAlways, PTL

\* The protocol a run starts with is approved: under v1.2 and v1.4, whose parent the
\* validator pins by path and hash, it differs from the registered one in seeds and
\* metadata only, for any number of lockers and runs, any documents and any
\* interleaving, when no more than two files are replaced meanwhile (a third
\* replacement defeats it); under v1.3, as above.
THEOREM RunsAreApproved ==
  ASSUME \A s \in Scenarios : s.edits <= 2
  PROVE  Spec => []StartedRunsAreApproved
  <1> DEFINE SameContract ==
               \A r \in Started :
                 VersionOf(me[r].protocol) = "1.3" /\ me[r].lock.mixed = me[r].protocol =>
                   Contract(Doc(r)) = Contract(Document[Approved["v1.0"]])
  <1>1. Approvals /\ SameContract => StartedRunsAreApproved
    <2> SUFFICES ASSUME Approvals, NEW r \in Started, VersionOf(me[r].protocol) # "1.3"
                 PROVE  Without(Doc(r), RelockV14Metadata) = Without(Document[Approved["v1.0"]], {})
      BY DEF StartedRunsAreApproved
    <2>1. VersionOf(me[r].protocol) \in PinnedVersions
      BY DEF Approvals, Started, LockInv, RunHolds, RunPastRelock, RunPastCheckpoint, Versions,
             PinnedVersions
    <2>2. LockInv /\ ApprovalInv(VersionOf(me[r].protocol))
      BY <2>1 DEF Approvals
    <2> QED
      BY <2>1, <2>2, StartedIsGood
  <1> QED
    BY <1>1, ApprovalsAlways, V13RunsHaveTheContract, PTL

-----------------------------------------------------------------------------
(* The lock directory is written once, and what that gives a run.          *)

OnceWritten(old, new) ==
  /\ DOMAIN new = DOMAIN old
  /\ \A o \in DOMAIN old : \A name \in DOMAIN EmptyDir :
       old[o][name] # None => new[o][name] = old[o][name]

LEMMA FreeNameIsWritten ==
  ASSUME LockInv, NEW l \in Lockers, args[l].output \in DOMAIN dir,
         NEW name \in DOMAIN EmptyDir, NEW content, Write(l, name, content), Output(l)[name] = None
  PROVE  OnceWritten(dir, dir')
  <1> DEFINE out == args[l].output
  <1>1. dir' = [dir EXCEPT ![out] = [dir[out] EXCEPT ![name] = content]]
    BY DEF Write
  <1>2. dir[out][name] = None
    BY DEF Output
  <1> HIDE DEF out
  <1>3. DOMAIN dir' = DOMAIN dir
    BY <1>1
  <1>4. ASSUME NEW o \in DOMAIN dir, NEW other \in DOMAIN EmptyDir, dir[o][other] # None
        PROVE  dir'[o][other] = dir[o][other]
    <2>1. CASE o # out
      BY <1>1, <2>1
    <2>2. CASE o = out
      <3>1. dir'[o] = [dir[o] EXCEPT ![name] = content] /\ other # name
        BY <1>1, <1>2, <1>4, <2>2
      <3>2. other \in DOMAIN dir[o]
        BY DEF LockInv, DirsHold
      <3> QED
        BY <3>1, <3>2
    <2> QED
      BY <2>1, <2>2
  <1> QED
    BY <1>3, <1>4 DEF OnceWritten

LEMMA NextWritesOnce ==
  ASSUME LockInv, [Next]_vars
  PROVE  OnceWritten(dir, dir')
  <1>1. UNCHANGED dir => OnceWritten(dir, dir')
    BY DEF OnceWritten
  <1>2. ASSUME NEW l \in Lockers, pc[l] # "idle",
               \E name \in {"lock", "artifact", "failure"} : \E content :
                 Write(l, name, content) /\ Output(l)[name] = None
        PROVE  OnceWritten(dir, dir')
    <2>1. args[l].output \in DOMAIN dir
      BY <1>2, LockerFacts
    <2>2. PICK name \in {"lock", "artifact", "failure"} : \E content :
            Write(l, name, content) /\ Output(l)[name] = None
      BY <1>2
    <2>3. name \in DOMAIN EmptyDir
      BY DEF EmptyDir
    <2> QED
      BY <2>1, <2>2, <2>3, FreeNameIsWritten
  <1>3. ASSUME NEW l \in Lockers, Issue(l), ~UNCHANGED dir
        PROVE  OnceWritten(dir, dir')
    <2>1. CASE WriteLock(l)
      BY <1>2, <1>3, <2>1 DEF WriteLock
    <2>2. CASE Seal(l)
      BY <1>2, <1>3, <2>2 DEF Seal
    <2>3. CASE WriteFailure(l)
      BY <1>2, <1>3, <2>3 DEF WriteFailure
    <2>4. CASE SealFailure(l)
      BY <1>2, <1>3, <2>4 DEF SealFailure
    <2>5. CASE Killed(l)
      BY <1>2, <1>3, <2>5 DEF Killed
    <2> QED
      BY <1>3, <2>1, <2>2, <2>3, <2>4, <2>5
      DEF Issue, LoadDocuments, LoadParent, CheckRelock, ResolveSources, MixedGate, GateCalibration,
          GateValidation, FormalGate, CheckMetrics, LoadMonitor, Calibrate, Validate, HashInputs,
          Claim, ClaimForFailure
  <1>4. ASSUME NEW r \in Runs, Use(r)
        PROVE  UNCHANGED dir
    BY <1>4 DEF Use, LoadConfiguration, LoadCheckpoint, ReadLock, HashProtocol, LoadProtocol,
                CheckProtocol, CheckCheckpoint, CheckSeal
  <1>5. ASSUME NEW p \in Paths, Replace(p)
        PROVE  UNCHANGED dir
    BY <1>5 DEF Replace
  <1> QED
    BY <1>1, <1>3, <1>4, <1>5 DEF Next, vars

\* What a run holds of the directory once it has read the lock, and has found it sealed.
Holds(r) ==
  /\ pc[r] \in RunPastLock =>
       me[r].lock \notin {None, Torn} /\ Output(r).lock = me[r].lock
  /\ pc[r] = "started" =>
       /\ Output(r).artifact \notin {None, Torn}
       /\ Output(r).artifact = [status |-> "passed", lock |-> me[r].lock]
HeldInv == \A r \in Runs : Holds(r)

\* The steps of a run, as far as the directory is concerned.
LEMMA RunStepOnTheDirectory ==
  ASSUME LockInv, NEW r \in Runs, Holds(r), Use(r)
  PROVE  Holds(r)'
  <1>1. pc[r] # "idle"
    BY DEF Use, LoadConfiguration, LoadCheckpoint, ReadLock, HashProtocol, LoadProtocol,
           CheckProtocol, CheckCheckpoint, CheckSeal
  <1>2. r \in Process /\ DOMAIN me[r] = DOMAIN NoLocals /\ r \notin Lockers
    BY <1>1, RunFacts, NoneAssumption
  <1>3. UNCHANGED <<args, dir>>
    BY DEF Use, LoadConfiguration, LoadCheckpoint, ReadLock, HashProtocol, LoadProtocol,
           CheckProtocol, CheckCheckpoint, CheckSeal
  <1>4. ASSUME NEW passed, NEW next, Proceed(r, passed, next)
        PROVE  pc'[r] = "refused" \/ (passed /\ pc'[r] = next)
    BY <1>2, <1>4 DEF Proceed, LockInv, ShapeHolds
  <1>5. ASSUME NEW my, Keep(r, my)
        PROVE  me'[r] = my
    BY <1>2, <1>5, Keeps
  <1>6. pc'[r] = "refused" => Holds(r)'
    BY DEF Holds, RunPastLock, RunPastProtocol, RunPastRelock, RunPastCheckpoint
  <1>7. CASE LoadConfiguration(r) \/ LoadCheckpoint(r)
    <2>1. pc'[r] \in {"refused", "loading checkpoint", "reading lock"}
      BY <1>4, <1>7 DEF LoadConfiguration, LoadCheckpoint
    <2> QED
      BY <2>1 DEF Holds, RunPastLock, RunPastProtocol, RunPastRelock, RunPastCheckpoint
  <1>8. CASE ReadLock(r)
    <2> DEFINE my == [me[r] EXCEPT !.lock = Output(r).lock]
    <2>1. \/ pc'[r] = "refused"
          \/ Output(r).lock \notin {None, Torn} /\ pc'[r] = "hashing protocol"
      BY <1>4, <1>8 DEF ReadLock
    <2>2. me'[r] = my
      BY <1>5, <1>8 DEF ReadLock
    <2>3. my.lock = Output(r).lock
      BY <1>2 DEF NoLocals
    <2> QED
      BY <1>3, <1>6, <2>1, <2>2, <2>3 DEF Holds, Output
  <1>9. ASSUME NEW next, pc'[r] = "refused" \/ pc'[r] = next, next # "started",
               pc[r] \in RunPastLock, me'[r].lock = me[r].lock
        PROVE  Holds(r)'
    BY <1>3, <1>6, <1>9 DEF Holds, Output
  <1>10. CASE HashProtocol(r) \/ CheckProtocol(r) \/ CheckCheckpoint(r)
    <2>1. pc'[r] \in {"refused", "loading protocol", "checking checkpoint", "checking seal"}
      BY <1>4, <1>10 DEF HashProtocol, CheckProtocol, CheckCheckpoint
    <2>2. UNCHANGED me /\ pc[r] \in RunPastLock
      BY <1>10 DEF HashProtocol, CheckProtocol, CheckCheckpoint, RunPastLock, RunPastProtocol,
                   RunPastRelock
    <2> QED
      BY <1>9, <2>1, <2>2
  <1>11. CASE LoadProtocol(r)
    <2> DEFINE d == Document[file[Target(r)]]
               kept == [me[r] EXCEPT !.protocol = file[Target(r)], !.parent = file[d.parent.path]]
    <2>1. pc'[r] = "refused" \/ pc'[r] = "checking protocol"
      BY <1>4, <1>11 DEF LoadProtocol
    <2>2. Keep(r, kept) \/ UNCHANGED me
      BY <1>11 DEF LoadProtocol
    <2>3. kept.lock = me[r].lock
      BY <1>2 DEF NoLocals
    <2> HIDE DEF kept
    <2>4. me'[r].lock = me[r].lock
      BY <1>5, <2>2, <2>3
    <2>5. pc[r] \in RunPastLock
      BY <1>11 DEF LoadProtocol, RunPastLock
    <2> QED
      BY <1>9, <2>1, <2>4, <2>5
  <1>12. CASE CheckSeal(r)
    <2> DEFINE artifact == Output(r).artifact
    <2>1. \/ pc'[r] = "refused"
          \/ /\ artifact \notin {None, Torn} /\ pc'[r] = "started"
             /\ artifact = [status |-> "passed", lock |-> Output(r).lock]
      BY <1>4, <1>12 DEF CheckSeal
    <2>2. UNCHANGED me /\ pc[r] \in RunPastLock
      BY <1>12 DEF CheckSeal, RunPastLock, RunPastProtocol, RunPastRelock, RunPastCheckpoint
    <2>3. me[r].lock \notin {None, Torn} /\ Output(r).lock = me[r].lock
      BY <2>2 DEF Holds
    <2> QED
      BY <1>3, <1>6, <2>1, <2>2, <2>3 DEF Holds, Output
  <1> QED
    BY <1>7, <1>8, <1>10, <1>11, <1>12 DEF Use

\* A step of another leaves what the run holds, as the directory is written once.
LEMMA OthersLeaveWhatIsHeld ==
  ASSUME LockInv, NEW r \in Runs, Holds(r), OnceWritten(dir, dir'), UNCHANGED args,
         pc'[r] = pc[r], me'[r] = me[r]
  PROVE  Holds(r)'
  <1>1. CASE pc[r] \notin RunPastLock
    BY <1>1 DEF Holds, RunPastLock, RunPastProtocol, RunPastRelock, RunPastCheckpoint
  <1>2. CASE pc[r] \in RunPastLock
    <2>1. pc[r] # "idle"
      BY <1>2 DEF RunPastLock, RunPastProtocol, RunPastRelock, RunPastCheckpoint
    <2>2. args[r].output \in DOMAIN dir
      BY <2>1, RunFacts DEF LockInv, ArgsHold
    <2>3. "lock" \in DOMAIN EmptyDir /\ "artifact" \in DOMAIN EmptyDir
      BY DEF EmptyDir
    <2>4. Output(r).lock = me[r].lock /\ me[r].lock \notin {None, Torn}
      BY <1>2 DEF Holds
    <2>5. Output(r)'.lock = Output(r).lock
      BY <2>2, <2>3, <2>4 DEF Output, OnceWritten
    <2>6. ASSUME pc[r] = "started"
          PROVE  Output(r)'.artifact = Output(r).artifact
      <3>1. Output(r).artifact # None
        BY <2>6 DEF Holds
      <3> QED
        BY <2>2, <2>3, <3>1 DEF Output, OnceWritten
    <2> QED
      BY <1>2, <2>4, <2>5, <2>6 DEF Holds
  <1> QED
    BY <1>1, <1>2

LEMMA NextHeld ==
  ASSUME LockInv, HeldInv, [Next]_vars
  PROVE  HeldInv'
  <1>1. OnceWritten(dir, dir')
    BY NextWritesOnce
  <1> SUFFICES ASSUME NEW r \in Runs
               PROVE  Holds(r)'
    BY DEF HeldInv
  <1>2. Holds(r)
    BY DEF HeldInv
  <1>3. CASE Use(r)
    BY <1>2, <1>3, RunStepOnTheDirectory
  <1>4. ASSUME UNCHANGED args, pc'[r] = pc[r], me'[r] = me[r]
        PROVE  Holds(r)'
    BY <1>1, <1>2, <1>4, OthersLeaveWhatIsHeld
  <1>5. ASSUME NEW q \in Process, q # r,
               \/ \E passed : \E next : Proceed(q, passed, next)
               \/ \E place : pc' = [pc EXCEPT ![q] = place],
               UNCHANGED me \/ \E my : Keep(q, my), UNCHANGED args
        PROVE  Holds(r)'
    <2>1. pc'[r] = pc[r] /\ me'[r] = me[r]
      BY <1>5 DEF Proceed, Keep, LockInv, ShapeHolds, Process
    <2> QED
      BY <1>4, <1>5, <2>1
  <1>6. ASSUME NEW l \in Lockers, Issue(l)
        PROVE  Holds(r)'
    <2>1. l \in Process /\ l # r
      BY NoneAssumption DEF Process
    <2>2. /\ \/ \E passed : \E next : Proceed(l, passed, next)
             \/ \E place : pc' = [pc EXCEPT ![l] = place]
          /\ UNCHANGED me \/ \E my : Keep(l, my)
          /\ UNCHANGED args
      BY <1>6
      DEF Issue, LoadDocuments, LoadParent, CheckRelock, ResolveSources, MixedGate, GateCalibration,
          GateValidation, FormalGate, CheckMetrics, LoadMonitor, Calibrate, Validate, HashInputs,
          Claim, WriteLock, Seal, ClaimForFailure, WriteFailure, SealFailure, Killed
    <2> QED
      BY <1>5, <2>1, <2>2
  <1>7. ASSUME NEW other \in Runs, other # r, Use(other)
        PROVE  Holds(r)'
    <2>1. other \in Process
      BY DEF Process
    <2>2. /\ \E passed : \E next : Proceed(other, passed, next)
          /\ UNCHANGED me \/ \E my : Keep(other, my)
          /\ UNCHANGED args
      BY <1>7
      DEF Use, LoadConfiguration, LoadCheckpoint, ReadLock, HashProtocol, LoadProtocol,
          CheckProtocol, CheckCheckpoint, CheckSeal
    <2> QED
      BY <1>5, <1>7, <2>1, <2>2
  <1>8. CASE \E p \in Paths : Replace(p)
    BY <1>4, <1>8 DEF Replace
  <1>9. CASE UNCHANGED vars
    BY <1>4, <1>9 DEF vars
  <1> QED
    BY <1>3, <1>6, <1>7, <1>8, <1>9 DEF Next

LEMMA HeldAlways == Spec => [](LockInv /\ HeldInv)
  <1>1. Init => HeldInv
    BY DEF Init, HeldInv, Holds, Process, RunPastLock, RunPastProtocol, RunPastRelock, RunPastCheckpoint
  <1>2. LockInv /\ HeldInv /\ [Next]_vars => HeldInv'
    BY NextHeld
  <1> QED
    BY <1>1, <1>2, InitInv, NextInv, PTL DEF Spec

\* A file of a lock directory, once there, is never replaced (write_json_once and
\* ensure_empty_output_dir): not by a second locker with the same output, not by
\* the failure path of one that lost, and not when a locker is killed.
THEOREM LockFilesAreWrittenOnce == Spec => [][OnceWritten(dir, dir')]_vars
  <1>1. LockInv /\ [Next]_vars => [OnceWritten(dir, dir')]_vars
    BY NextWritesOnce
  <1> QED
    BY <1>1, LockInvAlways, PTL DEF Spec

\* The lock a run goes by is the one in its directory, and the one that was sealed
\* as passed, however many lockers share the directory and whenever they write or
\* are killed: _validate_lock reads the lock first and the artifact last.
THEOREM StartedRunsHoldTheSealedLock ==
  Spec => [](\A r \in Started :
               /\ Output(r).lock = me[r].lock
               /\ Output(r).artifact = [status |-> "passed", lock |-> me[r].lock])
  <1>1. LockInv /\ HeldInv =>
          \A r \in Started :
            /\ Output(r).lock = me[r].lock
            /\ Output(r).artifact = [status |-> "passed", lock |-> me[r].lock]
    BY DEF HeldInv, Holds, Started, RunPastLock, RunPastProtocol, RunPastRelock, RunPastCheckpoint
  <1> QED
    BY <1>1, HeldAlways, PTL
=============================================================================
