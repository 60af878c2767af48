------------------------ MODULE PlacementRulesProofs ------------------------
(***************************************************************************)
(* Proofs that the operators of PlacementRules agree with the reference    *)
(* definitions of MCPlacementRules, for label maps of any finite size, any *)
(* number of pods, policies and nodes, and any weights and scores.  The    *)
(* least number of a set (NatHasLeast) stands in for induction.            *)
(***************************************************************************)
EXTENDS MCPlacementRules, FiniteSetTheorems, WellFoundedInduction, TLAPS

---------------------------------------------------------------------------
(* Least and greatest numbers *)

\* Every non-empty set of natural numbers has a least element.
LEMMA NatHasLeast ==
    ASSUME NEW S \in SUBSET Nat, S # {}
    PROVE  \E x \in S : \A y \in S : x <= y
<1> DEFINE less == {ss \in Nat \X Nat : ss[1] < ss[2]}
<1>1. IsWellFoundedOn(less, Nat)
  BY NatLessThanWellFounded DEF OpToRel
<1> HIDE DEF less
<1>2. PICK x \in S : \A y \in S : <<y, x>> \notin less
  BY <1>1, WFMin
<1>3. ASSUME NEW y \in S
      PROVE  x <= y
  <2>1. x \in Nat /\ y \in Nat
    OBVIOUS
  <2>2. y < x => <<y, x>> \in less
    BY <2>1 DEF less
  <2> QED
    BY <1>2, <2>1, <2>2
<1> QED
  BY <1>3

\* Max of a finite, non-empty set of integers is what its name says: of the
\* element that the fewest others exceed none can be exceeded.
LEMMA MaxIsGreatest ==
    ASSUME NEW S \in SUBSET Int, IsFiniteSet(S), S # {}
    PROVE  Max(S) \in S /\ \A y \in S : y <= Max(S)
<1> DEFINE above(x) == {y \in S : y > x}
           ranks == {Cardinality(above(x)) : x \in S}
<1>1. ASSUME NEW x \in S
      PROVE  IsFiniteSet(above(x)) /\ Cardinality(above(x)) \in Nat
  BY FS_Subset, FS_CardinalityType, above(x) \in SUBSET S
<1>2. PICK r \in ranks : \A k \in ranks : r <= k
  <2>1. ranks \in SUBSET Nat /\ ranks # {}
    BY <1>1
  <2> HIDE DEF ranks
  <2> QED
    BY <2>1, NatHasLeast
<1>3. PICK x \in S : r = Cardinality(above(x))
  OBVIOUS
<1>4. ASSUME NEW y \in S, y > x
      PROVE  FALSE
  <2>1. above(y) \in SUBSET above(x) /\ y \in above(x) /\ y \notin above(y)
    <3>1. x \in Int /\ y \in Int
      OBVIOUS
    <3>2. \A z \in S : z > y => z > x
      BY <1>4, <3>1
    <3>3. y \in above(x) /\ y \notin above(y)
      BY <1>4, <3>1
    <3>4. above(y) \in SUBSET above(x)
      BY <3>2
    <3> QED
      BY <3>3, <3>4
  <2>2. Cardinality(above(y)) < Cardinality(above(x))
    <3> HIDE DEF above
    <3> QED
      BY <1>1, <2>1, FS_Subset
  <2>3. Cardinality(above(y)) \in ranks
    OBVIOUS
  <2> QED
    <3> HIDE DEF above, ranks
    <3> QED
      BY <1>1, <1>2, <1>3, <2>2, <2>3
<1>5. \A y \in S : x >= y
  BY <1>4
<1> QED
  BY <1>5 DEF Max

\* Min of a finite, non-empty set of integers is the opposite of the greatest
\* opposite number.
LEMMA MinIsLeast ==
    ASSUME NEW S \in SUBSET Int, IsFiniteSet(S), S # {}
    PROVE  Min(S) \in S /\ \A y \in S : Min(S) <= y
<1> DEFINE below(x) == {y \in S : y < x}
           ranks == {Cardinality(below(x)) : x \in S}
<1>1. ASSUME NEW x \in S
      PROVE  IsFiniteSet(below(x)) /\ Cardinality(below(x)) \in Nat
  BY FS_Subset, FS_CardinalityType, below(x) \in SUBSET S
<1>2. PICK r \in ranks : \A k \in ranks : r <= k
  <2>1. ranks \in SUBSET Nat /\ ranks # {}
    BY <1>1
  <2> HIDE DEF ranks
  <2> QED
    BY <2>1, NatHasLeast
<1>3. PICK x \in S : r = Cardinality(below(x))
  OBVIOUS
<1>4. ASSUME NEW y \in S, y < x
      PROVE  FALSE
  <2>1. below(y) \in SUBSET below(x) /\ y \in below(x) /\ y \notin below(y)
    <3>1. x \in Int /\ y \in Int
      OBVIOUS
    <3>2. \A z \in S : z < y => z < x
      BY <1>4, <3>1
    <3>3. y \in below(x) /\ y \notin below(y)
      BY <1>4, <3>1
    <3>4. below(y) \in SUBSET below(x)
      BY <3>2
    <3> QED
      BY <3>3, <3>4
  <2>2. Cardinality(below(y)) < Cardinality(below(x))
    <3> HIDE DEF below
    <3> QED
      BY <1>1, <2>1, FS_Subset
  <2>3. Cardinality(below(y)) \in ranks
    OBVIOUS
  <2> QED
    <3> HIDE DEF below, ranks
    <3> QED
      BY <1>1, <1>2, <1>3, <2>2, <2>3
<1>5. \A y \in S : x <= y
  BY <1>4
<1> QED
  BY <1>5 DEF Min

---------------------------------------------------------------------------
(* Labels *)

\* The two ways of matching labels agree, whatever the maps, but for the labels
\* that are wanted to be empty and are not there: with these set aside the wanted
\* keys are among the labels' keys, and the test of the lengths says nothing more.
LEMMA MatchingIsSelecting ==
    ASSUME NEW l, NEW want, IsFiniteSet(DOMAIN l), IsFiniteSet(DOMAIN want)
    PROVE  SelectorMatches(want, l) <=>
               /\ HasMatchingLabels(l, want)
               /\ \A k \in DOMAIN want : want[k] = "" => k \in DOMAIN l
<1>1. ASSUME NEW k \in DOMAIN want
      PROVE  k \in DOMAIN l /\ l[k] = want[k] <=>
                 /\ Lookup(l, k) = want[k]
                 /\ want[k] = "" => k \in DOMAIN l
  <2>1. CASE k \in DOMAIN l
    BY <2>1, Zenon DEF Lookup
  <2>2. CASE k \notin DOMAIN l
    <3>1. Lookup(l, k) = ""
      BY <2>2, Zenon DEF Lookup
    <3> QED
      BY <2>2, <3>1, Zenon
  <2> QED
    BY <2>1, <2>2
<1>2. ASSUME DOMAIN want \subseteq DOMAIN l
      PROVE  Cardinality(DOMAIN l) >= Cardinality(DOMAIN want)
  BY <1>2, FS_Subset, FS_CardinalityType
<1>3. ASSUME SelectorMatches(want, l)
      PROVE  HasMatchingLabels(l, want) /\ \A k \in DOMAIN want : want[k] = "" => k \in DOMAIN l
  <2>1. DOMAIN want \subseteq DOMAIN l
    BY <1>3, Zenon DEF SelectorMatches
  <2> QED
    BY <1>1, <1>2, <1>3, <2>1, Zenon DEF SelectorMatches, HasMatchingLabels
<1>4. ASSUME HasMatchingLabels(l, want), \A k \in DOMAIN want : want[k] = "" => k \in DOMAIN l
      PROVE  SelectorMatches(want, l)
  BY <1>1, <1>4, Zenon DEF SelectorMatches, HasMatchingLabels
<1> QED
  BY <1>3, <1>4, Zenon

---------------------------------------------------------------------------
(* The target size *)

\* A count or a percentage, and the two rules that use it.
SizeOK == size \in [type : {"int", "percent"}, val : 0..100] /\ total \in Nat

\* The greatest number not above v percent of n is s, and what it leaves is the
\* least number not below the rest.
Rounded(s, v, n) ==
    /\ s \in 0..n /\ 100 * s <= v * n
    /\ \A k \in 0..n : 100 * k <= v * n => k <= s
    /\ n - s \in 0..n /\ 100 * (n - s) >= (100 - v) * n
    /\ \A k \in 0..n : 100 * k >= (100 - v) * n => n - s <= k

LEMMA PercentRounds ==
    ASSUME NEW v \in 0..100, NEW n \in Nat
    PROVE  Rounded((v * n) \div 100, v, n)
<1> DEFINE x == v * n
<1>1. x \in Nat /\ x <= 100 * n
  OBVIOUS
<1>2. (100 - v) * n = 100 * n - x
  OBVIOUS
<1>3. v * n = x
  OBVIOUS
<1> HIDE DEF x
<1> QED
  BY <1>1, <1>2, <1>3 DEF Rounded

\* One more pod raises the share by at most one.
LEMMA PercentGrows ==
    ASSUME NEW v \in 0..100, NEW n \in Nat
    PROVE  /\ (v * n) \div 100 \in Nat
           /\ (v * (n + 1)) \div 100 - (v * n) \div 100 \in {0, 1}
<1> DEFINE x == v * n
<1>1. x \in Nat /\ v * (n + 1) = x + v
  OBVIOUS
<1>2. v * n = x
  OBVIOUS
<1> HIDE DEF x
<1> QED
  BY <1>1, <1>2

\* Rounding of the percentage, for Must and for MustNot.
LEMMA Rounds == SizeOK => TargetRoundsDown
<1> SUFFICES ASSUME SizeOK, size.type = "percent"
             PROVE  TargetRoundsDown
  BY DEF TargetRoundsDown
<1> DEFINE v == size.val
           s == (v * total) \div 100
           low == {k \in 0..total : 100 * k <= v * total}
           high == {k \in 0..total : 100 * k >= (100 - v) * total}
<1>1. v \in 0..100 /\ total \in Nat
  BY DEF SizeOK
<1>2. Rounded(s, v, total)
  <2> HIDE DEF v
  <2> QED
    BY Zenon, <1>1, PercentRounds
<1> HIDE DEF v, s
<1>3. s \in low /\ \A k \in low : k <= s
  BY <1>2 DEF Rounded
<1>4. total - s \in high /\ \A k \in high : total - s <= k
  BY <1>2 DEF Rounded
<1>5. low \in SUBSET (0..total) /\ high \in SUBSET (0..total)
  OBVIOUS
<1>6. TargetSize(Must, total) = s /\ TargetSize(MustNot, total) = total - s
  BY DEF TargetSize, ScaledValue, Must, MustNot, v, s
<1> HIDE DEF low, high
<1>7. /\ low \in SUBSET Int /\ high \in SUBSET Int
      /\ IsFiniteSet(low) /\ IsFiniteSet(high)
  <2>1. IsFiniteSet(0..total) /\ (0..total) \in SUBSET Int
    BY <1>1, FS_Interval, 0 \in Int, total \in Int
  <2> QED
    BY <1>5, <2>1, FS_Subset
<1>8. s = Max(low)
  <2>1. Max(low) \in low /\ s <= Max(low)
    BY <1>3, <1>7, MaxIsGreatest
  <2>2. Max(low) <= s
    BY <1>3, <2>1
  <2>3. s \in Int /\ Max(low) \in Int
    BY <1>3, <1>7, <2>1
  <2> QED
    BY <2>1, <2>2, <2>3
<1>9. total - s = Min(high)
  <2>1. Min(high) \in high /\ Min(high) <= total - s
    BY <1>4, <1>7, MinIsLeast
  <2>2. total - s <= Min(high)
    BY <1>4, <2>1
  <2>3. total - s \in Int /\ Min(high) \in Int
    BY <1>4, <1>7, <2>1
  <2> QED
    BY <2>1, <2>2, <2>3
<1> QED
  BY <1>6, <1>8, <1>9 DEF TargetRoundsDown, low, high, v

\* One more pod, for Must and for MustNot.
LEMMA Grows == SizeOK => TargetGrowsByOne
<1> SUFFICES ASSUME SizeOK
             PROVE  TargetGrowsByOne
  OBVIOUS
<1> DEFINE v == size.val
           s(n) == (v * n) \div 100
<1>1. v \in 0..100 /\ total \in Nat /\ total + 1 \in Nat
  BY DEF SizeOK
<1>2. s(total) \in Nat /\ s(total + 1) - s(total) \in {0, 1}
  <2> HIDE DEF v
  <2> QED
    BY <1>1, PercentGrows
<1>3. s(total + 1) \in Nat
  <2> HIDE DEF v
  <2> QED
    BY <1>1, PercentGrows
<1>4. ASSUME NEW n \in Nat
      PROVE  /\ TargetSize(Must, n) = IF size.type = "int" THEN v ELSE s(n)
             /\ TargetSize(MustNot, n) = n - IF size.type = "int" THEN v ELSE s(n)
  BY DEF TargetSize, ScaledValue, Must, MustNot
<1> HIDE DEF v, s
<1> QED
  BY <1>1, <1>2, <1>3, <1>4 DEF TargetGrowsByOne

---------------------------------------------------------------------------
(* The policy that governs a pod *)

\* In a sorted arrangement nothing is lighter than the head: the first that
\* were would be lighter than its predecessor.
LEMMA HeadIsLightest ==
    ASSUME NEW n \in Nat, NEW w \in [1..n -> Int], NEW s \in [1..n -> 1..n],
           \A i, j \in 1..n : i # j => s[i] # s[j],
           \A k \in 1..(n - 1) : ~(w[s[k]] > w[s[k + 1]]),
           NEW j \in 1..n
    PROVE  w[s[1]] <= w[j]
<1>1. PICK m \in 1..n : s[m] = j
  <2>1. IsFiniteSet(1..n)
    BY FS_Interval, 1 \in Int, n \in Int
  <2>2. s \in Injection(1..n, 1..n)
    BY DEF Injection, IsInjective
  <2>3. s \in Surjection(1..n, 1..n)
    BY <2>1, <2>2, FS_Injection
  <2> QED
    BY <2>3 DEF Surjection
<1> DEFINE lighter == {k \in 1..n : w[s[k]] < w[s[1]]}
<1>2. lighter = {}
  <2>1. SUFFICES ASSUME lighter # {}
                 PROVE  FALSE
    OBVIOUS
  <2>2. PICK k \in lighter : \A h \in lighter : k <= h
    <3>1. lighter \in SUBSET Nat
      OBVIOUS
    <3> HIDE DEF lighter
    <3> QED
      BY <2>1, <3>1, NatHasLeast
  <2>3. k \in 1..n /\ 1 \in 1..n /\ w[s[k]] < w[s[1]] /\ k # 1
    OBVIOUS
  <2>4. k - 1 \in 1..(n - 1) /\ k - 1 \in 1..n /\ (k - 1) + 1 = k
    BY <2>3
  <2>5. k - 1 \notin lighter
    BY SMTT(60), <2>2, <2>4
  <2>6. ~(w[s[k - 1]] < w[s[1]])
    BY <2>4, <2>5
  <2>7. ~(w[s[k - 1]] > w[s[k]])
    BY <2>4
  <2>8. w[s[k - 1]] \in Int /\ w[s[k]] \in Int /\ w[s[1]] \in Int
    BY <2>3, <2>4
  <2>9. \A a, b, c \in Int : ~(a < c) /\ ~(a > b) => ~(b < c)
    OBVIOUS
  <2> HIDE DEF lighter
  <2> QED
    BY Zenon, <2>3, <2>6, <2>7, <2>8, <2>9
<1>3. 1 \in 1..n /\ s[1] \in 1..n /\ w[s[1]] \in Int /\ w[j] \in Int
  OBVIOUS
<1>4. ~(w[s[m]] < w[s[1]])
  BY <1>2
<1> QED
  BY <1>1, <1>3, <1>4

\* Every lightest one is the head of some sorted arrangement: put each at the
\* place that those before it leave, and that one before its equals.
LEMMA LightestCanComeFirst ==
    ASSUME NEW n \in Nat, NEW w \in [1..n -> Int], NEW i \in 1..n,
           \A j \in 1..n : w[i] <= w[j]
    PROVE  \E s \in [1..n -> 1..n] :
             /\ \A a, b \in 1..n : a # b => s[a] # s[b]
             /\ \A k \in 1..(n - 1) : ~(w[s[k]] > w[s[k + 1]])
             /\ s[1] = i
<1> DEFINE D == 1..n
           before(j, k) == \/ w[j] < w[k]
                           \/ w[j] = w[k] /\ k # i /\ (j = i \/ j < k)
           ahead(k) == {j \in D : before(j, k)}
           rank == [k \in D |-> Cardinality(ahead(k)) + 1]
<1>1. IsFiniteSet(D) /\ Cardinality(D) = n
  BY FS_Interval, 1 \in Int, n \in Int
<1>2. \A j, k \in D : w[j] \in Int /\ w[k] \in Int /\ j \in Int /\ k \in Int
  OBVIOUS
<1>3. \A j \in D : ~before(j, j) /\ ~before(j, i)
  BY <1>2
<1>4. \A j, k \in D : j # k => before(j, k) \/ before(k, j)
  BY <1>2
<1>5. \A j, k, m \in D : before(j, k) /\ before(k, m) => before(j, m)
  BY <1>2
<1>6. \A j, k \in D : w[j] < w[k] => before(j, k)
  OBVIOUS
<1> HIDE DEF before
<1>7. ASSUME NEW k \in D
      PROVE  /\ ahead(k) \in SUBSET D /\ IsFiniteSet(ahead(k))
             /\ Cardinality(ahead(k)) \in Nat /\ rank[k] \in D
  <2>1. ahead(k) \in SUBSET (D \ {k}) /\ ahead(k) \in SUBSET D
    BY <1>3
  <2>2. IsFiniteSet(D \ {k}) /\ Cardinality(D \ {k}) = n - 1
    BY <1>1, FS_RemoveElement
  <2>3. rank[k] = Cardinality(ahead(k)) + 1
    OBVIOUS
  <2> HIDE DEF rank, ahead
  <2>4. IsFiniteSet(ahead(k)) /\ Cardinality(ahead(k)) <= n - 1
    BY <2>1, <2>2, FS_Subset
  <2>5. Cardinality(ahead(k)) \in Nat
    BY <2>4, FS_CardinalityType
  <2> QED
    BY <2>1, <2>3, <2>4, <2>5
<1>8. ASSUME NEW j \in D, NEW k \in D, before(j, k)
      PROVE  rank[j] < rank[k]
  <2>1. ahead(j) \in SUBSET ahead(k)
    BY <1>5, <1>8
  <2>2. j \in ahead(k) /\ j \notin ahead(j)
    BY <1>3, <1>8
  <2>3. rank[j] = Cardinality(ahead(j)) + 1 /\ rank[k] = Cardinality(ahead(k)) + 1
    OBVIOUS
  <2> HIDE DEF rank, ahead
  <2>4. /\ IsFiniteSet(ahead(k)) /\ ahead(j) # ahead(k)
        /\ Cardinality(ahead(j)) \in Nat /\ Cardinality(ahead(k)) \in Nat
    BY <1>7, <2>2
  <2>5. /\ Cardinality(ahead(j)) <= Cardinality(ahead(k))
        /\ Cardinality(ahead(j)) # Cardinality(ahead(k))
    BY <2>1, <2>4, FS_Subset
  <2> QED
    BY <2>3, <2>4, <2>5
<1>9. rank[i] = 1
  <2>1. ahead(i) = {}
    BY <1>3
  <2>2. Cardinality(ahead(i)) = 0
    BY <2>1, FS_EmptySet
  <2> QED
    BY <2>2
<1> HIDE DEF rank
<1>10. rank \in [D -> D]
  BY <1>7 DEF rank
<1>11. \A j, k \in D : j # k => rank[j] # rank[k]
  <2>1. \A k \in D : rank[k] \in Int
    BY <1>7, \A x \in D : x \in Int
  <2> HIDE DEF ahead, D
  <2> QED
    BY <1>4, <1>8, <2>1
<1>12. \A m \in D : \E k \in D : rank[k] = m
  <2>1. rank \in Injection(D, D)
    BY <1>10, <1>11 DEF Injection, IsInjective
  <2> HIDE DEF D
  <2> QED
    BY <1>1, <2>1, FS_Injection DEF Surjection
<1> DEFINE s == [m \in D |-> CHOOSE k \in D : rank[k] = m]
<1>13. \A m \in D : s[m] \in D /\ rank[s[m]] = m
  <2> HIDE DEF D
  <2> QED
    BY <1>12
<1>14. s \in [D -> D]
  BY <1>13
<1> HIDE DEF s
<1>15. \A a, b \in D : a # b => s[a] # s[b]
  BY <1>13
<1>16. ASSUME NEW k \in 1..(n - 1), w[s[k]] > w[s[k + 1]]
       PROVE  FALSE
  <2>1. k \in D /\ k + 1 \in D
    OBVIOUS
  <2>2. before(s[k + 1], s[k])
    <3>1. s[k] \in D /\ s[k + 1] \in D
      BY <1>13, <2>1
    <3>2. w[s[k + 1]] < w[s[k]]
      BY <1>2, <1>16, <3>1
    <3> QED
      BY <1>6, <3>1, <3>2
  <2>3. rank[s[k + 1]] < rank[s[k]]
    BY <1>8, <1>13, <2>1, <2>2
  <2> QED
    BY <1>13, <2>1, <2>3
<1>17. s[1] = i
  <2>1. 1 \in D /\ i \in D
    OBVIOUS
  <2> HIDE DEF D
  <2> QED
    BY <1>9, <1>11, <1>13, <2>1
<1> QED
  BY <1>14, <1>15, <1>16, <1>17

\* A list of policies, known by their weights.
WeightsOK == \E n \in Nat \ {0} : weights \in [1..n -> Int]

\* Lightest returns what sorting may put first, for lists of any length.
LEMMA LightestIsHead == WeightsOK => LightestComesFirst
<1> SUFFICES ASSUME NEW n \in Nat \ {0}, weights \in [1..n -> Int]
             PROVE  LightestComesFirst
  BY DEF WeightsOK
<1> DEFINE policy(i) == [name |-> i, weight |-> weights[i]]
           least == {i \in 1..n : \A j \in 1..n : weights[i] <= weights[j]}
<1>1. DOMAIN weights = 1..n /\ Cardinality(DOMAIN weights) = n
  BY FS_Interval, 1 \in Int, n \in Int
<1>2. Lightest({policy(i) : i \in DOMAIN weights}) = {policy(i) : i \in least}
  <2> DEFINE all == {policy(i) : i \in 1..n}
  <2>1. \A i \in 1..n : policy(i) \in all /\ policy(i).weight = weights[i]
    OBVIOUS
  <2>2. \A pp \in all : \E i \in 1..n : pp = policy(i)
    OBVIOUS
  <2> HIDE DEF policy, all
  <2>3. ASSUME NEW i \in 1..n
        PROVE  i \in least <=> policy(i) \in Lightest(all)
    BY <2>1, <2>2 DEF Lightest
  <2>4. Lightest(all) \in SUBSET all /\ least \in SUBSET (1..n)
    BY DEF Lightest
  <2>5. Lightest(all) = {policy(i) : i \in least}
    <3> HIDE DEF least
    <3> QED
      BY <2>2, <2>3, <2>4
  <2> QED
    BY <1>1, <2>5 DEF all
<1>3. ASSUME NEW s
      PROVE  s \in Arrangements <=>
                /\ s \in [1..n -> 1..n]
                /\ \A a, b \in 1..n : a # b => s[a] # s[b]
                /\ \A k \in 1..(n - 1) : ~(weights[s[k]] > weights[s[k + 1]])
  <2>1. s \in [1..n -> 1..n] => Len(s) = n
    OBVIOUS
  <2> QED
    BY <1>1, <2>1 DEF Arrangements, SetToSeqs
<1>4. {s[1] : s \in Arrangements} = least
  <2>1. ASSUME NEW s \in Arrangements
        PROVE  s[1] \in least
    <3>1. s[1] \in 1..n
      BY <1>3, 1 \in 1..n
    <3>2. \A j \in 1..n : weights[s[1]] <= weights[j]
      BY <1>3, HeadIsLightest
    <3> QED
      BY <3>1, <3>2
  <2>2. ASSUME NEW i \in least
        PROVE  \E s \in Arrangements : s[1] = i
    <3>1. i \in 1..n /\ \A j \in 1..n : weights[i] <= weights[j]
      OBVIOUS
    <3>2. PICK s \in [1..n -> 1..n] :
             /\ \A a, b \in 1..n : a # b => s[a] # s[b]
             /\ \A k \in 1..(n - 1) : ~(weights[s[k]] > weights[s[k + 1]])
             /\ s[1] = i
      <4> HIDE DEF least, policy
      <4>1. n \in Nat
        OBVIOUS
      <4>2. \A w \in [1..n -> Int] : \A m \in 1..n :
              (\A j \in 1..n : w[m] <= w[j]) =>
                \E s \in [1..n -> 1..n] :
                   /\ \A a, b \in 1..n : a # b => s[a] # s[b]
                   /\ \A k \in 1..(n - 1) : ~(w[s[k]] > w[s[k + 1]])
                   /\ s[1] = m
        BY Zenon, <4>1, LightestCanComeFirst
      <4> QED
        BY Zenon, <3>1, <4>2
    <3> QED
      BY <1>3, <3>2
  <2> QED
    BY <2>1, <2>2
<1>5. {policy(s[1]) : s \in Arrangements} = {policy(i) : i \in least}
  <2> HIDE DEF policy, least
  <2> QED
    BY <1>4
<1> QED
  BY <1>2, <1>5 DEF LightestComesFirst

---------------------------------------------------------------------------
(* Scores *)

\* The scores of the nodes, of which there is at least one.
ScoresOK == \E n \in Nat \ {0} : scores \in [1..n -> Int]

\* NormalizeScore keeps order and range, for any number of nodes.
LEMMA NormalizeIsMonotone == ScoresOK => NormalizeKeepsOrder
<1> SUFFICES ASSUME NEW k \in Nat \ {0}, scores \in [1..k -> Int]
             PROVE  NormalizeKeepsOrder
  BY DEF ScoresOK
<1> DEFINE values == {scores[n] : n \in DOMAIN scores}
           lo == Min(values)
           hi == Max(values)
           normal == NormalizeScore(scores)
<1>1. /\ values \in SUBSET Int /\ values # {} /\ IsFiniteSet(values)
      /\ Cardinality(values) \in Nat
  <2>1. scores \in Surjection(1..k, values) /\ IsFiniteSet(1..k)
    BY FS_Interval, 1 \in Int, k \in Int DEF Surjection
  <2>2. 1 \in 1..k
    OBVIOUS
  <2>3. IsFiniteSet(values)
    <3> HIDE DEF values
    <3> QED
      BY <2>1, FS_Surjection
  <2> QED
    BY <2>2, <2>3, FS_CardinalityType
<1>2. lo \in values /\ hi \in values /\ \A v \in values : lo <= v /\ v <= hi
  <2> HIDE DEF values
  <2> QED
    BY <1>1, MaxIsGreatest, MinIsLeast
<1>3. lo \in Int /\ hi \in Int /\ lo <= hi
  <2> HIDE DEF lo, hi, values
  <2> QED
    BY <1>1, <1>2
<1>4. ASSUME NEW n \in 1..k
      PROVE  /\ scores[n] \in values
             /\ normal[n] = IF hi - lo = 0 THEN 0
                            ELSE ((scores[n] - lo) * (100 - 0)) \div (hi - lo) + 0
  <2>1. n \in DOMAIN scores
    OBVIOUS
  <2> QED
    BY Zenon, <2>1 DEF NormalizeScore, MaxNodeScore, MinNodeScore
<1>5. \A v \in values : \E n \in 1..k : scores[n] = v
  OBVIOUS
<1>6. NormalizeKeepsOrder <=>
         /\ \A m, n \in 1..k : scores[m] <= scores[n] => normal[m] <= normal[n]
         /\ \A n \in 1..k : normal[n] \in 0..100
         /\ Cardinality(values) > 1 =>
               (\E n \in 1..k : normal[n] = 0) /\ (\E n \in 1..k : normal[n] = 100)
  <2>1. DOMAIN scores = 1..k
    OBVIOUS
  <2>2. NormalizeKeepsOrder <=>
          /\ \A m, n \in DOMAIN scores : scores[m] <= scores[n] => normal[m] <= normal[n]
          /\ {normal[n] : n \in DOMAIN scores} \subseteq 0..100
          /\ Cardinality(values) > 1 => {0, 100} \subseteq {normal[n] : n \in DOMAIN scores}
    BY Zenon DEF NormalizeKeepsOrder, MinNodeScore, MaxNodeScore
  <2> DEFINE range == {normal[n] : n \in DOMAIN scores}
  <2> HIDE DEF lo, hi, normal, values
  <2>3. \A v : v \in range <=> \E n \in 1..k : normal[n] = v
    BY <2>1
  <2> HIDE DEF range
  <2>4. range \subseteq 0..100 <=> \A n \in 1..k : normal[n] \in 0..100
    BY <2>3
  <2>5. {0, 100} \subseteq range <=> 0 \in range /\ 100 \in range
    OBVIOUS
  <2>6. \A m : m \in DOMAIN scores <=> m \in 1..k
    BY <2>1
  <2> QED
    BY ZenonT(60), <2>2, <2>3, <2>4, <2>5, <2>6 DEF range
<1> HIDE DEF values, lo, hi, normal
<1>7. CASE lo = hi
  <2>1. \A n \in 1..k : normal[n] = 0
    BY <1>3, <1>4, <1>7
  <2>2. \A v \in values : v = lo
    BY <1>1, <1>2, <1>3, <1>7
  <2>3. values = {lo}
    BY <1>2, <2>2
  <2>4. Cardinality(values) = 1
    BY <2>3, FS_Singleton
  <2> QED
    BY <1>6, <2>1, <2>4
<1>8. CASE lo < hi
  <2> DEFINE r == hi - lo
             stretched(x) == (x * 100) \div r
  <2>1. r \in Nat \ {0}
    BY <1>3, <1>8
  <2>2. ASSUME NEW n \in 1..k
        PROVE  /\ scores[n] - lo \in Nat /\ scores[n] - lo <= r
               /\ scores[n] \in Int
               /\ normal[n] = ((scores[n] - lo) * (100 - 0)) \div r + 0
    <3>1. scores[n] \in values /\ scores[n] \in Int
      BY <1>1, <1>4
    <3>2. lo <= scores[n] /\ scores[n] <= hi
      BY <1>2, <3>1
    <3>3. scores[n] - lo \in Nat /\ scores[n] - lo <= r
      BY <1>3, <3>1, <3>2
    <3>4. ~(hi - lo = 0)
      BY <1>3, <1>8
    <3> QED
      BY Zenon, <1>4, <3>1, <3>3, <3>4
  <2> HIDE DEF r
  <2>3. ASSUME NEW x \in Nat, x <= r
        PROVE  /\ stretched(x) \in 0..100
               /\ (x * (100 - 0)) \div r + 0 = stretched(x)
    BY <2>1, <2>3
  <2>4. ASSUME NEW x \in Nat, NEW y \in Nat, x <= y
        PROVE  stretched(x) <= stretched(y)
    BY <2>1, <2>4
  <2>5. stretched(0) = 0 /\ stretched(r) = 100
    BY <2>1
  <2>6. ASSUME NEW n \in 1..k
        PROVE  normal[n] = stretched(scores[n] - lo)
    <3> DEFINE x == scores[n] - lo
    <3>1. x \in Nat /\ x <= r /\ normal[n] = (x * (100 - 0)) \div r + 0
      BY <2>2
    <3> HIDE DEF x
    <3>2. normal[n] = stretched(x)
      BY <2>3, <3>1
    <3> QED
      BY <3>2 DEF x
  <2> HIDE DEF stretched
  <2>7. \A n \in 1..k : normal[n] \in 0..100
    BY <2>2, <2>3, <2>6
  <2>8. ASSUME NEW m \in 1..k, NEW n \in 1..k, scores[m] <= scores[n]
        PROVE  normal[m] <= normal[n]
    <3>1. scores[m] - lo <= scores[n] - lo
      BY SMTT(60), <1>3, <2>2, <2>8
    <3> QED
      BY <2>2, <2>4, <2>6, <3>1
  <2>9. (\E n \in 1..k : normal[n] = 0) /\ (\E n \in 1..k : normal[n] = 100)
    <3>1. PICK m \in 1..k : scores[m] = lo
      BY <1>2, <1>5
    <3>2. PICK n \in 1..k : scores[n] = hi
      BY <1>2, <1>5
    <3>3. scores[m] - lo = 0 /\ scores[n] - lo = r
      BY <1>3, <3>1, <3>2 DEF r
    <3> QED
      BY <2>5, <2>6, <3>3
  <2> QED
    BY <1>6, <2>7, <2>8, <2>9
<1> QED
  BY <1>3, <1>7, <1>8

---------------------------------------------------------------------------
(* The properties *)

\* The inputs are what the operators are called with.
InputsOK ==
    /\ IsFiniteSet(DOMAIN labels) /\ IsFiniteSet(DOMAIN wanted)
    /\ SizeOK
    /\ WeightsOK
    /\ ScoresOK

\* Every input is of this kind, and no step changes one.
THEOREM InputsCorrect == Spec => []InputsOK
<1>1. IsFiniteSet(DOMAIN << >>)
  BY FS_EmptySet
<1>2. \A n \in Nat : <<0>> \in [1..1 -> Int]
  OBVIOUS
<1>3. ASSUME NEW m \in LabelMaps
      PROVE  IsFiniteSet(DOMAIN m)
  <2>1. DOMAIN m \in SUBSET Keys
    BY DEF LabelMaps
  <2> QED
    BY <2>1, FS_Subset, RulesAssumption
<1>4. Init => InputsOK
  <2>1. ASSUME LabelInputs
        PROVE  InputsOK
    BY <1>2, <1>3, <2>1 DEF LabelInputs, InputsOK, SizeOK, WeightsOK, ScoresOK
  <2>2. ASSUME SizeInputs
        PROVE  InputsOK
    BY <1>1, <1>2, <2>2, RulesAssumption DEF SizeInputs, InputsOK, SizeOK, WeightsOK, ScoresOK
  <2>3. ASSUME WeightInputs
        PROVE  InputsOK
    <3>1. PICK n \in 1..MaxPolicies : weights \in [1..n -> Weights]
      BY <2>3 DEF WeightInputs
    <3>2. WeightsOK
      <4>1. n \in Nat \ {0}
        BY RulesAssumption
      <4>2. weights \in [1..n -> Int]
        BY <3>1, RulesAssumption
      <4> QED
        BY <4>1, <4>2 DEF WeightsOK
    <3> QED
      BY <1>1, <1>2, <2>3, <3>2 DEF WeightInputs, InputsOK, SizeOK, ScoresOK
  <2>4. ASSUME ScoreInputs
        PROVE  InputsOK
    <3>1. PICK n \in 1..MaxNodes : scores \in [1..n -> ScoreValues]
      BY <2>4 DEF ScoreInputs
    <3>2. ScoresOK
      <4>1. n \in Nat \ {0}
        BY RulesAssumption
      <4>2. scores \in [1..n -> Int]
        BY <3>1, RulesAssumption
      <4> QED
        BY <4>1, <4>2 DEF ScoresOK
    <3> QED
      BY <1>1, <1>2, <2>4, <3>2 DEF ScoreInputs, InputsOK, SizeOK, WeightsOK
  <2> QED
    BY <2>1, <2>2, <2>3, <2>4 DEF Init
<1>5. InputsOK /\ [Next]_vars => InputsOK'
  BY DEF Next, vars, InputsOK, SizeOK, WeightsOK, ScoresOK
<1> QED
  BY <1>4, <1>5, PTL DEF Spec

\* The pods that a policy's count sees are those it governs, but for pods that lack
\* a label which the policy wants to be empty, whatever the labels and the selector.
THEOREM GovernedListed == Spec => []GovernedPodsAreListed
<1>1. InputsOK => GovernedPodsAreListed
  <2> SUFFICES ASSUME InputsOK PROVE GovernedPodsAreListed
    OBVIOUS
  <2>1. IsFiniteSet(DOMAIN labels) /\ IsFiniteSet(DOMAIN wanted)
    BY DEF InputsOK
  <2> QED
    BY <2>1, MatchingIsSelecting, Zenon DEF GovernedPodsAreListed
<1> QED
  BY <1>1, InputsCorrect, PTL

\* The percentage is rounded down, for MustNot against the policy's own pods.
THEOREM TargetRounded == Spec => []TargetRoundsDown
<1>1. InputsOK => TargetRoundsDown
  BY Rounds DEF InputsOK
<1> QED
  BY <1>1, InputsCorrect, PTL

\* One more pod raises the target by at most one.
THEOREM TargetGrows == Spec => []TargetGrowsByOne
<1>1. InputsOK => TargetGrowsByOne
  BY Grows DEF InputsOK
<1> QED
  BY <1>1, InputsCorrect, PTL

\* The policies that may govern are those that sorting may put first.
THEOREM LightestFirst == Spec => []LightestComesFirst
<1>1. InputsOK => LightestComesFirst
  BY LightestIsHead DEF InputsOK
<1> QED
  BY <1>1, InputsCorrect, PTL

\* Normalised scores keep their order and fill the range.
THEOREM NormalizeOrdered == Spec => []NormalizeKeepsOrder
<1>1. InputsOK => NormalizeKeepsOrder
  BY NormalizeIsMonotone DEF InputsOK
<1> QED
  BY <1>1, InputsCorrect, PTL
=============================================================================
