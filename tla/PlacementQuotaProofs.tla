------------------------ MODULE PlacementQuotaProofs ------------------------
(***************************************************************************)
(* Proofs about PlacementQuota and QuotaDepartures, for every finite set   *)
(* of pods and every sensible rule.  IInv is inductive: the type invariant *)
(* makes the sets finite and nested, and the two bounds need each other    *)
(* only through the arithmetic of Quota, which grows by at most one per    *)
(* pod (QuotaGrowth).  HInv says what departures leave of the two bounds.  *)
(***************************************************************************)
EXTENDS QuotaDepartures, FiniteSetTheorems, TLAPS

---------------------------------------------------------------------------
(* The target size *)

\* A percentage of d pods more, at most 100, is at most d pods more.
LEMMA PercentStep ==
    ASSUME NEW m \in Nat, NEW d \in Nat, NEW v \in 0..100
    PROVE  /\ (v * m) \div 100 \in Nat
           /\ (v * m) \div 100 <= (v * (m + d)) \div 100
           /\ (v * (m + d)) \div 100 <= (v * m) \div 100 + d
<1> DEFINE x == v * m
           y == v * d
<1>1. x \in Nat /\ y \in Nat /\ y <= 100 * d
  OBVIOUS
<1>2. v * (m + d) = x + y
  OBVIOUS
<1>3. v * m = x
  OBVIOUS
<1> HIDE DEF x, y
<1>4. (x + 100 * d) \div 100 = x \div 100 + d
  BY <1>1
<1>5. /\ x \div 100 \in Nat
      /\ x \div 100 <= (x + y) \div 100
      /\ (x + y) \div 100 <= (x + 100 * d) \div 100
  BY <1>1
<1> QED
  BY <1>2, <1>3, <1>4, <1>5

\* The target of m + d pods exceeds that of m pods by at least 0 and at most d.
LEMMA TargetStep ==
    ASSUME NEW m \in Nat, NEW d \in Nat
    PROVE  /\ TargetSize(Rule, m) \in Int
           /\ TargetSize(Rule, m) <= TargetSize(Rule, m + d)
           /\ TargetSize(Rule, m + d) <= TargetSize(Rule, m) + d
<1>1. CASE Rule.targetSize.type = "int" /\ Rule.targetSize.val \in Nat
  BY <1>1 DEF TargetSize, ScaledValue
<1>2. CASE Rule.targetSize.type = "percent" /\ Rule.targetSize.val \in 0..100
  <2> DEFINE v == Rule.targetSize.val
             s(n) == (v * n) \div 100
  <2>1. TargetSize(Rule, m) = IF Rule.action = "MustNot" THEN m - s(m) ELSE s(m)
    BY <1>2 DEF TargetSize, ScaledValue
  <2>2. TargetSize(Rule, m + d) = IF Rule.action = "MustNot" THEN (m + d) - s(m + d) ELSE s(m + d)
    BY <1>2 DEF TargetSize, ScaledValue
  <2>3. s(m) \in Nat /\ s(m) <= s(m + d) /\ s(m + d) <= s(m) + d
    BY <1>2, PercentStep
  <2>4. s(m + d) \in Nat
    BY <1>2, PercentStep, m + d \in Nat, 0 \in Nat
  <2> HIDE DEF s
  <2> QED
    BY <2>1, <2>2, <2>3, <2>4
<1> QED
  BY <1>1, <1>2, RuleAssumption

\* The quota lies between none and all of the pods, never shrinks when pods
\* arrive, and grows by at most one per pod.
LEMMA QuotaGrowth ==
    ASSUME NEW m \in Nat, NEW d \in Nat
    PROVE  /\ Quota(m) \in 0..m
           /\ Quota(m) <= Quota(m + d)
           /\ Quota(m + d) <= Quota(m) + d
<1>1. /\ TargetSize(Rule, m) \in Int
      /\ TargetSize(Rule, m) <= TargetSize(Rule, m + d)
      /\ TargetSize(Rule, m + d) <= TargetSize(Rule, m) + d
  BY TargetStep
<1>2. TargetSize(Rule, m + d) \in Int
  BY TargetStep, m + d \in Nat, 0 \in Nat
<1> QED
  BY <1>1, <1>2 DEF Quota

\* The first of these facts alone.
LEMMA QuotaType == ASSUME NEW m \in Nat PROVE Quota(m) \in 0..m
BY QuotaGrowth, 0 \in Nat

\* Monotonicity of the quota.
LEMMA QuotaMonotone ==
    ASSUME NEW m \in Nat, NEW n \in Nat, m <= n
    PROVE  Quota(m) <= Quota(n)
<1>1. n - m \in Nat /\ n = m + (n - m)
  OBVIOUS
<1> QED
  BY <1>1, QuotaGrowth

\* Comparing fewer pods than there are with the target is comparing them with
\* the quota.
LEMMA TargetIsQuota ==
    ASSUME NEW k \in Nat, NEW n \in Nat, k < n
    PROVE  k < TargetSize(Rule, n) <=> k < Quota(n)
<1>1. TargetSize(Rule, n) \in Int
  BY TargetStep, 0 \in Nat
<1> QED
  BY <1>1 DEF Quota

---------------------------------------------------------------------------
(* Type correctness *)

\* The pods are nested: preferred in decided in arrived in Pods.
THEOREM TypeCorrect == Spec => []TypeOK
<1>1. Init => TypeOK
  BY DEF Init, TypeOK
<1>2. TypeOK /\ [Next]_vars => TypeOK'
  <2> SUFFICES ASSUME TypeOK, [Next]_vars
               PROVE  TypeOK'
    OBVIOUS
  <2>1. CASE Disrupt
    BY <2>1 DEF Disrupt, TypeOK
  <2>2. ASSUME NEW p \in Pods, Arrive(p)
        PROVE  TypeOK'
    BY <2>2 DEF Arrive, TypeOK
  <2>3. ASSUME NEW p \in Pods, Decide(p)
        PROVE  TypeOK'
    BY <2>3 DEF Decide, TypeOK
  <2>4. ASSUME NEW p \in Pods, Depart(p)
        PROVE  TypeOK'
    BY <2>4 DEF Depart, TypeOK
  <2>5. CASE UNCHANGED vars
    BY <2>5 DEF vars, TypeOK
  <2> QED
    BY <2>1, <2>2, <2>3, <2>4, <2>5 DEF Next
<1> QED
  BY <1>1, <1>2, PTL DEF Spec

\* The sets are finite and their sizes ordered.
LEMMA Sizes ==
    ASSUME TypeOK
    PROVE  /\ IsFiniteSet(arrived) /\ IsFiniteSet(decided) /\ IsFiniteSet(preferred)
           /\ Cardinality(arrived) \in Nat
           /\ Cardinality(decided) \in Nat
           /\ Cardinality(preferred) \in Nat
           /\ Cardinality(preferred) <= Cardinality(decided)
           /\ Cardinality(decided) <= Cardinality(arrived)
<1>1. IsFiniteSet(arrived)
  BY PodsAssumption, FS_Subset DEF TypeOK
<1>2. IsFiniteSet(decided) /\ Cardinality(decided) <= Cardinality(arrived)
  BY <1>1, FS_Subset DEF TypeOK
<1>3. IsFiniteSet(preferred) /\ Cardinality(preferred) <= Cardinality(decided)
  BY <1>2, FS_Subset DEF TypeOK
<1> QED
  BY <1>1, <1>2, <1>3, FS_CardinalityType

---------------------------------------------------------------------------
(* What one decision does to the number of preferred pods *)

\* The decision's test, with the pod's own preference left out of the count, in
\* terms of the quota; and the sizes of the sets after the decision.
LEMMA DecisionSizes ==
    ASSUME TypeOK, NEW p \in Pods, Decide(p)
    PROVE  /\ Wanted(p) <=> Cardinality(preferred \ {p}) < Quota(Cardinality(arrived))
           /\ Cardinality(preferred \ {p}) \in Nat
           /\ Cardinality(preferred) = Cardinality(preferred \ {p}) + (IF p \in preferred THEN 1 ELSE 0)
           /\ Cardinality(preferred') = Cardinality(preferred \ {p}) + (IF Wanted(p) THEN 1 ELSE 0)
           /\ Cardinality(decided') = Cardinality(decided) + (IF p \in decided THEN 0 ELSE 1)
           /\ Cardinality(decided') <= Cardinality(arrived)
<1> DEFINE others == preferred \ {p}
<1>1. IsFiniteSet(arrived) /\ IsFiniteSet(decided) /\ IsFiniteSet(preferred)
      /\ Cardinality(arrived) \in Nat /\ Cardinality(decided) \in Nat /\ Cardinality(preferred) \in Nat
  BY Sizes
<1>2. IsFiniteSet(others) /\ Cardinality(others) \in Nat
  BY <1>1, FS_RemoveElement, FS_CardinalityType
<1>3. Cardinality(preferred) = Cardinality(others) + (IF p \in preferred THEN 1 ELSE 0)
  BY <1>1, <1>2, FS_RemoveElement
<1>4. Cardinality(others \union {p}) = Cardinality(others) + 1
  BY <1>2, FS_AddElement
<1>5. preferred' = IF Wanted(p) THEN others \union {p} ELSE others
  BY DEF Decide
<1>6. Cardinality(others) < Cardinality(arrived)
  <2>1. others \union {p} \in SUBSET arrived
    BY DEF TypeOK, Decide
  <2> QED
    BY <1>1, <1>2, <1>4, <2>1, FS_Subset
<1>7. Wanted(p) <=> Cardinality(others) < Quota(Cardinality(arrived))
  BY <1>1, <1>2, <1>6, TargetIsQuota DEF Wanted
<1>8. Cardinality(decided') = Cardinality(decided) + (IF p \in decided THEN 0 ELSE 1)
  <2>1. decided' = decided \union {p}
    BY DEF Decide
  <2>2. Cardinality(decided \union {p}) = IF p \in decided THEN Cardinality(decided) ELSE Cardinality(decided) + 1
    BY <1>1, FS_AddElement
  <2> QED
    BY <1>1, <2>1, <2>2
<1>9. Cardinality(decided') <= Cardinality(arrived)
  <2>1. decided' \in SUBSET arrived
    BY DEF TypeOK, Decide
  <2> QED
    BY <1>1, <2>1, FS_Subset
<1> QED
  BY <1>2, <1>3, <1>4, <1>5, <1>7, <1>8, <1>9

---------------------------------------------------------------------------
(* The share of the pods *)

IInv == TypeOK /\ NeverTooMany /\ NeverTooFew

\* Each kind of step preserves the two bounds.
LEMMA BoundsInductive == IInv /\ TypeOK' /\ [Next]_vars => IInv'
<1> SUFFICES ASSUME IInv, TypeOK', [Next]_vars
             PROVE  NeverTooMany' /\ NeverTooFew'
  BY DEF IInv
<1> USE DEF IInv
<1>1. /\ Cardinality(arrived) \in Nat /\ Cardinality(decided) \in Nat /\ Cardinality(preferred) \in Nat
      /\ IsFiniteSet(arrived)
      /\ Cardinality(decided) <= Cardinality(arrived)
  BY Sizes
<1>2. CASE Disrupt
  BY <1>2 DEF Disrupt, NeverTooMany, NeverTooFew
<1>3. ASSUME NEW p \in Pods, Arrive(p)
      PROVE  NeverTooMany' /\ NeverTooFew'
  <2>1. Cardinality(arrived') \in Nat /\ Cardinality(arrived) <= Cardinality(arrived')
    BY <1>1, <1>3, FS_AddElement DEF Arrive
  <2>2. Quota(Cardinality(arrived)) <= Quota(Cardinality(arrived'))
    BY <1>1, <2>1, QuotaMonotone
  <2>3. Quota(Cardinality(arrived)) \in Int /\ Quota(Cardinality(arrived')) \in Int
    BY <1>1, <2>1, QuotaType
  <2> QED
    BY <1>1, <1>3, <2>2, <2>3 DEF Arrive, NeverTooMany, NeverTooFew
<1>4. ASSUME NEW p \in Pods, Decide(p)
      PROVE  NeverTooMany' /\ NeverTooFew'
  <2> DEFINE others == Cardinality(preferred \ {p})
             quota  == Quota(Cardinality(arrived))
  <2>1. /\ Wanted(p) <=> others < quota
        /\ others \in Nat
        /\ Cardinality(preferred) = others + (IF p \in preferred THEN 1 ELSE 0)
        /\ Cardinality(preferred') = others + (IF Wanted(p) THEN 1 ELSE 0)
        /\ Cardinality(decided') = Cardinality(decided) + (IF p \in decided THEN 0 ELSE 1)
        /\ Cardinality(decided') <= Cardinality(arrived)
    BY <1>4, DecisionSizes
  <2>0. Cardinality(decided') \in Nat
    BY <1>1, <2>1
  <2>2. /\ quota \in Int
        /\ Quota(Cardinality(decided)) \in Int
        /\ Quota(Cardinality(decided')) \in Int
        /\ Quota(Cardinality(decided')) <= quota
    <3>1. quota \in Int /\ Quota(Cardinality(decided)) \in Int
      BY <1>1, QuotaType
    <3>2. Quota(Cardinality(decided')) \in Int
      BY <2>0, QuotaType
    <3>3. Quota(Cardinality(decided')) <= quota
      BY <1>1, <2>0, <2>1, QuotaMonotone
    <3> QED
      BY <3>1, <3>2, <3>3
  <2>3. Cardinality(decided') = Cardinality(decided) + 1 =>
            Quota(Cardinality(decided')) <= Quota(Cardinality(decided)) + 1
    BY <1>1, QuotaGrowth, 1 \in Nat
  <2>4. p \in preferred => p \in decided
    BY DEF TypeOK
  <2>5. arrived' = arrived /\ intact' = intact
    BY <1>4 DEF Decide
  <2> HIDE DEF others, quota
  <2>6. NeverTooMany'
    BY <1>1, <2>1, <2>2, <2>5 DEF NeverTooMany, quota
  <2>7. NeverTooFew'
    <3>1. CASE ~Wanted(p)
      BY <3>1, <2>1, <2>2 DEF NeverTooFew
    <3>2. CASE Wanted(p) /\ p \in decided
      BY <3>2, <1>1, <2>1, <2>2, <2>5 DEF NeverTooFew
    <3>3. CASE Wanted(p) /\ p \notin decided
      BY <3>3, <1>1, <2>1, <2>2, <2>3, <2>4, <2>5 DEF NeverTooFew
    <3> QED
      BY <3>1, <3>2, <3>3
  <2> QED
    BY <2>6, <2>7
<1>5. ASSUME NEW p \in Pods, Depart(p)
      PROVE  NeverTooMany' /\ NeverTooFew'
  BY <1>5 DEF Depart, NeverTooMany, NeverTooFew
<1>6. CASE UNCHANGED vars
  BY <1>6 DEF vars, NeverTooMany, NeverTooFew
<1> QED
  BY <1>2, <1>3, <1>4, <1>5, <1>6 DEF Next

\* The inductive invariant holds in every reachable state.
THEOREM Invariance == Spec => []IInv
<1>1. Init => IInv
  <2> SUFFICES ASSUME Init
               PROVE  IInv
    OBVIOUS
  <2>1. TypeOK
    BY DEF Init, TypeOK
  <2>2. Cardinality(preferred) = 0 /\ Cardinality(arrived) = 0 /\ Cardinality(decided) = 0
    BY FS_EmptySet DEF Init
  <2>3. Quota(0) = 0
    BY QuotaType
  <2> QED
    BY <2>1, <2>2, <2>3 DEF IInv, NeverTooMany, NeverTooFew
<1> QED
  BY <1>1, BoundsInductive, TypeCorrect, PTL DEF Spec

\* As long as no deletion is asked for, the preferred pods are never more than
\* the policy's share of the arrived pods.
THEOREM TargetNeverExceeded == Spec => []NeverTooMany
<1>1. IInv => NeverTooMany
  BY DEF IInv
<1> QED
  BY <1>1, Invariance, PTL

\* ...nor less than its share of the decided pods.
THEOREM TargetNeverMissed == Spec => []NeverTooFew
<1>1. IInv => NeverTooFew
  BY DEF IInv
<1> QED
  BY <1>1, Invariance, PTL

\* When every arrived pod is decided the share is exact.
THEOREM ShareExact == Spec => []Exact
<1>1. IInv => Exact
  <2> SUFFICES ASSUME IInv, intact, decided = arrived
               PROVE  Cardinality(preferred) = Quota(Cardinality(arrived))
    BY DEF Exact
  <2>1. Cardinality(preferred) \in Nat /\ Cardinality(arrived) \in Nat
    BY Sizes DEF IInv
  <2>2. Quota(Cardinality(arrived)) \in Int
    BY <2>1, QuotaType
  <2> QED
    BY <2>1, <2>2 DEF IInv, NeverTooMany, NeverTooFew
<1> QED
  BY <1>1, Invariance, PTL

\* While no deletion is asked for, no decision takes a preference away: when p
\* is decided again its own preference is not counted, so the others are fewer
\* than the quota.
THEOREM PreferenceStays == Spec => NeverRevoked
<1>1. IInv /\ [Next]_vars => [intact => preferred \subseteq preferred']_vars
  <2> SUFFICES ASSUME IInv, Next, intact
               PROVE  preferred \subseteq preferred'
    OBVIOUS
  <2>1. CASE Disrupt
    BY <2>1 DEF Disrupt
  <2>2. ASSUME NEW p \in Pods, Arrive(p)
        PROVE  preferred \subseteq preferred'
    BY <2>2 DEF Arrive
  <2>3. ASSUME NEW p \in Pods, Decide(p)
        PROVE  preferred \subseteq preferred'
    <3>1. CASE p \notin preferred
      BY <3>1, <2>3 DEF Decide
    <3>2. CASE p \in preferred
      <4>1. /\ Wanted(p) <=> Cardinality(preferred \ {p}) < Quota(Cardinality(arrived))
            /\ Cardinality(preferred \ {p}) \in Nat
            /\ Cardinality(preferred) = Cardinality(preferred \ {p}) + 1
        BY <3>2, <2>3, DecisionSizes DEF IInv
      <4>2. Quota(Cardinality(arrived)) \in Int
        BY Sizes, QuotaType DEF IInv
      <4>3. Wanted(p)
        BY <4>1, <4>2 DEF IInv, NeverTooMany
      <4> QED
        BY <4>3, <2>3 DEF Decide
    <3> QED
      BY <3>1, <3>2
  <2>4. ASSUME NEW p \in Pods, Depart(p)
        PROVE  preferred \subseteq preferred'
    BY <2>4 DEF Depart
  <2> QED
    BY <2>1, <2>2, <2>3, <2>4 DEF Next
<1> QED
  BY <1>1, Invariance, PTL DEF Spec, NeverRevoked

---------------------------------------------------------------------------
(* Departures *)

\* The pods that were decided since the last departure, or are preferred anyway.
Settled == since \union preferred

\* Either the share is not exceeded or no decision since the last departure adds to
\* that; and either all of these were for the selected nodes, or the settled
\* pods have their share.
HInv ==
    /\ TypeOK
    /\ since \subseteq arrived
    /\ Cardinality(preferred) <= Quota(Cardinality(arrived)) \/ preferred \intersect since = {}
    /\ since \subseteq preferred \/ Cardinality(preferred) >= Quota(Cardinality(Settled))

LEMMA RecordedSizes ==
    ASSUME HInv
    PROVE  /\ IsFiniteSet(arrived) /\ IsFiniteSet(Settled) /\ IsFiniteSet(since)
           /\ Cardinality(arrived) \in Nat /\ Cardinality(Settled) \in Nat
           /\ Cardinality(since) \in Nat /\ Cardinality(preferred) \in Nat
           /\ Cardinality(since) <= Cardinality(Settled)
           /\ Cardinality(Settled) <= Cardinality(arrived)
           /\ Cardinality(since) <= Cardinality(arrived)
<1>1. IsFiniteSet(arrived) /\ Cardinality(preferred) \in Nat
  BY Sizes DEF HInv
<1>2. since \subseteq Settled /\ Settled \subseteq arrived
  BY DEF HInv, TypeOK, Settled
<1> QED
  BY <1>1, <1>2, FS_Subset, FS_CardinalityType

LEMMA HistoryStep == HInv /\ TypeOK' /\ [RecordedNext]_recordedVars => HInv'
<1> SUFFICES ASSUME HInv, TypeOK', [RecordedNext]_recordedVars
             PROVE  HInv'
  OBVIOUS
<1>0. /\ IsFiniteSet(arrived) /\ IsFiniteSet(Settled)
      /\ Cardinality(arrived) \in Nat /\ Cardinality(Settled) \in Nat /\ Cardinality(preferred) \in Nat
      /\ Cardinality(Settled) <= Cardinality(arrived)
      /\ TypeOK
  BY RecordedSizes DEF HInv
<1>1. CASE Disrupt /\ UNCHANGED since
  BY <1>1 DEF Disrupt, HInv, Settled
<1>2. ASSUME NEW p \in Pods, Arrive(p), UNCHANGED since
      PROVE  HInv'
  <2>0. arrived' = arrived \union {p} /\ IsFiniteSet(arrived) /\ Cardinality(arrived) \in Nat
    BY <1>0, <1>2 DEF Arrive
  <2>1. Cardinality(arrived') \in Nat /\ Cardinality(arrived) <= Cardinality(arrived')
    BY <2>0, FS_AddElement
  <2>2. Quota(Cardinality(arrived)) <= Quota(Cardinality(arrived'))
    BY <1>0, <2>1, QuotaMonotone
  <2>3. Quota(Cardinality(arrived)) \in Int /\ Quota(Cardinality(arrived')) \in Int
    BY <1>0, <2>1, QuotaType
  <2>4. Settled' = Settled /\ preferred' = preferred /\ since' \subseteq arrived'
    BY <1>2 DEF Arrive, Settled, HInv
  <2> QED
    BY <1>0, <1>2, <2>2, <2>3, <2>4 DEF HInv
<1>3. ASSUME NEW p \in Pods, Decide(p), since' = since \union {p}
      PROVE  HInv'
  <2> DEFINE others == Cardinality(preferred \ {p})
             quota  == Quota(Cardinality(arrived))
             share  == Quota(Cardinality(Settled))
             next   == Quota(Cardinality(Settled'))
  <2>1. /\ Wanted(p) <=> others < quota
        /\ others \in Nat
        /\ Cardinality(preferred) = others + (IF p \in preferred THEN 1 ELSE 0)
        /\ Cardinality(preferred') = others + (IF Wanted(p) THEN 1 ELSE 0)
    BY <1>0, <1>3, DecisionSizes
  <2>2. /\ preferred' = IF Wanted(p) THEN preferred \union {p} ELSE preferred \ {p}
        /\ p \in arrived /\ arrived' = arrived
        /\ Settled' = Settled \union {p}
    BY <1>3 DEF Decide, Settled
  <2>3. since' \subseteq arrived' /\ Settled' \subseteq arrived
    BY <1>3, <2>2 DEF HInv, Settled, TypeOK
  <2>4. /\ Cardinality(Settled') \in Nat /\ Cardinality(Settled') <= Cardinality(arrived)
        /\ Cardinality(Settled') = Cardinality(Settled) + (IF p \in Settled THEN 0 ELSE 1)
    <3>1. Cardinality(Settled') = Cardinality(Settled) + (IF p \in Settled THEN 0 ELSE 1)
      <4>1. /\ IsFiniteSet(Settled) /\ Cardinality(Settled) \in Nat
            /\ Settled' = Settled \union {p}
        BY <1>0, <2>2
      <4> QED
        BY <4>1, FS_AddElement
    <3>2. Cardinality(Settled') <= Cardinality(arrived) /\ Cardinality(Settled') \in Nat
      BY <1>0, <2>3, FS_Subset, FS_CardinalityType
    <3> QED
      BY <3>1, <3>2
  <2>5. quota \in Int /\ share \in Int /\ next \in Int /\ next <= quota
    BY <1>0, <2>4, QuotaType, QuotaMonotone
  <2>6. next <= share + (IF p \in Settled THEN 0 ELSE 1)
    BY <1>0, <2>4, QuotaGrowth, 0 \in Nat, 1 \in Nat
  <2>7. p \notin Settled => p \notin preferred
    BY DEF Settled
  <2>8. \/ Cardinality(preferred) <= quota \/ preferred \intersect since = {}
    BY DEF HInv
  <2>9. since \subseteq preferred \/ Cardinality(preferred) >= share
    BY DEF HInv
  <2> HIDE DEF others, quota, share, next
  <2>10. Cardinality(preferred') <= quota \/ preferred' \intersect since' = {}
    <3>1. CASE Wanted(p)
      BY <2>1, <2>5, <3>1
    <3>2. CASE ~Wanted(p)
      <4>1. Cardinality(preferred') <= Cardinality(preferred)
        BY <2>1, <3>2
      <4>2. preferred \intersect since = {} => preferred' \intersect since' = {}
        BY <1>3, <2>2, <3>2
      <4>3. Cardinality(preferred') \in Nat /\ Cardinality(preferred) \in Nat
        BY <1>0, <2>1
      <4> QED
        BY <2>5, <2>8, <4>1, <4>2, <4>3
    <3> QED
      BY <3>1, <3>2
  <2>11. since' \subseteq preferred' \/ Cardinality(preferred') >= next
    <3>1. CASE ~Wanted(p)
      BY <2>1, <2>5, <3>1
    <3>2. CASE Wanted(p) /\ since \subseteq preferred
      BY <1>3, <2>2, <3>2
    <3>3. CASE Wanted(p) /\ Cardinality(preferred) >= share
      BY <2>1, <2>5, <2>6, <2>7, <3>3
    <3> QED
      BY <2>9, <3>1, <3>2, <3>3
  <2> QED
    BY <2>2, <2>3, <2>10, <2>11 DEF HInv, quota, next
<1>4. ASSUME NEW p \in Pods, Depart(p), since' = {}
      PROVE  HInv'
  BY <1>4 DEF HInv
<1>5. CASE UNCHANGED recordedVars
  BY <1>5 DEF recordedVars, vars, HInv, Settled
<1> QED
  BY <1>1, <1>2, <1>3, <1>4, <1>5 DEF RecordedNext

\* Recording restricts no step, and adds none.
LEMMA RecordedIsSpec == RecordedSpec => Spec
<1>1. RecordedInit => Init
  BY DEF RecordedInit
<1>2. [RecordedNext]_recordedVars => [Next]_vars
  BY DEF RecordedNext, recordedVars, Next
<1> QED
  BY <1>1, <1>2, PTL DEF RecordedSpec, Spec

LEMMA History == RecordedSpec => []HInv
<1>1. RecordedInit => HInv
  <2> SUFFICES ASSUME RecordedInit PROVE HInv
    OBVIOUS
  <2>1. TypeOK /\ preferred = {} /\ since = {} /\ arrived = {}
    BY DEF RecordedInit, Init, TypeOK
  <2> QED
    BY <2>1 DEF HInv
<1> QED
  BY <1>1, HistoryStep, RecordedIsSpec, TypeCorrect, PTL DEF RecordedSpec

\* Departures unsettle the share, and every decision after them works towards it.
THEOREM DeparturesAreHealed == RecordedSpec => []DeparturesHeal
<1>1. HInv => DeparturesHeal
  <2> SUFFICES ASSUME HInv PROVE DeparturesHeal
    OBVIOUS
  <2>1. /\ Cardinality(arrived) \in Nat /\ Cardinality(preferred) \in Nat
        /\ Cardinality(since) \in Nat /\ Cardinality(Settled) \in Nat
        /\ Cardinality(since) <= Cardinality(Settled)
    BY RecordedSizes
  <2>2. /\ Quota(Cardinality(arrived)) \in Int /\ Quota(Cardinality(Settled)) \in Int
        /\ Quota(Cardinality(since)) \in 0..Cardinality(since)
        /\ Quota(Cardinality(since)) <= Quota(Cardinality(Settled))
    BY <2>1, QuotaType, QuotaMonotone
  <2>3. Cardinality(preferred) >= Quota(Cardinality(since))
    <3>1. CASE since \subseteq preferred
      <4>1. Cardinality(since) <= Cardinality(preferred)
        BY <3>1, Sizes, FS_Subset DEF HInv
      <4> QED
        BY <2>1, <2>2, <4>1
    <3>2. CASE Cardinality(preferred) >= Quota(Cardinality(Settled))
      BY <2>1, <2>2, <3>2
    <3> QED
      BY <3>1, <3>2 DEF HInv
  <2>4. Cardinality(preferred) > Quota(Cardinality(arrived)) => preferred \intersect since = {}
    BY <2>1, <2>2 DEF HInv
  <2> QED
    BY <2>3, <2>4 DEF DeparturesHeal
<1> QED
  BY <1>1, History, PTL

\* When every pod was decided since the last departure, the share is exact again.
THEOREM ExactOnceDecidedAnew == RecordedSpec => []ExactAgain
<1>1. HInv /\ DeparturesHeal => ExactAgain
  <2> SUFFICES ASSUME HInv, DeparturesHeal, since = arrived
               PROVE  Cardinality(preferred) = Quota(Cardinality(arrived))
    BY DEF ExactAgain
  <2>1. Cardinality(preferred) \in Nat /\ Cardinality(arrived) \in Nat
        /\ Quota(Cardinality(arrived)) \in 0..Cardinality(arrived)
    BY RecordedSizes, QuotaType
  <2>2. preferred \intersect since = {} => Cardinality(preferred) = 0
    BY FS_EmptySet DEF HInv, TypeOK
  <2> QED
    BY <2>1, <2>2 DEF DeparturesHeal
<1> QED
  BY <1>1, History, DeparturesAreHealed, PTL
=============================================================================
