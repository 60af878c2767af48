--------------------------- MODULE PlacementRules ---------------------------
(***************************************************************************)
(* The pure part of the placement policy plugin: which policy governs a    *)
(* pod, which nodes a policy selects, how many pods it wants on them, which *)
(* pods already count, and how scores are normalised.  Nothing here reads  *)
(* or changes state; PlacementPolicy calls these operators from the steps  *)
(* that model PreFilter, Filter, PreScore and Score.                       *)
(*                                                                         *)
(* A label map is a function whose domain is its set of keys.  A policy is *)
(* a record with the fields of PlacementPolicySpec and its name and        *)
(* namespace; a nil pointer of the Go struct is Nil.                       *)
(***************************************************************************)
EXTENDS Integers, FiniteSets, FiniteSetsExt

CONSTANT Nil        \* a nil pointer, an absent object

EnforcementModes == {"", "BestEffort", "Strict"}
Actions == {"", "Must", "MustNot"}
Preferences == {"", "true", "false"}

---------------------------------------------------------------------------
(* Labels *)

\* m[k] of a Go map[string]string: a missing key reads as the empty string.
Lookup(m, k) == IF k \in DOMAIN m THEN m[k] ELSE ""

\* Mutant of HasMatchingLabels: it answers at the first wanted label it meets.
HasSomeMatchingLabel(l, wantLabels) ==
    /\ Cardinality(DOMAIN l) >= Cardinality(DOMAIN wantLabels)
    /\ wantLabels = << >> \/ \E k \in DOMAIN wantLabels : Lookup(l, k) = wantLabels[k]

HasMatchingLabels(l, wantLabels) ==
    /\ Cardinality(DOMAIN l) >= Cardinality(DOMAIN wantLabels)
    /\ \A k \in DOMAIN wantLabels : Lookup(l, k) = wantLabels[k]

checkHasLabels(l, wantLabels) ==
    /\ Cardinality(DOMAIN l) >= Cardinality(DOMAIN wantLabels)
    /\ \A k \in DOMAIN wantLabels : Lookup(l, k) = wantLabels[k]

\* labels.Set(m).AsSelector() of apimachinery, used by the pod lister: unlike
\* the two functions above, it demands that the key be present.
SelectorMatches(selector, l) ==
    \A k \in DOMAIN selector : k \in DOMAIN l /\ l[k] = selector[k]

---------------------------------------------------------------------------
(* The policy that governs a pod *)

\* The policies of the pod's namespace whose podSelector matches its labels.
filterPlacementPolicyList(ppList, labels) ==
    {pp \in ppList : HasMatchingLabels(labels, pp.podSelector)}

\* Mutant of Lightest: the sort is not reversed.
Heaviest(ppList) ==
    {pp \in ppList : \A other \in ppList : pp.weight >= other.weight}

\* Less is ">" and the sort is reversed: the lightest policies come first.
\* sort.Sort is not stable and the lister iterates over a Go map, so any of
\* several lightest policies may come out at index 0, afresh on each call.
Lightest(ppList) ==
    {pp \in ppList : \A other \in ppList : pp.weight <= other.weight}

\* The policies GetPlacementPolicyForPod may return; empty when it returns nil.
GetPlacementPolicyForPod(policies, namespace, labels) ==
    Lightest(filterPlacementPolicyList({pp \in policies : pp.namespace = namespace}, labels))

\* A nil podSelector of any policy of the namespace is dereferenced.
PolicyLookupPanics(policies, namespace) ==
    \E pp \in policies : pp.namespace = namespace /\ pp.podSelector = Nil

---------------------------------------------------------------------------
(* The target size *)

\* intstr.GetScaledValueFromIntOrPercent with rounding down fails on nil and
\* on a string that is not a percentage (type "other").
IsScalable(targetSize) == targetSize # Nil /\ targetSize.type \in {"int", "percent"}

ScaledValue(targetSize, total) ==
    IF targetSize.type = "int" THEN targetSize.val
                               ELSE (targetSize.val * total) \div 100

\* Mutants of TargetSize: the percentage is rounded up; the complement is taken
\* the wrong way round.
TargetSizeUp(policy, total) ==
    LET size == IF policy.targetSize.type = "int" THEN policy.targetSize.val
                ELSE (policy.targetSize.val * total + 99) \div 100
    IN  IF policy.action = "MustNot" THEN total - size ELSE size

TargetSizeSwapped(policy, total) ==
    LET size == ScaledValue(policy.targetSize, total)
    IN  IF policy.action = "MustNot" THEN size - total ELSE size

\* How many of total pods the rule wants on the selected nodes.
TargetSize(policy, total) ==
    LET size == ScaledValue(policy.targetSize, total)
    IN  IF policy.action = "MustNot" THEN total - size ELSE size

---------------------------------------------------------------------------
(* The decision *)

groupNodesWithLabels(nodeList, nodeLabels, labels) ==
    {n \in nodeList : checkHasLabels(nodeLabels[n], labels)}

\* Mutants of groupPodsBasedOnNodePreference: the pod being scheduled counts
\* itself; the pods whose node is not yet known do not count.
GroupWithSelf(podList, pod, nodes, lister) ==
    {q \in podList :
        IF lister[q].node # Nil THEN lister[q].node \in nodes
                                ELSE lister[q].pref = "true"}

GroupOfBoundPods(podList, pod, nodes, lister) ==
    {q \in podList \ {pod} : lister[q].node # Nil /\ lister[q].node \in nodes}

\* The other pods of podList that are bound to one of the nodes, or not yet
\* bound and annotated to prefer them.  lister[q] is the object of pod q.
groupPodsBasedOnNodePreference(podList, pod, nodes, lister) ==
    {q \in podList \ {pod} :
        IF lister[q].node # Nil THEN lister[q].node \in nodes
                                ELSE lister[q].pref = "true"}

\* The nil pointers of the policy that deciding dereferences.
DecisionPanics(pp) == pp.nodeSelector = Nil \/ pp.policy = Nil

\* GetScaledValueFromIntOrPercent returns an error.
DecisionFails(pp) == ~IsScalable(pp.policy.targetSize)

\* The annotation the pod gets: "true" while there are fewer pods on the
\* selected nodes than the target.
Preference(pp, podList, pod, nodes, lister) ==
    IF Cardinality(groupPodsBasedOnNodePreference(podList, pod, nodes, lister))
         < TargetSize(pp.policy, Cardinality(podList))
    THEN "true" ELSE "false"

\* Mutant of Agrees: the second alternative of the condition is missing.
AgreesIfPreferred(pp, labels, pref) ==
    checkHasLabels(labels, pp.nodeSelector) /\ pref = "true"

\* Whether a node is in the group the annotation asks for: the condition
\* under which Filter lets the node pass and Score gives it 100.
Agrees(pp, labels, pref) == checkHasLabels(labels, pp.nodeSelector) <=> pref = "true"

---------------------------------------------------------------------------
(* Scores *)

MaxNodeScore == 100
MinNodeScore == 0

\* Mutant of NormalizeScore: the lowest score is not subtracted.
NormalizeFromZero(scores) ==
    LET values   == {scores[n] : n \in DOMAIN scores}
        oldRange == Max(values) - Min(values)
    IN  [n \in DOMAIN scores |->
            IF oldRange = 0 THEN MinNodeScore ELSE (scores[n] * MaxNodeScore) \div oldRange]

\* The scores stretched to the range 0..100; scores that are all equal become 0.
NormalizeScore(scores) ==
    LET values   == {scores[n] : n \in DOMAIN scores}
        oldRange == Max(values) - Min(values)
        newRange == MaxNodeScore - MinNodeScore
    IN  [n \in DOMAIN scores |->
            IF oldRange = 0 THEN MinNodeScore
            ELSE ((scores[n] - Min(values)) * newRange) \div oldRange + MinNodeScore]
=============================================================================
