-------------------------- MODULE MCPlacementRules --------------------------
(***************************************************************************)
(* The operators of PlacementRules against reference definitions, on every *)
(* small input: a state is an input and nothing happens to it.             *)
(***************************************************************************)
EXTENDS PlacementRules, SequencesExt

CONSTANTS
    Keys, Values,       \* of labels; Values may hold the empty string
    MaxTotal,           \* pods are counted up to here
    MaxPolicies,        \* this many policies may match a pod
    Weights,            \* of policies
    MaxNodes,           \* this many nodes are scored
    ScoreValues         \* of the score plugins

ASSUME RulesAssumption ==
    /\ IsFiniteSet(Keys)
    /\ MaxTotal \in Nat /\ MaxPolicies \in Nat /\ MaxNodes \in Nat
    /\ Weights \subseteq Int /\ ScoreValues \subseteq Int

VARIABLES labels, wanted, size, total, weights, scores

vars == <<labels, wanted, size, total, weights, scores>>

LabelMaps == UNION {[K -> Values] : K \in SUBSET Keys}

\* One part of the input varies at a time, the others are fixed.
LabelInputs ==
    /\ labels \in LabelMaps /\ wanted \in LabelMaps
    /\ size = [type |-> "int", val |-> 0] /\ total = 0 /\ weights = <<0>> /\ scores = <<0>>

SizeInputs ==
    /\ size \in [type : {"int", "percent"}, val : 0..100] /\ total \in 0..MaxTotal
    /\ labels = << >> /\ wanted = << >> /\ weights = <<0>> /\ scores = <<0>>

WeightInputs ==
    /\ weights \in UNION {[1..n -> Weights] : n \in 1..MaxPolicies}
    /\ labels = << >> /\ wanted = << >>
    /\ size = [type |-> "int", val |-> 0] /\ total = 0 /\ scores = <<0>>

ScoreInputs ==
    /\ scores \in UNION {[1..n -> ScoreValues] : n \in 1..MaxNodes}
    /\ labels = << >> /\ wanted = << >>
    /\ size = [type |-> "int", val |-> 0] /\ total = 0 /\ weights = <<0>>

Init == LabelInputs \/ SizeInputs \/ WeightInputs \/ ScoreInputs

Next == UNCHANGED vars

Spec == Init /\ [][Next]_vars

---------------------------------------------------------------------------
\* A policy's count (the lister's selector) sees exactly the pods that the policy
\* governs (HasMatchingLabels), but for those that lack a label which the policy
\* wants to be empty: these, and no others, are governed and not counted.
GovernedPodsAreListed ==
    SelectorMatches(wanted, labels) <=>
        /\ HasMatchingLabels(labels, wanted)
        /\ \A k \in DOMAIN wanted : wanted[k] = "" => k \in DOMAIN labels

Must == [action |-> "Must", targetSize |-> size]
MustNot == [action |-> "MustNot", targetSize |-> size]

\* "Absolute number is calculated from percentage by rounding down"
\* (placementpolicy_types.go:72): the greatest number of pods whose share of
\* all pods is at most the percentage.  MustNot keeps that many pods off the
\* nodes, which rounds its own target up; neither leaves 0..total.
TargetRoundsDown ==
    size.type = "percent" =>
        /\ TargetSize(Must, total) = Max({k \in 0..total : 100 * k <= size.val * total})
        /\ TargetSize(MustNot, total) = Min({k \in 0..total : 100 * k >= (100 - size.val) * total})

\* One more pod raises the target by at most one, for percentages and for
\* counts, so deciding pod by pod never leaves a gap to be filled later.
TargetGrowsByOne ==
    \A rule \in {Must, MustNot} :
        TargetSize(rule, total + 1) - TargetSize(rule, total) \in {0, 1}

\* What can be at index 0 after sort.Sort(sort.Reverse(ByWeight(list))): the
\* head of any arrangement in which no element is to go before its predecessor,
\* where ByWeight.Less(i, j) is weight(i) > weight(j).
Arrangements ==
    LET Less(i, j) == weights[i] > weights[j]
    IN  {s \in SetToSeqs(DOMAIN weights) : \A k \in 1..(Len(s) - 1) : ~Less(s[k], s[k + 1])}

\* Lightest returns exactly the policies that sorting may put first.
LightestComesFirst ==
    LET policy(i) == [name |-> i, weight |-> weights[i]]
    IN  Lightest({policy(i) : i \in DOMAIN weights}) = {policy(s[1]) : s \in Arrangements}

\* NormalizeScore keeps the order of the scores, stays within 0..100, and gives
\* the full range as soon as two scores differ.
NormalizeKeepsOrder ==
    LET normal == NormalizeScore(scores)
        range  == {normal[n] : n \in DOMAIN scores}
    IN  /\ \A m, n \in DOMAIN scores : scores[m] <= scores[n] => normal[m] <= normal[n]
        /\ range \subseteq MinNodeScore..MaxNodeScore
        /\ Cardinality({scores[n] : n \in DOMAIN scores}) > 1 =>
              {MinNodeScore, MaxNodeScore} \subseteq range
=============================================================================
