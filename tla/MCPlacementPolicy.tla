------------------------- MODULE MCPlacementPolicy --------------------------
(***************************************************************************)
(* Model checking PlacementPolicy: the clusters, policies and bounds that  *)
(* the cfg files choose from.  The labels are those of the integration     *)
(* test: pods are app=nginx, wanted nodes are node=want.                   *)
(***************************************************************************)
EXTENDS PlacementPolicy, TLC

Label(k, v) == k :> v

OneNamespace == [p \in Pods |-> "ns"]
NginxPods == [p \in Pods |-> Label("app", "nginx")]
\* One of the pods has another label, too, by which another policy selects it.
OneInWebTier ==
    [p \in Pods |-> IF p = CHOOSE q \in Pods : TRUE THEN Label("app", "nginx") @@ Label("tier", "web")
                                                    ELSE Label("app", "nginx")]

\* w1, w2 are wanted, u1, u2 are not.
WantedNodes == {"w1", "w2"}
Labelled == [n \in Nodes |-> Label("node", IF n \in WantedNodes THEN "want" ELSE "unwant")]
Roomy == [n \in Nodes |-> Cardinality(Pods)]
OneEach == [n \in Nodes |-> 1]
UnwantedFull == [n \in Nodes |-> IF n \in WantedNodes THEN Cardinality(Pods) ELSE 0]

NoOtherScores == {[n \in Nodes |-> 0]}
\* Other plugins may favour the unwanted nodes by less than one policy's worth.
UpTo99Against == NoOtherScores \union {[n \in Nodes |-> IF n \in WantedNodes THEN 0 ELSE 99]}

---------------------------------------------------------------------------
Percent(action, v) == [action |-> action, targetSize |-> [type |-> "percent", val |-> v]]
Count(action, v) == [action |-> action, targetSize |-> [type |-> "int", val |-> v]]

Policy(name, mode, rule) ==
    [name |-> name, namespace |-> "ns", weight |-> 1, mode |-> mode,
     podSelector |-> Label("app", "nginx"), nodeSelector |-> Label("node", "want"),
     policy |-> rule]

Strict == Policy("strict", "Strict", Percent("Must", 50))
StrictNot == Policy("strict-not", "Strict", Percent("MustNot", 60))
BestEffort == Policy("best-effort", "BestEffort", Percent("Must", 50))
BestEffortOne == Policy("best-effort-one", "BestEffort", Count("Must", 1))
WebTier == [BestEffort EXCEPT !.name = "web-tier", !.podSelector = Label("tier", "web")]
Default == Policy("default", "", Percent("Must", 50))

\* Specs that the CRD accepts: every field of the spec is optional.
NoPodSelector == [Strict EXCEPT !.name = "no-pod-selector", !.podSelector = Nil]
NoRule == [BestEffort EXCEPT !.name = "no-rule", !.policy = Nil]
NoTarget == [Strict EXCEPT !.name = "no-target", !.policy.targetSize = Nil]

OnlyStrict == {{Strict}}
OnlyStrictNot == {{StrictNot}}
OnlyBestEffortOne == {{BestEffortOne}}
SameRule == {{Strict}, {BestEffort}}
\* One pod is governed by a Strict and a BestEffort policy of equal weight, the
\* other one, and after a change both, by a Strict one only.
MixedChurn == {{Strict, WebTier}, {StrictNot}}
EveryMode == {{Strict}, {BestEffort}, {Default}}
Malformed == {{NoPodSelector}, {NoRule}, {NoTarget}}
EveryModeOrMalformed == EveryMode \union Malformed

---------------------------------------------------------------------------
Undisturbed == [d \in Disturbances |-> 0]
OneDeletion == [Undisturbed EXCEPT !["delete"] = 1]
CrashAndUpdates == [Undisturbed EXCEPT !["crash"] = 1, !["touch"] = 2, !["patch"] = 1]
PolicyAndFault == [Undisturbed EXCEPT !["policy"] = 1, !["fault"] = 1]
Disturbed == [Undisturbed EXCEPT !["policy"] = 1, !["fault"] = 1, !["crash"] = 1]

Symmetry == Permutations(Pods)

---------------------------------------------------------------------------
(* What documents, comments and tests say and the code does not do. *)

\* placement_policy_int_test.go:210: once all pods are scheduled, no more of
\* them than the target are on the nodes of a Strict policy.
StrictTargetHolds == (\A p \in Pods : IsBound(api[p])) => TargetNotExceeded

\* placementpolicy.go:223: PreScore's count holds the pods "that are already on
\* the nodes with matching labels", so a "true" leaves the target unexceeded.
PreScoreCountsEveryPod ==
    cycle.at = "annotateInPreScore" /\ cycle.obj.pref = "true" =>
        Cardinality(PodsOnSelectedNodes(cycle.policy) \ {cycle.pod})
            < TargetSize(cycle.policy.policy, Cardinality(GovernedPods(cycle.policy)))
=============================================================================
