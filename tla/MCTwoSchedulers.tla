--------------------------- MODULE MCTwoSchedulers ---------------------------
(***************************************************************************)
(* Model checking TwoSchedulers on the labels of the integration test: two *)
(* pods of one Strict policy, one wanted and one unwanted node.            *)
(***************************************************************************)
EXTENDS TwoSchedulers, TLC

Label(k, v) == k :> v

OneNamespace == [p \in Pods |-> "ns"]
NginxPods == [p \in Pods |-> Label("app", "nginx")]
Labelled == [n \in Nodes |-> Label("node", IF n = "w1" THEN "want" ELSE "unwant")]
Roomy == [n \in Nodes |-> Cardinality(Pods)]
NoOtherScores == {[n \in Nodes |-> 0]}

Strict ==
    [name |-> "strict", namespace |-> "ns", weight |-> 1, mode |-> "Strict",
     podSelector |-> Label("app", "nginx"), nodeSelector |-> Label("node", "want"),
     policy |-> [action |-> "Must", targetSize |-> [type |-> "percent", val |-> 50]]]

OnlyStrict == {{Strict}}

\* The disturbances of PlacementPolicy; none happens.
Undisturbed == [d \in {"touch", "patch", "fault", "crash", "delete", "policy"} |-> 0]

Symmetry == Permutations(Pods)
=============================================================================
