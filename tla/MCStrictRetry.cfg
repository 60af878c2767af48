CONSTANTS
    Nil = Nil
    Shared = Shared
    PodLabels <- NginxPods
    NodeLabels <- Labelled
    Namespace <- OneNamespace
    Pods = {p1, p2}
    Nodes = {"w1", "u1"}
    Capacity <- UnwantedFull
    OtherScores <- NoOtherScores
    PolicySets <- OnlyStrict
    Bound <- Undisturbed
SPECIFICATION Spec
INVARIANT StrictTargetHolds
CHECK_DEADLOCK FALSE
