CONSTANTS
    Nil = Nil
    Shared = Shared
    PodLabels <- NginxPods
    NodeLabels <- Labelled
    Namespace <- OneNamespace
    Pods = {p1, p2}
    Nodes = {"w1", "u1"}
    Capacity <- Roomy
    OtherScores <- NoOtherScores
    PolicySets <- OnlyStrict
    Bound <- Undisturbed
SPECIFICATION Spec
SYMMETRY Symmetry
INVARIANT CachesAgreeAtRest
PROPERTIES FrozenOnceBound HonouredAfterOverlap
CHECK_DEADLOCK FALSE
