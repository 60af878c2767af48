CONSTANTS
    Nil = Nil
    Shared = Shared
    PodLabels <- NginxPods
    NodeLabels <- Labelled
    Namespace <- OneNamespace
    Pods = {p1, p2, p3}
    Nodes = {"w1", "u1"}
    Capacity <- Roomy
    OtherScores <- NoOtherScores
    PolicySets <- OnlyStrictNot
    Bound <- CrashAndUpdates
SPECIFICATION Spec
SYMMETRY Symmetry
INVARIANTS TargetNotExceeded TargetReached
CHECK_DEADLOCK FALSE
