CONSTANTS
    Nil = Nil
    Shared = Shared
    PodLabels <- NginxPods
    NodeLabels <- Labelled
    Namespace <- OneNamespace
    Pods = {p1, p2}
    Nodes = {"w1", "w2", "u1"}
    Capacity <- OneEach
    OtherScores <- NoOtherScores
    PolicySets <- OnlyBestEffortOne
    Bound <- Undisturbed
SPECIFICATION Spec
INVARIANT PreScoreCountsEveryPod
CHECK_DEADLOCK FALSE
