CONSTANTS
    Nil = Nil
    Shared = Shared
    PodLabels <- NginxPods
    NodeLabels <- Labelled
    Namespace <- OneNamespace
    Pods = {p1, p2}
    Nodes = {"w1", "w2", "u1"}
    Capacity <- Roomy
    OtherScores <- NoOtherScores
    PolicySets <- EveryModeOrMalformed
    Bound <- PolicyAndFault
SPECIFICATION FairSpec
PROPERTY EveryPodPlaced
CHECK_DEADLOCK FALSE
