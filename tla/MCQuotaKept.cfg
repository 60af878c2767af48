CONSTANTS
    Nil = Nil
    Shared = Shared
    PodLabels <- NginxPods
    NodeLabels <- Labelled
    Namespace <- OneNamespace
    Pods = {p1, p2, p3}
    Nodes = {"w1", "u1", "u2"}
    Capacity <- Roomy
    OtherScores <- UpTo99Against
    PolicySets <- SameRule
    Bound <- OneDeletion
SPECIFICATION Spec
INVARIANT TargetReached
PROPERTY QuotaImplemented
CHECK_DEADLOCK FALSE
