CONSTANTS
    Nil = Nil
    Shared = Shared
    PodLabels <- OneInWebTier
    NodeLabels <- Labelled
    Namespace <- OneNamespace
    Pods = {p1, p2}
    Nodes = {"w1", "w2", "u1"}
    Capacity <- Roomy
    OtherScores <- NoOtherScores
    PolicySets <- MixedChurn
    Bound <- Disturbed
SPECIFICATION Spec
INVARIANTS TypeOK StrictPlacementHonoured CacheAgreesAtRest
PROPERTY FrozenOnceBound
CHECK_DEADLOCK FALSE
