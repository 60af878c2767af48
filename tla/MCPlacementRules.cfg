CONSTANTS
    Nil = Nil
    Keys = {"app", "tier", "zone"}
    Values = {"", "a", "b"}
    MaxTotal = 30
    MaxPolicies = 3
    Weights = {0, 1, 2}
    MaxNodes = 4
    ScoreValues = {0, 7, 50, 99, 100}
SPECIFICATION Spec
INVARIANTS
    GovernedPodsAreListed
    TargetRoundsDown
    TargetGrowsByOne
    LightestComesFirst
    NormalizeKeepsOrder
