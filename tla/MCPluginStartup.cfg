CONSTANTS
    All = All
    Everything = Everything
    Nil = Nil
    PolicyType = PolicyType
    Namespaces = {n1}
    Names = {p1, p2}
    Labels = {l1}
    Informers = {i1, i2}
    MaxChanges = 3
    MaxCrashes = 2
SPECIFICATION ServedSpec
INVARIANTS StartupTypeOK NoPodBeforePolicies
PROPERTIES EventuallyReady PoliciesReachPlugin
CHECK_DEADLOCK FALSE
