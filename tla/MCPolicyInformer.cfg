CONSTANTS
    All = All
    Everything = Everything
    Nil = Nil
    Namespaces = {n1, n2}
    Names = {p1}
    Labels = {l1, l2}
    MaxChanges = 4
SPECIFICATION FairSpec
INVARIANTS TypeOK ViewInScope SyncedIsComplete
PROPERTIES NeverBack ViewFollows
CHECK_DEADLOCK FALSE
