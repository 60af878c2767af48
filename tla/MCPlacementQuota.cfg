CONSTANTS
    Nil = Nil
    Pods = {p1, p2, p3, p4, p5}
    Rule <- Must40Percent
SPECIFICATION RecordedSpec
INVARIANTS TypeOK NeverTooMany NeverTooFew DeparturesHeal
PROPERTY NeverRevoked
