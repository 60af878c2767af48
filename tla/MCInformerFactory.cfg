CONSTANTS
    Nil = Nil
    Callers = {c1, c2}
    Types = {t1, t2}
    Informers = {i1, i2}
SPECIFICATION FairSpec
INVARIANTS TypeOK SameInformer WaitCoversStart
PROPERTIES InformersShared CallsReturn WaitReturns
