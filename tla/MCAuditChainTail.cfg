CONSTANTS
    t1 = t1
    t2 = t2
    t3 = t3
    t4 = t4
    Txns <- ThreeTxns
    Empty = Empty
    Payloads = {p1}
    PoolSize = 2
SPECIFICATION Spec
INVARIANT LockedTailIsLast
