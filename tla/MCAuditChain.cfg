\* Four calls over three connections.
CONSTANTS
    t1 = t1
    t2 = t2
    t3 = t3
    t4 = t4
    Txns <- FourTxns
    Empty = Empty
    Payloads = {p1, Empty}
    PoolSize = 3
SPECIFICATION Spec
SYMMETRY Symmetry
INVARIANTS
    ChainVerifies
    OutcomesAreTrue
    ExportVerifiesUntilErasure
PROPERTIES
    HistoryIsFixed
    ImplementsTrail
