\* Three writes to two rows over two connections.
CONSTANTS
    Txns = {t1, t2, t3}
    Rows = {r1, r2}
    NoRow = NoRow
    NoTxn = NoTxn
    Empty = Empty
    Payloads = {p1}
    PoolSize = 2
SPECIFICATION RFairSpec
INVARIANT WritesAreSerial
PROPERTY EveryWriteEnds
