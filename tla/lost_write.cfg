\* One caller, whose calls never overlap, and two connections.
CONSTANTS
    p1 = p1
    p2 = p2
    t1 = t1
    t2 = t2
    Caller <- OneCaller
    Tx <- MCTx
    MaxConn = 2
    MaxCount = 3
SPECIFICATION Spec
INVARIANTS
    AlwaysDurable
CHECK_DEADLOCK FALSE
