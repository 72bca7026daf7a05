CONSTANTS
    t1 = t1
    t2 = t2
    t3 = t3
    gc = gc
    Tx <- MCTx
    SchemaTx <- MCSchemaTx
    AsyncTx <- NoTx
    MaxCrash = 0
    MaxFail = 1
    MayRelease = FALSE
SPECIFICATION Spec
INVARIANTS
    HeadAlwaysClosed
CHECK_DEADLOCK FALSE
