CONSTANTS
    t1 = t1
    t2 = t2
    t3 = t3
    gc = gc
    Tx <- MCTx
    SchemaTx <- MCSchemaTx
    AsyncTx <- NoTx
    MaxCrash = 0
    MaxFail = 0
    MayRelease = FALSE
SPECIFICATION Spec
INVARIANTS
    TxIdsUnique
CHECK_DEADLOCK FALSE
