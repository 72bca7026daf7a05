CONSTANTS
    t1 = t1
    t2 = t2
    t3 = t3
    gc = gc
    Tx <- MCTxGc
    SchemaTx <- MCSchemaTx
    AsyncTx <- MCAsyncTx
    MaxCrash = 1
    MaxFail = 1
    MayRelease = TRUE
SPECIFICATION FairSpec
PROPERTIES
    AcceptedAnswered
    ShutdownFinishes
    DurableShown
CHECK_DEADLOCK FALSE
