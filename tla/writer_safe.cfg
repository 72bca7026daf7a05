CONSTANTS
    t1 = t1
    t2 = t2
    t3 = t3
    gc = gc
    Tx <- MCTx
    SchemaTx <- MCSchemaTx
    AsyncTx <- NoTx
    MaxCrash = 1
    MaxFail = 1
    MayRelease = TRUE
SPECIFICATION Spec
INVARIANTS
    TypeOK
    AckedDurable
    CommitOrder
    PointersClosed
    HistoryClosed
    ConnDurable
    ReadYourWrites
    PipelineOrdered
PROPERTIES
    ImplementsDurableLog
CHECK_DEADLOCK FALSE
