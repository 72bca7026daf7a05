CONSTANTS
    t1 = t1
    t2 = t2
    c1 = c1
    c2 = c2
    NoConn = NoConn
    Tx <- MCTx
    Conn <- MCConn
SPECIFICATION FairSpec
ACTION_CONSTRAINT Small
INVARIANTS
    TypeOK
    ReadYourWrites
    WaiterKnown
PROPERTIES
    ImplementsDurableLog
    ReportReturned
    UpdatesShown
CHECK_DEADLOCK FALSE
