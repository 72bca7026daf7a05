\* Two callers, two connections.
CONSTANTS
    p1 = p1
    p2 = p2
    t1 = t1
    t2 = t2
    Caller <- MCCaller
    Tx <- MCTx
    MaxConn = 2
    MaxCount = 3
SPECIFICATION Spec
SYMMETRY Perms
INVARIANTS
    TypeOK
    HeldCounted
    OneWriter
    AckedDurable
    RegisteredOpen
    ReadYourWrites
\* The callers may stop, and connections run out.
CHECK_DEADLOCK FALSE
