\* Two branches, two schemas, three commits, one collection, three calls, crashes
\* or commits with an earlier date.
CONSTANTS
    main = main
    b1 = b1
    user = user
    s1 = s1
    s2 = s2
    Branch <- MCBranch
    Main <- main
    User <- user
    Schema <- MCSchema
    Dates <- MCDates
    MaxCommit = 3
    MaxGc = 1
    MaxEvents = 3
SPECIFICATION Spec
SYMMETRY Perms
CONSTRAINT Followable
INVARIANTS
    TypeOK
    WriteCacheTrue
    PointersClosed
    HistoryKept
    FailsOnlyAfterDate
CHECK_DEADLOCK FALSE
