\* A collection beside commits.
CONSTANTS
    main = main
    b1 = b1
    user = user
    s1 = s1
    s2 = s2
    Branch <- MCBranch
    Main <- main
    User <- user
    Schema <- MCSchema
    Dates <- NoDates
    MaxCommit = 3
    MaxGc = 1
    MaxEvents = 0
SPECIFICATION Spec
SYMMETRY Perms
INVARIANTS
    BranchHeadsKept
CHECK_DEADLOCK FALSE
