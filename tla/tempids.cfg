\* Two tempids, two entities, one or both with an identity, four items of ten kinds.
CONSTANTS
    Tempid <- MCTempid
    Ident <- MCIdent
    Ref <- MCRef
    Before <- MCBefore
    Items <- MCItems
    MaxItems = 4
SPECIFICATION FairSpec
INVARIANTS
    TypeOK
    SameEntity
    RejectedForCause
PROPERTIES
    Terminates
\* A transaction stops at its end.
CHECK_DEADLOCK FALSE
