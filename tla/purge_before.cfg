\* Two transactions of three operations in all.
CONSTANTS
    Universe <- MCUniverse
    Many <- MCMany
    Refs <- MCRefs
    Components <- MCRefs
    Unique <- MCUnique
    NoHistory <- MCNoHistory
    AttributeRefs = FALSE
    MaxTx = 2
    MaxOps = 3
SPECIFICATION Spec
INVARIANT HistoryPurgeKeepsCurrent
CHECK_DEADLOCK FALSE
