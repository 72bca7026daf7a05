\* Two entities, seven facts, four transactions of four operations in all.
CONSTANTS
    Universe <- MCUniverse
    Many <- MCMany
    Refs <- MCRefs
    Components <- MCRefs
    Unique <- MCUnique
    NoHistory <- MCNoHistory
    AttributeRefs = FALSE
    MaxTx = 4
    MaxOps = 4
SPECIFICATION Spec
INVARIANTS
    TypeOK
    CurrentSound
    ViewsAgree
    PurgedForgotten
    ExpiredForgotten
    RetractsWhole
PROPERTY PastFixed
CHECK_DEADLOCK FALSE
