CONSTANTS
    MaxPending = 2
SPECIFICATION FairSpec
INVARIANTS
    TypeOK
    MenuShowsFinalState
    UpdatedIconShowsFinalState
PROPERTIES
    TrayCatchesUp
CHECK_DEADLOCK TRUE
