CONSTANTS
    MaxPending = 2
SPECIFICATION Spec
INVARIANTS
    IconShowsFinalState
CHECK_DEADLOCK TRUE
