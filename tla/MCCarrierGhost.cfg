CONSTANTS
    Settings <- BothOn
    NoHost = "none"
    SlowStops = FALSE
    MaxStops = 1
    MaxStarts = 1
    MaxPosted = 2
SPECIFICATION Spec
INVARIANTS
    NoGhostSession
CHECK_DEADLOCK TRUE
