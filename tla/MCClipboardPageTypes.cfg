CONSTANTS
    Text = {"a", "b"}
    Empty = "none"
    MaxInFlight = 2
SPECIFICATION FairSpec
INVARIANTS
    TypeOK
CHECK_DEADLOCK TRUE
