CONSTANTS
    Text = {"a", "b"}
    Empty = "none"
    MaxInFlight = 2
SPECIFICATION FairSpec
PROPERTIES
    NoEcho
    CopyReachesServer
CHECK_DEADLOCK TRUE
