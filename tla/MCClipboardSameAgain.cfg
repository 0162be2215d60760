CONSTANTS
    Text = {"a", "b"}
    Empty = "none"
    MaxInFlight = 2
SPECIFICATION FairSpec
PROPERTIES
    EveryCopyReachesServer
CHECK_DEADLOCK TRUE
