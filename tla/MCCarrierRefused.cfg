CONSTANTS
    Settings <- BothOn
    NoHost = "none"
    SlowStops = FALSE
    MaxStops = 1
    MaxStarts = 1
    MaxPosted = 2
SPECIFICATION FairSpec
PROPERTIES
    ConnectTakesEffect
CHECK_DEADLOCK TRUE
