CONSTANTS
    Settings <- OneOff
    NoHost = "none"
    SlowStops = TRUE
    MaxStops = 1
    MaxStarts = 1
    MaxPosted = 2
SPECIFICATION FairSpec
INVARIANTS
    TypeOK
    PageShowsSession
PROPERTIES
    DeposedCarrierEnds
    SessionIsShown
CHECK_DEADLOCK TRUE
