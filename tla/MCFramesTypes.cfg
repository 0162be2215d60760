CONSTANTS
    Greeting <- Greetings
    Message <- Messages
    Formats <- NewFormats
    ScreenName <- Screen
    Info <- Numbers
    MaxSent = 3
SPECIFICATION FairSpec
INVARIANTS
    TypeOK
CHECK_DEADLOCK TRUE
