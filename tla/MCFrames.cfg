CONSTANTS
    Greeting <- Greetings
    Message <- Messages
    Formats <- NewFormats
    ScreenName <- Screen
    Info <- Numbers
    MaxSent = 3
SPECIFICATION FairSpec
INVARIANTS
    InStep
    AnswersUnderstood
PROPERTIES
    ImplementsChannel
    EverythingIsHandled
CHECK_DEADLOCK TRUE
