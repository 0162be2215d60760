CONSTANTS
    Greeting <- OldGreetings
    Message <- OldMessages
    Formats <- OldFormats
    ScreenName <- Screen
    Info <- Numbers
    MaxSent = 3
SPECIFICATION FairSpec
PROPERTIES
    EverythingIsHandled
CHECK_DEADLOCK TRUE
