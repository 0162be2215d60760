CONSTANTS
    Worker = {w1}
    Js = js
    Fd = {f1}
    NoFd = NoFd
    CloseWakesRecv = FALSE
SPECIFICATION FairSpec
PROPERTIES
    StopEndsWorker
    LostIsRedialled
    RedialSucceeds
CHECK_DEADLOCK TRUE
