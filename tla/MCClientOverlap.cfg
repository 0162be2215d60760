CONSTANTS
    Worker = {w1, w2}
    Js = js
    Fd = {f1}
    NoFd = NoFd
    CloseWakesRecv = FALSE
SPECIFICATION FairSpec
PROPERTIES
    StopEndsWorker
    LostIsRedialled
CHECK_DEADLOCK TRUE
