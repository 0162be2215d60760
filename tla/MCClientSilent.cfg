CONSTANTS
    Worker = {w1, w2}
    Js = js
    Fd = {f1}
    NoFd = NoFd
    CloseWakesRecv = TRUE
SPECIFICATION SilentServerSpec
PROPERTIES
    StopEndsWorker
CHECK_DEADLOCK TRUE
