CONSTANTS
    Worker = {w1, w2}
    Js = js
    Fd = {f1}
    NoFd = NoFd
    CloseWakesRecv = FALSE
SPECIFICATION Spec
PROPERTIES
    PartingStatusIsUnrequested
CHECK_DEADLOCK TRUE
