CONSTANTS
    Worker = {w1, w2}
    Js = js
    Fd = {f1}
    NoFd = NoFd
    CloseWakesRecv = FALSE
SPECIFICATION Spec
INVARIANTS
    CnopOnlyAfterDsop
CHECK_DEADLOCK TRUE
