CONSTANTS
    Worker = {w1, w2, w3}
    Js = js
    Fd = {f1, f2}
    NoFd = NoFd
    CloseWakesRecv = FALSE
SYMMETRY WorkerAndFdSymmetry
SPECIFICATION Spec
INVARIANTS
    TypeOK
    OneWorker
    StopClosesOwnConnection
    FreshStream
    NoSocketLeak
    AtMostOneLateMessage
    RefusedIsFinal
    UnrequestedEndReported
PROPERTIES
    ImplementsLifecycle
CHECK_DEADLOCK TRUE
