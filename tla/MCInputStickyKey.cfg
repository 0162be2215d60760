CONSTANTS
    W = 3
    H = 3
    Target = {}
    Delta = {}
    Button = {}
    PhysKey = {"Return"}
    InitialAuth = {TRUE}
SPECIFICATION Spec
INVARIANTS
    NoKeyLeftBehind
CHECK_DEADLOCK TRUE
