CONSTANTS
    W = 3
    H = 3
    Target = {}
    Delta = {}
    Button = {1}
    PhysKey = {}
    InitialAuth = {FALSE}
SPECIFICATION Spec
INVARIANTS
    ButtonsAreTrueState
CHECK_DEADLOCK TRUE
