CONSTANTS
    W = 3
    H = 3
    Target <- Corners
    Delta = {}
    Button = {}
    PhysKey = {}
    InitialAuth = {TRUE}
SPECIFICATION Spec
INVARIANTS
    WheelWorksAtEdges
CHECK_DEADLOCK TRUE
