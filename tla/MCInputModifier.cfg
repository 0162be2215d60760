CONSTANTS
    W = 3
    H = 3
    Target = {}
    Delta = {}
    Button = {}
    PhysKey = {"ShiftL"}
    InitialAuth = {TRUE}
SPECIFICATION Spec
PROPERTIES
    CinnSyncsModifiers
CHECK_DEADLOCK TRUE
