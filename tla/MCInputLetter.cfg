CONSTANTS
    W = 3
    H = 3
    Target = {}
    Delta = {}
    Button = {}
    PhysKey = {"A", "ShiftL"}
    InitialAuth = {TRUE}
SPECIFICATION Spec
INVARIANTS
    LettersAreReleased
CHECK_DEADLOCK TRUE
