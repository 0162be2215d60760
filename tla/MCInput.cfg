CONSTANTS
    W = 3
    H = 3
    Target <- Corners
    Delta <- Steps
    Button = {1, 2, 3, 4}
    PhysKey = {"A", "Return", "ShiftL", "SuperL"}
    InitialAuth = {FALSE, TRUE}
SPECIFICATION DeviceSpec
INVARIANTS
    TypeOK
    HeldButtonsAreKnown
    NoButtonLeftBehind
    EdgesAreUsable
    DragCarriesHeldButton
    HeldKeysAreKnown
    OnlyAbandonedKeysStick
CHECK_DEADLOCK TRUE
