CONSTANTS
    Text = {"short", "long", "huge"}
    Chunks <- TextChunks
    Huge = {"huge"}
    MaxPush = 2
SPECIFICATION Spec
INVARIANTS
    TypeOK
    OnlyWholeTextsDelivered
    FirstHandshakeUndisturbed
PROPERTIES
    WholeTextsArrive
CHECK_DEADLOCK TRUE
