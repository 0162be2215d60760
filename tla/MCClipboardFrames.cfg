CONSTANTS
    Text = {"short", "long", "huge"}
    Chunks <- TextChunks
    Huge = {"huge"}
    MaxPush = 2
SPECIFICATION Spec
INVARIANTS
    FramesStayIntact
CHECK_DEADLOCK TRUE
