CONSTANTS
    Poster = {t1, t2}
    Value = {}
    MaxFunctions = 2
    MaxPosts = 2
SPECIFICATION MCSpec
INVARIANTS
    EachValueOnce
PROPERTIES
    PostReturns
    QueuedArrives
CHECK_DEADLOCK FALSE
