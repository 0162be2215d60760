CONSTANTS
    Poster = {t1}
    Value = {}
    MaxFunctions = 2
    MaxPosts = 1
SPECIFICATION MCSpec
INVARIANTS
    NoCallAfterFree
CHECK_DEADLOCK FALSE
