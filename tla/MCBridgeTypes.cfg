CONSTANTS
    Poster = {t1, t2}
    Value = {}
    MaxFunctions = 2
    MaxPosts = 2
SPECIFICATION MCSpec
INVARIANTS
    TypeOK
CHECK_DEADLOCK FALSE
