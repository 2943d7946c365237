SPECIFICATION MCSpec
CONSTANTS
    current_root = current_root
    Lifespan = 1
    Backtrack = 1
    Roots = {current_root}
    EncKey = current_root
    DecKeys <- OneRoot
    ZeroKey = ZeroKey
    Threads = {t1, t2}
    Nobody = Nobody
    StartTime = 1
    MaxTime = 2
INVARIANT CacheIndexed
PROPERTY DecryptReturns
