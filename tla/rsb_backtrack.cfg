SPECIFICATION Spec
CONSTANTS
    current_root = current_root
    old_root = old_root
    foreign_root = foreign_root
    Lifespan = 2
    Backtrack = 1
    Roots = {current_root}
    EncKey = current_root
    DecKeys <- OneRoot
    ZeroKey = ZeroKey
    Threads = {t1}
    Nobody = Nobody
    StartTime = 1
    MaxTime = 7
INVARIANT DecryptsWithinBacktrack
