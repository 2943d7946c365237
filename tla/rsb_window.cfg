SPECIFICATION MCSpec
CONSTANTS
    current_root = current_root
    old_root = old_root
    foreign_root = foreign_root
    Lifespan = 2
    Backtrack = 2
    Roots = {current_root, old_root, foreign_root}
    EncKey = current_root
    DecKeys <- TwoRoots
    ZeroKey = ZeroKey
    Threads = {t1, t2}
    Nobody = Nobody
    StartTime = 1
    MaxTime = 7
    RootKeys = {k1, k2}
    Purposes = {p1, p2}
    Numbers = {7}
    People = {a1, a2}
    Ephemerals = {e1}
    Contexts = {c1, c2}
    Bodies = {body}
    Nonces = {nonce}
    Null = Null
    MaxStems = 2
    MaxBoxes = 2
    MaxTexts = 1
SYMMETRY Symmetry
INVARIANTS
    TypeOK
    NeverPastBacktrack
    RecentDecrypts
    CacheBounded
    SealedUnderCurrentPeriod
    OpensWhereMeant
