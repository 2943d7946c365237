SPECIFICATION FairSpec
CONSTANTS
    Callers = {c1, c2}
    Requests <- Mixed
    Bad <- BadOnes
    Failures = {"support", "load", "error", "digest"}
    MaxEntries = 2
    Ttl = 2
    MaxRequests = 3
    MaxTime = 2
INVARIANTS
    RequestsOnTheirWay
    CacheSound
PROPERTIES
    BridgeKept
    CallSettles
