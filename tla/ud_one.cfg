SPECIFICATION Spec
CONSTANTS
    Clients = {c1}
    Daemons = {d1, d2, d3}
    Sessions = {s1, s2}
    TTLs = {0, 1, 2}
    NoFile = NoFile
    Gone = Gone
    Patient = TRUE
    Kills = {"connected", "daemon"}
    Backlog = 2
    MaxTime = 3
INVARIANTS
    TypeOK
    TtlHonoured
    LockEndsSessions
PROPERTIES
    OnlyStaleSocketRemoved
    SessionsEndOnRequest
