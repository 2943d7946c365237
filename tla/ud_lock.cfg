SPECIFICATION Spec
CONSTANTS
    Clients = {c1, c2}
    Daemons = {d1, d2}
    Sessions = {s1}
    TTLs = {1}
    NoFile = NoFile
    Gone = Gone
    Patient = TRUE
    Kills = {}
    Backlog = 2
    MaxTime = 1
INVARIANT LockEndsSessions
