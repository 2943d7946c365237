SPECIFICATION FairSpec
CONSTANTS
    Clients = {c1, c2}
    Daemons = {d1, d2}
    Sessions = {s1}
    TTLs = {1}
    NoFile = NoFile
    Gone = Gone
    Patient = FALSE
    Kills = {"client", "daemon"}
    Backlog = 2
    MaxTime = 0
INVARIANT AwaitedDaemonLives
PROPERTY CallReturns
