SPECIFICATION Spec
CONSTANTS
    u1 = u1
    u2 = u2
    c1 = c1
    c2 = c2
    NoFile = NoFile
    NoPath = NoPath
    Local = Local
    Hole = Hole
    Clients = {c1, c2}
    Procs = {u1, u2}
    Host <- Apart
    Writers = {u1, u2}
    Paths = {a}
    Data = {w, Hole}
    Chunks = 2
    Streaming = TRUE
    SingleLog = TRUE
    Breaks <- Fetches
    MaxRetry = 2
    MaxOps = 3
    MaxWrites = 1
    MaxBreaks = 1
    MaxCrashes = 0
    Unbounded = {}
INVARIANTS
    EveryCopyIsAVersion
