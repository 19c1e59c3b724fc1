SPECIFICATION Spec
CONSTANTS
    u1 = u1
    u2 = u2
    c1 = c1
    c2 = c2
    NoFile = NoFile
    NoPath = NoPath
    Local = Local
    Hole = Hole
    Clients = {c1, c2}
    Procs = {u1, u2}
    Host <- Apart
    Writers = {u1, u2}
    Paths = {a}
    Data = {w, Hole}
    Chunks = 2
    Streaming = FALSE
    SingleLog = TRUE
    Breaks <- Unary
    MaxRetry = 2
    MaxOps = 3
    MaxWrites = 1
    MaxBreaks = 2
    MaxCrashes = 1
    Unbounded = {}
SYMMETRY Swap
INVARIANTS
    CachedCopyIsAVersion
    OpenIsFresh
    CloseCommits
