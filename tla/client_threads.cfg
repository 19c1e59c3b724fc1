SPECIFICATION FairSpec
CONSTANTS
    u1 = u1
    u2 = u2
    c1 = c1
    c2 = c2
    NoFile = NoFile
    NoPath = NoPath
    Local = Local
    Hole = Hole
    Clients = {c1}
    Procs = {u1, u2}
    Host <- Together
    Writers = {u1, u2}
    Paths = {a}
    Data = {w, Hole}
    Chunks = 1
    Streaming = TRUE
    SingleLog = TRUE
    Breaks <- Streams
    MaxRetry = 2
    MaxOps = 2
    MaxWrites = 1
    MaxBreaks = 0
    MaxCrashes = 0
    Unbounded = {"breaks"}
PROPERTIES
    EveryCallbackReturns
