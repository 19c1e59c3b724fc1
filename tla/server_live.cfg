SPECIFICATION FairSpec
CONSTANTS
    a = a
    b = b
    Paths = {a, b}
    Threads = {t1, t2}
    Data = {x}
    Chunks = 2
    NoFile = NoFile
    Ops <- AllOps
    RenamePairs <- OneWay
    FineClock = TRUE
    DiskFails = FALSE
    ClientDies = TRUE
    MaxReqs = 2
    MaxCrashes = 0
INVARIANTS
    TempIsInUse
PROPERTIES
    EveryCallAnswered
