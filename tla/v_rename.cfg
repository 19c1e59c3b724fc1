SPECIFICATION FairSpec
CONSTANTS
    a = a
    b = b
    Paths = {a, b}
    Threads = {t1, t2}
    Data = {x}
    Chunks = 2
    NoFile = NoFile
    Ops <- RenameOnly
    RenamePairs <- BothWays
    FineClock = TRUE
    DiskFails = FALSE
    ClientDies = FALSE
    MaxReqs = 2
    MaxCrashes = 0
PROPERTIES
    EveryCallAnswered
CHECK_DEADLOCK FALSE
