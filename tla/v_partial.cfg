SPECIFICATION Spec
CONSTANTS
    a = a
    b = b
    Paths = {a}
    Threads = {t1, t2}
    Data = {x, y}
    Chunks = 2
    NoFile = NoFile
    Ops <- StreamStore
    RenamePairs <- NoPairs
    FineClock = TRUE
    DiskFails = FALSE
    ClientDies = TRUE
    MaxReqs = 1
    MaxCrashes = 0
INVARIANTS
    NoPartialFile
