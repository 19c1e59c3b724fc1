SPECIFICATION Spec
CONSTANTS
    a = a
    b = b
    Paths = {a, b}
    Threads = {t1, t2}
    Data = {x, y}
    Chunks = 2
    NoFile = NoFile
    Ops <- AllButStreams
    RenamePairs <- OneWay
    FineClock = FALSE
    DiskFails = TRUE
    ClientDies = FALSE
    MaxReqs = 3
    MaxCrashes = 1
SYMMETRY Symmetric
INVARIANTS
    NoPartialFile
PROPERTIES
    MtimeNeverGoesBack
    ImplementsAtomicFiles
