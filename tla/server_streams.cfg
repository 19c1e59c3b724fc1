SPECIFICATION Spec
CONSTANTS
    a = a
    b = b
    Paths = {a}
    Threads = {t1, t2, t3}
    Data = {x, y}
    Chunks = 2
    NoFile = NoFile
    Ops <- StreamOps
    RenamePairs <- NoPairs
    FineClock = FALSE
    DiskFails = FALSE
    ClientDies = FALSE
    MaxReqs = 4
    MaxCrashes = 1
SYMMETRY Symmetric
INVARIANTS
    TypeOK
    ReadsOneVersion
    StoreReplyNamesItsFile
    OneWriterPerFile
PROPERTIES
    StableWhileRead
    ImplementsAtomicFiles
