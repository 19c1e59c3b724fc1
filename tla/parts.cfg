SPECIFICATION Spec
CONSTANTS
    r0 = r0
    r1 = r1
    r2 = r2
    r3 = r3
    Writers = {t1, t2}
    DirtyNames <- Names
    MaxDirtyOps = 5
    MaxRestarts = 1
    Half = 3
    Iterations = 2
    Numeral <- Numerals
    MapPaths = {a, b}
    Small = {s, t}
    Large = {l}
    Empty = Empty
    Absent = Absent
    warmup_rounds = 1
    main_rounds = 2
    MaxLosses = 2
    MaxLate = 2
    MaxFailures = 1
    Callers = {p1, p2, p3}
    AsyncDirs = {d1, d2}
    CallDatas = {k1, k2, k3, k4}
    Sharers = {r1, r2, r3}
    Loner = r0
    Calls <- CallsOf
    Throwing = {"AcceptInt"}
    MaxCuts = 1
    IntWidth = 4
    ChunkSize = 2
    StreamIterations = 3
    MaxFileSize = 22
    Heap = 12
    ITERATIONS = 2
    FewIterations = 2
    FewerIterations = 1
    Sizes = 3
    BigSizes = 2
    NSEC = 2
    Longest = 1
INVARIANTS
    DirtyIsLogged
    StoredIsCleared
    LogsAsTitled
    MapServesTheDisk
    MixupNeedsLateness
    OneThingToCome
    ReplyReachesItsCaller
    NothingLeftBehind
    StreamCarriesWhole
    AveragesAreTrue
PROPERTIES
    UdpBenchmarkEnds
    AsyncServerAnswers
    ThriftCallsReturn
