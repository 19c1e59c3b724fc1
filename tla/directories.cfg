SPECIFICATION Spec
CONSTANTS
    d = d
    e = e
    c1 = c1
    c2 = c2
    Names <- TwoNames
    Clients = {c1, c2}
    Streaming = {c2}
    Threads = {t1, t2}
    NoThread = NoThread
    Nobody = Nobody
    MAX_RETRY = 2
    MaxCalls = 4
    MaxBreaks = 1
    MaxCrashes = 1
SYMMETRY Symmetric
INVARIANTS
    ListingIsComplete
    CacheMirrorsTree
