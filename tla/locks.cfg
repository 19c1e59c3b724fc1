SPECIFICATION FairSpec
CONSTANTS
    a = a
    b = b
    Threads = {t1, t2, t3}
    Paths = {a, b}
    Nested <- Ordered
    Nobody = Nobody
    MaxLocks = 4
PROPERTIES
    ImplementsRWLock
    EveryLockGranted
