---- MODULE RWLock ----
(***************************************************************************)
(* What the server's lock map promises (P2/src/locks.h): one reader/writer *)
(* lock per storage path.  A thread that holds a path in shared mode does  *)
(* so with other readers, a thread that holds it in unique mode does so    *)
(* alone.  The actions below change the lock state only, so that a         *)
(* component that locks conjoins them with its own step; FileServer does,  *)
(* and MutexMap shows that locks.cc implements this module.                *)
(***************************************************************************)
CONSTANTS
    Threads,      \* the threads that serve RPCs
    Paths         \* the storage paths, the keys of the map

VARIABLES
    readers,      \* readers[p]: the threads that hold p in shared mode
    writers       \* writers[p]: the threads that hold p in unique mode

rwVars == <<readers, writers>>

LockTypeOK ==
    /\ readers \in [Paths -> SUBSET Threads]
    /\ writers \in [Paths -> SUBSET Threads]

LockInit ==
    /\ readers = [p \in Paths |-> {}]
    /\ writers = [p \in Paths |-> {}]

\* std::shared_lock(file_mutex): waits until no thread holds p in unique mode.
LockShared(t, p) ==
    /\ writers[p] = {}
    /\ readers' = [readers EXCEPT ![p] = @ \union {t}]
    /\ UNCHANGED writers

\* Mutant: a writer does not wait for readers.
LockUniqueOverReaders(t, p) ==
    /\ writers[p] = {}
    /\ writers' = [writers EXCEPT ![p] = @ \union {t}]
    /\ UNCHANGED readers

\* std::unique_lock(file_mutex): waits until no thread holds p at all.
LockUnique(t, p) ==
    /\ writers[p] = {}
    /\ readers[p] = {}
    /\ writers' = [writers EXCEPT ![p] = @ \union {t}]
    /\ UNCHANGED readers

UnlockShared(t, p) ==
    /\ readers' = [readers EXCEPT ![p] = @ \ {t}]
    /\ UNCHANGED writers

UnlockUnique(t, p) ==
    /\ writers' = [writers EXCEPT ![p] = @ \ {t}]
    /\ UNCHANGED readers

LockNext ==
    \E t \in Threads, p \in Paths :
        \/ LockShared(t, p)
        \/ LockUnique(t, p)
        \/ t \in readers[p] /\ UnlockShared(t, p)
        \/ t \in writers[p] /\ UnlockUnique(t, p)

LockSpec == LockInit /\ [][LockNext]_rwVars

\* A unique holder of a path is its only holder.
Exclusive ==
    \A p \in Paths :
        \A t \in writers[p] : writers[p] = {t} /\ readers[p] = {}
====
