---- MODULE MutexMap ----
(***************************************************************************)
(* The lock map of the server (P2/src/locks.cc): an unordered_map from     *)
(* storage path to std::shared_mutex, in which a lookup creates the mutex  *)
(* of a new path, and one std::mutex that guards the map.                  *)
(*                                                                         *)
(* A thread looks its mutex up under the outer mutex, releases that, and   *)
(* only then waits for the mutex it found.  A mutex is a number: the order *)
(* in which it was constructed.                                            *)
(***************************************************************************)
EXTENDS Naturals

CONSTANTS
    Threads,      \* the threads of the server
    Paths,        \* the keys
    Nested,       \* <<p, q>>: a thread that holds p alone may ask for q (Rename)
    Nobody,       \* no thread
    MaxLocks      \* bound: the locks asked for

ASSUME NobodyAssumption == Nobody \notin Threads
ASSUME MaxLocksAssumption == MaxLocks \in Nat

VARIABLES
    outer,        \* the thread that holds outer_mutex
    mutices,      \* mutices[p]: the mutex of p, 0 if p is not in the map
    made,         \* the mutexes constructed
    pc,           \* pc[t]: the next step of thread t, "run" between two calls
    want,         \* want[t]: the mode and the key of the call t is in
    found,        \* found[t]: the mutex the lookup of t found
    held,         \* held[t]: the locks t owns
    nlock         \* the calls made, at most MaxLocks

vars == <<outer, mutices, made, pc, want, found, held, nlock>>

Modes  == {"shared", "unique"}
Calls  == [mode : Modes, key : Paths]
NoCall == [mode |-> "none"]

Lock(t, m) == [mode |-> want[t].mode, key |-> want[t].key, mutex |-> m]

Holders(m, modes) == {t \in Threads : \E h \in held[t] : h.mutex = m /\ h.mode \in modes}

Goto(t, label) == pc' = [pc EXCEPT ![t] = label]
----
\* A handler takes its lock; Rename, which holds one, takes a second.
Ask(t, mode, p) ==
    /\ pc[t] = "run"
    /\ nlock < MaxLocks
    /\ nlock' = nlock + 1
    /\ \/ held[t] = {}
       \/ mode = "unique" /\ \E h \in held[t] : /\ held[t] = {h}
                                                /\ h.mode = "unique"
                                                /\ <<h.key, p>> \in Nested
    /\ want' = [want EXCEPT ![t] = [mode |-> mode, key |-> p]]
    /\ Goto(t, "lock")
    /\ UNCHANGED <<outer, mutices, made, found, held>>

\* Mutant: the map is read without the outer mutex.
LockOuterNot(t) ==
    /\ pc[t] = "lock"
    /\ Goto(t, "find")
    /\ UNCHANGED <<outer, mutices, made, want, found, held, nlock>>

\* outer_mutex.lock()
LockOuter(t) ==
    /\ pc[t] = "lock"
    /\ outer = Nobody
    /\ outer' = t
    /\ Goto(t, "find")
    /\ UNCHANGED <<mutices, made, want, found, held, nlock>>

\* mutices[key] looks the key up ...
Find(t) ==
    /\ pc[t] = "find"
    /\ found' = [found EXCEPT ![t] = mutices[want[t].key]]
    /\ Goto(t, "insert")
    /\ UNCHANGED <<outer, mutices, made, want, held, nlock>>

\* ... and adds it with a new mutex if it is not there.
Insert(t) ==
    /\ pc[t] = "insert"
    /\ IF found[t] = 0
         THEN /\ made' = made + 1
              /\ mutices' = [mutices EXCEPT ![want[t].key] = made + 1]
              /\ found' = [found EXCEPT ![t] = made + 1]
         ELSE UNCHANGED <<made, mutices, found>>
    /\ Goto(t, "unlock")
    /\ UNCHANGED <<outer, want, held, nlock>>

\* Mutant: the outer mutex is kept until the file's is free.
UnlockOuterLate(t) ==
    /\ pc[t] = "unlock"
    /\ IF Holders(found[t], Modes) = {}
         THEN outer' = Nobody /\ Goto(t, "wait")
         ELSE UNCHANGED <<outer, pc>>
    /\ UNCHANGED <<mutices, made, want, found, held, nlock>>

\* outer_mutex.unlock(); the reference into the map stays valid.
UnlockOuter(t) ==
    /\ pc[t] = "unlock"
    /\ outer' = Nobody
    /\ Goto(t, "wait")
    /\ UNCHANGED <<mutices, made, want, found, held, nlock>>

\* std::shared_lock(file_mutex), std::unique_lock(file_mutex)
LockFile(t) ==
    /\ pc[t] = "wait"
    /\ Holders(found[t], IF want[t].mode = "shared" THEN {"unique"} ELSE Modes) = {}
    /\ held' = [held EXCEPT ![t] = @ \union {Lock(t, found[t])}]
    /\ want' = [want EXCEPT ![t] = NoCall]
    /\ found' = [found EXCEPT ![t] = 0]
    /\ Goto(t, "run")
    /\ UNCHANGED <<outer, mutices, made, nlock>>

\* The destructor of a lock, or lock.unlock().
Release(t) ==
    /\ pc[t] = "run"
    /\ \E h \in held[t] : held' = [held EXCEPT ![t] = @ \ {h}]
    /\ UNCHANGED <<outer, mutices, made, pc, want, found, nlock>>

\* No handler will lock again.
Quiescent ==
    /\ nlock = MaxLocks
    /\ \A t \in Threads : pc[t] = "run" /\ held[t] = {}
    /\ UNCHANGED vars

Init ==
    /\ outer = Nobody
    /\ mutices = [p \in Paths |-> 0]
    /\ made = 0
    /\ pc = [t \in Threads |-> "run"]
    /\ want = [t \in Threads |-> NoCall]
    /\ found = [t \in Threads |-> 0]
    /\ held = [t \in Threads |-> {}]
    /\ nlock = 0

Step(t) ==
    \/ LockOuter(t) \/ Find(t) \/ Insert(t) \/ UnlockOuter(t)
    \/ LockFile(t) \/ Release(t)

Next ==
    \/ \E t \in Threads : Step(t) \/ \E mode \in Modes, p \in Paths : Ask(t, mode, p)
    \/ Quiescent

Spec == Init /\ [][Next]_vars

\* Every thread that can run does, and every handler returns.
FairSpec == Spec /\ \A t \in Threads : WF_vars(Step(t))
----
(***************************************************************************)
(* Properties                                                              *)
(***************************************************************************)
Labels == {"run", "lock", "find", "insert", "unlock", "wait"}
Locks  == [mode : Modes, key : Paths, mutex : Nat \ {0}]

TypeOK ==
    /\ outer \in Threads \union {Nobody}
    /\ mutices \in [Paths -> Nat]
    /\ made \in Nat
    /\ pc \in [Threads -> Labels]
    /\ want \in [Threads -> Calls \union {NoCall}]
    /\ found \in [Threads -> Nat]
    /\ held \in [Threads -> SUBSET Locks]
    /\ nlock \in 0 .. MaxLocks

\* What the map looks like from outside: per path, and without mutexes.
Holding(mode, p) == {t \in Threads : \E h \in held[t] : h.key = p /\ h.mode = mode}

RW == INSTANCE RWLock WITH
    readers <- [p \in Paths |-> Holding("shared", p)],
    writers <- [p \in Paths |-> Holding("unique", p)]

\* The map behaves as one reader/writer lock per path (locks.h), though the locks
\* are created by the first threads that ask for them.
ImplementsRWLock == RW!LockSpec

\* A thread that asks for a lock gets it, if every holder lets go: nobody waits
\* for a path while it keeps others, who hold that path, out of the map
\* (locks.cc:13).
EveryLockGranted ==
    \A t \in Threads : pc[t] = "lock" ~> pc[t] = "run"
====
