---- MODULE MutexMapProofs ----
(***************************************************************************)
(* Proofs about MutexMap: the map that locks.cc fills on demand behaves as *)
(* the locks of RWLock, for any number of threads, paths and calls.        *)
(***************************************************************************)
EXTENDS MutexMap, TLAPS

\* Between outer_mutex.lock() and outer_mutex.unlock() a thread owns the map.
MapIsOwned ==
    \A t \in Threads : pc[t] \in {"find", "insert", "unlock"} => outer = t

\* A thread in a call knows which lock it wants.
CallIsKnown ==
    \A t \in Threads : pc[t] # "run" => want[t] \in Calls

\* What a lookup found is still what the map says, ...
LookupIsCurrent ==
    \A t \in Threads :
        pc[t] \in {"insert", "unlock", "wait"} => found[t] = mutices[want[t].key]

\* ... a mutex, once the key was inserted, ...
LookupIsAMutex ==
    \A t \in Threads : pc[t] \in {"unlock", "wait"} => found[t] # 0

\* ... and so is the mutex of every lock that is held.
LockIsCurrent ==
    \A t \in Threads : \A h \in held[t] : h.mutex = mutices[h.key]

IInv ==
    /\ TypeOK
    /\ MapIsOwned
    /\ CallIsKnown
    /\ LookupIsCurrent
    /\ LookupIsAMutex
    /\ LockIsCurrent
----
\* An empty map owns nothing and no thread is in a call.
LEMMA InitIInv == Init => IInv
  BY NobodyAssumption, MaxLocksAssumption
     DEF Init, IInv, TypeOK, MapIsOwned, CallIsKnown, LookupIsCurrent, LookupIsAMutex,
         LockIsCurrent, Labels, Locks, Modes, Calls

\* The type invariant is kept by every step.
LEMMA NextTypeOK == IInv /\ [Next]_vars => TypeOK'
  <1> SUFFICES ASSUME IInv, [Next]_vars PROVE TypeOK'
    OBVIOUS
  <1> USE NobodyAssumption, MaxLocksAssumption DEF IInv, TypeOK
  <1>1. ASSUME NEW t \in Threads, NEW mode \in Modes, NEW p \in Paths, Ask(t, mode, p)
        PROVE TypeOK'
    BY <1>1 DEF Ask, Goto, Labels, Calls
  <1>2. ASSUME NEW t \in Threads, LockOuter(t) PROVE TypeOK'
    BY <1>2 DEF LockOuter, Goto, Labels
  <1>3. ASSUME NEW t \in Threads, Find(t) PROVE TypeOK'
    <2>1. want[t].key \in Paths
      BY <1>3 DEF Find, CallIsKnown, Calls
    <2> QED
      BY <1>3, <2>1 DEF Find, Goto, Labels
  <1>4. ASSUME NEW t \in Threads, Insert(t) PROVE TypeOK'
    BY <1>4 DEF Insert, Goto, Labels
  <1>5. ASSUME NEW t \in Threads, UnlockOuter(t) PROVE TypeOK'
    BY <1>5 DEF UnlockOuter, Goto, Labels
  <1>6. ASSUME NEW t \in Threads, LockFile(t) PROVE TypeOK'
    <2>1. want[t] \in Calls /\ found[t] \in Nat \ {0}
      BY <1>6 DEF LockFile, CallIsKnown, LookupIsAMutex
    <2>2. Lock(t, found[t]) \in Locks
      BY <2>1 DEF Lock, Locks, Calls
    <2> QED
      BY <1>6, <2>2 DEF LockFile, Goto, Labels
  <1>7. ASSUME NEW t \in Threads, Release(t) PROVE TypeOK'
    BY <1>7 DEF Release
  <1>8. ASSUME UNCHANGED vars PROVE TypeOK'
    BY <1>8 DEF vars
  <1> QED
    BY <1>1, <1>2, <1>3, <1>4, <1>5, <1>6, <1>7, <1>8 DEF Next, Step, Quiescent

\* The rest is kept because only the owner of the map adds to it, and only a key
\* that it has just found missing.
LEMMA NextIInv == IInv /\ [Next]_vars => IInv'
  <1> SUFFICES ASSUME IInv, [Next]_vars PROVE IInv'
    OBVIOUS
  <1>0. TypeOK'
    BY NextTypeOK
  <1> DEFINE Rest == /\ MapIsOwned /\ CallIsKnown /\ LookupIsCurrent
                     /\ LookupIsAMutex /\ LockIsCurrent
  <1> USE NobodyAssumption
      DEF IInv, TypeOK, MapIsOwned, CallIsKnown, LookupIsCurrent, LookupIsAMutex,
          LockIsCurrent
  <1>1. ASSUME NEW t \in Threads, NEW mode \in Modes, NEW p \in Paths, Ask(t, mode, p)
        PROVE Rest'
    BY <1>1 DEF Ask, Goto, Calls
  <1>2. ASSUME NEW t \in Threads, LockOuter(t) PROVE Rest'
    BY <1>2 DEF LockOuter, Goto
  <1>3. ASSUME NEW t \in Threads, Find(t) PROVE Rest'
    BY <1>3 DEF Find, Goto
  <1>4. ASSUME NEW t \in Threads, Insert(t) PROVE Rest'
    <2> DEFINE k == want[t].key
    <2>1. outer = t /\ want[t] \in Calls /\ k \in Paths /\ found[t] = mutices[k]
      BY <1>4 DEF Insert, Calls
    <2>2. CASE found[t] # 0
      BY <1>4, <2>1, <2>2 DEF Insert, Goto
    <2>3. CASE found[t] = 0
      <3>1. /\ made \in Nat /\ made + 1 # 0
            /\ mutices' = [mutices EXCEPT ![k] = made + 1]
            /\ found' = [found EXCEPT ![t] = made + 1]
            /\ pc' = [pc EXCEPT ![t] = "unlock"]
            /\ UNCHANGED <<outer, want, held>>
        BY <1>4, <2>3 DEF Insert, Goto
      <3>2. MapIsOwned' /\ CallIsKnown' /\ LookupIsAMutex'
        BY <2>1, <3>1
      <3>3. LookupIsCurrent'
        <4> SUFFICES ASSUME NEW u \in Threads, pc'[u] \in {"insert", "unlock", "wait"}
                     PROVE  found'[u] = mutices'[want'[u].key]
          OBVIOUS
        <4>1. CASE u = t
          BY <2>1, <3>1, <4>1
        <4>2. CASE u # t
          <5>1. pc[u] = "wait" /\ found[u] = mutices[want[u].key] /\ found[u] # 0
            BY <2>1, <3>1, <4>2
          <5>2. want[u].key # k
            BY <2>1, <2>3, <5>1
          <5>3. want[u].key \in Paths
            BY <5>1 DEF Calls
          <5> QED
            BY <3>1, <4>2, <5>1, <5>2, <5>3
        <4> QED
          BY <4>1, <4>2
      <3>4. LockIsCurrent'
        <4> SUFFICES ASSUME NEW u \in Threads, NEW h \in held[u]
                     PROVE  h.mutex = mutices'[h.key]
          BY <3>1
        <4>1. h.key \in Paths /\ h.mutex # 0 /\ h.mutex = mutices[h.key]
          BY DEF Locks
        <4> QED
          BY <2>1, <2>3, <3>1, <4>1
      <3> QED
        BY <3>2, <3>3, <3>4
    <2> QED
      BY <2>2, <2>3
  <1>5. ASSUME NEW t \in Threads, UnlockOuter(t) PROVE Rest'
    BY <1>5 DEF UnlockOuter, Goto
  <1>6. ASSUME NEW t \in Threads, LockFile(t) PROVE Rest'
    BY <1>6 DEF LockFile, Goto, Lock
  <1>7. ASSUME NEW t \in Threads, Release(t) PROVE Rest'
    BY <1>7 DEF Release
  <1>8. ASSUME UNCHANGED vars PROVE Rest'
    BY <1>8 DEF vars
  <1>9. Rest'
    BY <1>1, <1>2, <1>3, <1>4, <1>5, <1>6, <1>7, <1>8 DEF Next, Step, Quiescent
  <1> QED
    BY <1>0, <1>9

\* A call is always made of a mutex that is the path's for good: the inductive
\* invariant of locks.cc:11-13.
THEOREM LookupsAgree == Spec => []IInv
  BY InitIInv, NextIInv, PTL DEF Spec
----
\* The map starts as a set of locks nobody holds.
LEMMA InitRefines == Init => RW!LockInit
  BY DEF Init, RW!LockInit, Holding

\* Every step of the map is a step of one lock, or none.
LEMMA NextRefines == IInv /\ [Next]_vars => [RW!LockNext]_(RW!rwVars)
  <1> SUFFICES ASSUME IInv, [Next]_vars PROVE [RW!LockNext]_(RW!rwVars)
    OBVIOUS
  <1> USE DEF IInv
  <1>1. ASSUME UNCHANGED held PROVE UNCHANGED RW!rwVars
    BY <1>1 DEF RW!rwVars, Holding
  <1>2. ASSUME NEW t \in Threads, LockFile(t) PROVE RW!LockNext
    <2> DEFINE k == want[t].key
               l == Lock(t, found[t])
    <2>1. want[t] \in Calls /\ k \in Paths /\ found[t] = mutices[k]
      BY <1>2 DEF LockFile, CallIsKnown, LookupIsCurrent, Calls
    <2>2. l.mode = want[t].mode /\ l.key = k
      BY DEF Lock
    <2>3. \A mode \in Modes : Holders(found[t], {mode}) = {} => Holding(mode, k) = {}
      BY <2>1 DEF Holders, Holding, LockIsCurrent
    <2>4. held' = [held EXCEPT ![t] = held[t] \union {l}] /\ held \in [Threads -> SUBSET Locks]
      BY <1>2 DEF LockFile, TypeOK
    <2>5. \A u \in Threads : held'[u] = IF u = t THEN held[u] \union {l} ELSE held[u]
      BY <2>4
    <2>6. \A mode \in Modes, p \in Paths :
            Holding(mode, p)' = IF mode = want[t].mode /\ p = k
                                  THEN Holding(mode, p) \union {t} ELSE Holding(mode, p)
      BY <2>2, <2>5 DEF Holding
    <2>7. CASE want[t].mode = "shared"
      <3>1. Holding("unique", k) = {}
        BY <1>2, <2>3, <2>7 DEF LockFile, Modes
      <3> QED
        BY <2>1, <2>6, <2>7, <3>1 DEF RW!LockNext, RW!LockShared, Modes
    <2>8. CASE want[t].mode = "unique"
      <3>1. Holders(found[t], Modes) = {}
        BY <1>2, <2>8 DEF LockFile
      <3>2. Holding("unique", k) = {} /\ Holding("shared", k) = {}
        BY <2>3, <3>1 DEF Holders, Modes
      <3> QED
        BY <2>1, <2>6, <2>8, <3>2 DEF RW!LockNext, RW!LockUnique, Modes
    <2> QED
      BY <2>1, <2>7, <2>8 DEF Calls, Modes
  <1>3. ASSUME NEW t \in Threads, Release(t) PROVE RW!LockNext
    <2>1. PICK h \in held[t] : held' = [held EXCEPT ![t] = held[t] \ {h}]
      BY <1>3 DEF Release
    <2>2. h \in Locks /\ held \in [Threads -> SUBSET Locks]
      BY DEF TypeOK
    <2>3. \A g \in held[t] : g.mode = h.mode /\ g.key = h.key => g = h
      <3> SUFFICES ASSUME NEW g \in held[t], g.mode = h.mode, g.key = h.key PROVE g = h
        OBVIOUS
      <3>1. g.mutex = h.mutex
        BY DEF LockIsCurrent
      <3>2. g \in Locks
        BY <2>2
      <3> QED
        BY <2>2, <3>1, <3>2 DEF Locks
    <2>4. \A u \in Threads : held'[u] = IF u = t THEN held[u] \ {h} ELSE held[u]
      BY <2>1, <2>2
    <2>5. \A mode \in Modes, p \in Paths :
            Holding(mode, p)' = IF mode = h.mode /\ p = h.key
                                  THEN Holding(mode, p) \ {t} ELSE Holding(mode, p)
      BY <2>3, <2>4 DEF Holding
    <2>6. t \in Holding(h.mode, h.key)
      BY DEF Holding
    <2>7. h.mode \in Modes /\ h.key \in Paths
      BY <2>2 DEF Locks
    <2>8. CASE h.mode = "shared"
      BY <2>5, <2>6, <2>7, <2>8 DEF RW!LockNext, RW!UnlockShared, Modes
    <2>9. CASE h.mode = "unique"
      BY <2>5, <2>6, <2>7, <2>9 DEF RW!LockNext, RW!UnlockUnique, Modes
    <2> QED
      BY <2>7, <2>8, <2>9 DEF Modes
  <1>4. ASSUME NEW t \in Threads, Step(t) PROVE RW!LockNext \/ UNCHANGED RW!rwVars
    BY <1>1, <1>2, <1>3, <1>4 DEF Step, LockOuter, Find, Insert, UnlockOuter
  <1>5. ASSUME NEW t \in Threads, NEW mode \in Modes, NEW p \in Paths, Ask(t, mode, p)
        PROVE UNCHANGED RW!rwVars
    BY <1>1, <1>5 DEF Ask
  <1>6. ASSUME UNCHANGED vars PROVE UNCHANGED RW!rwVars
    BY <1>1, <1>6 DEF vars
  <1> QED
    BY <1>4, <1>5, <1>6 DEF Next, Quiescent

\* locks.cc keeps the promise of locks.h: per path, readers share and a writer is
\* alone, though two threads may ask for a path that is not in the map yet.
THEOREM Refinement == Spec => ImplementsRWLock
  <1>1. IInv /\ [Next]_vars => [RW!LockNext]_(RW!rwVars)
    BY NextRefines
  <1> QED
    BY <1>1, InitRefines, LookupsAgree, PTL DEF Spec, ImplementsRWLock, RW!LockSpec
====
