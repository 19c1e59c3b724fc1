---- MODULE AsyncServer ----
(***************************************************************************)
(* The asynchronous server (P2/src/async_server.cc), which serves MakeDir only,  *)
(* and its client (async_afs_client.cc).  One thread takes the events off a      *)
(* completion queue.  The tag of an event is a CallData, an object that waits for *)
(* a call, serves it, and deletes itself when its answer has gone.               *)
(***************************************************************************)
EXTENDS Naturals, Sequences, FiniteSets

CONSTANTS
    Callers,       \* the clients, each of which makes one call
    AsyncDirs,     \* the directories they make, of one existing parent
    CallDatas      \* the objects on the heap

ASSUME AsyncAssumption ==
    /\ IsFiniteSet(Callers) /\ IsFiniteSet(CallDatas)
    /\ Cardinality(CallDatas) > Cardinality(Callers)
    /\ Callers # {} /\ AsyncDirs # {}

VARIABLES
    up,          \* the server process lives
    status_,     \* status_[k]: "PROCESS" or "FINISH"; "free" if not allocated
    outstanding, \* outstanding[k]: the operation gRPC has for k: "none", "request" or "finish"
    cq,          \* the completion queue: events of a tag and ok
    caller,      \* caller[k]: the client k serves
    making,      \* making[c]: the directory c asked for
    status,      \* status[c]: "idle", "calling", "serving", "OK", "UNAVAILABLE" or "dead"
    dirs         \* the directories made

asyncVars == <<up, status_, outstanding, cq, caller, making, status, dirs>>

FreeCallData == CHOOSE k \in CallDatas : status_[k] = "free"

\* The client's MakeDir: StartCall and Finish.
StartCall(c, d) ==
    /\ status[c] = "idle"
    /\ status' = [status EXCEPT ![c] = IF up THEN "calling" ELSE "UNAVAILABLE"]
    /\ making' = [making EXCEPT ![c] = d]
    /\ UNCHANGED <<up, status_, outstanding, cq, caller, dirs>>

\* gRPC hands a call to the CallData that asked for one.
Match(k, c) ==
    /\ up
    /\ outstanding[k] = "request"
    /\ status[c] = "calling"
    /\ status' = [status EXCEPT ![c] = "serving"]
    /\ outstanding' = [outstanding EXCEPT ![k] = "none"]
    /\ caller' = [caller EXCEPT ![k] = c]
    /\ cq' = Append(cq, [tag |-> k, ok |-> TRUE])
    /\ UNCHANGED <<up, status_, making, dirs>>

NextEvent(state) ==
    /\ up
    /\ cq # <<>>
    /\ Head(cq).ok
    /\ status_[Head(cq).tag] = state
    /\ cq' = Tail(cq)

\* Mutant: no CallData is made for the next call.
ServeMakeDirNoSpawn ==
    /\ NextEvent("PROCESS")
    /\ LET k == Head(cq).tag
       IN  /\ status_' = [status_ EXCEPT ![k] = "FINISH"]
           /\ outstanding' = [outstanding EXCEPT ![k] = "finish"]
           /\ dirs' = dirs \union {making[caller[k]]}
    /\ UNCHANGED <<up, caller, making, status>>

\* Mutant: mkdir is repeated until it succeeds.
ServeMakeDirRetries ==
    /\ NextEvent("PROCESS")
    /\ LET k == Head(cq).tag
           n == FreeCallData
       IN  /\ making[caller[k]] \notin dirs
           /\ status_' = [status_ EXCEPT ![k] = "FINISH", ![n] = "PROCESS"]
           /\ outstanding' = [outstanding EXCEPT ![k] = "finish", ![n] = "request"]
           /\ dirs' = dirs \union {making[caller[k]]}
    /\ UNCHANGED <<up, caller, making, status>>

\* Proceed in state PROCESS makes a CallData for the next call, makes the directory
\* whatever mkdir(2) says, and answers OK.
ServeMakeDir ==
    /\ NextEvent("PROCESS")
    /\ LET k == Head(cq).tag
           n == FreeCallData
       IN  /\ status_' = [status_ EXCEPT ![k] = "FINISH", ![n] = "PROCESS"]
           /\ outstanding' = [outstanding EXCEPT ![k] = "finish", ![n] = "request"]
           /\ dirs' = dirs \union {making[caller[k]]}
    /\ UNCHANGED <<up, caller, making, status>>

\* The answer goes to the client; if the client has gone, ok may be false.
FinishDone(k) ==
    /\ up
    /\ outstanding[k] = "finish"
    /\ outstanding' = [outstanding EXCEPT ![k] = "none"]
    /\ LET c == caller[k]
       IN  /\ status' = [status EXCEPT ![c] = IF @ = "dead" THEN "dead" ELSE "OK"]
           /\ \E ok \in {TRUE, status[c] # "dead"} : cq' = Append(cq, [tag |-> k, ok |-> ok])
    /\ UNCHANGED <<up, status_, caller, making, dirs>>

\* Proceed in state FINISH: delete this.
Delete ==
    /\ NextEvent("FINISH")
    /\ status_' = [status_ EXCEPT ![Head(cq).tag] = "free"]
    /\ UNCHANGED <<up, outstanding, caller, making, status, dirs>>

\* GPR_ASSERT(ok) aborts the process.
Abort ==
    /\ up
    /\ cq # <<>>
    /\ ~Head(cq).ok
    /\ up' = FALSE
    /\ status_' = [k \in CallDatas |-> "free"]
    /\ outstanding' = [k \in CallDatas |-> "none"]
    /\ cq' = <<>>
    /\ status' = [c \in Callers |-> IF status[c] \in {"calling", "serving"} THEN "UNAVAILABLE"
                                                                        ELSE status[c]]
    /\ UNCHANGED <<caller, making, dirs>>

CallerDies(c) ==
    /\ status[c] \in {"calling", "serving"}
    /\ status' = [status EXCEPT ![c] = "dead"]
    /\ UNCHANGED <<up, status_, outstanding, cq, caller, making, dirs>>

AsyncIdle ==
    /\ \A c \in Callers : status[c] \in {"OK", "UNAVAILABLE", "dead"}
    /\ UNCHANGED asyncVars

AsyncInit ==
    LET k == CHOOSE k \in CallDatas : TRUE
    IN  /\ up = TRUE
        /\ status_ = [n \in CallDatas |-> IF n = k THEN "PROCESS" ELSE "free"]
        /\ outstanding = [n \in CallDatas |-> IF n = k THEN "request" ELSE "none"]
        /\ cq = <<>>
        /\ caller = [n \in CallDatas |-> CHOOSE c \in Callers : TRUE]
        /\ making = [c \in Callers |-> CHOOSE d \in AsyncDirs : TRUE]
        /\ status = [c \in Callers |-> "idle"]
        /\ dirs = {}

HandleRpcs == ServeMakeDir \/ Delete \/ Abort
Runtime    == \E k \in CallDatas : FinishDone(k) \/ \E c \in Callers : Match(k, c)

AsyncNext ==
    \/ \E c \in Callers : CallerDies(c) \/ \E d \in AsyncDirs : StartCall(c, d)
    \/ HandleRpcs
    \/ Runtime
    \/ AsyncIdle

AsyncFairness == WF_asyncVars(HandleRpcs) /\ WF_asyncVars(Runtime)
AsyncSpec == AsyncInit /\ [][AsyncNext]_asyncVars /\ AsyncFairness
----
(***************************************************************************)
(* Properties                                                              *)
(***************************************************************************)
Allocated == {k \in CallDatas : status_[k] # "free"}
Queued(k) == {i \in DOMAIN cq : cq[i].tag = k}

\* Every CallData has one thing to come, an operation of gRPC or an event, so that
\* none is deleted while something refers to it and none is forgotten; and
\* exactly one is there for the next call.
OneThingToCome ==
    up => /\ \A k \in CallDatas :
               Cardinality(Queued(k)) + (IF outstanding[k] = "none" THEN 0 ELSE 1)
                 = IF k \in Allocated THEN 1 ELSE 0
          /\ Cardinality({k \in Allocated : status_[k] = "PROCESS"}) = 1

\* Every call is answered, unless its client dies or, as another's client died, the
\* server.  As each client calls once, no call is under way in the end.
AsyncCallAnswered == <>[](\A c \in Callers : status[c] \notin {"calling", "serving"})
====
