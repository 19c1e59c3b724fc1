---- MODULE ThriftRpc ----
(***************************************************************************)
(* The Thrift service of P1/part3: the stubs generated for CustomSvc            *)
(* (gen-cpp/CustomSvc.cpp), the server (cpp_thrift_server.cpp), which serves one  *)
(* connection at a time and answers its messages in order, and both generated     *)
(* clients: the plain one, on a connection of its own, and the concurrent one,    *)
(* whose threads share a connection and hand each other the replies they read.     *)
(*                                                                         *)
(* The code is the same for every method but for the name, the one field of the   *)
(* arguments and its type, so a method is a record of these.  A message on the     *)
(* wire is two items, its head and the struct that follows it.  Thrift's own        *)
(* classes (the sentries and TConcurrentClientSyncInfo) are external.               *)
(***************************************************************************)
EXTENDS Integers, Sequences, FiniteSets

CONSTANTS
    Sharers,       \* the threads that share the concurrent client
    Loner,         \* the thread that has the plain one
    Calls,         \* Calls[c]: the methods c calls, in order
    Throwing,      \* the methods whose handler may throw
    MaxCuts        \* bound: the connections lost

Rpcs  == Sharers \union {Loner}
Conns == {"plain", "shared"}
Conn(c) == IF c = Loner THEN "plain" ELSE "shared"

----
(***************************************************************************)
(* The service: a struct with one field for the arguments, one for the result   *)
(***************************************************************************)
Field(id, type) == [id |-> id, type |-> type]

getHelloMessage_args                 == Field(1, "string")
getHelloMessage_result               == Field(0, "string")
AcceptInt_args                       == Field(1, "i32")
AcceptInt_result                     == Field(0, "string")
AcceptDouble_args                    == Field(1, "double")
AcceptDouble_result                  == Field(0, "string")
AcceptString_args                    == Field(1, "string")
AcceptString_result                  == Field(0, "string")
AcceptComplexDataStructure_args      == Field(1, "struct")
AcceptComplexDataStructure_result    == Field(0, "string")
AcceptClientSideStream_args          == Field(1, "string")
AcceptClientSideStream_result        == Field(0, "string")

Methods == {"getHelloMessage", "AcceptInt", "AcceptDouble", "AcceptString",
            "AcceptComplexDataStructure", "AcceptClientSideStream"}

ASSUME RpcAssumption ==
    /\ Loner \notin Sharers /\ MaxCuts \in Nat
    /\ Calls \in [Rpcs -> Seq(Methods)]

ArgsOf ==
    [getHelloMessage |-> getHelloMessage_args, AcceptInt |-> AcceptInt_args,
     AcceptDouble |-> AcceptDouble_args, AcceptString |-> AcceptString_args,
     AcceptComplexDataStructure |-> AcceptComplexDataStructure_args,
     AcceptClientSideStream |-> AcceptClientSideStream_args]

ResultOf ==
    [getHelloMessage |-> getHelloMessage_result, AcceptInt |-> AcceptInt_result,
     AcceptDouble |-> AcceptDouble_result, AcceptString |-> AcceptString_result,
     AcceptComplexDataStructure |-> AcceptComplexDataStructure_result,
     AcceptClientSideStream |-> AcceptClientSideStream_result]

\* The handlers of cpp_thrift_server.cpp.
Handle(m, arg) ==
    CASE m = "getHelloMessage"            -> <<"Hello ", arg>>
      [] m = "AcceptInt"                  -> <<"Received Integer">>
      [] m = "AcceptDouble"               -> <<"Received double">>
      [] m = "AcceptString"               -> <<"Received string">>
      [] m = "AcceptComplexDataStructure" -> <<"Received Complex Data structure">>
      [] m = "AcceptClientSideStream"     -> <<"Received client streaming data">>

Unset == <<"unset">>

\* write puts the field on the wire, read takes it off if it has the number and the
\* type read expects, and skips it otherwise.
WriteStruct(f, val) == [id |-> f.id, type |-> f.type, val |-> val]
ReadStruct(f, body) == IF body.id = f.id /\ body.type = f.type THEN body.val ELSE Unset

MessageHead(name, mtype, seqid) == [name |-> name, mtype |-> mtype, seqid |-> seqid]
NoHead == MessageHead("none", "none", 0)
----
VARIABLES
    rpc,        \* rpc[c]: what c is at: its step, method, seqid and outcome
    toServ,     \* toServ[n]: the items on the way to the server on connection n
    toRpc,      \* toRpc[n]: those on the way back
    state,      \* state[n]: "waiting" to be accepted, "served", "closed" or "cut"
    sendMutex,  \* the sharer that writes, Loner for none
    readMutex,  \* the sharer that reads, Loner for none
    recvPending,\* the head of a reply whose caller has still to read its body
    wakeSome,   \* wakeupSomeone_
    notified,   \* the sleepers whose monitor was notified
    stop,       \* the concurrent client is in a bad state
    nextseqid,
    toCall,     \* toCall[c]: the methods c has not yet called
    cuts

syncVars == <<sendMutex, readMutex, recvPending, wakeSome, notified, stop, nextseqid>>
wireVars == <<toServ, toRpc, state, cuts>>
rpcVars  == <<rpc, syncVars, wireVars, toCall>>

NoRpc == [step |-> "idle", method |-> "none", seqid |-> 0, outcome |-> <<"exception">>]
Returned(c) == rpc[c].step = "done"
Between(c)  == rpc[c].step \in {"idle", "done"}
Live(n)     == state[n] \in {"waiting", "served"}

At(c, step) == rpc[c].step = step
Step2(c, step) == rpc' = [rpc EXCEPT ![c].step = step]
Ends(c, outcome) == rpc' = [rpc EXCEPT ![c].step = "done", ![c].outcome = outcome]

\* c is between calls and makes the next one.
CallsNext(c, seqid, step) ==
    /\ Between(c)
    /\ toCall[c] # <<>>
    /\ toCall' = [toCall EXCEPT ![c] = Tail(@)]
    /\ rpc' = [rpc EXCEPT ![c] = [step |-> step, method |-> Head(toCall[c]), seqid |-> seqid,
                                  outcome |-> <<"exception">>]]

\* The struct of the arguments c sends; its value is c itself.
ArgsStruct(c) == WriteStruct(ArgsOf[rpc[c].method], c)
\* The outcome of a reply's body for c.
Outcome(c, head, body) ==
    IF head.mtype = "exception" \/ ReadStruct(ResultOf[rpc[c].method], body) = Unset
    THEN <<"exception">> ELSE ReadStruct(ResultOf[rpc[c].method], body)
----
(***************************************************************************)
(* The plain client: send_ and then recv_, with sequence number 0              *)
(***************************************************************************)
PlainSend ==
    /\ CallsNext(Loner, 0, "recv")
    /\ Live("plain")
    /\ toServ' = [toServ EXCEPT !["plain"] =
                    @ \o <<MessageHead(rpc'[Loner].method, "call", 0),
                           WriteStruct(ArgsOf[rpc'[Loner].method], Loner)>>]
    /\ UNCHANGED <<toRpc, state, cuts, syncVars>>

PlainRecv ==
    /\ At(Loner, "recv")
    /\ Len(toRpc["plain"]) >= 2
    /\ Ends(Loner, Outcome(Loner, toRpc["plain"][1], toRpc["plain"][2]))
    /\ toRpc' = [toRpc EXCEPT !["plain"] = SubSeq(@, 3, Len(@))]
    /\ UNCHANGED <<toServ, state, cuts, syncVars, toCall>>

\* readMessageBegin throws when the connection is lost.
PlainFails ==
    /\ At(Loner, "recv")
    /\ state["plain"] = "cut"
    /\ Ends(Loner, <<"exception">>)
    /\ UNCHANGED <<wireVars, syncVars, toCall>>
----
(***************************************************************************)
(* The concurrent client                                                   *)
(***************************************************************************)
Notify(cs) == notified' = notified \union {c \in cs : At(c, "wait")}

\* The monitors there are: one for each call between generateSeqId and the end.
Monitors == {c \in Sharers : rpc[c].seqid > 0 /\ ~Returned(c)}

\* Mutant: nobody is woken.
WakeupNobody(c) == UNCHANGED <<wakeSome, notified>>

\* TConcurrentRecvSentry's destructor after commit(): whoever called last is woken
\* to take over the reading.
WakeupAnyone(c) ==
    LET others == Monitors \ {c}
    IN  /\ wakeSome' = TRUE
        /\ Notify({d \in others : \A e \in others : rpc[e].seqid <= rpc[d].seqid})

\* A sentry's destructor without commit(): everybody is told.
MarkBad == stop' = TRUE /\ Notify(Sharers) /\ UNCHANGED wakeSome

\* The sequence number is taken when there is a call; a client in a bad state throws.
GenerateSeqId(c) ==
    /\ CallsNext(c, IF stop THEN 0 ELSE nextseqid, IF stop THEN "done" ELSE "send")
    /\ nextseqid' = IF stop THEN nextseqid ELSE nextseqid + 1
    /\ UNCHANGED <<sendMutex, readMutex, recvPending, wakeSome, notified, stop, wireVars>>

\* TConcurrentSendSentry locks the write mutex; writeMessageBegin.
WriteHead(c) ==
    /\ At(c, "send")
    /\ sendMutex = Loner
    /\ sendMutex' = c
    /\ toServ' = [toServ EXCEPT !["shared"] =
                    Append(@, MessageHead(rpc[c].method, "call", rpc[c].seqid))]
    /\ Step2(c, "args")
    /\ UNCHANGED <<toRpc, state, cuts, readMutex, recvPending, wakeSome, notified, stop,
                   nextseqid, toCall>>

\* args.write, flush and commit, or the flush fails.
WriteArgs(c) ==
    /\ At(c, "args")
    /\ sendMutex' = Loner
    /\ \/ /\ Live("shared")
          /\ toServ' = [toServ EXCEPT !["shared"] = Append(@, ArgsStruct(c))]
          /\ Step2(c, "lock")
          /\ UNCHANGED <<wakeSome, notified, stop>>
       \/ /\ ~Live("shared")
          /\ Ends(c, <<"exception">>)
          /\ MarkBad
          /\ UNCHANGED toServ
    /\ UNCHANGED <<toRpc, state, cuts, readMutex, recvPending, nextseqid, toCall>>

\* TConcurrentRecvSentry locks the read mutex.
LockRead(c) ==
    /\ At(c, "lock")
    /\ readMutex = Loner
    /\ readMutex' = c
    /\ Step2(c, "head")
    /\ UNCHANGED <<sendMutex, recvPending, wakeSome, notified, stop, nextseqid, wireVars, toCall>>

\* The call ends with an exception and the sentry is not committed.
Gives(c) ==
    /\ Ends(c, <<"exception">>)
    /\ readMutex' = Loner
    /\ MarkBad

\* Mutant: any head is taken for the reply to one's own call.
ReadHeadAny(c) ==
    /\ At(c, "head")
    /\ toRpc["shared"] # <<>>
    /\ recvPending' = Head(toRpc["shared"])
    /\ toRpc' = [toRpc EXCEPT !["shared"] = Tail(@)]
    /\ Step2(c, "body")
    /\ wakeSome' = FALSE
    /\ UNCHANGED <<sendMutex, readMutex, notified, stop, nextseqid, toServ, state, cuts, toCall>>

\* getPending: the head another thread has read, or else readMessageBegin.
ReadHead(c) ==
    /\ At(c, "head")
    /\ IF stop \/ (recvPending = NoHead /\ toRpc["shared"] = <<>> /\ state["shared"] = "cut")
       THEN Gives(c) /\ UNCHANGED <<recvPending, toRpc>>
       ELSE /\ recvPending # NoHead \/ toRpc["shared"] # <<>>
            /\ LET head == IF recvPending # NoHead THEN recvPending ELSE Head(toRpc["shared"])
               IN  IF head.seqid = rpc[c].seqid
                   THEN /\ Step2(c, "body")
                        /\ recvPending' = head
                        /\ UNCHANGED notified
                   ELSE \* updatePending tells the caller, waitForWork sleeps
                        /\ recvPending' = head
                        /\ Notify({d \in Sharers : rpc[d].seqid = head.seqid})
                        /\ Step2(c, "wait")
            /\ toRpc' = IF recvPending # NoHead THEN toRpc
                        ELSE [toRpc EXCEPT !["shared"] = Tail(@)]
            /\ readMutex' = IF rpc'[c].step = "wait" THEN Loner ELSE c
            /\ wakeSome' = FALSE
            /\ UNCHANGED stop
    /\ UNCHANGED <<sendMutex, nextseqid, toServ, state, cuts, toCall>>

\* Mutant: an exception from the handler is not committed.
ReadBodyUncommitted(c) ==
    /\ At(c, "body")
    /\ toRpc["shared"] # <<>>
    /\ Ends(c, Outcome(c, recvPending, Head(toRpc["shared"])))
    /\ toRpc' = [toRpc EXCEPT !["shared"] = Tail(@)]
    /\ readMutex' = Loner
    /\ IF recvPending.mtype = "exception" THEN MarkBad ELSE WakeupAnyone(c) /\ UNCHANGED stop
    /\ recvPending' = NoHead
    /\ UNCHANGED <<sendMutex, nextseqid, toServ, state, cuts, toCall>>

\* result.read; commit, or MISSING_RESULT, which leaves the client in a bad state.
ReadBody(c) ==
    /\ At(c, "body")
    /\ IF toRpc["shared"] = <<>> /\ state["shared"] = "cut"
       THEN Gives(c) /\ UNCHANGED toRpc
       ELSE /\ toRpc["shared"] # <<>>
            /\ Ends(c, Outcome(c, recvPending, Head(toRpc["shared"])))
            /\ toRpc' = [toRpc EXCEPT !["shared"] = Tail(@)]
            /\ readMutex' = Loner
            /\ WakeupAnyone(c)
            /\ UNCHANGED stop
    /\ recvPending' = NoHead
    /\ UNCHANGED <<sendMutex, nextseqid, toServ, state, cuts, toCall>>

\* waitForWork returns with the read mutex, when there is work for the thread.
WaitForWork(c) ==
    /\ At(c, "wait")
    /\ c \in notified
    /\ readMutex = Loner
    /\ notified' = notified \ {c}
    /\ IF stop THEN Ends(c, <<"exception">>) /\ UNCHANGED readMutex
       ELSE IF wakeSome \/ recvPending.seqid = rpc[c].seqid
            THEN Step2(c, "head") /\ readMutex' = c
            ELSE UNCHANGED <<rpc, readMutex>>
    /\ UNCHANGED <<sendMutex, recvPending, wakeSome, stop, nextseqid, wireVars, toCall>>

\* A monitor may wake without being notified; there is no work.
SpuriousWakeup(c) == At(c, "wait") /\ UNCHANGED rpcVars
----
(***************************************************************************)
(* The server, and the connections                                         *)
(***************************************************************************)
Accept(n) ==
    /\ state[n] = "waiting"
    /\ \A o \in Conns : state[o] # "served"
    /\ state' = [state EXCEPT ![n] = "served"]
    /\ UNCHANGED <<rpc, toServ, toRpc, cuts, syncVars, toCall>>

\* dispatchCall and process_: reads the arguments, calls the handler, writes the
\* result, or the exception it threw.
Process(n) ==
    /\ state[n] = "served"
    /\ Len(toServ[n]) >= 2
    /\ LET head == toServ[n][1]
           arg  == ReadStruct(ArgsOf[head.name], toServ[n][2])
           done == WriteStruct(ResultOf[head.name], Handle(head.name, arg))
       IN  \E mtype \in {"reply"} \union {t \in {"exception"} : head.name \in Throwing} :
             toRpc' = [toRpc EXCEPT ![n] =
                         @ \o <<MessageHead(head.name, mtype, head.seqid),
                                IF mtype = "reply" THEN done
                                ELSE WriteStruct(Field(1, "string"), <<"what">>)>>]
    /\ toServ' = [toServ EXCEPT ![n] = SubSeq(@, 3, Len(@))]
    /\ UNCHANGED <<rpc, state, cuts, syncVars, toCall>>

\* A client closes its connection between calls; a sharer that calls later fails.
HangUp(n) ==
    /\ Live(n)
    /\ \A c \in Rpcs : Conn(c) = n => Between(c)
    /\ n = "plain" => toCall[Loner] = <<>>
    /\ state' = [state EXCEPT ![n] = "closed"]
    /\ UNCHANGED <<rpc, toServ, toRpc, cuts, syncVars, toCall>>

\* A connection is lost, with what was on its way to the server.
Cut(n) ==
    /\ Live(n)
    /\ cuts < MaxCuts
    /\ cuts' = cuts + 1
    /\ state' = [state EXCEPT ![n] = "cut"]
    /\ toServ' = [toServ EXCEPT ![n] = <<>>]
    /\ UNCHANGED <<rpc, toRpc, syncVars, toCall>>

RpcIdle ==
    /\ \A n \in Conns : ~Live(n)
    /\ \A c \in Rpcs : Between(c)
    /\ UNCHANGED rpcVars

RpcInit ==
    /\ rpc = [c \in Rpcs |-> NoRpc]
    /\ toServ = [n \in Conns |-> <<>>]
    /\ toRpc = [n \in Conns |-> <<>>]
    /\ state = [n \in Conns |-> "waiting"]
    /\ sendMutex = Loner
    /\ readMutex = Loner
    /\ recvPending = NoHead
    /\ wakeSome = FALSE
    /\ notified = {}
    /\ stop = FALSE
    /\ nextseqid = 1
    /\ toCall = Calls
    /\ cuts = 0

\* What the threads do once they have called, and the server.
RpcStep ==
    \/ PlainRecv \/ PlainFails \/ PlainSend
    \/ \E c \in Sharers :
         WriteHead(c) \/ WriteArgs(c) \/ LockRead(c) \/ ReadHead(c) \/ ReadBody(c)
           \/ WaitForWork(c)
    \/ \E n \in Conns : Accept(n) \/ Process(n) \/ HangUp(n)

RpcNext ==
    \/ RpcStep
    \/ \E c \in Sharers : GenerateSeqId(c) \/ SpuriousWakeup(c)
    \/ \E n \in Conns : Cut(n)
    \/ RpcIdle

RpcSpec == RpcInit /\ [][RpcNext]_rpcVars /\ WF_rpcVars(RpcStep)
----
(***************************************************************************)
(* Properties                                                              *)
(***************************************************************************)
\* A call that returns a result returns that of its own arguments, whichever thread
\* has read the head of its reply.
ReplyReachesItsCaller ==
    \A c \in Rpcs : Returned(c) /\ rpc[c].outcome # <<"exception">> =>
      rpc[c].outcome = Handle(rpc[c].method, c)

\* When the threads have returned, no mutex is locked, and no reply is left on the
\* wire or half read; only the loss of the connection puts the client in a bad state,
\* an exception of a handler does not.
NothingLeftBehind ==
    (\A c \in Sharers : Returned(c)) =>
      /\ sendMutex = Loner /\ readMutex = Loner
      /\ IF stop THEN ~Live("shared") ELSE toRpc["shared"] = <<>> /\ recvPending = NoHead

\* Every call returns, with its result or with an exception: a thread that has its
\* reply hands the reading on, and the server comes to each connection.  As each
\* thread makes finitely many calls, they are all between calls in the end.
EveryRpcReturns == <>[](\A c \in Rpcs : Between(c))
====
