---- MODULE ThriftRpcProofs ----
(***************************************************************************)
(* Proofs about ThriftRpc, for any number of threads that share one client *)
(* and its connection, any programs of calls, spurious wakeups, lost       *)
(* connections and a plain client beside them: each call that returns a    *)
(* result returns its own, and threads that are done leave nothing behind. *)
(***************************************************************************)
EXTENDS ThriftRpc, SequenceTheorems, FiniteSetTheorems, TLAPS

\* What a call can have returned, and what travels on the wire.
Exception == <<"exception">>
Outcomes  == {Exception} \union {Handle(m, c) : m \in Methods, c \in Rpcs}
SharerSteps == {"idle", "send", "args", "lock", "head", "body", "wait", "done"}

Heads     == [name : Methods, mtype : {"call", "reply", "exception"}, seqid : Nat]
Requested == {WriteStruct(ArgsOf[m], c) : m \in Methods, c \in Rpcs}
Answered  == {WriteStruct(ResultOf[m], Handle(m, c)) : m \in Methods, c \in Rpcs}
               \union {WriteStruct(Field(1, "string"), <<"what">>)}

\* A call as CustomSvcConcurrentClient and CustomSvcClient keep it.
RpcStates == [step : SharerSteps \union {"recv"}, method : Methods \union {"none"},
              seqid : Nat, outcome : Outcomes]

\* The types of the variables, and the steps the two kinds of client can be at.
RpcTypes ==
    /\ rpc \in [Rpcs -> RpcStates]
    /\ rpc[Loner].step \in {"idle", "recv", "done"}
    /\ \A c \in Sharers : rpc[c].step # "recv"
    /\ \A c \in Rpcs : rpc[c].step # "idle" => rpc[c].method \in Methods
    /\ toServ \in [Conns -> Seq(Heads \union Requested)]
    /\ toRpc \in [Conns -> Seq(Heads \union Answered)]
    /\ state \in [Conns -> {"waiting", "served", "closed", "cut"}]
    /\ recvPending \in Heads \union {NoHead}
    /\ stop \in BOOLEAN
    /\ nextseqid \in Nat \ {0}
    /\ toCall \in [Rpcs -> Seq(Methods)]

\* h and b are a request of c's current call, and a reply to it.
IsRequest(c, h, b) == h = MessageHead(rpc[c].method, "call", rpc[c].seqid) /\ b = ArgsStruct(c)
IsReply(c, h, b) ==
    /\ h \in {MessageHead(rpc[c].method, "reply", rpc[c].seqid),
              MessageHead(rpc[c].method, "exception", rpc[c].seqid)}
    /\ h.mtype = "reply" => b = WriteStruct(ResultOf[rpc[c].method], Handle(rpc[c].method, c))

\* The plain client's connection has its request, its reply, or nothing any more.
PlainInv ==
    IF At(Loner, "recv")
    THEN \/ /\ Len(toServ["plain"]) = 2
            /\ IsRequest(Loner, toServ["plain"][1], toServ["plain"][2])
            /\ toRpc["plain"] = <<>>
            /\ Live("plain")
         \/ /\ toServ["plain"] = <<>>
            /\ Len(toRpc["plain"]) = 2
            /\ IsReply(Loner, toRpc["plain"][1], toRpc["plain"][2])
         \/ toServ["plain"] = <<>> /\ toRpc["plain"] = <<>> /\ ~Live("plain")
    ELSE toServ["plain"] = <<>> /\ (Live("plain") => toRpc["plain"] = <<>>)

\* Who holds a mutex is at the steps between its lock and unlock, and nobody else is.
MutexesHeld ==
    /\ \A c \in Sharers : At(c, "args") <=> sendMutex = c
    /\ \A c \in Sharers : rpc[c].step \in {"head", "body"} <=> readMutex = c
    /\ sendMutex \in Rpcs /\ readMutex \in Rpcs

\* Each call under way has a sequence number of its own.
SeqIdsDiffer ==
    /\ \A c \in Sharers : rpc[c].seqid < nextseqid
    /\ \A c \in Sharers : ~Between(c) => rpc[c].seqid > 0
    /\ \A c, d \in Sharers : rpc[c].seqid = rpc[d].seqid /\ c # d => rpc[c].seqid = 0

\* The replies not yet taken, the half read one first.
Replies ==
    IF recvPending = NoHead THEN toRpc["shared"] ELSE <<recvPending>> \o toRpc["shared"]
Requests == toServ["shared"]

\* c has sent its request and has not returned.
Awaits(c) == rpc[c].step \in {"lock", "head", "body", "wait"}

\* Heads and structs alternate; the head of a request under way is its sender's.
Alternate ==
    /\ \E k \in Nat : Len(Replies) = 2 * k
    /\ Live("shared") =>
         IF sendMutex = Loner THEN \E k \in Nat : Len(Requests) = 2 * k
         ELSE /\ \E k \in Nat : Len(Requests) = 2 * k + 1
              /\ Requests[Len(Requests)] =
                   MessageHead(rpc[sendMutex].method, "call", rpc[sendMutex].seqid)

\* A message with the sequence number of a call is the request or the reply of that call.
MessagesFit ==
    /\ \A i \in Nat \ {0} : 2 * i <= Len(Replies) =>
         /\ Replies[2 * i - 1] \in Heads
         /\ Replies[2 * i - 1].seqid \in 1 .. nextseqid - 1
         /\ \A c \in Sharers : rpc[c].seqid = Replies[2 * i - 1].seqid =>
              IsReply(c, Replies[2 * i - 1], Replies[2 * i])
    /\ Live("shared") =>
         \A i \in Nat \ {0} : 2 * i <= Len(Requests) =>
           /\ Requests[2 * i - 1] \in Heads
           /\ Requests[2 * i - 1].seqid \in 1 .. nextseqid - 1
           /\ \A c \in Sharers : rpc[c].seqid = Requests[2 * i - 1].seqid =>
                IsRequest(c, Requests[2 * i - 1], Requests[2 * i])

\* As long as the client is in a good state each message is of a call that waits for it,
\* and no two are of the same.
MessagesAwaited ==
    /\ ~stop => \A i \in Nat \ {0} : 2 * i <= Len(Replies) =>
         \E c \in Sharers : Awaits(c) /\ rpc[c].seqid = Replies[2 * i - 1].seqid
    /\ Live("shared") => \A i \in Nat \ {0} : 2 * i <= Len(Requests) =>
         \E c \in Sharers : Awaits(c) /\ rpc[c].seqid = Requests[2 * i - 1].seqid
    /\ \A i, j \in Nat \ {0} : i # j /\ 2 * i <= Len(Replies) /\ 2 * j <= Len(Replies) =>
         Replies[2 * i - 1].seqid # Replies[2 * j - 1].seqid
    /\ Live("shared") =>
         /\ \A i, j \in Nat \ {0} : i # j /\ 2 * i <= Len(Requests) /\ 2 * j <= Len(Requests) =>
              Requests[2 * i - 1].seqid # Requests[2 * j - 1].seqid
         /\ \A i, j \in Nat \ {0} : 2 * i <= Len(Replies) /\ 2 * j <= Len(Requests) =>
              Replies[2 * i - 1].seqid # Requests[2 * j - 1].seqid

\* A thread at "body" has read the head of its own reply.
BodyIsOwn ==
    \A c \in Sharers : At(c, "body") =>
      recvPending # NoHead /\ recvPending.seqid = rpc[c].seqid

\* A client in the bad state has lost its connection.
StopIsLost == stop => ~Live("shared")

\* A result is that of the call's own arguments.
OutcomesFit ==
    \A c \in Rpcs : rpc[c].outcome # Exception => rpc[c].outcome = Handle(rpc[c].method, c)

\* The inductive invariant.
RpcInv ==
    /\ RpcTypes /\ PlainInv /\ MutexesHeld /\ SeqIdsDiffer /\ Alternate /\ MessagesFit
    /\ MessagesAwaited /\ BodyIsOwn /\ StopIsLost /\ OutcomesFit

\* What is read with the field it was written with is what was written.
LEMMA ReadsWhatIsWritten ==
    ASSUME NEW f, NEW val
    PROVE  ReadStruct(f, WriteStruct(f, val)) = val
  BY DEF ReadStruct, WriteStruct

\* The fields are there for every method.
LEMMA FieldsOfMethods ==
    /\ \A m \in Methods : Handle(m, Loner) \in Outcomes
    /\ \A m \in Methods, c \in Rpcs : Handle(m, c) \in Outcomes
    /\ Exception \in Outcomes
    /\ Loner \in Rpcs /\ Sharers \subseteq Rpcs /\ Loner \notin Sharers
  BY RpcAssumption DEF Outcomes, Rpcs

\* A reply to c's call has the outcome of c's own arguments, or is an exception.
LEMMA OutcomeOfReply ==
    ASSUME NEW c \in Rpcs, NEW h, NEW b, IsReply(c, h, b), h \in Heads
    PROVE  Outcome(c, h, b) \in {Exception, Handle(rpc[c].method, c)}
<1>1. CASE h.mtype = "exception"
  BY <1>1 DEF Outcome, Exception
<1>2. CASE h.mtype # "exception"
  <2>1. h.mtype = "reply"
    BY <1>2 DEF IsReply, MessageHead
  <2>2. ReadStruct(ResultOf[rpc[c].method], b) = Handle(rpc[c].method, c)
    BY <2>1, ReadsWhatIsWritten DEF IsReply
  <2>. QED
    BY <1>2, <2>2 DEF Outcome, Exception
<1>. QED
  BY <1>1, <1>2

\* The head read last and the struct next on the wire are the reply of who reads.
LEMMA OwnReply ==
    ASSUME RpcInv, NEW c \in Sharers, At(c, "body"), toRpc["shared"] # <<>>
    PROVE  /\ recvPending \in Heads
           /\ IsReply(c, recvPending, Head(toRpc["shared"]))
           /\ Len(Replies) >= 2 /\ Replies[1] = recvPending
           /\ Replies = <<recvPending>> \o toRpc["shared"]
<1>. DEFINE wire == toRpc["shared"]
<1>1. recvPending # NoHead /\ recvPending.seqid = rpc[c].seqid /\ recvPending \in Heads
  BY DEF RpcInv, BodyIsOwn, RpcTypes
<1>2. wire \in Seq(Heads \union Answered) /\ wire # <<>>
  BY DEF RpcInv, RpcTypes, Conns
<1>3. Replies = <<recvPending>> \o wire
  BY <1>1 DEF Replies
<1>4. Len(wire) >= 1 /\ Head(wire) = wire[1]
  BY <1>2
<1>5. Len(Replies) >= 2 /\ Replies[1] = recvPending /\ Replies[2] = Head(wire)
  BY <1>1, <1>2, <1>3, <1>4
<1>6. IsReply(c, Replies[2 * 1 - 1], Replies[2 * 1])
  BY <1>1, <1>5 DEF RpcInv, MessagesFit
<1>. QED
  BY <1>1, <1>3, <1>5, <1>6

\* What is read off the wire as a head is one.
LEMMA NextHead ==
    ASSUME RpcInv, recvPending = NoHead, toRpc["shared"] # <<>>
    PROVE  /\ Head(toRpc["shared"]) \in Heads
           /\ Head(toRpc["shared"]) # NoHead
           /\ Replies = <<Head(toRpc["shared"])>> \o Tail(toRpc["shared"])
           /\ Len(Replies) >= 2
<1>1. toRpc["shared"] \in Seq(Heads \union Answered)
  BY DEF RpcInv, RpcTypes, Conns
<1>2. Replies = toRpc["shared"] /\ Head(toRpc["shared"]) = Replies[1]
  BY <1>1 DEF Replies
<1>3. \E k \in Nat : Len(Replies) = 2 * k
  BY DEF RpcInv, Alternate
<1>4. Len(Replies) >= 2
  BY <1>1, <1>2, <1>3
<1>5. Replies[2 * 1 - 1] \in Heads /\ Replies[2 * 1 - 1].seqid \in 1 .. nextseqid - 1
  BY <1>4 DEF RpcInv, MessagesFit
<1>6. Head(toRpc["shared"]).seqid # 0
  BY <1>2, <1>5
<1>. QED
  BY <1>1, <1>2, <1>4, <1>5, <1>6 DEF NoHead, MessageHead

\* What the server reads is the request of a call that waits, and is answered for that call.
LEMMA ServedRequest ==
    ASSUME RpcInv, NEW n \in Conns, Process(n)
    PROVE  \E c \in Rpcs, mtype \in {"reply", "exception"} :
             /\ Conn(c) = n /\ rpc[c].method \in Methods
             /\ c \in Sharers => Awaits(c)
             /\ IsRequest(c, toServ[n][1], toServ[n][2])
             /\ toRpc' = [toRpc EXCEPT ![n] =
                      @ \o <<MessageHead(rpc[c].method, mtype, rpc[c].seqid),
                             IF mtype = "reply"
                             THEN WriteStruct(ResultOf[rpc[c].method], Handle(rpc[c].method, c))
                             ELSE WriteStruct(Field(1, "string"), <<"what">>)>>]
<1>. USE FieldsOfMethods
<1>1. \E c \in Rpcs : /\ Conn(c) = n /\ rpc[c].step # "idle" /\ (c \in Sharers => Awaits(c))
                      /\ IsRequest(c, toServ[n][1], toServ[n][2])
  <2>1. CASE n = "plain"
    <3>1. At(Loner, "recv") /\ IsRequest(Loner, toServ[n][1], toServ[n][2])
      BY <2>1 DEF Process, RpcInv, PlainInv, RpcTypes, Conns
    <3>. QED
      BY <2>1, <3>1 DEF At, Conn
  <2>2. CASE n = "shared"
    <3>1. Live("shared") /\ Len(Requests) >= 2 * 1 /\ Requests = toServ[n]
      BY <2>2 DEF Process, Live, Requests
    <3>2. PICK c \in Sharers : Awaits(c) /\ rpc[c].seqid = Requests[2 * 1 - 1].seqid
      BY <3>1 DEF RpcInv, MessagesAwaited
    <3>3. IsRequest(c, Requests[2 * 1 - 1], Requests[2 * 1])
      BY <3>1, <3>2 DEF RpcInv, MessagesFit
    <3>4. IsRequest(c, Requests[1], Requests[2])
      BY <3>3
    <3>. QED
      BY <2>2, <3>1, <3>2, <3>4 DEF Conn, Awaits
  <2>. QED
    BY <2>1, <2>2 DEF Conns
<1>2. PICK c \in Rpcs : /\ Conn(c) = n /\ rpc[c].step # "idle" /\ (c \in Sharers => Awaits(c))
                        /\ IsRequest(c, toServ[n][1], toServ[n][2])
  BY <1>1
<1>3. rpc[c].method \in Methods
  BY <1>2 DEF RpcInv, RpcTypes
<1>4. toServ[n][1].name = rpc[c].method /\ toServ[n][1].seqid = rpc[c].seqid
  BY <1>2 DEF IsRequest, MessageHead
<1>5. ReadStruct(ArgsOf[toServ[n][1].name], toServ[n][2]) = c
  BY <1>2, <1>4, ReadsWhatIsWritten DEF IsRequest, ArgsStruct
<1>6. PICK mtype \in {"reply", "exception"} :
        toRpc' = [toRpc EXCEPT ![n] =
                   @ \o <<MessageHead(toServ[n][1].name, mtype, toServ[n][1].seqid),
                          IF mtype = "reply"
                          THEN WriteStruct(ResultOf[toServ[n][1].name],
                                 Handle(toServ[n][1].name, ReadStruct(ArgsOf[toServ[n][1].name], toServ[n][2])))
                          ELSE WriteStruct(Field(1, "string"), <<"what">>)>>]
  BY DEF Process
<1>. QED
  BY <1>2, <1>3, <1>4, <1>5, <1>6

\* A call that is begun.
LEMMA NextCall ==
    ASSUME RpcTypes, NEW c \in Rpcs, NEW seqid \in Nat, NEW step \in SharerSteps \union {"recv"},
           CallsNext(c, seqid, step)
    PROVE  /\ rpc' \in [Rpcs -> RpcStates] /\ toCall' \in [Rpcs -> Seq(Methods)]
           /\ \A d \in Rpcs \ {c} : rpc'[d] = rpc[d]
           /\ rpc'[c].step = step /\ rpc'[c].seqid = seqid
           /\ rpc'[c].method \in Methods /\ rpc'[c].outcome = Exception
<1>1. toCall[c] \in Seq(Methods) /\ toCall[c] # <<>>
  BY DEF RpcTypes, CallsNext
<1>2. Head(toCall[c]) \in Methods /\ Tail(toCall[c]) \in Seq(Methods)
  BY <1>1
<1>. DEFINE call == [step |-> step, method |-> Head(toCall[c]), seqid |-> seqid,
                     outcome |-> Exception]
<1>3. call \in RpcStates
  BY <1>2, FieldsOfMethods DEF RpcStates
<1>4. rpc' = [rpc EXCEPT ![c] = call]
  BY DEF CallsNext, Exception
<1>5. call.step = step /\ call.seqid = seqid /\ call.method \in Methods /\ call.outcome = Exception
  BY <1>2
<1>. HIDE DEF call
<1>. QED
  BY <1>2, <1>3, <1>4, <1>5 DEF CallsNext, RpcTypes

\* A call that goes on.
LEMMA CallSteps ==
    ASSUME RpcTypes, NEW c \in Rpcs, NEW step \in SharerSteps \union {"recv"}, Step2(c, step)
    PROVE  /\ rpc' \in [Rpcs -> RpcStates]
           /\ \A d \in Rpcs \ {c} : rpc'[d] = rpc[d]
           /\ rpc'[c].step = step /\ rpc'[c].seqid = rpc[c].seqid
           /\ rpc'[c].method = rpc[c].method /\ rpc'[c].outcome = rpc[c].outcome
  BY DEF RpcTypes, RpcStates, Step2

\* A call that ends.
LEMMA CallEnds ==
    ASSUME RpcTypes, NEW c \in Rpcs, NEW o \in Outcomes, Ends(c, o)
    PROVE  /\ rpc' \in [Rpcs -> RpcStates]
           /\ \A d \in Rpcs \ {c} : rpc'[d] = rpc[d]
           /\ rpc'[c].step = "done" /\ rpc'[c].seqid = rpc[c].seqid
           /\ rpc'[c].method = rpc[c].method /\ rpc'[c].outcome = o
<1>1. rpc[c] \in RpcStates /\ rpc \in [Rpcs -> RpcStates]
  BY DEF RpcTypes
<1>. DEFINE call == [rpc[c] EXCEPT !.step = "done", !.outcome = o]
<1>2. call \in RpcStates /\ call.step = "done" /\ call.seqid = rpc[c].seqid
      /\ call.method = rpc[c].method /\ call.outcome = o
  BY <1>1 DEF RpcStates, SharerSteps
<1>3. rpc' = [rpc EXCEPT ![c] = call]
  BY <1>1 DEF Ends
<1>. HIDE DEF call
<1>. QED
  BY <1>1, <1>2, <1>3

\* Each step keeps the types, and an outcome is of the call's own arguments.
LEMMA StepTypes ==
    ASSUME RpcInv, [RpcNext]_rpcVars
    PROVE  RpcTypes' /\ OutcomesFit'
<1>. USE FieldsOfMethods DEF SharerSteps
<1>0. RpcTypes /\ OutcomesFit
  BY DEF RpcInv
<1>1. CASE PlainSend
  <2>1. CallsNext(Loner, 0, "recv")
    BY <1>1 DEF PlainSend
  <2>2. /\ rpc' \in [Rpcs -> RpcStates] /\ toCall' \in [Rpcs -> Seq(Methods)]
        /\ \A d \in Rpcs \ {Loner} : rpc'[d] = rpc[d]
        /\ rpc'[Loner].step = "recv" /\ rpc'[Loner].method \in Methods
        /\ rpc'[Loner].outcome = Exception
    BY <1>0, <2>1, NextCall
  <2>3. /\ MessageHead(rpc'[Loner].method, "call", 0) \in Heads
        /\ WriteStruct(ArgsOf[rpc'[Loner].method], Loner) \in Requested
    BY <2>2 DEF MessageHead, Heads, Requested
  <2>4. toServ' \in [Conns -> Seq(Heads \union Requested)]
    BY <1>0, <1>1, <2>3 DEF PlainSend, RpcTypes, Conns
  <2>. QED
    BY <1>0, <1>1, <2>2, <2>4 DEF PlainSend, RpcTypes, OutcomesFit, syncVars
<1>2. CASE PlainRecv
  <2>. DEFINE o == Outcome(Loner, toRpc["plain"][1], toRpc["plain"][2])
  <2>1. o \in {Exception, Handle(rpc[Loner].method, Loner)}
    <3>1. IsReply(Loner, toRpc["plain"][1], toRpc["plain"][2])
      BY <1>2 DEF RpcInv, PlainInv, PlainRecv
    <3>2. toRpc["plain"][1] \in Heads
      BY <1>0, <1>2, <3>1 DEF IsReply, RpcTypes, RpcStates, MessageHead, Heads, PlainRecv, At
    <3>. QED
      BY <3>1, <3>2, OutcomeOfReply
  <2>2. rpc[Loner].method \in Methods /\ Ends(Loner, o)
    BY <1>0, <1>2 DEF RpcTypes, PlainRecv, At
  <2>3. toRpc' \in [Conns -> Seq(Heads \union Answered)]
    BY <1>0, <1>2 DEF PlainRecv, RpcTypes, Conns
  <2>. HIDE DEF o
  <2>4. /\ rpc' \in [Rpcs -> RpcStates]
        /\ \A d \in Rpcs \ {Loner} : rpc'[d] = rpc[d]
        /\ rpc'[Loner].step = "done" /\ rpc'[Loner].method = rpc[Loner].method
        /\ rpc'[Loner].outcome = o
    BY <1>0, <2>1, <2>2, CallEnds
  <2>. QED
    BY <1>0, <1>2, <2>1, <2>2, <2>3, <2>4 DEF PlainRecv, RpcTypes, OutcomesFit, syncVars
<1>. DEFINE Same(c) == /\ rpc' \in [Rpcs -> RpcStates]
                       /\ \A d \in Rpcs \ {c} : rpc'[d] = rpc[d]
                       /\ rpc'[c].method = rpc[c].method
                       /\ rpc'[c].step \notin {"idle", "recv"}
                       /\ rpc[c].step # "idle"
                       /\ rpc'[c].outcome \in {Exception, rpc[c].outcome, Handle(rpc[c].method, c)}
<1>a. ASSUME NEW c \in Rpcs, Same(c), c = Loner => rpc'[c].step = "done"
      PROVE  /\ rpc' \in [Rpcs -> RpcStates]
             /\ rpc'[Loner].step \in {"idle", "recv", "done"}
             /\ \A d \in Sharers : rpc'[d].step # "recv"
             /\ \A d \in Rpcs : rpc'[d].step # "idle" => rpc'[d].method \in Methods
             /\ OutcomesFit'
  BY <1>0, <1>a DEF RpcTypes, OutcomesFit
<1>b. ASSUME NEW c \in Sharers, NEW step \in {"args", "lock", "head", "body", "wait"},
             rpc[c].step # "idle", Step2(c, step)
      PROVE  Same(c)
  BY <1>0, <1>b, CallSteps
<1>c. ASSUME NEW c \in Rpcs, rpc[c].step # "idle",
             \E o \in {Exception, Handle(rpc[c].method, c)} : Ends(c, o)
      PROVE  Same(c) /\ rpc'[c].step = "done"
  <2>1. PICK o \in {Exception, Handle(rpc[c].method, c)} : Ends(c, o)
    BY <1>c
  <2>2. o \in Outcomes
    BY <1>0, <1>c DEF RpcTypes
  <2>. QED
    BY <1>0, <1>c, <2>1, <2>2, CallEnds
<1>. HIDE DEF Same
<1>3. CASE PlainFails
  <2>1. Same(Loner) /\ rpc'[Loner].step = "done"
    BY <1>3, <1>c DEF PlainFails, At, Exception
  <2>. QED
    BY <1>0, <1>3, <1>a, <2>1 DEF PlainFails, RpcTypes, syncVars, wireVars
<1>4. ASSUME NEW c \in Sharers, WriteHead(c) PROVE RpcTypes' /\ OutcomesFit'
  <2>1. MessageHead(rpc[c].method, "call", rpc[c].seqid) \in Heads
    BY <1>0, <1>4 DEF RpcTypes, RpcStates, WriteHead, At, MessageHead, Heads
  <2>2. toServ' \in [Conns -> Seq(Heads \union Requested)]
    BY <1>0, <1>4, <2>1 DEF WriteHead, RpcTypes, Conns
  <2>3. Same(c)
    BY <1>4, <1>b DEF WriteHead, At
  <2>. QED
    BY <1>0, <1>4, <1>a, <2>2, <2>3 DEF WriteHead, RpcTypes
<1>5. ASSUME NEW c \in Sharers, WriteArgs(c) PROVE RpcTypes' /\ OutcomesFit'
  <2>1. rpc[c].method \in Methods
    BY <1>0, <1>5 DEF RpcTypes, WriteArgs, At
  <2>2. ArgsStruct(c) \in Requested
    BY <2>1 DEF ArgsStruct, Requested
  <2>3. toServ' \in [Conns -> Seq(Heads \union Requested)]
    <3>1. Append(toServ["shared"], ArgsStruct(c)) \in Seq(Heads \union Requested)
      BY <1>0, <2>2 DEF RpcTypes, Conns
    <3>. QED
      BY <1>0, <1>5, <3>1 DEF WriteArgs, RpcTypes, Conns
  <2>4. Same(c)
    BY <1>5, <1>b, <1>c DEF WriteArgs, At, Exception
  <2>5. stop' \in BOOLEAN
    BY <1>0, <1>5 DEF WriteArgs, MarkBad, RpcTypes
  <2>. QED
    BY <1>0, <1>5, <1>a, <2>3, <2>4, <2>5 DEF WriteArgs, RpcTypes
<1>6. ASSUME NEW c \in Sharers, LockRead(c) PROVE RpcTypes' /\ OutcomesFit'
  <2>1. Same(c)
    BY <1>6, <1>b DEF LockRead, At
  <2>. QED
    BY <1>0, <1>6, <1>a, <2>1 DEF LockRead, RpcTypes, wireVars
<1>7. ASSUME NEW c \in Sharers, ReadHead(c) PROVE RpcTypes' /\ OutcomesFit'
  <2>1. toRpc' \in [Conns -> Seq(Heads \union Answered)]
    <3>1. toRpc["shared"] # <<>> => Tail(toRpc["shared"]) \in Seq(Heads \union Answered)
      BY <1>0 DEF RpcTypes, Conns
    <3>. QED
      BY <1>0, <1>7, <3>1 DEF ReadHead, RpcTypes, Conns
  <2>2. recvPending' \in Heads \union {NoHead}
    BY <1>0, <1>7, NextHead DEF ReadHead, RpcTypes, RpcInv
  <2>3. stop' \in BOOLEAN
    BY <1>0, <1>7 DEF ReadHead, RpcTypes, Gives, MarkBad
  <2>4. Same(c)
    BY <1>7, <1>b, <1>c DEF ReadHead, Gives, At, Exception
  <2>. QED
    BY <1>0, <1>7, <1>a, <2>1, <2>2, <2>3, <2>4 DEF ReadHead, RpcTypes
<1>8. ASSUME NEW c \in Sharers, ReadBody(c) PROVE RpcTypes' /\ OutcomesFit'
  <2>1. toRpc' \in [Conns -> Seq(Heads \union Answered)]
    <3>1. toRpc["shared"] # <<>> => Tail(toRpc["shared"]) \in Seq(Heads \union Answered)
      BY <1>0 DEF RpcTypes, Conns
    <3>. QED
      BY <1>0, <1>8, <3>1 DEF ReadBody, RpcTypes, Conns
  <2>2. \E o \in {Exception, Handle(rpc[c].method, c)} : Ends(c, o)
    <3>1. CASE toRpc["shared"] = <<>>
      BY <1>8, <3>1 DEF ReadBody, Gives, Exception
    <3>2. CASE toRpc["shared"] # <<>>
      BY <1>8, <3>2, OwnReply, OutcomeOfReply DEF ReadBody
    <3>. QED
      BY <3>1, <3>2
  <2>3. Same(c)
    BY <1>8, <1>c, <2>2 DEF ReadBody, At
  <2>4. stop' \in BOOLEAN
    BY <1>0, <1>8 DEF ReadBody, RpcTypes, Gives, MarkBad
  <2>. QED
    BY <1>0, <1>8, <1>a, <2>1, <2>3, <2>4 DEF ReadBody, RpcTypes
<1>9. ASSUME NEW c \in Sharers, WaitForWork(c) PROVE RpcTypes' /\ OutcomesFit'
  <2>1. Same(c) \/ UNCHANGED rpc
    BY <1>9, <1>b, <1>c DEF WaitForWork, At, Exception
  <2>2. CASE UNCHANGED rpc
    BY <1>0, <1>9, <2>2 DEF WaitForWork, RpcTypes, OutcomesFit, wireVars
  <2>. QED
    BY <1>0, <1>9, <1>a, <2>1, <2>2 DEF WaitForWork, RpcTypes, wireVars
<1>10. ASSUME NEW n \in Conns, Accept(n) \/ HangUp(n) PROVE RpcTypes' /\ OutcomesFit'
  BY <1>0, <1>10 DEF Accept, HangUp, RpcTypes, OutcomesFit, syncVars
<1>11. ASSUME NEW n \in Conns, Process(n) PROVE RpcTypes' /\ OutcomesFit'
  <2>1. PICK c \in Rpcs, mtype \in {"reply", "exception"} :
          /\ rpc[c].method \in Methods
          /\ toRpc' = [toRpc EXCEPT ![n] =
                      @ \o <<MessageHead(rpc[c].method, mtype, rpc[c].seqid),
                             IF mtype = "reply"
                             THEN WriteStruct(ResultOf[rpc[c].method], Handle(rpc[c].method, c))
                             ELSE WriteStruct(Field(1, "string"), <<"what">>)>>]
    BY <1>11, ServedRequest
  <2>2. toRpc' \in [Conns -> Seq(Heads \union Answered)]
    <3>1. /\ MessageHead(rpc[c].method, mtype, rpc[c].seqid) \in Heads
          /\ WriteStruct(ResultOf[rpc[c].method], Handle(rpc[c].method, c)) \in Answered
          /\ WriteStruct(Field(1, "string"), <<"what">>) \in Answered
      BY <1>0, <2>1 DEF RpcTypes, RpcStates, MessageHead, Heads, Answered
    <3>. QED
      BY <1>0, <2>1, <3>1 DEF RpcTypes
  <2>3. toServ' \in [Conns -> Seq(Heads \union Requested)]
    <3>1. SubSeq(toServ[n], 3, Len(toServ[n])) \in Seq(Heads \union Requested)
      BY <1>0, <1>11 DEF Process, RpcTypes
    <3>. QED
      BY <1>0, <1>11, <3>1 DEF Process, RpcTypes
  <2>. QED
    BY <1>0, <1>11, <2>2, <2>3 DEF Process, RpcTypes, OutcomesFit, syncVars
<1>12. ASSUME NEW c \in Sharers, GenerateSeqId(c) PROVE RpcTypes' /\ OutcomesFit'
  <2>. DEFINE seqid == IF stop THEN 0 ELSE nextseqid
              step == IF stop THEN "done" ELSE "send"
  <2>1. CallsNext(c, seqid, step) /\ seqid \in Nat /\ nextseqid' \in Nat \ {0}
    BY <1>0, <1>12 DEF GenerateSeqId, RpcTypes
  <2>2. step \in {"done", "send"}
    OBVIOUS
  <2>. HIDE DEF seqid, step
  <2>3. /\ rpc' \in [Rpcs -> RpcStates] /\ toCall' \in [Rpcs -> Seq(Methods)]
        /\ \A d \in Rpcs \ {c} : rpc'[d] = rpc[d]
        /\ rpc'[c].step = step /\ rpc'[c].seqid = seqid
        /\ rpc'[c].method \in Methods /\ rpc'[c].outcome = Exception
    BY <1>0, <2>1, <2>2, NextCall
  <2>. QED
    BY <1>0, <1>12, <2>1, <2>2, <2>3 DEF GenerateSeqId, RpcTypes, OutcomesFit, wireVars
<1>13. ASSUME NEW n \in Conns, Cut(n) PROVE RpcTypes' /\ OutcomesFit'
  BY <1>0, <1>13 DEF Cut, RpcTypes, OutcomesFit, syncVars
<1>14. CASE UNCHANGED rpcVars
  BY <1>0, <1>14 DEF rpcVars, syncVars, wireVars, RpcTypes, OutcomesFit
<1>. QED
  BY <1>1, <1>2, <1>3, <1>4, <1>5, <1>6, <1>7, <1>8, <1>9, <1>10, <1>11, <1>12, <1>13, <1>14
     DEF RpcNext, RpcStep, SpuriousWakeup, RpcIdle

\* The steps of a thread on the shared connection.
SharerStep(c) ==
    WriteHead(c) \/ WriteArgs(c) \/ LockRead(c) \/ ReadHead(c) \/ ReadBody(c) \/ WaitForWork(c)

\* A step of c is about c's call, which stays the same, and about the shared connection.
LEMMA CallGoesOn ==
    ASSUME RpcInv, NEW c \in Sharers, SharerStep(c)
    PROVE  /\ \A d \in Rpcs \ {c} : rpc'[d] = rpc[d]
           /\ rpc'[c].seqid = rpc[c].seqid /\ rpc'[c].method = rpc[c].method
           /\ WriteHead(c) => rpc[c].step = "send" /\ rpc'[c].step = "args"
           /\ WriteArgs(c) => /\ rpc[c].step = "args"
                              /\ rpc'[c].step = IF Live("shared") THEN "lock" ELSE "done"
           /\ LockRead(c) => rpc[c].step = "lock" /\ rpc'[c].step = "head"
           /\ ReadHead(c) => rpc[c].step = "head" /\ rpc'[c].step \in {"body", "wait", "done"}
           /\ ReadBody(c) => rpc[c].step = "body" /\ rpc'[c].step = "done"
           /\ WaitForWork(c) => rpc[c].step = "wait" /\ rpc'[c].step \in {"wait", "head", "done"}
           /\ state' = state /\ nextseqid' = nextseqid
           /\ toServ'["plain"] = toServ["plain"] /\ toRpc'["plain"] = toRpc["plain"]
<1>. USE FieldsOfMethods DEF SharerSteps
<1>0. RpcTypes
  BY DEF RpcInv
<1>. DEFINE Same == /\ \A d \in Rpcs \ {c} : rpc'[d] = rpc[d]
                    /\ rpc'[c].seqid = rpc[c].seqid /\ rpc'[c].method = rpc[c].method
<1>b. \A step \in SharerSteps : Step2(c, step) => Same /\ rpc'[c].step = step
  BY <1>0, CallSteps
<1>c. \A o : Ends(c, o) => Same /\ rpc'[c].step = "done"
  BY <1>0 DEF RpcTypes, RpcStates, Ends
<1>. HIDE DEF Same
<1>1. ASSUME WriteHead(c)
      PROVE  Same /\ rpc[c].step = "send" /\ rpc'[c].step = "args" /\ state' = state /\ nextseqid' = nextseqid
             /\ toServ'["plain"] = toServ["plain"] /\ toRpc'["plain"] = toRpc["plain"]
  BY <1>0, <1>1, <1>b DEF WriteHead, At, RpcTypes, Conns
<1>2. ASSUME WriteArgs(c)
      PROVE  Same /\ rpc[c].step = "args" /\ rpc'[c].step = (IF Live("shared") THEN "lock" ELSE "done")
             /\ state' = state /\ nextseqid' = nextseqid
             /\ toServ'["plain"] = toServ["plain"] /\ toRpc'["plain"] = toRpc["plain"]
  BY <1>0, <1>2, <1>b, <1>c DEF WriteArgs, At, RpcTypes, Conns
<1>3. ASSUME LockRead(c)
      PROVE  Same /\ rpc[c].step = "lock" /\ rpc'[c].step = "head" /\ state' = state /\ nextseqid' = nextseqid
             /\ toServ'["plain"] = toServ["plain"] /\ toRpc'["plain"] = toRpc["plain"]
  BY <1>3, <1>b DEF LockRead, At, wireVars
<1>4. ASSUME ReadHead(c)
      PROVE  Same /\ rpc[c].step = "head" /\ rpc'[c].step \in {"body", "wait", "done"}
             /\ state' = state /\ nextseqid' = nextseqid
             /\ toServ'["plain"] = toServ["plain"] /\ toRpc'["plain"] = toRpc["plain"]
  BY <1>0, <1>4, <1>b, <1>c DEF ReadHead, Gives, At, RpcTypes, Conns
<1>5. ASSUME ReadBody(c)
      PROVE  Same /\ rpc[c].step = "body" /\ rpc'[c].step = "done" /\ state' = state /\ nextseqid' = nextseqid
             /\ toServ'["plain"] = toServ["plain"] /\ toRpc'["plain"] = toRpc["plain"]
  BY <1>0, <1>5, <1>c DEF ReadBody, Gives, At, RpcTypes, Conns
<1>6. ASSUME WaitForWork(c)
      PROVE  Same /\ rpc[c].step = "wait" /\ rpc'[c].step \in {"wait", "head", "done"}
             /\ state' = state /\ nextseqid' = nextseqid
             /\ toServ'["plain"] = toServ["plain"] /\ toRpc'["plain"] = toRpc["plain"]
  <2>1. CASE UNCHANGED rpc
    BY <1>6, <2>1 DEF WaitForWork, At, wireVars, Same
  <2>. QED
    BY <1>6, <1>b, <1>c, <2>1 DEF WaitForWork, At, wireVars
<1>. QED
  BY <1>1, <1>2, <1>3, <1>4, <1>5, <1>6 DEF SharerStep, Same

\* A thread that calls was between calls; its call is new to everybody.
LEMMA CallBegins ==
    ASSUME RpcInv, NEW c \in Sharers, GenerateSeqId(c)
    PROVE  /\ \A d \in Rpcs \ {c} : rpc'[d] = rpc[d]
           /\ Between(c)
           /\ rpc'[c].seqid = (IF stop THEN 0 ELSE nextseqid)
           /\ rpc'[c].step = (IF stop THEN "done" ELSE "send")
           /\ nextseqid' = (IF stop THEN nextseqid ELSE nextseqid + 1)
           /\ UNCHANGED <<sendMutex, readMutex, recvPending, stop, toServ, toRpc, state>>
<1>. DEFINE seqid == IF stop THEN 0 ELSE nextseqid
            step == IF stop THEN "done" ELSE "send"
<1>1. CallsNext(c, seqid, step) /\ seqid \in Nat /\ step \in SharerSteps /\ c \in Rpcs /\ RpcTypes
  BY FieldsOfMethods DEF GenerateSeqId, RpcInv, RpcTypes, SharerSteps
<1>. HIDE DEF seqid, step
<1>2. /\ \A d \in Rpcs \ {c} : rpc'[d] = rpc[d]
      /\ rpc'[c].step = step /\ rpc'[c].seqid = seqid
  BY <1>1, NextCall
<1>. QED
  BY <1>1, <1>2 DEF seqid, step, GenerateSeqId, CallsNext, wireVars

\* The plain client's steps leave the sharers and their connection alone.
LEMMA PlainIsApart ==
    ASSUME RpcInv, PlainSend \/ PlainRecv \/ PlainFails
    PROVE  /\ \A d \in Sharers : rpc'[d] = rpc[d]
           /\ UNCHANGED <<syncVars, state>>
           /\ toServ'["shared"] = toServ["shared"] /\ toRpc'["shared"] = toRpc["shared"]
<1>1. RpcTypes
  BY DEF RpcInv
<1>. QED
  BY <1>1, FieldsOfMethods
     DEF PlainSend, PlainRecv, PlainFails, CallsNext, Ends, RpcTypes, Conns, wireVars

\* The plain connection is its client's and the server's alone.
LEMMA StepPlain ==
    ASSUME RpcInv, [RpcNext]_rpcVars
    PROVE  PlainInv'
<1>. USE FieldsOfMethods
<1>0. RpcTypes /\ PlainInv
  BY DEF RpcInv
<1>1. CASE PlainSend
  <2>1. CallsNext(Loner, 0, "recv")
    BY <1>1 DEF PlainSend
  <2>2. rpc'[Loner].step = "recv" /\ rpc'[Loner].seqid = 0
    BY <1>0, <2>1, NextCall DEF RpcTypes
  <2>3. toServ["plain"] = <<>> /\ toRpc["plain"] = <<>> /\ Live("plain")
    BY <1>0, <1>1 DEF PlainSend, CallsNext, Between, PlainInv, At
  <2>4. toServ'["plain"] = <<MessageHead(rpc'[Loner].method, "call", 0), ArgsStruct(Loner)'>>
    BY <1>0, <1>1, <2>3 DEF PlainSend, RpcTypes, Conns, ArgsStruct
  <2>. QED
    BY <1>1, <2>2, <2>3, <2>4 DEF PlainSend, PlainInv, At, IsRequest, Live
<1>2. CASE PlainRecv
  <2>1. Ends(Loner, Outcome(Loner, toRpc["plain"][1], toRpc["plain"][2])) /\ At(Loner, "recv")
    BY <1>2 DEF PlainRecv
  <2>2. rpc'[Loner].step = "done"
    BY <1>0, <2>1 DEF RpcTypes, RpcStates, Ends
  <2>3. toServ["plain"] = <<>> /\ Len(toRpc["plain"]) = 2
    BY <1>0, <1>2 DEF PlainRecv, PlainInv
  <2>4. toRpc'["plain"] = <<>>
    BY <1>0, <1>2, <2>3 DEF PlainRecv, RpcTypes, Conns
  <2>. QED
    BY <1>2, <2>2, <2>3, <2>4 DEF PlainRecv, PlainInv, At
<1>3. CASE PlainFails
  <2>1. Ends(Loner, Exception) /\ At(Loner, "recv") /\ ~Live("plain") /\ UNCHANGED wireVars
    BY <1>3 DEF PlainFails, Live, Exception
  <2>2. rpc'[Loner].step = "done"
    BY <1>0, <2>1, CallEnds
  <2>3. toServ["plain"] = <<>>
    BY <1>0, <1>3 DEF PlainFails, PlainInv, RpcTypes, Live
  <2>. QED
    BY <2>1, <2>2, <2>3 DEF PlainInv, At, wireVars, Live
<1>4. ASSUME UNCHANGED <<rpc[Loner], toServ["plain"], toRpc["plain"]>>,
             Live("plain")' <=> Live("plain")
      PROVE  PlainInv'
  BY <1>0, <1>4 DEF PlainInv, At, IsRequest, IsReply, ArgsStruct
<1>5. ASSUME NEW c \in Sharers, SharerStep(c) PROVE PlainInv'
  BY <1>4, <1>5, CallGoesOn DEF Live
<1>6. ASSUME NEW c \in Sharers, GenerateSeqId(c) PROVE PlainInv'
  BY <1>4, <1>6, CallBegins DEF Live
<1>7. ASSUME NEW n \in Conns, Accept(n) PROVE PlainInv'
  <2>1. Live("plain")' <=> Live("plain")
    BY <1>0, <1>7 DEF Accept, Live, RpcTypes, Conns
  <2>. QED
    BY <1>4, <1>7, <2>1 DEF Accept
<1>8. ASSUME NEW n \in Conns, HangUp(n) PROVE PlainInv'
  <2>1. CASE n = "plain"
    <3>1. ~At(Loner, "recv")
      BY <1>8, <2>1 DEF HangUp, Conn, Between, At
    <3>2. ~Live("plain")'
      BY <1>0, <1>8, <2>1 DEF HangUp, Live, RpcTypes, Conns
    <3>. QED
      BY <1>0, <1>8, <3>1, <3>2 DEF PlainInv, At, HangUp
  <2>2. CASE n # "plain"
    <3>1. Live("plain")' <=> Live("plain")
      BY <1>0, <1>8, <2>2 DEF HangUp, Live, RpcTypes, Conns
    <3>. QED
      BY <1>4, <1>8, <3>1 DEF HangUp
  <2>. QED
    BY <2>1, <2>2
<1>9. ASSUME NEW n \in Conns, Cut(n) PROVE PlainInv'
  <2>1. /\ n = "plain" => ~Live("plain")' /\ toServ'["plain"] = <<>>
        /\ n # "plain" => /\ toServ'["plain"] = toServ["plain"]
                          /\ (Live("plain")' <=> Live("plain"))
        /\ toRpc' = toRpc /\ rpc' = rpc
    BY <1>0, <1>9 DEF Cut, Live, RpcTypes, Conns
  <2>. QED
    BY <1>0, <1>4, <2>1 DEF PlainInv, At, IsReply, IsRequest, ArgsStruct
<1>10. ASSUME NEW n \in Conns, Process(n) PROVE PlainInv'
  <2>1. CASE n = "shared"
    BY <1>0, <1>4, <1>10, <2>1 DEF Process, RpcTypes, Conns, Live
  <2>2. CASE n = "plain"
    <3>1. /\ At(Loner, "recv") /\ Len(toServ["plain"]) = 2 /\ toRpc["plain"] = <<>>
          /\ toServ["plain"] \in Seq(Heads \union Requested)
      BY <1>0, <1>10, <2>2 DEF Process, PlainInv, RpcTypes, Conns
    <3>2. PICK c \in Rpcs, mtype \in {"reply", "exception"} :
            /\ Conn(c) = "plain"
            /\ toRpc' = [toRpc EXCEPT !["plain"] =
                     @ \o <<MessageHead(rpc[c].method, mtype, rpc[c].seqid),
                            IF mtype = "reply"
                            THEN WriteStruct(ResultOf[rpc[c].method], Handle(rpc[c].method, c))
                            ELSE WriteStruct(Field(1, "string"), <<"what">>)>>]
      BY <1>10, <2>2, ServedRequest
    <3>3. c = Loner
      BY <3>2 DEF Conn
    <3>4. toServ'["plain"] = <<>>
      BY <1>0, <1>10, <2>2, <3>1 DEF Process, RpcTypes, Conns
    <3>5. toRpc'["plain"] =
            <<MessageHead(rpc[Loner].method, mtype, rpc[Loner].seqid),
              IF mtype = "reply"
              THEN WriteStruct(ResultOf[rpc[Loner].method], Handle(rpc[Loner].method, Loner))
              ELSE WriteStruct(Field(1, "string"), <<"what">>)>>
      BY <1>0, <3>1, <3>2, <3>3 DEF RpcTypes, Conns
    <3>6. rpc' = rpc
      BY <1>10 DEF Process
    <3>. QED
      BY <3>1, <3>4, <3>5, <3>6 DEF PlainInv, At, IsReply, MessageHead
  <2>. QED
    BY <2>1, <2>2 DEF Conns
<1>11. CASE UNCHANGED rpcVars
  BY <1>4, <1>11 DEF rpcVars, wireVars, Live
<1>. QED
  BY <1>1, <1>2, <1>3, <1>5, <1>6, <1>7, <1>8, <1>9, <1>10, <1>11
     DEF RpcNext, RpcStep, SharerStep, SpuriousWakeup, RpcIdle

\* The mutexes, the numbers of calls and the bad state.
LEMMA StepLocks ==
    ASSUME RpcInv, [RpcNext]_rpcVars
    PROVE  (MutexesHeld /\ SeqIdsDiffer /\ StopIsLost)'
<1>. USE FieldsOfMethods
<1>0. RpcTypes /\ MutexesHeld /\ SeqIdsDiffer /\ StopIsLost
  BY DEF RpcInv
<1>1. ASSUME \A c \in Sharers : rpc'[c].seqid = rpc[c].seqid, nextseqid' = nextseqid,
             \A c \in Sharers : ~Between(c)' => ~Between(c)
      PROVE  SeqIdsDiffer'
  BY <1>0, <1>1 DEF SeqIdsDiffer
<1>2. ASSUME \A c \in Sharers : rpc'[c] = rpc[c], UNCHANGED syncVars, Live("shared")' => Live("shared")
      PROVE  (MutexesHeld /\ SeqIdsDiffer /\ StopIsLost)'
  <2>1. MutexesHeld'
    BY <1>0, <1>2 DEF MutexesHeld, At, syncVars
  <2>2. SeqIdsDiffer'
    BY <1>0, <1>1, <1>2 DEF Between, syncVars
  <2>. QED
    BY <1>0, <1>2, <2>1, <2>2 DEF StopIsLost, syncVars
<1>3. ASSUME NEW c \in Sharers, SharerStep(c) PROVE (MutexesHeld /\ SeqIdsDiffer /\ StopIsLost)'
  <2>1. SeqIdsDiffer'
    BY <1>1, <1>3, CallGoesOn DEF Between, SharerStep
  <2>2. StopIsLost'
    <3>1. CASE UNCHANGED stop
      BY <1>0, <1>3, <3>1, CallGoesOn DEF StopIsLost, Live
    <3>2. CASE ~UNCHANGED stop
      <4>1. ~Live("shared")
        BY <1>0, <1>3, <3>2
           DEF SharerStep, WriteHead, WriteArgs, LockRead, ReadHead, ReadBody, WaitForWork, Gives,
               wireVars, Live, StopIsLost
      <4>. QED
        BY <1>3, <4>1, CallGoesOn DEF StopIsLost, Live
    <3>. QED
      BY <3>1, <3>2
  <2>3. MutexesHeld'
    <3>1. CASE WriteHead(c)
      <4>1. /\ \A d \in Sharers \ {c} : rpc'[d].step = rpc[d].step
            /\ rpc[c].step = "send" /\ rpc'[c].step = "args"
        BY <1>3, <3>1, CallGoesOn
      <4>2. sendMutex = Loner /\ sendMutex' = c /\ readMutex' = readMutex
        BY <3>1 DEF WriteHead
      <4>. QED
        BY <1>0, <1>3, <4>1, <4>2 DEF MutexesHeld, At
    <3>2. CASE WriteArgs(c)
      BY <1>0, <1>3, <3>2, CallGoesOn DEF MutexesHeld, At, WriteArgs
    <3>3. CASE LockRead(c)
      BY <1>0, <1>3, <3>3, CallGoesOn DEF MutexesHeld, At, LockRead
    <3>4. CASE ReadHead(c)
      <4>1. readMutex' = (IF rpc'[c].step = "body" THEN c ELSE Loner) /\ sendMutex' = sendMutex
        <5>1. sendMutex' = sendMutex
          BY <3>4 DEF ReadHead
        <5>2. CASE Gives(c)
          <6>1. rpc'[c].step = "done" /\ readMutex' = Loner
            BY <1>0, <1>3, <5>2, CallEnds DEF Gives, Exception
          <6>. QED
            BY <5>1, <6>1
        <5>3. CASE ~Gives(c)
          <6>1. readMutex' = (IF rpc'[c].step = "wait" THEN Loner ELSE c)
            BY <3>4, <5>3 DEF ReadHead
          <6>2. Step2(c, "body") \/ Step2(c, "wait")
            BY <3>4, <5>3 DEF ReadHead
          <6>3. rpc'[c].step \in {"body", "wait"}
            BY <1>0, <1>3, <6>2, CallSteps DEF SharerSteps
          <6>. QED
            BY <5>1, <6>1, <6>3
        <5>. QED
          BY <5>2, <5>3
      <4>. QED
        BY <1>0, <1>3, <3>4, <4>1, CallGoesOn DEF MutexesHeld, At
    <3>5. CASE ReadBody(c)
      BY <1>0, <1>3, <3>5, CallGoesOn DEF MutexesHeld, At, ReadBody, Gives
    <3>6. CASE WaitForWork(c)
      <4>1. \/ rpc'[c].step = "head" /\ readMutex' = c
            \/ rpc'[c].step # "head" /\ readMutex' = readMutex
        <5>1. \/ Ends(c, Exception) /\ UNCHANGED readMutex
              \/ Step2(c, "head") /\ readMutex' = c
              \/ UNCHANGED <<rpc, readMutex>> /\ rpc[c].step = "wait"
          BY <3>6 DEF WaitForWork, Exception, At
        <5>2. Ends(c, Exception) => rpc'[c].step = "done"
          BY <1>0, <1>3, CallEnds
        <5>3. Step2(c, "head") => rpc'[c].step = "head"
          BY <1>0, <1>3, CallSteps DEF SharerSteps
        <5>. QED
          BY <5>1, <5>2, <5>3
      <4>2. readMutex = Loner /\ sendMutex' = sendMutex
        BY <3>6 DEF WaitForWork
      <4>. QED
        BY <1>0, <1>3, <3>6, <4>1, <4>2, CallGoesOn DEF MutexesHeld, At
    <3>. QED
      BY <1>3, <3>1, <3>2, <3>3, <3>4, <3>5, <3>6 DEF SharerStep
  <2>. QED
    BY <2>1, <2>2, <2>3
<1>4. ASSUME NEW c \in Sharers, GenerateSeqId(c) PROVE (MutexesHeld /\ SeqIdsDiffer /\ StopIsLost)'
  <2>1. MutexesHeld'
    BY <1>0, <1>4, CallBegins DEF MutexesHeld, At, Between
  <2>2. SeqIdsDiffer'
    <3>1. /\ \A d \in Sharers : rpc[d].seqid \in Nat
          /\ \A d \in Sharers \ {c} : rpc'[d] = rpc[d]
          /\ nextseqid \in Nat \ {0}
      BY <1>0, <1>4, CallBegins DEF RpcTypes, RpcStates
    <3>2. CASE stop
      <4>1. rpc'[c].seqid = 0 /\ rpc'[c].step = "done" /\ nextseqid' = nextseqid
        BY <1>4, <3>2, CallBegins
      <4>. QED
        BY <1>0, <3>1, <4>1 DEF SeqIdsDiffer, Between
    <3>3. CASE ~stop
      <4>1. rpc'[c].seqid = nextseqid /\ nextseqid' = nextseqid + 1
        BY <1>4, <3>3, CallBegins
      <4>. QED
        BY <1>0, <3>1, <4>1 DEF SeqIdsDiffer, Between
    <3>. QED
      BY <3>2, <3>3
  <2>. QED
    BY <1>0, <1>4, <2>1, <2>2, CallBegins DEF StopIsLost, Live
<1>5. CASE PlainSend \/ PlainRecv \/ PlainFails
  BY <1>2, <1>5, PlainIsApart DEF Live
<1>6. ASSUME NEW n \in Conns, Accept(n) \/ HangUp(n) \/ Cut(n) PROVE (MutexesHeld /\ SeqIdsDiffer /\ StopIsLost)'
  <2>1. rpc' = rpc /\ UNCHANGED syncVars
    BY <1>6 DEF Accept, HangUp, Cut
  <2>2. Live("shared")' => Live("shared")
    BY <1>0, <1>6 DEF Accept, HangUp, Cut, Live, RpcTypes, Conns
  <2>. QED
    BY <1>2, <2>1, <2>2
<1>7. ASSUME NEW n \in Conns, Process(n) PROVE (MutexesHeld /\ SeqIdsDiffer /\ StopIsLost)'
  BY <1>2, <1>7 DEF Process, Live
<1>8. CASE UNCHANGED rpcVars
  BY <1>2, <1>8 DEF rpcVars, wireVars, Live
<1>. QED
  BY <1>3, <1>4, <1>5, <1>6, <1>7, <1>8
     DEF RpcNext, RpcStep, SharerStep, SpuriousWakeup, RpcIdle

\* A step within c's call, and one that begins another.
SameCall(c) == rpc'[c].seqid = rpc[c].seqid /\ rpc'[c].method = rpc[c].method
NewCall(c)  == rpc'[c].seqid \notin 1 .. nextseqid - 1 /\ ~Awaits(c) /\ sendMutex # c

\* Whose message it is depends on the calls alone.
LEMMA SameMessages ==
    ASSUME NEW c, SameCall(c)
    PROVE  /\ \A h, b : IsRequest(c, h, b)' <=> IsRequest(c, h, b)
           /\ \A h, b : IsReply(c, h, b)' <=> IsReply(c, h, b)
  BY DEF SameCall, IsRequest, IsReply, ArgsStruct

\* A step that leaves the messages alone, and under which calls go on or begin.
LEMMA MessagesKept ==
    ASSUME RpcInv, RpcTypes', Replies' = Replies, nextseqid <= nextseqid',
           ~stop' => ~stop, StopIsLost',
           Live("shared")' => Live("shared") /\ Requests' = Requests /\ sendMutex' = sendMutex,
           \A c \in Sharers : \/ SameCall(c) /\ (stop' \/ (Awaits(c) => Awaits(c)'))
                              \/ NewCall(c)
    PROVE  (Alternate /\ MessagesFit /\ MessagesAwaited)'
<1>0. RpcTypes /\ MutexesHeld /\ Alternate /\ MessagesFit /\ MessagesAwaited
  BY DEF RpcInv
<1>1. nextseqid \in Nat /\ nextseqid' \in Nat
  BY <1>0 DEF RpcTypes
<1>2. ASSUME NEW k \in 1 .. nextseqid - 1, NEW c \in Sharers, rpc'[c].seqid = k
      PROVE  SameCall(c) /\ rpc[c].seqid = k
  BY <1>2 DEF SameCall, NewCall
<1>3. ASSUME ~stop', NEW k \in 1 .. nextseqid - 1, NEW c \in Sharers, Awaits(c), rpc[c].seqid = k
      PROVE  Awaits(c)' /\ rpc'[c].seqid = k
  BY <1>3 DEF SameCall, NewCall
<1>4. Alternate'
  <2>1. ASSUME Live("shared")', sendMutex # Loner PROVE SameCall(sendMutex) /\ sendMutex' = sendMutex
    BY <1>0, <2>1 DEF MutexesHeld, NewCall, Rpcs
  <2>. QED
    BY <1>0, <2>1 DEF Alternate, SameCall
<1>5. MessagesFit'
  <2>1. ASSUME NEW i \in Nat \ {0}, 2 * i <= Len(Replies)
        PROVE  /\ Replies[2 * i - 1] \in Heads
               /\ Replies[2 * i - 1].seqid \in 1 .. nextseqid' - 1
               /\ \A c \in Sharers : rpc'[c].seqid = Replies[2 * i - 1].seqid =>
                    IsReply(c, Replies[2 * i - 1], Replies[2 * i])'
    <3>1. /\ Replies[2 * i - 1] \in Heads /\ Replies[2 * i - 1].seqid \in 1 .. nextseqid - 1
          /\ \A c \in Sharers : rpc[c].seqid = Replies[2 * i - 1].seqid =>
               IsReply(c, Replies[2 * i - 1], Replies[2 * i])
      BY <1>0, <2>1 DEF MessagesFit
    <3>2. \A c \in Sharers : rpc'[c].seqid = Replies[2 * i - 1].seqid =>
               SameCall(c) /\ rpc[c].seqid = Replies[2 * i - 1].seqid
      BY <1>2, <3>1
    <3>3. ASSUME NEW c \in Sharers, rpc'[c].seqid = Replies[2 * i - 1].seqid
          PROVE  IsReply(c, Replies[2 * i - 1], Replies[2 * i])'
      <4>1. IsReply(c, Replies[2 * i - 1], Replies[2 * i])
        BY <3>1, <3>2, <3>3
      <4>2. rpc'[c].method = rpc[c].method /\ rpc'[c].seqid = rpc[c].seqid
        BY <3>2, <3>3 DEF SameCall
      <4>. QED
        BY <4>1, <4>2 DEF IsReply
    <3>. QED
      BY <1>1, <3>1, <3>3
  <2>2. ASSUME Live("shared")', NEW i \in Nat \ {0}, 2 * i <= Len(Requests)
        PROVE  /\ Requests[2 * i - 1] \in Heads
               /\ Requests[2 * i - 1].seqid \in 1 .. nextseqid' - 1
               /\ \A c \in Sharers : rpc'[c].seqid = Requests[2 * i - 1].seqid =>
                    IsRequest(c, Requests[2 * i - 1], Requests[2 * i])'
    <3>1. /\ Requests[2 * i - 1] \in Heads /\ Requests[2 * i - 1].seqid \in 1 .. nextseqid - 1
          /\ \A c \in Sharers : rpc[c].seqid = Requests[2 * i - 1].seqid =>
               IsRequest(c, Requests[2 * i - 1], Requests[2 * i])
      BY <1>0, <2>2 DEF MessagesFit
    <3>2. \A c \in Sharers : rpc'[c].seqid = Requests[2 * i - 1].seqid =>
               SameCall(c) /\ rpc[c].seqid = Requests[2 * i - 1].seqid
      BY <1>2, <3>1
    <3>3. ASSUME NEW c \in Sharers, rpc'[c].seqid = Requests[2 * i - 1].seqid
          PROVE  IsRequest(c, Requests[2 * i - 1], Requests[2 * i])'
      <4>1. IsRequest(c, Requests[2 * i - 1], Requests[2 * i])
        BY <3>1, <3>2, <3>3
      <4>2. rpc'[c].method = rpc[c].method /\ rpc'[c].seqid = rpc[c].seqid
        BY <3>2, <3>3 DEF SameCall
      <4>3. Requests' = Requests
        BY <2>2
      <4>. QED
        BY <4>1, <4>2, <4>3 DEF IsRequest, ArgsStruct
    <3>. QED
      BY <1>1, <3>1, <3>3
  <2>. QED
    BY <2>1, <2>2 DEF MessagesFit
<1>6. MessagesAwaited'
  <2>1. ASSUME ~stop', NEW i \in Nat \ {0}, 2 * i <= Len(Replies)
        PROVE  \E c \in Sharers : Awaits(c)' /\ rpc'[c].seqid = Replies[2 * i - 1].seqid
    <3>1. Replies[2 * i - 1].seqid \in 1 .. nextseqid - 1
      BY <1>0, <2>1 DEF MessagesFit
    <3>2. PICK c \in Sharers : Awaits(c) /\ rpc[c].seqid = Replies[2 * i - 1].seqid
      BY <1>0, <2>1 DEF MessagesAwaited
    <3>. QED
      BY <1>3, <2>1, <3>1, <3>2
  <2>2. ASSUME Live("shared")', NEW i \in Nat \ {0}, 2 * i <= Len(Requests)
        PROVE  \E c \in Sharers : Awaits(c)' /\ rpc'[c].seqid = Requests[2 * i - 1].seqid
    <3>1. Requests[2 * i - 1].seqid \in 1 .. nextseqid - 1
      BY <1>0, <2>2 DEF MessagesFit
    <3>2. PICK c \in Sharers : Awaits(c) /\ rpc[c].seqid = Requests[2 * i - 1].seqid
      BY <1>0, <2>2 DEF MessagesAwaited
    <3>3. ~stop'
      BY <2>2 DEF StopIsLost
    <3>. QED
      BY <1>3, <3>1, <3>2, <3>3
  <2>. QED
    BY <1>0, <2>1, <2>2 DEF MessagesAwaited
<1>. QED
  BY <1>4, <1>5, <1>6

\* The reply to its call is taken off the wire with the call's end.
LEMMA MessageTaken ==
    ASSUME RpcInv, RpcTypes', StopIsLost', NEW c \in Sharers, ReadBody(c), toRpc["shared"] # <<>>
    PROVE  (Alternate /\ MessagesFit /\ MessagesAwaited)'
<1>0. RpcTypes /\ MutexesHeld /\ Alternate /\ MessagesFit /\ MessagesAwaited /\ SeqIdsDiffer
  BY DEF RpcInv
<1>. DEFINE R == Replies
<1>1. /\ R = <<recvPending>> \o toRpc["shared"] /\ R[1] = recvPending
      /\ toRpc["shared"] \in Seq(Heads \union Answered)
      /\ recvPending.seqid = rpc[c].seqid
  BY <1>0, OwnReply DEF ReadBody, RpcTypes, Conns, RpcInv, BodyIsOwn
<1>2. toRpc'["shared"] = Tail(toRpc["shared"]) /\ recvPending' = NoHead
  BY <1>0 DEF ReadBody, RpcTypes, Conns
<1>3. Replies' = Tail(toRpc["shared"])
  BY <1>2 DEF Replies
<1>4. /\ Len(R) \in Nat /\ Len(Replies') = Len(R) - 2
      /\ \A j \in 1 .. Len(R) - 2 : Replies'[j] = R[j + 2]
  BY <1>1, <1>3
<1>5. /\ \A d \in Sharers : SameCall(d)
      /\ \A d \in Sharers \ {c} : Awaits(d) => Awaits(d)'
      /\ stop' = stop /\ nextseqid' = nextseqid /\ Requests' = Requests /\ sendMutex' = sendMutex
      /\ state' = state
  <2>1. SharerStep(c)
    BY DEF SharerStep
  <2>. QED
    BY <2>1, CallGoesOn, FieldsOfMethods DEF ReadBody, SameCall, Awaits, Requests
<1>. HIDE DEF R
<1>6. Alternate'
  <2>1. PICK k \in Nat : Len(R) = 2 * k
    BY <1>0 DEF Alternate, R
  <2>2. k - 1 \in Nat /\ Len(Replies') = 2 * (k - 1)
    <3>1. Len(R) >= 2
      BY OwnReply DEF ReadBody, R
    <3>. QED
      BY <1>4, <2>1, <3>1
  <2>3. sendMutex # Loner => SameCall(sendMutex)
    BY <1>0, <1>5 DEF MutexesHeld, Rpcs
  <2>. QED
    BY <1>0, <1>5, <2>2, <2>3 DEF Alternate, SameCall, Live
<1>7. ASSUME NEW i \in Nat \ {0}, 2 * i <= Len(Replies')
      PROVE  /\ i + 1 \in Nat \ {0} /\ 2 * (i + 1) <= Len(R)
             /\ Replies'[2 * i - 1] = R[2 * (i + 1) - 1] /\ Replies'[2 * i] = R[2 * (i + 1)]
  <2>1. 2 * i - 1 \in 1 .. Len(R) - 2 /\ 2 * i \in 1 .. Len(R) - 2
    BY <1>4, <1>7
  <2>2. 2 * i - 1 + 2 = 2 * (i + 1) - 1 /\ 2 * i + 2 = 2 * (i + 1)
    OBVIOUS
  <2>. QED
    BY <1>4, <1>7, <2>1, <2>2
<1>8. MessagesFit'
  <2>1. ASSUME NEW i \in Nat \ {0}, 2 * i <= Len(Replies')
        PROVE  /\ Replies'[2 * i - 1] \in Heads
               /\ Replies'[2 * i - 1].seqid \in 1 .. nextseqid' - 1
               /\ \A d \in Sharers : rpc'[d].seqid = Replies'[2 * i - 1].seqid =>
                    IsReply(d, Replies[2 * i - 1], Replies[2 * i])'
    <3>1. /\ R[2 * (i + 1) - 1] \in Heads /\ R[2 * (i + 1) - 1].seqid \in 1 .. nextseqid - 1
          /\ \A d \in Sharers : rpc[d].seqid = R[2 * (i + 1) - 1].seqid =>
               IsReply(d, R[2 * (i + 1) - 1], R[2 * (i + 1)])
      BY <1>0, <1>7, <2>1 DEF MessagesFit, R
    <3>2. ASSUME NEW d \in Sharers, rpc'[d].seqid = Replies'[2 * i - 1].seqid
          PROVE  IsReply(d, Replies[2 * i - 1], Replies[2 * i])'
      <4>1. IsReply(d, Replies'[2 * i - 1], Replies'[2 * i])
        BY <1>5, <1>7, <2>1, <3>1, <3>2 DEF SameCall
      <4>2. rpc'[d].method = rpc[d].method /\ rpc'[d].seqid = rpc[d].seqid
        BY <1>5 DEF SameCall
      <4>. QED
        BY <4>1, <4>2 DEF IsReply
    <3>. QED
      BY <1>5, <1>7, <2>1, <3>1, <3>2
  <2>. QED
    BY <1>0, <1>5, <2>1 DEF MessagesFit, Live, SameCall, IsRequest, ArgsStruct
<1>9. MessagesAwaited'
  <2>1. ASSUME NEW i \in Nat \ {0}, 2 * i <= Len(Replies') PROVE Replies'[2 * i - 1].seqid # rpc[c].seqid
    <3>1. PICK o \in Nat \ {0} : i + 1 # o /\ 2 * o <= Len(R) /\ R[2 * o - 1] = recvPending
      <4>1. 1 \in Nat \ {0} /\ i + 1 # 1 /\ 2 * 1 <= Len(R) /\ R[2 * 1 - 1] = recvPending
        BY <1>1, <1>4, <1>7, <2>1
      <4>. QED
        BY <4>1
    <3>2. R[2 * (i + 1) - 1].seqid # R[2 * o - 1].seqid
      BY <1>0, <1>7, <2>1, <3>1 DEF MessagesAwaited, R
    <3>. QED
      BY <1>1, <1>7, <2>1, <3>1, <3>2
  <2>2. ASSUME Live("shared"), NEW i \in Nat \ {0}, 2 * i <= Len(Requests)
        PROVE  Requests[2 * i - 1].seqid # rpc[c].seqid
    <3>1. PICK o \in Nat \ {0} : 2 * o <= Len(R) /\ R[2 * o - 1] = recvPending
      <4>1. Len(R) >= 2
        BY OwnReply DEF ReadBody, R
      <4>2. 1 \in Nat \ {0} /\ 2 * 1 <= Len(R) /\ R[2 * 1 - 1] = recvPending
        BY <1>1, <1>4, <4>1
      <4>. QED
        BY <4>2
    <3>2. R[2 * o - 1].seqid # Requests[2 * i - 1].seqid
      BY <1>0, <2>2, <3>1 DEF MessagesAwaited, R
    <3>. QED
      BY <1>1, <3>1, <3>2
  <2>3. ASSUME ~stop', NEW i \in Nat \ {0}, 2 * i <= Len(Replies')
        PROVE  \E d \in Sharers : Awaits(d)' /\ rpc'[d].seqid = Replies'[2 * i - 1].seqid
    <3>1. PICK d \in Sharers : Awaits(d) /\ rpc[d].seqid = R[2 * (i + 1) - 1].seqid
      BY <1>0, <1>5, <1>7, <2>3 DEF MessagesAwaited, R
    <3>2. d # c
      BY <1>7, <2>1, <2>3, <3>1
    <3>. QED
      BY <1>5, <1>7, <2>3, <3>1, <3>2 DEF SameCall
  <2>4. ASSUME Live("shared")', NEW i \in Nat \ {0}, 2 * i <= Len(Requests)
        PROVE  \E d \in Sharers : Awaits(d)' /\ rpc'[d].seqid = Requests[2 * i - 1].seqid
    <3>1. PICK d \in Sharers : Awaits(d) /\ rpc[d].seqid = Requests[2 * i - 1].seqid
      BY <1>0, <1>5, <2>4 DEF MessagesAwaited, Live
    <3>2. d # c
      BY <1>5, <2>2, <2>4, <3>1 DEF Live
    <3>. QED
      BY <1>5, <3>1, <3>2 DEF SameCall
  <2>5. \A i, j \in Nat \ {0} : i # j /\ 2 * i <= Len(Replies') /\ 2 * j <= Len(Replies') =>
         Replies'[2 * i - 1].seqid # Replies'[2 * j - 1].seqid
    <3>1. SUFFICES ASSUME NEW i \in Nat \ {0}, NEW j \in Nat \ {0}, i # j, 2 * i <= Len(Replies'), 2 * j <= Len(Replies')
                   PROVE Replies'[2 * i - 1].seqid # Replies'[2 * j - 1].seqid
      OBVIOUS
    <3>2. i + 1 # j + 1
      BY <3>1
    <3>3. R[2 * (i + 1) - 1].seqid # R[2 * (j + 1) - 1].seqid
      BY <1>0, <1>7, <3>1, <3>2 DEF MessagesAwaited, R
    <3>. QED
      BY <1>7, <3>1, <3>3
  <2>6. ASSUME Live("shared")', NEW i \in Nat \ {0}, NEW j \in Nat \ {0}, 2 * i <= Len(Replies'), 2 * j <= Len(Requests)
        PROVE  Replies'[2 * i - 1].seqid # Requests[2 * j - 1].seqid
    <3>1. R[2 * (i + 1) - 1].seqid # Requests[2 * j - 1].seqid
      BY <1>0, <1>5, <1>7, <2>6 DEF MessagesAwaited, R, Live
    <3>. QED
      BY <1>7, <2>6, <3>1
  <2>7. Live("shared")' =>
         \A i, j \in Nat \ {0} : i # j /\ 2 * i <= Len(Requests) /\ 2 * j <= Len(Requests) =>
              Requests[2 * i - 1].seqid # Requests[2 * j - 1].seqid
    BY <1>0, <1>5 DEF MessagesAwaited, Live
  <2>. QED
    BY <1>5, <2>3, <2>4, <2>5, <2>6, <2>7 DEF MessagesAwaited
<1>. QED
  BY <1>6, <1>8, <1>9

\* A head is written: there is one item more, and the mutex names its sender.
LEMMA RequestBegun ==
    ASSUME RpcInv, RpcTypes', StopIsLost', NEW c \in Sharers, WriteHead(c), Live("shared")
    PROVE  (Alternate /\ MessagesFit /\ MessagesAwaited)'
<1>0. RpcTypes /\ MutexesHeld /\ Alternate /\ MessagesFit /\ MessagesAwaited
  BY DEF RpcInv
<1>. DEFINE S == Requests
            head == MessageHead(rpc[c].method, "call", rpc[c].seqid)
<1>1. /\ S \in Seq(Heads \union Requested) /\ Requests' = Append(S, head)
      /\ Replies' = Replies
  BY <1>0 DEF WriteHead, Requests, Replies, RpcTypes, Conns
<1>2. /\ Len(S) \in Nat /\ Len(Requests') = Len(S) + 1 /\ Requests'[Len(S) + 1] = head
      /\ \A j \in 1 .. Len(S) : Requests'[j] = S[j]
  BY <1>1
<1>3. /\ \A d \in Sharers : SameCall(d) /\ (Awaits(d) => Awaits(d)')
      /\ UNCHANGED <<stop, nextseqid, state>> /\ sendMutex' = c /\ sendMutex = Loner
  <2>1. SharerStep(c)
    BY DEF SharerStep
  <2>. QED
    BY <2>1, CallGoesOn, FieldsOfMethods DEF WriteHead, SameCall, Awaits
<1>4. PICK k \in Nat : Len(S) = 2 * k
  BY <1>0, <1>3 DEF Alternate
<1>o. /\ \A i \in Nat \ {0} : 2 * i <= Len(S) =>
           /\ S[2 * i - 1] \in Heads /\ S[2 * i - 1].seqid \in 1 .. nextseqid - 1
           /\ \A d \in Sharers : rpc[d].seqid = S[2 * i - 1].seqid => IsRequest(d, S[2 * i - 1], S[2 * i])
           /\ \E d \in Sharers : Awaits(d) /\ rpc[d].seqid = S[2 * i - 1].seqid
      /\ \A i, j \in Nat \ {0} : i # j /\ 2 * i <= Len(S) /\ 2 * j <= Len(S) =>
           S[2 * i - 1].seqid # S[2 * j - 1].seqid
      /\ \A i, j \in Nat \ {0} : 2 * i <= Len(Replies) /\ 2 * j <= Len(S) =>
           Replies[2 * i - 1].seqid # S[2 * j - 1].seqid
  BY <1>0 DEF MessagesFit, MessagesAwaited
<1>. HIDE DEF S, head
<1>5. Alternate'
  <2>1. /\ Len(Requests') = 2 * k + 1
        /\ Requests'[Len(Requests')] = MessageHead(rpc'[c].method, "call", rpc'[c].seqid)
    BY <1>2, <1>3, <1>4 DEF SameCall, head
  <2>2. c # Loner
    BY FieldsOfMethods
  <2>. QED
    BY <1>0, <1>1, <1>3, <2>1, <2>2 DEF Alternate
<1>6. ASSUME NEW i \in Nat \ {0}, 2 * i <= Len(Requests')
      PROVE  2 * i <= Len(S) /\ Requests'[2 * i - 1] = S[2 * i - 1] /\ Requests'[2 * i] = S[2 * i]
  <2>1. 2 * i <= Len(S)
    BY <1>2, <1>4, <1>6
  <2>2. 2 * i \in 1 .. Len(S) /\ 2 * i - 1 \in 1 .. Len(S)
    BY <1>2, <2>1
  <2>. QED
    BY <1>2, <2>1, <2>2
<1>7. MessagesFit'
  <2>1. ASSUME NEW i \in Nat \ {0}, 2 * i <= Len(Requests')
        PROVE  /\ Requests'[2 * i - 1] \in Heads
               /\ Requests'[2 * i - 1].seqid \in 1 .. nextseqid' - 1
               /\ \A d \in Sharers : rpc'[d].seqid = Requests'[2 * i - 1].seqid =>
                    IsRequest(d, Requests[2 * i - 1], Requests[2 * i])'
    <3>1. ASSUME NEW d \in Sharers, rpc'[d].seqid = Requests'[2 * i - 1].seqid
          PROVE  IsRequest(d, Requests[2 * i - 1], Requests[2 * i])'
      <4>1. rpc'[d].method = rpc[d].method /\ rpc'[d].seqid = rpc[d].seqid
        BY <1>3 DEF SameCall
      <4>2. IsRequest(d, Requests'[2 * i - 1], Requests'[2 * i])
        BY <1>o, <1>6, <2>1, <3>1, <4>1
      <4>. QED
        BY <4>1, <4>2 DEF IsRequest, ArgsStruct
    <3>. QED
      BY <1>o, <1>3, <1>6, <2>1, <3>1
  <2>2. ASSUME NEW i \in Nat \ {0}, 2 * i <= Len(Replies')
        PROVE  /\ Replies'[2 * i - 1] \in Heads
               /\ Replies'[2 * i - 1].seqid \in 1 .. nextseqid' - 1
               /\ \A d \in Sharers : rpc'[d].seqid = Replies'[2 * i - 1].seqid =>
                    IsReply(d, Replies[2 * i - 1], Replies[2 * i])'
    <3>1. /\ Replies[2 * i - 1] \in Heads /\ Replies[2 * i - 1].seqid \in 1 .. nextseqid - 1
          /\ \A d \in Sharers : rpc[d].seqid = Replies[2 * i - 1].seqid =>
               IsReply(d, Replies[2 * i - 1], Replies[2 * i])
      BY <1>0, <1>1, <2>2 DEF MessagesFit
    <3>2. ASSUME NEW d \in Sharers, rpc'[d].seqid = Replies'[2 * i - 1].seqid
          PROVE  IsReply(d, Replies[2 * i - 1], Replies[2 * i])'
      <4>1. rpc'[d].method = rpc[d].method /\ rpc'[d].seqid = rpc[d].seqid
        BY <1>3 DEF SameCall
      <4>2. IsReply(d, Replies[2 * i - 1], Replies[2 * i])
        BY <1>1, <3>1, <3>2, <4>1
      <4>. QED
        BY <1>1, <4>1, <4>2 DEF IsReply
    <3>. QED
      BY <1>1, <1>3, <3>1, <3>2
  <2>. QED
    BY <1>1, <1>3, <2>1, <2>2 DEF MessagesFit
<1>8. MessagesAwaited'
  <2>1. ASSUME NEW i \in Nat \ {0}, 2 * i <= Len(Requests')
        PROVE  \E d \in Sharers : Awaits(d)' /\ rpc'[d].seqid = Requests'[2 * i - 1].seqid
    <3>1. PICK d \in Sharers : Awaits(d) /\ rpc[d].seqid = S[2 * i - 1].seqid
      BY <1>o, <1>6, <2>1
    <3>2. Awaits(d)' /\ rpc'[d].seqid = rpc[d].seqid
      BY <1>3, <3>1 DEF SameCall
    <3>. QED
      BY <1>6, <2>1, <3>1, <3>2
  <2>2. \A i, j \in Nat \ {0} : i # j /\ 2 * i <= Len(Requests') /\ 2 * j <= Len(Requests') =>
             Requests'[2 * i - 1].seqid # Requests'[2 * j - 1].seqid
    <3>. SUFFICES ASSUME NEW i \in Nat \ {0}, NEW j \in Nat \ {0}, i # j,
                         2 * i <= Len(Requests'), 2 * j <= Len(Requests')
                  PROVE  Requests'[2 * i - 1].seqid # Requests'[2 * j - 1].seqid
      OBVIOUS
    <3>1. S[2 * i - 1].seqid # S[2 * j - 1].seqid
      BY <1>o, <1>6
    <3>. QED
      BY <1>6, <3>1
  <2>3. \A i, j \in Nat \ {0} : 2 * i <= Len(Replies) /\ 2 * j <= Len(Requests') =>
             Replies[2 * i - 1].seqid # Requests'[2 * j - 1].seqid
    <3>. SUFFICES ASSUME NEW i \in Nat \ {0}, NEW j \in Nat \ {0},
                         2 * i <= Len(Replies), 2 * j <= Len(Requests')
                  PROVE  Replies[2 * i - 1].seqid # Requests'[2 * j - 1].seqid
      OBVIOUS
    <3>1. Replies[2 * i - 1].seqid # S[2 * j - 1].seqid
      BY <1>o, <1>6
    <3>. QED
      BY <1>6, <3>1
  <2>4. ~stop' => \A i \in Nat \ {0} : 2 * i <= Len(Replies') =>
             \E d \in Sharers : Awaits(d)' /\ rpc'[d].seqid = Replies'[2 * i - 1].seqid
    <3>. SUFFICES ASSUME ~stop', NEW i \in Nat \ {0}, 2 * i <= Len(Replies')
                  PROVE  \E d \in Sharers : Awaits(d)' /\ rpc'[d].seqid = Replies'[2 * i - 1].seqid
      OBVIOUS
    <3>1. PICK d \in Sharers : Awaits(d) /\ rpc[d].seqid = Replies[2 * i - 1].seqid
      BY <1>0, <1>1, <1>3 DEF MessagesAwaited
    <3>2. Awaits(d)' /\ rpc'[d].seqid = rpc[d].seqid
      BY <1>3, <3>1 DEF SameCall
    <3>. QED
      BY <1>1, <3>1, <3>2
  <2>5. \A i, j \in Nat \ {0} : i # j /\ 2 * i <= Len(Replies') /\ 2 * j <= Len(Replies') =>
             Replies'[2 * i - 1].seqid # Replies'[2 * j - 1].seqid
    BY <1>0, <1>1 DEF MessagesAwaited
  <2>. QED
    BY <1>1, <2>1, <2>2, <2>3, <2>4, <2>5 DEF MessagesAwaited
<1>. QED
  BY <1>5, <1>7, <1>8

\* The arguments complete the request of who holds the mutex; no other is of its call.
LEMMA RequestMade ==
    ASSUME RpcInv, RpcTypes', StopIsLost', NEW c \in Sharers, WriteArgs(c), Live("shared")
    PROVE  (Alternate /\ MessagesFit /\ MessagesAwaited)'
<1>0. RpcTypes /\ MutexesHeld /\ Alternate /\ MessagesFit /\ MessagesAwaited /\ SeqIdsDiffer /\ StopIsLost
  BY DEF RpcInv
<1>. DEFINE S == Requests
            head == MessageHead(rpc[c].method, "call", rpc[c].seqid)
<1>1. /\ S \in Seq(Heads \union Requested) /\ Requests' = Append(S, ArgsStruct(c))
      /\ Replies' = Replies
  BY <1>0 DEF WriteArgs, Requests, Replies, RpcTypes, Conns
<1>2. /\ Len(S) \in Nat /\ Len(Requests') = Len(S) + 1 /\ Requests'[Len(S) + 1] = ArgsStruct(c)
      /\ \A j \in 1 .. Len(S) : Requests'[j] = S[j]
  BY <1>1
<1>3. /\ \A d \in Sharers : SameCall(d) /\ (Awaits(d) => Awaits(d)')
      /\ UNCHANGED <<stop, nextseqid, state>> /\ sendMutex' = Loner /\ sendMutex = c
      /\ ~Awaits(c) /\ Awaits(c)' /\ ~Between(c)
  <2>1. SharerStep(c)
    BY DEF SharerStep
  <2>. QED
    BY <1>0, <2>1, CallGoesOn, FieldsOfMethods DEF WriteArgs, SameCall, Awaits, MutexesHeld, Between
<1>4. PICK k \in Nat : Len(S) = 2 * k + 1 /\ S[Len(S)] = head
  BY <1>0, <1>3, FieldsOfMethods DEF Alternate
<1>4a. head.seqid = rpc[c].seqid /\ head \in Heads /\ rpc[c].seqid \in 1 .. nextseqid - 1
  <2>1. rpc[c].method \in Methods /\ rpc[c].seqid \in Nat /\ rpc[c].seqid > 0 /\ rpc[c].seqid < nextseqid
    BY <1>0, <1>3, FieldsOfMethods DEF RpcTypes, RpcStates, Between, SeqIdsDiffer
  <2>2. nextseqid \in Nat
    BY <1>0 DEF RpcTypes
  <2>. QED
    BY <2>1, <2>2 DEF MessageHead, Heads
<1>o. /\ \A i \in Nat \ {0} : 2 * i <= Len(S) =>
           /\ S[2 * i - 1] \in Heads /\ S[2 * i - 1].seqid \in 1 .. nextseqid - 1
           /\ \A d \in Sharers : rpc[d].seqid = S[2 * i - 1].seqid => IsRequest(d, S[2 * i - 1], S[2 * i])
           /\ \E d \in Sharers : Awaits(d) /\ rpc[d].seqid = S[2 * i - 1].seqid
      /\ \A i, j \in Nat \ {0} : i # j /\ 2 * i <= Len(S) /\ 2 * j <= Len(S) =>
           S[2 * i - 1].seqid # S[2 * j - 1].seqid
      /\ \A i, j \in Nat \ {0} : 2 * i <= Len(Replies) /\ 2 * j <= Len(S) =>
           Replies[2 * i - 1].seqid # S[2 * j - 1].seqid
  BY <1>0 DEF MessagesFit, MessagesAwaited
<1>. HIDE DEF S, head
<1>5. Alternate'
  <2>1. Len(Requests') = 2 * (k + 1) /\ k + 1 \in Nat
    BY <1>2, <1>4
  <2>. QED
    BY <1>0, <1>1, <1>3, <2>1 DEF Alternate
<1>6. ASSUME NEW i \in Nat \ {0}, 2 * i <= Len(Requests')
      PROVE  \/ 2 * i <= Len(S) /\ Requests'[2 * i - 1] = S[2 * i - 1] /\ Requests'[2 * i] = S[2 * i]
             \/ i = k + 1 /\ Requests'[2 * i - 1] = head /\ Requests'[2 * i] = ArgsStruct(c)
  <2>1. CASE i = k + 1
    <3>1. 2 * i - 1 = Len(S) /\ 2 * i = Len(S) + 1 /\ Len(S) \in 1 .. Len(S)
      BY <1>2, <1>4, <2>1
    <3>. QED
      BY <1>2, <1>4, <2>1, <3>1
  <2>2. CASE i # k + 1
    <3>1. 2 * i <= Len(S)
      BY <1>2, <1>4, <1>6, <2>2
    <3>2. 2 * i \in 1 .. Len(S) /\ 2 * i - 1 \in 1 .. Len(S)
      BY <1>2, <3>1
    <3>. QED
      BY <1>2, <3>1, <3>2
  <2>. QED
    BY <2>1, <2>2
<1>7. ASSUME NEW d \in Sharers, rpc[d].seqid = rpc[c].seqid PROVE d = c
  BY <1>0, <1>4a, <1>7 DEF SeqIdsDiffer
<1>8. MessagesFit'
  <2>1. ASSUME NEW i \in Nat \ {0}, 2 * i <= Len(Requests')
        PROVE  /\ Requests'[2 * i - 1] \in Heads
               /\ Requests'[2 * i - 1].seqid \in 1 .. nextseqid' - 1
               /\ \A d \in Sharers : rpc'[d].seqid = Requests'[2 * i - 1].seqid =>
                    IsRequest(d, Requests[2 * i - 1], Requests[2 * i])'
    <3>1. CASE 2 * i <= Len(S) /\ Requests'[2 * i - 1] = S[2 * i - 1] /\ Requests'[2 * i] = S[2 * i]
      BY <1>0, <1>3, <2>1, <3>1 DEF MessagesFit, SameCall, IsRequest, ArgsStruct, S
    <3>2. CASE i = k + 1 /\ Requests'[2 * i - 1] = head /\ Requests'[2 * i] = ArgsStruct(c)
      <4>1. \A d \in Sharers : rpc'[d].seqid = head.seqid => d = c
        BY <1>3, <1>4a, <1>7 DEF SameCall
      <4>2. IsRequest(c, Requests[2 * i - 1], Requests[2 * i])'
        BY <1>3, <3>2 DEF IsRequest, ArgsStruct, SameCall, head
      <4>. QED
        BY <1>3, <1>4a, <3>2, <4>1, <4>2
    <3>. QED
      BY <1>6, <2>1, <3>1, <3>2
  <2>2. ASSUME NEW i \in Nat \ {0}, 2 * i <= Len(Replies')
        PROVE  /\ Replies'[2 * i - 1] \in Heads
               /\ Replies'[2 * i - 1].seqid \in 1 .. nextseqid' - 1
               /\ \A d \in Sharers : rpc'[d].seqid = Replies'[2 * i - 1].seqid =>
                    IsReply(d, Replies[2 * i - 1], Replies[2 * i])'
    <3>1. /\ Replies[2 * i - 1] \in Heads /\ Replies[2 * i - 1].seqid \in 1 .. nextseqid - 1
          /\ \A d \in Sharers : rpc[d].seqid = Replies[2 * i - 1].seqid =>
               IsReply(d, Replies[2 * i - 1], Replies[2 * i])
      BY <1>0, <1>1, <2>2 DEF MessagesFit
    <3>2. ASSUME NEW d \in Sharers, rpc'[d].seqid = Replies'[2 * i - 1].seqid
          PROVE  IsReply(d, Replies[2 * i - 1], Replies[2 * i])'
      <4>1. rpc'[d].method = rpc[d].method /\ rpc'[d].seqid = rpc[d].seqid
        BY <1>3 DEF SameCall
      <4>2. IsReply(d, Replies[2 * i - 1], Replies[2 * i])
        BY <1>1, <3>1, <3>2, <4>1
      <4>. QED
        BY <1>1, <4>1, <4>2 DEF IsReply
    <3>. QED
      BY <1>1, <1>3, <3>1, <3>2
  <2>. QED
    BY <1>1, <1>3, <2>1, <2>2 DEF MessagesFit
<1>9. ASSUME NEW i \in Nat \ {0}, 2 * i <= Len(S) PROVE S[2 * i - 1].seqid # rpc[c].seqid
  <2>1. PICK d \in Sharers : Awaits(d) /\ rpc[d].seqid = S[2 * i - 1].seqid
    BY <1>0, <1>9 DEF MessagesAwaited, S
  <2>. QED
    BY <1>3, <1>7, <2>1
<1>10. ASSUME NEW i \in Nat \ {0}, 2 * i <= Len(Replies) PROVE Replies[2 * i - 1].seqid # rpc[c].seqid
  <2>1. PICK d \in Sharers : Awaits(d) /\ rpc[d].seqid = Replies[2 * i - 1].seqid
    BY <1>0, <1>10 DEF MessagesAwaited, StopIsLost
  <2>. QED
    BY <1>3, <1>7, <2>1
<1>11. MessagesAwaited'
  <2>1. ASSUME NEW i \in Nat \ {0}, 2 * i <= Len(Requests')
        PROVE  \E d \in Sharers : Awaits(d)' /\ rpc'[d].seqid = Requests'[2 * i - 1].seqid
    <3>1. CASE 2 * i <= Len(S) /\ Requests'[2 * i - 1] = S[2 * i - 1]
      <4>1. PICK d \in Sharers : Awaits(d) /\ rpc[d].seqid = S[2 * i - 1].seqid
        BY <1>o, <2>1, <3>1
      <4>2. Awaits(d)' /\ rpc'[d].seqid = rpc[d].seqid
        BY <1>3, <4>1 DEF SameCall
      <4>. QED
        BY <3>1, <4>1, <4>2
    <3>2. CASE Requests'[2 * i - 1] = head
      BY <1>3, <1>4a, <3>2 DEF SameCall
    <3>. QED
      BY <1>6, <2>1, <3>1, <3>2
  <2>2. ASSUME NEW i \in Nat \ {0}, NEW j \in Nat \ {0}, i # j, 2 * i <= Len(Requests'), 2 * j <= Len(Requests')
        PROVE  Requests'[2 * i - 1].seqid # Requests'[2 * j - 1].seqid
    <3>1. CASE i = k + 1
      <4>1. Requests'[2 * i - 1] = head
        BY <1>2, <1>4, <1>6, <2>2, <3>1
      <4>2. 2 * j <= Len(S) /\ Requests'[2 * j - 1] = S[2 * j - 1]
        BY <1>6, <2>2, <3>1
      <4>. QED
        BY <1>4a, <1>9, <4>1, <4>2
    <3>2. CASE j = k + 1
      <4>1. Requests'[2 * j - 1] = head
        BY <1>2, <1>4, <1>6, <2>2, <3>2
      <4>2. 2 * i <= Len(S) /\ Requests'[2 * i - 1] = S[2 * i - 1]
        BY <1>6, <2>2, <3>2
      <4>. QED
        BY <1>4a, <1>9, <4>1, <4>2
    <3>3. CASE i # k + 1 /\ j # k + 1
      <4>1. /\ 2 * i <= Len(S) /\ Requests'[2 * i - 1] = S[2 * i - 1]
            /\ 2 * j <= Len(S) /\ Requests'[2 * j - 1] = S[2 * j - 1]
        BY <1>6, <2>2, <3>3
      <4>. QED
        BY <1>0, <2>2, <4>1 DEF MessagesAwaited, S
    <3>. QED
      BY <3>1, <3>2, <3>3
  <2>3. ASSUME NEW i \in Nat \ {0}, NEW j \in Nat \ {0}, 2 * i <= Len(Replies), 2 * j <= Len(Requests')
        PROVE  Replies[2 * i - 1].seqid # Requests'[2 * j - 1].seqid
    <3>1. CASE 2 * j <= Len(S) /\ Requests'[2 * j - 1] = S[2 * j - 1]
      BY <1>o, <2>3, <3>1
    <3>2. CASE Requests'[2 * j - 1] = head
      BY <1>4a, <1>10, <2>3, <3>2
    <3>. QED
      BY <1>6, <2>3, <3>1, <3>2
  <2>4. /\ \A d \in Sharers : Awaits(d) => Awaits(d)'
        /\ \A d \in Sharers : rpc'[d].seqid = rpc[d].seqid
    BY <1>3 DEF SameCall
  <2>5. ~stop' => \A i \in Nat \ {0} : 2 * i <= Len(Replies) =>
         \E d \in Sharers : Awaits(d)' /\ rpc'[d].seqid = Replies[2 * i - 1].seqid
    BY <1>0, <1>3, <2>4 DEF MessagesAwaited
  <2>6. Replies' = Replies
    BY <1>1
  <2>7. \A i, j \in Nat \ {0} : i # j /\ 2 * i <= Len(Replies) /\ 2 * j <= Len(Replies) =>
             Replies[2 * i - 1].seqid # Replies[2 * j - 1].seqid
    BY <1>0 DEF MessagesAwaited
  <2>. QED
    BY <2>1, <2>2, <2>3, <2>5, <2>6, <2>7 DEF MessagesAwaited
<1>. QED
  BY <1>5, <1>8, <1>11

\* The server answers the first request with its reply, behind the replies before it.
LEMMA RequestServed ==
    ASSUME RpcInv, RpcTypes', StopIsLost', Process("shared")
    PROVE  (Alternate /\ MessagesFit /\ MessagesAwaited)'
<1>0. RpcTypes /\ MutexesHeld /\ Alternate /\ MessagesFit /\ MessagesAwaited /\ SeqIdsDiffer /\ StopIsLost
  BY DEF RpcInv
<1>. DEFINE S == Requests
            R == Replies
<1>1. PICK c \in Rpcs, mtype \in {"reply", "exception"} :
        /\ Conn(c) = "shared" /\ rpc[c].method \in Methods
        /\ c \in Sharers => Awaits(c)
        /\ IsRequest(c, S[1], S[2])
        /\ toRpc' = [toRpc EXCEPT !["shared"] =
                 @ \o <<MessageHead(rpc[c].method, mtype, rpc[c].seqid),
                        IF mtype = "reply"
                        THEN WriteStruct(ResultOf[rpc[c].method], Handle(rpc[c].method, c))
                        ELSE WriteStruct(Field(1, "string"), <<"what">>)>>]
  BY ServedRequest DEF Conns, Requests
<1>. DEFINE head == MessageHead(rpc[c].method, mtype, rpc[c].seqid)
            body == IF mtype = "reply"
                    THEN WriteStruct(ResultOf[rpc[c].method], Handle(rpc[c].method, c))
                    ELSE WriteStruct(Field(1, "string"), <<"what">>)
<1>2. c \in Sharers
  BY <1>1, FieldsOfMethods DEF Conn, Rpcs
<1>3. /\ Live("shared") /\ Live("shared")' /\ Len(S) >= 2 /\ S \in Seq(Heads \union Requested)
      /\ UNCHANGED <<rpc, stop, nextseqid, sendMutex, recvPending, state>>
      /\ Requests' = SubSeq(S, 3, Len(S))
      /\ toRpc'["shared"] = toRpc["shared"] \o <<head, body>>
  BY <1>0, <1>1 DEF Process, Live, Requests, RpcTypes, Conns, syncVars
<1>4. IsReply(c, head, body) /\ head \in Heads /\ head.seqid = rpc[c].seqid
      /\ IsRequest(c, S[1], S[2]) /\ S[1].seqid = rpc[c].seqid
  <2>1. rpc[c].seqid \in Nat
    BY <1>0 DEF RpcTypes, RpcStates
  <2>2. head \in Heads /\ head.seqid = rpc[c].seqid
    BY <1>1, <2>1 DEF MessageHead, Heads
  <2>3. IsReply(c, head, body)
    BY <1>1 DEF IsReply, MessageHead
  <2>4. IsRequest(c, S[1], S[2]) /\ S[1].seqid = rpc[c].seqid
    BY <1>1 DEF IsRequest, MessageHead
  <2>. QED
    BY <2>2, <2>3, <2>4
<1>. HIDE DEF head, body
<1>. DEFINE Items == Heads \union Answered \union {head, body}
<1>5. /\ toRpc["shared"] \in Seq(Items) /\ <<head, body>> \in Seq(Items)
      /\ recvPending # NoHead => <<recvPending>> \in Seq(Items)
  <2>1. toRpc["shared"] \in Seq(Heads \union Answered)
    BY <1>0 DEF RpcTypes, Conns
  <2>2. recvPending # NoHead => recvPending \in Items
    BY <1>0 DEF RpcTypes
  <2>3. Seq(Heads \union Answered) \subseteq Seq(Items)
    OBVIOUS
  <2>. QED
    BY <2>1, <2>2, <2>3
<1>5a. R \in Seq(Items)
  BY <1>5, ConcatProperties DEF Replies
<1>6. Replies' = R \o <<head, body>>
  <2>1. CASE recvPending = NoHead
    BY <1>3, <2>1 DEF Replies
  <2>2. CASE recvPending # NoHead
    <3>1. <<recvPending>> \o (toRpc["shared"] \o <<head, body>>)
            = (<<recvPending>> \o toRpc["shared"]) \o <<head, body>>
      <4>1. \A x, y, z \in Seq(Items) : (x \o y) \o z = x \o (y \o z)
        BY ConcatAssociative
      <4>. HIDE DEF Items
      <4>. QED
        BY <1>5, <2>2, <4>1
    <3>. QED
      BY <1>3, <2>2, <3>1 DEF Replies
  <2>. QED
    BY <2>1, <2>2
<1>7. PICK k \in Nat : Len(R) = 2 * k
  BY <1>0 DEF Alternate
<1>8. /\ Len(S) \in Nat /\ Len(Requests') = Len(S) - 2
      /\ \A j \in 1 .. Len(S) - 2 : Requests'[j] = S[j + 2]
      /\ Len(Replies') = 2 * k + 2
      /\ \A j \in 1 .. 2 * k : Replies'[j] = R[j]
      /\ Replies'[2 * k + 1] = head /\ Replies'[2 * k + 2] = body
  <2>1. /\ Len(S) \in Nat /\ Len(Requests') = Len(S) - 2
        /\ \A j \in 1 .. Len(S) - 2 : Requests'[j] = S[j + 2]
    <3>1. Len(S) \in Nat /\ 3 \in 1 .. Len(S) + 1 /\ Len(S) \in 2 .. Len(S)
      BY <1>3
    <3>2. /\ Len(Requests') = Len(S) - 3 + 1
          /\ \A j \in 1 .. Len(S) - 3 + 1 : Requests'[j] = S[3 + j - 1]
      BY <1>3, <3>1, SubSeqProperties
    <3>. QED
      BY <3>1, <3>2
  <2>2. /\ Len(Replies') = 2 * k + 2
        /\ \A j \in 1 .. 2 * k : Replies'[j] = R[j]
        /\ Replies'[2 * k + 1] = head /\ Replies'[2 * k + 2] = body
    <3>1. /\ Len(Replies') = Len(R) + Len(<<head, body>>)
          /\ \A j \in 1 .. Len(R) + Len(<<head, body>>) :
               Replies'[j] = IF j <= Len(R) THEN R[j] ELSE <<head, body>>[j - Len(R)]
      BY <1>5, <1>5a, <1>6, ConcatProperties
    <3>2. Len(<<head, body>>) = 2 /\ <<head, body>>[1] = head /\ <<head, body>>[2] = body
      OBVIOUS
    <3>3. 2 * k + 1 \in 1 .. Len(R) + 2 /\ 2 * k + 2 \in 1 .. Len(R) + 2
          /\ 2 * k + 1 - Len(R) = 1 /\ 2 * k + 2 - Len(R) = 2
          /\ ~(2 * k + 1 <= Len(R)) /\ ~(2 * k + 2 <= Len(R))
      BY <1>7
    <3>4. Replies'[2 * k + 1] = head /\ Replies'[2 * k + 2] = body
      BY <3>1, <3>2, <3>3
    <3>5. \A j \in 1 .. 2 * k : j \in 1 .. Len(R) + 2 /\ j <= Len(R)
      BY <1>7
    <3>. QED
      BY <1>7, <3>1, <3>2, <3>4, <3>5
  <2>. QED
    BY <2>1, <2>2
<1>9. /\ \A i \in Nat \ {0} : 2 * i <= Len(S) =>
           /\ S[2 * i - 1] \in Heads /\ S[2 * i - 1].seqid \in 1 .. nextseqid - 1
           /\ \A d \in Sharers : rpc[d].seqid = S[2 * i - 1].seqid => IsRequest(d, S[2 * i - 1], S[2 * i])
           /\ \E d \in Sharers : Awaits(d) /\ rpc[d].seqid = S[2 * i - 1].seqid
      /\ \A i, j \in Nat \ {0} : i # j /\ 2 * i <= Len(S) /\ 2 * j <= Len(S) =>
           S[2 * i - 1].seqid # S[2 * j - 1].seqid
      /\ \A i, j \in Nat \ {0} : 2 * i <= Len(R) /\ 2 * j <= Len(S) =>
           R[2 * i - 1].seqid # S[2 * j - 1].seqid
  BY <1>0, <1>3 DEF MessagesFit, MessagesAwaited
<1>10. /\ \A i \in Nat \ {0} : 2 * i <= Len(R) =>
           /\ R[2 * i - 1] \in Heads /\ R[2 * i - 1].seqid \in 1 .. nextseqid - 1
           /\ \A d \in Sharers : rpc[d].seqid = R[2 * i - 1].seqid => IsReply(d, R[2 * i - 1], R[2 * i])
           /\ \E d \in Sharers : Awaits(d) /\ rpc[d].seqid = R[2 * i - 1].seqid
       /\ \A i, j \in Nat \ {0} : i # j /\ 2 * i <= Len(R) /\ 2 * j <= Len(R) =>
           R[2 * i - 1].seqid # R[2 * j - 1].seqid
  BY <1>0, <1>3 DEF MessagesFit, MessagesAwaited, StopIsLost
<1>11. rpc[c].seqid \in 1 .. nextseqid - 1
  <2>1. 1 \in Nat \ {0} /\ 2 * 1 <= Len(S) /\ S[2 * 1 - 1] = S[1]
    BY <1>3
  <2>. QED
    BY <1>4, <1>9, <2>1
<1>12. ASSUME NEW d \in Sharers, rpc[d].seqid = rpc[c].seqid PROVE d = c
  BY <1>0, <1>2, <1>11, <1>12 DEF SeqIdsDiffer
<1>13. ASSUME Live("shared")', sendMutex # Loner PROVE Requests'[Len(Requests')] = S[Len(S)] /\ Len(S) >= 3
  <2>1. PICK m \in Nat : Len(S) = 2 * m + 1
    BY <1>0, <1>3, <1>13 DEF Alternate
  <2>2. Len(S) >= 3 /\ Len(S) - 2 \in 1 .. Len(S) - 2
    BY <1>3, <2>1
  <2>3. Requests'[Len(S) - 2] = S[Len(S) - 2 + 2] /\ Len(S) - 2 + 2 = Len(S)
    BY <1>8, <2>2
  <2>. QED
    BY <1>8, <2>2, <2>3
<1>. HIDE DEF S, R, Items
<1>14. Alternate'
  <2>1. Len(Replies') = 2 * (k + 1) /\ k + 1 \in Nat
    BY <1>8
  <2>2. CASE sendMutex = Loner
    <3>1. PICK m \in Nat : Len(S) = 2 * m
      BY <1>0, <1>3, <2>2 DEF Alternate, S
    <3>2. m - 1 \in Nat /\ Len(Requests') = 2 * (m - 1)
      BY <1>3, <1>8, <3>1
    <3>. QED
      BY <1>3, <2>1, <2>2, <3>2 DEF Alternate
  <2>3. CASE sendMutex # Loner
    <3>1. PICK m \in Nat : Len(S) = 2 * m + 1
      BY <1>0, <1>3, <2>3 DEF Alternate, S
    <3>2. m - 1 \in Nat /\ Len(Requests') = 2 * (m - 1) + 1
      BY <1>3, <1>8, <3>1
    <3>3. Requests'[Len(Requests')] = MessageHead(rpc[sendMutex].method, "call", rpc[sendMutex].seqid)
      BY <1>0, <1>3, <1>13, <2>3 DEF Alternate, S
    <3>. QED
      BY <1>3, <2>1, <2>3, <3>2, <3>3 DEF Alternate
  <2>. QED
    BY <2>2, <2>3
<1>15. ASSUME NEW i \in Nat \ {0}, 2 * i <= Len(Requests')
       PROVE  /\ i + 1 \in Nat \ {0} /\ i + 1 # 1 /\ 2 * (i + 1) <= Len(S)
              /\ Requests'[2 * i - 1] = S[2 * (i + 1) - 1] /\ Requests'[2 * i] = S[2 * (i + 1)]
  <2>1. 2 * i - 1 \in 1 .. Len(S) - 2 /\ 2 * i \in 1 .. Len(S) - 2
    BY <1>8, <1>15
  <2>2. 2 * i - 1 + 2 = 2 * (i + 1) - 1 /\ 2 * i + 2 = 2 * (i + 1)
    OBVIOUS
  <2>. QED
    BY <1>8, <1>15, <2>1, <2>2
<1>16. ASSUME NEW i \in Nat \ {0}, 2 * i <= Len(Replies')
       PROVE  \/ 2 * i <= Len(R) /\ Replies'[2 * i - 1] = R[2 * i - 1] /\ Replies'[2 * i] = R[2 * i]
              \/ i = k + 1 /\ Replies'[2 * i - 1] = head /\ Replies'[2 * i] = body
  <2>1. CASE i = k + 1
    <3>1. 2 * i - 1 = 2 * k + 1 /\ 2 * i = 2 * k + 2
      BY <2>1
    <3>. QED
      BY <1>8, <2>1, <3>1
  <2>2. CASE i # k + 1
    <3>1. 2 * i <= 2 * k /\ 2 * i \in 1 .. 2 * k /\ 2 * i - 1 \in 1 .. 2 * k
      BY <1>8, <1>16, <2>2
    <3>. QED
      BY <1>7, <1>8, <3>1
  <2>. QED
    BY <2>1, <2>2
<1>17. MessagesFit'
  <2>1. ASSUME NEW i \in Nat \ {0}, 2 * i <= Len(Replies')
        PROVE  /\ Replies'[2 * i - 1] \in Heads
               /\ Replies'[2 * i - 1].seqid \in 1 .. nextseqid - 1
               /\ \A d \in Sharers : rpc[d].seqid = Replies'[2 * i - 1].seqid =>
                    IsReply(d, Replies'[2 * i - 1], Replies'[2 * i])
    <3>1. CASE 2 * i <= Len(R) /\ Replies'[2 * i - 1] = R[2 * i - 1] /\ Replies'[2 * i] = R[2 * i]
      BY <1>10, <3>1
    <3>2. CASE Replies'[2 * i - 1] = head /\ Replies'[2 * i] = body
      BY <1>4, <1>11, <1>12, <3>2
    <3>. QED
      BY <1>16, <2>1, <3>1, <3>2
  <2>2. ASSUME NEW i \in Nat \ {0}, 2 * i <= Len(Requests')
        PROVE  /\ Requests'[2 * i - 1] \in Heads
               /\ Requests'[2 * i - 1].seqid \in 1 .. nextseqid - 1
               /\ \A d \in Sharers : rpc[d].seqid = Requests'[2 * i - 1].seqid =>
                    IsRequest(d, Requests'[2 * i - 1], Requests'[2 * i])
    <3>1. /\ S[2 * (i + 1) - 1] \in Heads /\ S[2 * (i + 1) - 1].seqid \in 1 .. nextseqid - 1
          /\ \A d \in Sharers : rpc[d].seqid = S[2 * (i + 1) - 1].seqid =>
               IsRequest(d, S[2 * (i + 1) - 1], S[2 * (i + 1)])
      BY <1>9, <1>15, <2>2
    <3>. QED
      BY <1>15, <2>2, <3>1
  <2>. QED
    BY <1>3, <2>1, <2>2 DEF MessagesFit, IsReply, IsRequest, ArgsStruct
<1>18. MessagesAwaited'
  <2>1. ASSUME NEW i \in Nat \ {0}, 2 * i <= Len(Replies')
        PROVE  \E d \in Sharers : Awaits(d) /\ rpc[d].seqid = Replies'[2 * i - 1].seqid
    <3>1. CASE 2 * i <= Len(R) /\ Replies'[2 * i - 1] = R[2 * i - 1]
      BY <1>10, <3>1
    <3>2. CASE Replies'[2 * i - 1] = head
      BY <1>1, <1>2, <1>4, <3>2
    <3>. QED
      BY <1>16, <2>1, <3>1, <3>2
  <2>2. ASSUME NEW i \in Nat \ {0}, 2 * i <= Len(Requests')
        PROVE  \E d \in Sharers : Awaits(d) /\ rpc[d].seqid = Requests'[2 * i - 1].seqid
    <3>1. PICK d \in Sharers : Awaits(d) /\ rpc[d].seqid = S[2 * (i + 1) - 1].seqid
      BY <1>9, <1>15, <2>2
    <3>. QED
      BY <1>15, <2>2, <3>1
  <2>3. ASSUME NEW j \in Nat \ {0}, 2 * j <= Len(S), j # 1 PROVE S[2 * j - 1].seqid # rpc[c].seqid
    <3>1. PICK o \in Nat \ {0} : 2 * o <= Len(S) /\ S[2 * o - 1] = S[1] /\ o = 1
      <4>1. 1 \in Nat \ {0} /\ 2 * 1 <= Len(S) /\ S[2 * 1 - 1] = S[1]
        BY <1>3
      <4>. QED
        BY <4>1
    <3>2. S[2 * j - 1].seqid # S[2 * o - 1].seqid
      BY <1>9, <2>3, <3>1
    <3>. QED
      BY <1>4, <3>1, <3>2
  <2>4. ASSUME NEW j \in Nat \ {0}, 2 * j <= Len(R) PROVE R[2 * j - 1].seqid # rpc[c].seqid
    <3>1. PICK o \in Nat \ {0} : 2 * o <= Len(S) /\ S[2 * o - 1] = S[1]
      <4>1. 1 \in Nat \ {0} /\ 2 * 1 <= Len(S) /\ S[2 * 1 - 1] = S[1]
        BY <1>3
      <4>. QED
        BY <4>1
    <3>2. R[2 * j - 1].seqid # S[2 * o - 1].seqid
      BY <1>9, <2>4, <3>1
    <3>. QED
      BY <1>4, <3>1, <3>2
  <2>5. ASSUME NEW i \in Nat \ {0}, NEW j \in Nat \ {0}, i # j, 2 * i <= Len(Replies'), 2 * j <= Len(Replies')
        PROVE  Replies'[2 * i - 1].seqid # Replies'[2 * j - 1].seqid
    <3>1. CASE i = k + 1
      <4>1. Replies'[2 * i - 1] = head
        <5>1. ~(2 * i <= Len(R))
          BY <1>7, <3>1
        <5>. QED
          BY <1>16, <2>5, <5>1
      <4>2. 2 * j <= Len(R) /\ Replies'[2 * j - 1] = R[2 * j - 1]
        BY <1>16, <2>5, <3>1
      <4>. QED
        BY <1>4, <2>4, <4>1, <4>2
    <3>2. CASE j = k + 1
      <4>1. Replies'[2 * j - 1] = head
        <5>1. ~(2 * j <= Len(R))
          BY <1>7, <3>2
        <5>. QED
          BY <1>16, <2>5, <5>1
      <4>2. 2 * i <= Len(R) /\ Replies'[2 * i - 1] = R[2 * i - 1]
        BY <1>16, <2>5, <3>2
      <4>. QED
        BY <1>4, <2>4, <4>1, <4>2
    <3>3. CASE i # k + 1 /\ j # k + 1
      <4>1. /\ 2 * i <= Len(R) /\ Replies'[2 * i - 1] = R[2 * i - 1]
            /\ 2 * j <= Len(R) /\ Replies'[2 * j - 1] = R[2 * j - 1]
        BY <1>16, <2>5, <3>3
      <4>. QED
        BY <1>10, <2>5, <4>1
    <3>. QED
      BY <3>1, <3>2, <3>3
  <2>6. ASSUME NEW i \in Nat \ {0}, NEW j \in Nat \ {0}, i # j, 2 * i <= Len(Requests'), 2 * j <= Len(Requests')
        PROVE  Requests'[2 * i - 1].seqid # Requests'[2 * j - 1].seqid
    <3>1. i + 1 # j + 1
      BY <2>6
    <3>2. S[2 * (i + 1) - 1].seqid # S[2 * (j + 1) - 1].seqid
      BY <1>9, <1>15, <2>6, <3>1
    <3>. QED
      BY <1>15, <2>6, <3>2
  <2>7. ASSUME NEW i \in Nat \ {0}, NEW j \in Nat \ {0}, 2 * i <= Len(Replies'), 2 * j <= Len(Requests')
        PROVE  Replies'[2 * i - 1].seqid # Requests'[2 * j - 1].seqid
    <3>1. CASE 2 * i <= Len(R) /\ Replies'[2 * i - 1] = R[2 * i - 1]
      <4>1. R[2 * i - 1].seqid # S[2 * (j + 1) - 1].seqid
        BY <1>9, <1>15, <2>7, <3>1
      <4>. QED
        BY <1>15, <2>7, <3>1, <4>1
    <3>2. CASE Replies'[2 * i - 1] = head
      BY <1>4, <1>15, <2>3, <2>7, <3>2
    <3>. QED
      BY <1>16, <2>7, <3>1, <3>2
  <2>8. \A d \in Sharers : Awaits(d)' <=> Awaits(d)
    BY <1>3 DEF Awaits
  <2>. QED
    BY <1>3, <2>1, <2>2, <2>5, <2>6, <2>7, <2>8 DEF MessagesAwaited
<1>. QED
  BY <1>14, <1>17, <1>18

\* A thread that has read its head keeps it until it reads the body.
LEMMA StepBody ==
    ASSUME RpcInv, [RpcNext]_rpcVars
    PROVE  BodyIsOwn'
<1>. USE FieldsOfMethods
<1>0. RpcTypes /\ MutexesHeld /\ BodyIsOwn
  BY DEF RpcInv
<1>1. ASSUME \A c \in Sharers : At(c, "body")' => At(c, "body") /\ rpc'[c].seqid = rpc[c].seqid,
             recvPending' = recvPending
      PROVE  BodyIsOwn'
  BY <1>0, <1>1 DEF BodyIsOwn
<1>2. ASSUME NEW c \in Sharers, SharerStep(c) PROVE BodyIsOwn'
  <2>1. CASE ReadHead(c)
    <3>1. CASE Gives(c)
      <4>1. recvPending' = recvPending /\ rpc'[c].step = "done"
        BY <1>0, <2>1, <3>1, CallEnds DEF ReadHead, Gives, Exception
      <4>. QED
        BY <1>1, <1>2, <4>1, CallGoesOn DEF At
    <3>2. CASE ~Gives(c)
      <4>. DEFINE head == IF recvPending # NoHead THEN recvPending ELSE Head(toRpc["shared"])
      <4>1. /\ recvPending # NoHead \/ toRpc["shared"] # <<>>
            /\ recvPending' = head
            /\ head.seqid # rpc[c].seqid => Step2(c, "wait")
        BY <2>1, <3>2 DEF ReadHead
      <4>2. head # NoHead
        BY <1>0, <4>1, NextHead DEF RpcInv
      <4>3. \A d \in Sharers \ {c} : ~At(d, "body")'
        BY <1>0, <1>2, <2>1, CallGoesOn DEF MutexesHeld, At
      <4>4. At(c, "body")' => head.seqid = rpc[c].seqid
        BY <1>0, <4>1, CallSteps DEF At, SharerSteps
      <4>. QED
        BY <1>2, <4>1, <4>2, <4>3, <4>4, CallGoesOn DEF BodyIsOwn
    <3>. QED
      BY <3>1, <3>2
  <2>2. CASE ReadBody(c)
    <3>1. \A d \in Sharers : ~At(d, "body")'
      BY <1>0, <1>2, <2>2, CallGoesOn DEF MutexesHeld, At
    <3>. QED
      BY <3>1 DEF BodyIsOwn
  <2>3. CASE WriteHead(c) \/ WriteArgs(c) \/ LockRead(c) \/ WaitForWork(c)
    <3>1. recvPending' = recvPending
      BY <2>3 DEF WriteHead, WriteArgs, LockRead, WaitForWork
    <3>. QED
      BY <1>1, <1>2, <2>3, <3>1, CallGoesOn DEF At
  <2>. QED
    BY <1>2, <2>1, <2>2, <2>3 DEF SharerStep
<1>3. ASSUME NEW c \in Sharers, GenerateSeqId(c) PROVE BodyIsOwn'
  BY <1>1, <1>3, CallBegins DEF At
<1>4. CASE PlainSend \/ PlainRecv \/ PlainFails
  BY <1>1, <1>4, PlainIsApart DEF At, syncVars
<1>5. ASSUME NEW n \in Conns, Accept(n) \/ HangUp(n) \/ Cut(n) \/ Process(n) PROVE BodyIsOwn'
  BY <1>1, <1>5 DEF Accept, HangUp, Cut, Process, At, syncVars
<1>6. CASE UNCHANGED rpcVars
  BY <1>1, <1>6 DEF rpcVars, syncVars, At
<1>. QED
  BY <1>2, <1>3, <1>4, <1>5, <1>6
     DEF RpcNext, RpcStep, SharerStep, SpuriousWakeup, RpcIdle

\* The messages of the shared connection, step by step.
LEMMA StepMessages ==
    ASSUME RpcInv, [RpcNext]_rpcVars, RpcTypes', StopIsLost'
    PROVE  (Alternate /\ MessagesFit /\ MessagesAwaited)'
<1>. USE FieldsOfMethods
<1>0. RpcTypes /\ MutexesHeld /\ Alternate /\ BodyIsOwn /\ SeqIdsDiffer
  BY DEF RpcInv
<1>1. ASSUME UNCHANGED <<Replies, nextseqid, stop>>, \A c \in Sharers : rpc'[c] = rpc[c],
             Live("shared")' => Live("shared") /\ UNCHANGED <<Requests, sendMutex>>
      PROVE  (Alternate /\ MessagesFit /\ MessagesAwaited)'
  <2>1. nextseqid <= nextseqid'
    BY <1>0, <1>1 DEF RpcTypes
  <2>2. \A c \in Sharers : SameCall(c) /\ (Awaits(c) => Awaits(c)')
    BY <1>1 DEF SameCall, Awaits
  <2>. QED
    BY <1>1, <2>1, <2>2, MessagesKept
<1>2. ASSUME NEW c \in Sharers, SharerStep(c) PROVE (Alternate /\ MessagesFit /\ MessagesAwaited)'
  <2>1. /\ \A d \in Sharers : SameCall(d)
        /\ \A d \in Sharers \ {c} : Awaits(d) => Awaits(d)'
        /\ state' = state /\ nextseqid <= nextseqid'
    <3>1. /\ \A d \in Rpcs \ {c} : rpc'[d] = rpc[d]
          /\ rpc'[c].seqid = rpc[c].seqid /\ rpc'[c].method = rpc[c].method
          /\ state' = state /\ nextseqid' = nextseqid
      BY <1>2, CallGoesOn
    <3>2. nextseqid <= nextseqid'
      BY <1>0, <3>1 DEF RpcTypes
    <3>. QED
      BY <3>1, <3>2 DEF SameCall, Awaits
  <2>2. ASSUME UNCHANGED Replies, ~stop' => ~stop, stop' \/ (Awaits(c) => Awaits(c)'),
               Live("shared")' => UNCHANGED <<Requests, sendMutex>>
        PROVE  (Alternate /\ MessagesFit /\ MessagesAwaited)'
    BY <2>1, <2>2, MessagesKept DEF Live
  <2>3. CASE WriteHead(c)
    <3>1. CASE Live("shared")
      BY <1>2, <2>3, <3>1, RequestBegun
    <3>2. CASE ~Live("shared")
      <4>1. UNCHANGED <<Replies, stop>> /\ ~Live("shared")'
        BY <1>2, <2>3, <3>2 DEF WriteHead, Replies, Live
      <4>2. Awaits(c) => Awaits(c)'
        BY <1>2, <2>3, CallGoesOn DEF Awaits
      <4>. QED
        BY <2>2, <4>1, <4>2
    <3>. QED
      BY <3>1, <3>2
  <2>4. CASE WriteArgs(c)
    <3>1. CASE Live("shared")
      BY <1>2, <2>4, <3>1, RequestMade
    <3>2. CASE ~Live("shared")
      <4>1. UNCHANGED Replies /\ stop' /\ ~Live("shared")'
        BY <1>2, <2>4, <3>2 DEF WriteArgs, MarkBad, Replies, Live
      <4>. QED
        BY <2>2, <4>1
    <3>. QED
      BY <3>1, <3>2
  <2>5. CASE LockRead(c)
    <3>1. UNCHANGED <<Replies, stop, Requests, sendMutex>>
      BY <2>5 DEF LockRead, wireVars, Replies, Requests
    <3>2. Awaits(c)'
      BY <1>2, <2>5, CallGoesOn DEF Awaits
    <3>. QED
      BY <2>2, <3>1, <3>2
  <2>6. CASE ReadHead(c)
    <3>1. UNCHANGED <<Requests, sendMutex>>
      BY <2>6 DEF ReadHead, Requests
    <3>2. CASE Gives(c)
      <4>1. stop'
        BY <3>2 DEF Gives, MarkBad
      <4>2. UNCHANGED Replies
        <5>1. CASE stop \/ (recvPending = NoHead /\ toRpc["shared"] = <<>> /\ state["shared"] = "cut")
          BY <2>6, <5>1 DEF ReadHead, Replies
        <5>2. CASE ~(stop \/ (recvPending = NoHead /\ toRpc["shared"] = <<>> /\ state["shared"] = "cut"))
          BY <2>6, <4>1, <5>2 DEF ReadHead
        <5>. QED
          BY <5>1, <5>2
      <4>. QED
        BY <2>2, <3>1, <4>1, <4>2
    <3>3. CASE ~Gives(c)
      <4>1. /\ recvPending # NoHead \/ toRpc["shared"] # <<>>
            /\ recvPending' = IF recvPending # NoHead THEN recvPending ELSE Head(toRpc["shared"])
            /\ toRpc' = IF recvPending # NoHead THEN toRpc
                        ELSE [toRpc EXCEPT !["shared"] = Tail(@)]
            /\ Step2(c, "body") \/ Step2(c, "wait")
            /\ stop' = stop
        BY <2>6, <3>3 DEF ReadHead
      <4>2. UNCHANGED Replies
        <5>1. CASE recvPending # NoHead
          BY <4>1, <5>1 DEF Replies
        <5>2. CASE recvPending = NoHead
          <6>1. /\ Head(toRpc["shared"]) # NoHead
                /\ Replies = <<Head(toRpc["shared"])>> \o Tail(toRpc["shared"])
            BY <4>1, <5>2, NextHead
          <6>2. toRpc'["shared"] = Tail(toRpc["shared"]) /\ recvPending' = Head(toRpc["shared"])
            BY <1>0, <4>1, <5>2 DEF RpcTypes, Conns
          <6>. QED
            BY <6>1, <6>2 DEF Replies
        <5>. QED
          BY <5>1, <5>2
      <4>3. Awaits(c)'
        BY <1>0, <4>1, CallSteps DEF Awaits, SharerSteps
      <4>. QED
        BY <2>2, <3>1, <4>1, <4>2, <4>3
    <3>. QED
      BY <3>2, <3>3
  <2>7. CASE ReadBody(c)
    <3>1. CASE toRpc["shared"] # <<>>
      BY <1>2, <2>7, <3>1, MessageTaken
    <3>2. CASE toRpc["shared"] = <<>>
      <4>1. recvPending # NoHead
        BY <1>0, <2>7 DEF ReadBody, BodyIsOwn
      <4>2. Len(Replies) = 1
        BY <3>2, <4>1 DEF Replies
      <4>3. PICK k \in Nat : Len(Replies) = 2 * k
        BY <1>0 DEF Alternate
      <4>. QED
        BY <4>2, <4>3
    <3>. QED
      BY <3>1, <3>2
  <2>8. CASE WaitForWork(c)
    <3>1. UNCHANGED <<Replies, stop, Requests, sendMutex>>
      BY <2>8 DEF WaitForWork, wireVars, Replies, Requests
    <3>2. stop' \/ Awaits(c)'
      <4>1. stop' \/ Step2(c, "head") \/ UNCHANGED rpc
        BY <2>8, <3>1 DEF WaitForWork
      <4>2. Step2(c, "head") => Awaits(c)'
        BY <1>0, CallSteps DEF Awaits, SharerSteps
      <4>3. UNCHANGED rpc => Awaits(c)'
        BY <2>8 DEF WaitForWork, At, Awaits
      <4>. QED
        BY <4>1, <4>2, <4>3
    <3>. QED
      BY <2>2, <3>1, <3>2
  <2>. QED
    BY <1>2, <2>3, <2>4, <2>5, <2>6, <2>7, <2>8 DEF SharerStep
<1>3. ASSUME NEW c \in Sharers, GenerateSeqId(c) PROVE (Alternate /\ MessagesFit /\ MessagesAwaited)'
  <2>1. /\ UNCHANGED <<Replies, stop, Requests, sendMutex>> /\ nextseqid <= nextseqid'
        /\ Live("shared")' = Live("shared")
    <3>1. /\ nextseqid' = (IF stop THEN nextseqid ELSE nextseqid + 1)
          /\ UNCHANGED <<sendMutex, recvPending, stop, toServ, toRpc, state>>
      BY <1>3, CallBegins
    <3>2. nextseqid <= nextseqid'
      BY <1>0, <3>1 DEF RpcTypes
    <3>. QED
      BY <3>1, <3>2 DEF Replies, Requests, Live
  <2>2. NewCall(c)
    <3>1. rpc'[c].seqid \notin 1 .. nextseqid - 1
      BY <1>0, <1>3, CallBegins DEF RpcTypes
    <3>2. ~Awaits(c) /\ sendMutex # c
      BY <1>0, <1>3, CallBegins DEF Awaits, Between, MutexesHeld, At
    <3>. QED
      BY <3>1, <3>2 DEF NewCall
  <2>3. \A d \in Sharers \ {c} : SameCall(d) /\ (Awaits(d) => Awaits(d)')
    BY <1>3, CallBegins DEF SameCall, Awaits
  <2>. QED
    BY <2>1, <2>2, <2>3, MessagesKept
<1>4. CASE PlainSend \/ PlainRecv \/ PlainFails
  BY <1>1, <1>4, PlainIsApart DEF Replies, Requests, Live, syncVars
<1>5. ASSUME NEW n \in Conns, Accept(n) \/ HangUp(n) \/ Cut(n) PROVE (Alternate /\ MessagesFit /\ MessagesAwaited)'
  <2>1. UNCHANGED <<rpc, toRpc, syncVars>>
    BY <1>5 DEF Accept, HangUp, Cut
  <2>2. Live("shared")' => Live("shared") /\ UNCHANGED Requests
    BY <1>0, <1>5 DEF Accept, HangUp, Cut, Live, Requests, RpcTypes, Conns
  <2>. QED
    BY <1>1, <2>1, <2>2 DEF Replies, syncVars
<1>6. ASSUME NEW n \in Conns, Process(n) PROVE (Alternate /\ MessagesFit /\ MessagesAwaited)'
  <2>1. CASE n = "shared"
    BY <1>6, <2>1, RequestServed
  <2>2. CASE n = "plain"
    <3>1. UNCHANGED <<rpc, state, syncVars>> /\ toRpc'["shared"] = toRpc["shared"]
          /\ toServ'["shared"] = toServ["shared"]
      BY <1>0, <1>6, <2>2 DEF Process, RpcTypes, Conns
    <3>. QED
      BY <1>1, <3>1 DEF Replies, Requests, Live, syncVars
  <2>. QED
    BY <2>1, <2>2 DEF Conns
<1>7. CASE UNCHANGED rpcVars
  BY <1>1, <1>7 DEF rpcVars, syncVars, wireVars, Replies, Requests, Live
<1>. QED
  BY <1>2, <1>3, <1>4, <1>5, <1>6, <1>7
     DEF RpcNext, RpcStep, SharerStep, SpuriousWakeup, RpcIdle

\* No call is under way and nothing is on the wire at first.
LEMMA RpcStarts == RpcInit => RpcInv
<1>. USE FieldsOfMethods
<1>. SUFFICES ASSUME RpcInit PROVE RpcInv
  OBVIOUS
<1>1. RpcTypes
  <2>1. NoRpc \in RpcStates
    BY DEF NoRpc, RpcStates, SharerSteps, Exception
  <2>. QED
    <3>1. rpc \in [Rpcs -> RpcStates] /\ \A c \in Rpcs : rpc[c].step = "idle"
      BY <2>1 DEF RpcInit, NoRpc
    <3>2. toServ \in [Conns -> Seq(Heads \union Requested)] /\ toRpc \in [Conns -> Seq(Heads \union Answered)]
      BY DEF RpcInit
    <3>3. state \in [Conns -> {"waiting", "served", "closed", "cut"}] /\ toCall \in [Rpcs -> Seq(Methods)]
      BY RpcAssumption DEF RpcInit
    <3>4. recvPending = NoHead /\ nextseqid \in Nat \ {0}
      BY DEF RpcInit
    <3>5. stop \in BOOLEAN
      BY Zenon DEF RpcInit
    <3>. QED
      BY <3>1, <3>2, <3>3, <3>4, <3>5 DEF RpcTypes
<1>2. toServ["shared"] = <<>> /\ Replies = <<>> /\ Requests = <<>> /\ toServ["plain"] = <<>> /\ toRpc["plain"] = <<>>
  BY DEF RpcInit, Conns, Replies, Requests
<1>3. \A c \in Rpcs : rpc[c].step = "idle" /\ rpc[c].seqid = 0 /\ rpc[c].outcome = Exception
  BY DEF RpcInit, NoRpc, Exception
<1>4. PlainInv
  BY <1>2, <1>3 DEF PlainInv, At
<1>5. MutexesHeld /\ SeqIdsDiffer /\ BodyIsOwn /\ StopIsLost /\ OutcomesFit
  BY <1>3 DEF RpcInit, MutexesHeld, SeqIdsDiffer, BodyIsOwn, StopIsLost, OutcomesFit, At, Between
<1>6. Len(Replies) = 2 * 0 /\ Len(Requests) = 2 * 0 /\ 0 \in Nat /\ sendMutex = Loner
  BY <1>2 DEF RpcInit
<1>7. Alternate
  BY <1>6 DEF Alternate
<1>8. \A i \in Nat \ {0} : ~(2 * i <= Len(Replies)) /\ ~(2 * i <= Len(Requests))
  BY <1>6
<1>9. MessagesFit /\ MessagesAwaited
  BY <1>8 DEF MessagesFit, MessagesAwaited
<1>. QED
  BY <1>1, <1>4, <1>5, <1>7, <1>9 DEF RpcInv

\* The invariant holds at all times.
LEMMA RpcInvariant == RpcSpec => []RpcInv
<1>1. RpcInv /\ [RpcNext]_rpcVars => RpcInv'
  <2>. SUFFICES ASSUME RpcInv, [RpcNext]_rpcVars PROVE RpcInv'
    OBVIOUS
  <2>. QED
    BY StepTypes, StepPlain, StepLocks, StepBody, StepMessages DEF RpcInv
<1>. QED
  BY <1>1, RpcStarts, PTL DEF RpcSpec

\* A call that returns a result returns that of its own arguments, whoever reads the replies
\* and however the threads interleave (CustomSvc.cpp:1907).
THEOREM RepliesReachTheirCallers == RpcSpec => []ReplyReachesItsCaller
<1>1. RpcInv => ReplyReachesItsCaller
  BY DEF RpcInv, OutcomesFit, ReplyReachesItsCaller, Exception
<1>. QED
  BY <1>1, RpcInvariant, PTL

\* Threads that have returned leave no mutex locked and, unless the connection is lost, no
\* reply behind (CustomSvc.cpp:1871).
THEOREM NothingIsLeftBehind == RpcSpec => []NothingLeftBehind
<1>1. RpcInv => NothingLeftBehind
  <2>. SUFFICES ASSUME RpcInv, \A c \in Sharers : Returned(c)
                PROVE  /\ sendMutex = Loner /\ readMutex = Loner
                       /\ IF stop THEN ~Live("shared")
                          ELSE toRpc["shared"] = <<>> /\ recvPending = NoHead
    BY DEF NothingLeftBehind
  <2>1. sendMutex = Loner /\ readMutex = Loner
    BY DEF RpcInv, MutexesHeld, Returned, At, Rpcs
  <2>2. stop => ~Live("shared")
    BY DEF RpcInv, StopIsLost
  <2>3. ASSUME ~stop PROVE toRpc["shared"] = <<>> /\ recvPending = NoHead
    <3>1. PICK k \in Nat : Len(Replies) = 2 * k
      BY DEF RpcInv, Alternate
    <3>2. k = 0
      <4>. SUFFICES ASSUME k # 0 PROVE FALSE
        OBVIOUS
      <4>1. k \in Nat \ {0} /\ 2 * k <= Len(Replies)
        BY <3>1
      <4>2. PICK c \in Sharers : Awaits(c)
        BY <2>3, <4>1 DEF RpcInv, MessagesAwaited
      <4>. QED
        BY <4>2 DEF Awaits, Returned
    <3>3. toRpc["shared"] \in Seq(Heads \union Answered)
      BY DEF RpcInv, RpcTypes, Conns
    <3>4. recvPending = NoHead
      <4>. SUFFICES ASSUME recvPending # NoHead PROVE FALSE
        OBVIOUS
      <4>1. Len(Replies) >= 1
        <5>1. recvPending \in Heads
          BY DEF RpcInv, RpcTypes
        <5>2. Replies = <<recvPending>> \o toRpc["shared"]
          BY DEF Replies
        <5>. QED
          BY <3>3, <5>1, <5>2
      <4>. QED
        BY <3>1, <3>2, <4>1
    <3>. QED
      BY <3>1, <3>2, <3>3, <3>4 DEF Replies
  <2>. QED
    BY <2>1, <2>2, <2>3
<1>. QED
  BY <1>1, RpcInvariant, PTL
====
