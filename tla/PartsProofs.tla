---- MODULE PartsProofs ----
(***************************************************************************)
(* Proofs about five parts that stand alone: the server's map of small      *)
(* files (MemMap), the UDP benchmark (UdpAck), the asynchronous server      *)
(* (AsyncServer), the chunks of a stream (ChunkedStream) and the benchmark  *)
(* of Thrift (ThriftBench).                                                 *)
(***************************************************************************)
EXTENDS MemMap, UdpAck, AsyncServer, ChunkedStream, ThriftBench,
        FiniteSetTheorems, SequenceTheorems, TLAPS

----
(***************************************************************************)
(* The map of small files                                                  *)
(***************************************************************************)
\* An entry is what the disk holds or is left from a file that has gone, unless a handler
\* went past the map.
MapInv ==
    /\ DOMAIN stored = MapPaths /\ DOMAIN mem_map = MapPaths
    /\ \A p \in MapPaths \ bypassed :
         stored[p] # Absent /\ mem_map[p] # Absent => mem_map[p] = stored[p]

\* Every handler keeps it: Store writes both, DeleteFile leaves an entry without a file,
\* and the others go past the map and are noted.
LEMMA MapStep == MapInv /\ [MapNext]_mapVars => MapInv'
<1>. SUFFICES ASSUME MapInv, [MapNext]_mapVars PROVE MapInv'
  OBVIOUS
<1>. USE MapAssumption DEF MapInv
<1>1. ASSUME NEW p \in MapPaths, NEW c, Bypass(p, c) PROVE MapInv'
  BY <1>1 DEF Bypass
<1>2. ASSUME NEW p \in MapPaths, NEW c \in Small \union Large, PutFile(p, c) PROVE MapInv'
  BY <1>1, <1>2 DEF PutFile
<1>3. ASSUME NEW p \in MapPaths, DeleteFile(p) PROVE MapInv'
  BY <1>3 DEF DeleteFile
<1>4. ASSUME NEW p \in MapPaths, NEW q \in MapPaths \ {p}, MapRename(p, q) PROVE MapInv'
  BY <1>4 DEF MapRename
<1>5. CASE MapRestart
  BY <1>5 DEF MapRestart
<1>6. CASE UNCHANGED mapVars
  BY <1>6 DEF mapVars
<1>. QED
  BY <1>1, <1>2, <1>3, <1>4, <1>5, <1>6 DEF MapNext, MapStream, MapMknod

\* Fetch answers what the disk holds for every path no handler has changed past the map.
THEOREM MapIsFresh == MapSpec => []MapServesTheDisk
<1>1. MapInit => MapInv
  BY DEF MapInit, MapInv
<1>2. MapInv => MapServesTheDisk
  BY DEF MapInv, MapServesTheDisk, Fetched
<1>. QED
  BY <1>1, <1>2, MapStep, PTL DEF MapSpec
----
(***************************************************************************)
(* The UDP benchmark                                                       *)
(***************************************************************************)
UdpInv == late \in Nat /\ failures \in Nat

\* The counts of the bounds are numbers.
LEMMA UdpStep == UdpInv /\ [UdpNext]_udpVars => UdpInv'
<1>. SUFFICES ASSUME UdpInv, [UdpNext]_udpVars PROVE UdpInv'
  OBVIOUS
<1>1. /\ late' \in {late, late + 1}
      /\ failures' \in {failures, failures + 1}
  BY DEF UdpNext, UdpClient, Send, Receive, Timeout, Failure, Report, ServerLoop, LoseAck, UdpDone, udpVars
<1>. QED
  BY <1>1 DEF UdpInv

\* As long as the client has waited for everything it sent, only the packet of this round,
\* or its acknowledgement, can be under way, and only while the client waits.
OneUnderWay ==
    late + failures = 0 =>
      /\ ~mixed
      /\ toServer \union toClient \subseteq IF waiting THEN {sent} ELSE {}
      /\ toServer \intersect toClient = {}

\* What is sent in a round has gone when the client goes on, or the client was late.
LEMMA UnderWayStep == UdpInv /\ OneUnderWay /\ [UdpNext]_udpVars => OneUnderWay'
<1>. SUFFICES ASSUME UdpInv, OneUnderWay, [UdpNext]_udpVars, late' + failures' = 0
              PROVE  /\ ~mixed'
                     /\ toServer' \union toClient' \subseteq IF waiting' THEN {sent'} ELSE {}
                     /\ toServer' \intersect toClient' = {}
  BY DEF OneUnderWay
<1>0. late \in Nat /\ failures \in Nat
  BY DEF UdpInv
<1>1. ASSUME late' = late, failures' = failures
      PROVE  /\ ~mixed /\ toServer \union toClient \subseteq IF waiting THEN {sent} ELSE {}
             /\ toServer \intersect toClient = {}
  BY <1>1 DEF OneUnderWay
<1>2. CASE Send
  <2>1. /\ UNCHANGED <<late, failures, toClient, mixed>> /\ ~waiting /\ waiting' = TRUE
        /\ sent' = sent + 1 /\ toServer' = toServer \union {sent + 1}
    BY <1>2 DEF Send
  <2>2. ~mixed /\ toServer = {} /\ toClient = {}
    BY <1>1, <2>1
  <2>. QED
    BY <2>1, <2>2
<1>3. CASE Receive
  <2>1. /\ UNCHANGED <<late, failures, toServer>> /\ waiting /\ waiting' = FALSE
    BY <1>3 DEF Receive
  <2>2. ~mixed /\ toServer \union toClient \subseteq {sent} /\ toServer \intersect toClient = {}
    BY <1>1, <2>1
  <2>3. PICK i \in toClient : toClient' = toClient \ {i} /\ (mixed' = mixed \/ mixed' = (mixed \/ i # sent))
    BY <1>3 DEF Receive
  <2>4. i = sent /\ toClient' = {}
    BY <2>2, <2>3
  <2>5. toServer' = {}
    BY <2>1, <2>2, <2>4
  <2>6. ~mixed'
    BY <2>2, <2>3, <2>4
  <2>. QED
    BY <2>4, <2>5, <2>6
<1>4. CASE Timeout
  <2>1. /\ UNCHANGED <<failures, toServer, toClient, mixed>>
        /\ \/ toServer \union toClient = {} /\ UNCHANGED late
           \/ late' = late + 1
    BY <1>4 DEF Timeout, network
  <2>2. UNCHANGED late /\ toServer \union toClient = {}
    BY <1>0, <2>1
  <2>3. ~mixed
    BY <1>1, <2>1, <2>2
  <2>. QED
    BY <2>1, <2>2, <2>3
<1>5. CASE Failure
  <2>1. failures' = failures + 1 /\ UNCHANGED late
    BY <1>5 DEF Failure
  <2>. QED
    BY <1>0, <2>1
<1>6. CASE Report \/ UNCHANGED udpVars
  <2>1. UNCHANGED <<late, failures, toServer, toClient, mixed, waiting, sent>>
    BY <1>6 DEF Report, network, udpVars
  <2>. QED
    BY <1>1, <2>1
<1>7. CASE ServerLoop \/ LoseAck
  <2>1. /\ UNCHANGED <<late, failures, mixed, waiting, sent>>
        /\ toServer' \union toClient' \subseteq toServer \union toClient
        /\ toServer \intersect toClient = {} => toServer' \intersect toClient' = {}
    BY <1>7 DEF ServerLoop, LoseAck
  <2>. QED
    BY <1>1, <2>1
<1>. QED
  BY <1>2, <1>3, <1>4, <1>5, <1>6, <1>7 DEF UdpNext, UdpClient, UdpDone

\* A reading is of another round's packet only after the client has stopped waiting for one
\* that was under way.
THEOREM ReadingsAreOfTheirRound == UdpSpec => []MixupNeedsLateness
<1>1. UdpInit => UdpInv /\ OneUnderWay
  BY DEF UdpInit, UdpInv, OneUnderWay
<1>2. UdpInv /\ OneUnderWay => MixupNeedsLateness
  <2>. SUFFICES ASSUME UdpInv, OneUnderWay, mixed PROVE late + failures > 0
    BY DEF MixupNeedsLateness
  <2>. QED
    BY DEF UdpInv, OneUnderWay
<1>. QED
  BY <1>1, <1>2, UdpStep, UnderWayStep, PTL DEF UdpSpec

----
(***************************************************************************)
(* The asynchronous server                                                 *)
(***************************************************************************)
AsyncTypes ==
    /\ up \in BOOLEAN
    /\ status_ \in [CallDatas -> {"free", "PROCESS", "FINISH"}]
    /\ outstanding \in [CallDatas -> {"none", "request", "finish"}]
    /\ cq \in Seq([tag : CallDatas, ok : BOOLEAN])
    /\ caller \in [CallDatas -> Callers]
    /\ status \in [Callers -> {"idle", "calling", "serving", "OK", "UNAVAILABLE", "dead"}]

\* The CallDatas that have a caller.
Matched == {k \in Allocated : outstanding[k] # "request"}

\* An event is of a CallData that waits for it and for nothing else.
EventsAreOfCallDatas ==
    /\ \A i \in 1 .. Len(cq) : status_[cq[i].tag] # "free" /\ outstanding[cq[i].tag] = "none"
    /\ \A i, j \in 1 .. Len(cq) : cq[i].tag = cq[j].tag => i = j
    /\ \A k \in Allocated : outstanding[k] = "none" => \E i \in 1 .. Len(cq) : cq[i].tag = k

\* What gRPC has to do for a CallData is what its state says.
OperationsFitStates ==
    \A k \in CallDatas :
      /\ outstanding[k] = "request" => status_[k] = "PROCESS"
      /\ outstanding[k] = "finish" => status_[k] = "FINISH"

OneForTheNextCall == \E k \in CallDatas : \A n \in CallDatas : status_[n] = "PROCESS" <=> n = k

\* A CallData serves a call of its own, so there are no more of them than callers.
CallersAreServedOnce ==
    /\ \A k \in Matched : status[caller[k]] \notin {"idle", "calling"}
    /\ \A k, n \in Matched : caller[k] = caller[n] => k = n

AsyncInv ==
    /\ AsyncTypes
    /\ up => /\ EventsAreOfCallDatas
             /\ OperationsFitStates
             /\ OneForTheNextCall
             /\ CallersAreServedOnce

\* The first of a queue, the rest of it, and what it is when one has joined.
LEMMA QueueFacts ==
  ASSUME NEW S, NEW s \in Seq(S)
  PROVE  /\ \A e \in S : /\ Append(s, e) \in Seq(S)
                        /\ Len(Append(s, e)) = Len(s) + 1
                        /\ \A i \in 1 .. Len(s) : Append(s, e)[i] = s[i]
                        /\ Append(s, e)[Len(s) + 1] = e
         /\ s # <<>> => /\ 1 \in 1 .. Len(s) /\ Head(s) = s[1] /\ s[1] \in S
                        /\ Tail(s) \in Seq(S) /\ Len(Tail(s)) = Len(s) - 1
                        /\ \A i \in 1 .. Len(Tail(s)) : Tail(s)[i] = s[i + 1]
         /\ Len(s) \in Nat /\ \A i \in 1 .. Len(s) : s[i] \in S
<1>1. Len(s) \in Nat /\ \A i \in 1 .. Len(s) : s[i] \in S
  OBVIOUS
<1>2. ASSUME NEW e \in S
      PROVE  /\ Append(s, e) \in Seq(S)
             /\ Len(Append(s, e)) = Len(s) + 1
             /\ \A i \in 1 .. Len(s) : Append(s, e)[i] = s[i]
             /\ Append(s, e)[Len(s) + 1] = e
  OBVIOUS
<1>3. ASSUME s # <<>>
      PROVE  /\ 1 \in 1 .. Len(s) /\ Head(s) = s[1] /\ s[1] \in S
             /\ Tail(s) \in Seq(S) /\ Len(Tail(s)) = Len(s) - 1
             /\ \A i \in 1 .. Len(Tail(s)) : Tail(s)[i] = s[i + 1]
  BY <1>1, <1>3
<1>. QED
  BY <1>1, <1>2, <1>3

\* As Proceed makes a CallData for the next call, there is room for it: each of the others
\* serves a caller of its own, and there are fewer callers than CallDatas.
LEMMA RoomForTheNext ==
  ASSUME AsyncInv, up, cq # <<>>, status_[Head(cq).tag] = "PROCESS"
  PROVE  FreeCallData \in CallDatas /\ status_[FreeCallData] = "free"
<1>. DEFINE k == cq[1].tag
<1>1. k \in CallDatas /\ status_[k] = "PROCESS" /\ outstanding[k] = "none"
  <2>1. cq \in Seq([tag : CallDatas, ok : BOOLEAN]) /\ EventsAreOfCallDatas
    BY DEF AsyncInv, AsyncTypes
  <2>2. 1 \in 1 .. Len(cq) /\ Head(cq) = cq[1] /\ cq[1] \in [tag : CallDatas, ok : BOOLEAN]
    BY <2>1, QueueFacts
  <2>. QED
    BY <2>1, <2>2 DEF EventsAreOfCallDatas
<1>2. ASSUME \A n \in CallDatas : status_[n] # "free" PROVE FALSE
  <2>1. \A n \in CallDatas : n \in Matched
    BY <1>1, <1>2 DEF AsyncInv, AsyncTypes, OperationsFitStates, OneForTheNextCall, Matched, Allocated
  <2>2. caller \in [CallDatas -> Callers] /\ \A m, n \in CallDatas : caller[m] = caller[n] => m = n
    BY <2>1 DEF AsyncInv, AsyncTypes, CallersAreServedOnce
  <2>. QED
    BY <2>2, FS_PigeonHole, AsyncAssumption
<1>. QED
  BY <1>2 DEF FreeCallData

\* An event joins the queue: the others stay where they are.
LEMMA EventJoins ==
  ASSUME AsyncTypes, EventsAreOfCallDatas,
         NEW k \in Allocated, outstanding[k] # "none", NEW ok \in BOOLEAN,
         cq' = Append(cq, [tag |-> k, ok |-> ok]),
         outstanding' = [outstanding EXCEPT ![k] = "none"], UNCHANGED status_
  PROVE  EventsAreOfCallDatas' /\ cq' \in Seq([tag : CallDatas, ok : BOOLEAN])
<1>. DEFINE e == [tag |-> k, ok |-> ok]
<1>1. /\ cq \in Seq([tag : CallDatas, ok : BOOLEAN]) /\ e \in [tag : CallDatas, ok : BOOLEAN]
      /\ k \in CallDatas /\ e.tag = k
  BY DEF AsyncTypes, Allocated
<1>. HIDE DEF e
<1>2. /\ cq' \in Seq([tag : CallDatas, ok : BOOLEAN])
      /\ Len(cq') = Len(cq) + 1 /\ Len(cq) \in Nat
      /\ \A i \in 1 .. Len(cq) : cq'[i] = cq[i] /\ cq[i].tag \in CallDatas
      /\ cq'[Len(cq) + 1].tag = k
  <2>1. cq' = Append(cq, e)
    BY DEF e
  <2>. QED
    <3>. HIDE DEF e
    <3>. DEFINE Event == [tag : CallDatas, ok : BOOLEAN]
    <3>1. cq \in Seq(Event) /\ e \in Event
      BY <1>1
    <3>2. \A i \in 1 .. Len(cq) : cq[i] \in Event => cq[i].tag \in CallDatas
      OBVIOUS
    <3>. HIDE DEF Event
    <3>3. Append(cq, e) \in Seq(Event) /\ Len(Append(cq, e)) = Len(cq) + 1
      BY <3>1, QueueFacts
    <3>4. (\A i \in 1 .. Len(cq) : Append(cq, e)[i] = cq[i]) /\ Append(cq, e)[Len(cq) + 1] = e
      BY <3>1, QueueFacts
    <3>5. Len(cq) \in Nat /\ \A i \in 1 .. Len(cq) : cq[i] \in Event
      BY <3>1, QueueFacts
    <3>6. cq' \in Seq([tag : CallDatas, ok : BOOLEAN])
      BY <2>1, <3>3 DEF Event
    <3>. QED
      BY <1>1, <2>1, <3>2, <3>3, <3>4, <3>5, <3>6
<1>3. \A i \in 1 .. Len(cq) : cq[i].tag # k
  BY <1>1 DEF EventsAreOfCallDatas
<1>4. \A i \in 1 .. Len(cq') : i \in 1 .. Len(cq) \/ i = Len(cq) + 1
  BY <1>2
<1>5. \A i \in 1 .. Len(cq) : i \in 1 .. Len(cq')
  BY <1>2
<1>6. Len(cq) + 1 \in 1 .. Len(cq')
  BY <1>2
<1>7. \A n \in CallDatas : outstanding'[n] = IF n = k THEN "none" ELSE outstanding[n]
  BY DEF AsyncTypes
<1>8. \A i \in 1 .. Len(cq') : status_'[cq'[i].tag] # "free" /\ outstanding'[cq'[i].tag] = "none"
  BY <1>1, <1>2, <1>4, <1>7 DEF EventsAreOfCallDatas, Allocated
<1>9. \A i, j \in 1 .. Len(cq') : cq'[i].tag = cq'[j].tag => i = j
  BY <1>2, <1>3, <1>4 DEF EventsAreOfCallDatas
<1>10. \A n \in Allocated' : outstanding'[n] = "none" => \E i \in 1 .. Len(cq') : cq'[i].tag = n
  BY <1>2, <1>5, <1>6, <1>7 DEF EventsAreOfCallDatas, Allocated
<1>. QED
  BY <1>2, <1>8, <1>9, <1>10 DEF EventsAreOfCallDatas

\* An event leaves the queue: nothing else of its CallData was in it.
LEMMA EventLeaves ==
  ASSUME AsyncTypes, EventsAreOfCallDatas, cq # <<>>, cq' = Tail(cq)
  PROVE  /\ cq' \in Seq([tag : CallDatas, ok : BOOLEAN])
         /\ Head(cq).tag \in CallDatas
         /\ status_[Head(cq).tag] # "free" /\ outstanding[Head(cq).tag] = "none"
         /\ \A i \in 1 .. Len(cq') :
              /\ cq'[i].tag \in CallDatas /\ cq'[i].tag # Head(cq).tag
              /\ status_[cq'[i].tag] # "free" /\ outstanding[cq'[i].tag] = "none"
         /\ \A i, j \in 1 .. Len(cq') : cq'[i].tag = cq'[j].tag => i = j
         /\ \A n \in Allocated : outstanding[n] = "none" /\ n # Head(cq).tag =>
              \E i \in 1 .. Len(cq') : cq'[i].tag = n
<1>1. cq \in Seq([tag : CallDatas, ok : BOOLEAN]) /\ Len(cq) \in Nat \ {0}
  BY DEF AsyncTypes
<1>2. /\ cq' \in Seq([tag : CallDatas, ok : BOOLEAN])
      /\ Head(cq) = cq[1] /\ Len(cq') = Len(cq) - 1
      /\ \A i \in 1 .. Len(cq') : cq'[i] = cq[i + 1]
  BY <1>1, QueueFacts
<1>3. \A i \in 1 .. Len(cq) : cq[i].tag \in CallDatas
  <2>1. \A i \in 1 .. Len(cq) : cq[i] \in [tag : CallDatas, ok : BOOLEAN]
    <3>. DEFINE Event == [tag : CallDatas, ok : BOOLEAN]
    <3>. SUFFICES \A i \in 1 .. Len(cq) : cq[i] \in Event
      OBVIOUS
    <3>1. cq \in Seq(Event)
      BY <1>1
    <3>. HIDE DEF Event
    <3>. QED
      BY <3>1
  <2>. QED
    BY <2>1
<1>4. 1 \in 1 .. Len(cq) /\ \A i \in 1 .. Len(cq') : i + 1 \in 1 .. Len(cq) /\ i + 1 # 1 /\ i \in Int
  BY <1>1, <1>2
<1>5. \A i \in 1 .. Len(cq) : i = 1 \/ \E j \in 1 .. Len(cq') : i = j + 1
  <2>. SUFFICES ASSUME NEW i \in 1 .. Len(cq), i # 1 PROVE \E j \in 1 .. Len(cq') : i = j + 1
    OBVIOUS
  <2>1. i - 1 \in 1 .. Len(cq') /\ i = (i - 1) + 1
    BY <1>1, <1>2
  <2>. QED
    BY <2>1
<1>6. \A i, j \in 1 .. Len(cq') : cq'[i].tag = cq'[j].tag => i = j
  <2>. SUFFICES ASSUME NEW i \in 1 .. Len(cq'), NEW j \in 1 .. Len(cq'), cq'[i].tag = cq'[j].tag
       PROVE i = j
    OBVIOUS
  <2>1. i + 1 = j + 1
    BY <1>2, <1>4 DEF EventsAreOfCallDatas
  <2>. QED
    BY <2>1, <1>4
<1>7. \A n \in Allocated : outstanding[n] = "none" /\ n # Head(cq).tag =>
        \E i \in 1 .. Len(cq') : cq'[i].tag = n
  <2>. SUFFICES ASSUME NEW n \in Allocated, outstanding[n] = "none", n # Head(cq).tag
                PROVE  \E i \in 1 .. Len(cq') : cq'[i].tag = n
    OBVIOUS
  <2>1. PICK i \in 1 .. Len(cq) : cq[i].tag = n
    BY DEF EventsAreOfCallDatas
  <2>2. i # 1
    BY <1>2, <2>1
  <2>3. PICK j \in 1 .. Len(cq') : i = j + 1
    BY <1>5, <2>2
  <2>. QED
    BY <1>2, <2>1, <2>3
<1>8. \A i \in 1 .. Len(cq') :
        /\ cq'[i].tag \in CallDatas /\ cq'[i].tag # Head(cq).tag
        /\ status_[cq'[i].tag] # "free" /\ outstanding[cq'[i].tag] = "none"
  BY <1>2, <1>3, <1>4 DEF EventsAreOfCallDatas
<1>. QED
  BY <1>2, <1>3, <1>4, <1>6, <1>7, <1>8 DEF EventsAreOfCallDatas

\* The server begins with one CallData, which waits for a call.
LEMMA AsyncBegins == AsyncInit => AsyncInv
<1>. SUFFICES ASSUME AsyncInit PROVE AsyncInv
  OBVIOUS
<1>. DEFINE k == CHOOSE k \in CallDatas : TRUE
<1>1. CallDatas # {}
  BY AsyncAssumption, FS_EmptySet, FS_CardinalityType
<1>2. k \in CallDatas
  BY <1>1
<1>3. (CHOOSE c \in Callers : TRUE) \in Callers
  BY AsyncAssumption
<1>. HIDE DEF k
<1>4. /\ up = TRUE /\ cq = <<>> /\ status = [c \in Callers |-> "idle"]
      /\ status_ = [n \in CallDatas |-> IF n = k THEN "PROCESS" ELSE "free"]
      /\ outstanding = [n \in CallDatas |-> IF n = k THEN "request" ELSE "none"]
      /\ caller = [n \in CallDatas |-> CHOOSE c \in Callers : TRUE]
  BY DEF AsyncInit, k
<1>5. AsyncTypes
  BY <1>2, <1>3, <1>4 DEF AsyncTypes
<1>6. Matched = {} /\ Allocated = {k} /\ Len(cq) = 0
  BY <1>2, <1>4 DEF Matched, Allocated
<1>7. EventsAreOfCallDatas /\ CallersAreServedOnce
  BY <1>2, <1>4, <1>6 DEF EventsAreOfCallDatas, CallersAreServedOnce
<1>8. OperationsFitStates /\ OneForTheNextCall
  BY <1>2, <1>4 DEF OperationsFitStates, OneForTheNextCall
<1>. QED
  BY <1>5, <1>7, <1>8 DEF AsyncInv

\* Every step keeps it.
LEMMA AsyncStep == AsyncInv /\ [AsyncNext]_asyncVars => AsyncInv'
<1>. SUFFICES ASSUME AsyncInv, [AsyncNext]_asyncVars PROVE AsyncInv'
  OBVIOUS
<1>0. AsyncTypes
  BY DEF AsyncInv
<1>1. ASSUME NEW c \in Callers, NEW d, StartCall(c, d) PROVE AsyncInv'
  <2>1. /\ status' = [status EXCEPT ![c] = IF up THEN "calling" ELSE "UNAVAILABLE"]
        /\ status[c] = "idle"
        /\ UNCHANGED <<up, status_, outstanding, cq, caller>>
    BY <1>1 DEF StartCall
  <2>2. AsyncTypes'
    BY <1>0, <2>1 DEF AsyncTypes
  <2>3. up => (EventsAreOfCallDatas /\ OperationsFitStates /\ OneForTheNextCall)'
    BY <2>1 DEF AsyncInv, EventsAreOfCallDatas, OperationsFitStates, OneForTheNextCall, Allocated
  <2>4. up => CallersAreServedOnce'
    <3>1. Matched' = Matched
      BY <2>1 DEF Matched, Allocated
    <3>. QED
      BY <1>0, <2>1, <3>1 DEF AsyncInv, AsyncTypes, CallersAreServedOnce
  <2>. QED
    BY <2>1, <2>2, <2>3, <2>4 DEF AsyncInv
<1>2. ASSUME NEW c \in Callers, CallerDies(c) PROVE AsyncInv'
  <2>1. /\ status' = [status EXCEPT ![c] = "dead"]
        /\ UNCHANGED <<up, status_, outstanding, cq, caller>>
    BY <1>2 DEF CallerDies
  <2>2. AsyncTypes'
    BY <1>0, <2>1 DEF AsyncTypes
  <2>3. up => (EventsAreOfCallDatas /\ OperationsFitStates /\ OneForTheNextCall)'
    BY <2>1 DEF AsyncInv, EventsAreOfCallDatas, OperationsFitStates, OneForTheNextCall, Allocated
  <2>4. up => CallersAreServedOnce'
    <3>1. Matched' = Matched
      BY <2>1 DEF Matched, Allocated
    <3>. QED
      BY <1>0, <2>1, <3>1 DEF AsyncInv, AsyncTypes, CallersAreServedOnce
  <2>. QED
    BY <2>1, <2>2, <2>3, <2>4 DEF AsyncInv
<1>3. ASSUME NEW k \in CallDatas, NEW c \in Callers, Match(k, c) PROVE AsyncInv'
  <2>1. /\ up /\ outstanding[k] = "request" /\ status[c] = "calling"
        /\ status' = [status EXCEPT ![c] = "serving"]
        /\ outstanding' = [outstanding EXCEPT ![k] = "none"]
        /\ caller' = [caller EXCEPT ![k] = c]
        /\ cq' = Append(cq, [tag |-> k, ok |-> TRUE])
        /\ UNCHANGED <<up, status_>>
    BY <1>3 DEF Match
  <2>2. k \in Allocated /\ status_[k] = "PROCESS"
    BY <2>1, <1>0 DEF AsyncInv, OperationsFitStates, Allocated, AsyncTypes
  <2>3. EventsAreOfCallDatas' /\ cq' \in Seq([tag : CallDatas, ok : BOOLEAN])
    BY <1>0, <2>1, <2>2, EventJoins DEF AsyncInv
  <2>4. AsyncTypes'
    BY <1>0, <2>1, <2>3 DEF AsyncTypes
  <2>5. OperationsFitStates' /\ OneForTheNextCall'
    BY <1>0, <2>1 DEF AsyncInv, AsyncTypes, OperationsFitStates, OneForTheNextCall
  <2>6. CallersAreServedOnce'
    <3>1. \A n \in Matched : caller[n] # c /\ n # k
      BY <2>1 DEF AsyncInv, CallersAreServedOnce, Matched
    <3>2. \A n \in Matched' : n = k \/ n \in Matched
      BY <1>0, <2>1 DEF Matched, Allocated, AsyncTypes
    <3>3. \A n \in Matched' : caller'[n] = IF n = k THEN c ELSE caller[n]
      BY <1>0, <2>1 DEF AsyncTypes, Matched, Allocated
    <3>4. \A n \in Matched : caller[n] \in Callers
      BY <1>0 DEF AsyncTypes, Matched, Allocated
    <3>5. \A b \in Callers : status'[b] = IF b = c THEN "serving" ELSE status[b]
      BY <1>0, <2>1 DEF AsyncTypes
    <3>. QED
      BY <2>1, <3>1, <3>2, <3>3, <3>4, <3>5 DEF AsyncInv, CallersAreServedOnce
  <2>. QED
    BY <2>1, <2>3, <2>4, <2>5, <2>6 DEF AsyncInv
<1>4. ASSUME NEW k \in CallDatas, FinishDone(k) PROVE AsyncInv'
  <2>1. /\ up /\ outstanding[k] = "finish"
        /\ outstanding' = [outstanding EXCEPT ![k] = "none"]
        /\ status' = [status EXCEPT ![caller[k]] = IF status[caller[k]] = "dead" THEN "dead" ELSE "OK"]
        /\ UNCHANGED <<up, status_, caller>>
    BY <1>4 DEF FinishDone
  <2>2. PICK ok \in BOOLEAN : cq' = Append(cq, [tag |-> k, ok |-> ok])
    BY <1>4 DEF FinishDone
  <2>3. k \in Allocated /\ status_[k] = "FINISH" /\ k \in Matched
    BY <2>1, <1>0 DEF AsyncInv, OperationsFitStates, Allocated, AsyncTypes, Matched
  <2>4. EventsAreOfCallDatas' /\ cq' \in Seq([tag : CallDatas, ok : BOOLEAN])
    BY <1>0, <2>1, <2>2, <2>3, EventJoins DEF AsyncInv
  <2>5. AsyncTypes'
    BY <1>0, <2>1, <2>4 DEF AsyncTypes
  <2>6. OperationsFitStates' /\ OneForTheNextCall'
    BY <1>0, <2>1 DEF AsyncInv, AsyncTypes, OperationsFitStates, OneForTheNextCall
  <2>7. CallersAreServedOnce'
    <3>1. Matched' = Matched
      BY <1>0, <2>1, <2>3 DEF Matched, Allocated, AsyncTypes
    <3>2. \A b \in Callers : status'[b] = status[b] \/ status'[b] \in {"dead", "OK"}
      BY <1>0, <2>1 DEF AsyncTypes
    <3>3. \A n \in Matched : caller[n] \in Callers
      BY <1>0 DEF AsyncTypes, Matched, Allocated
    <3>. QED
      BY <2>1, <3>1, <3>2, <3>3 DEF AsyncInv, CallersAreServedOnce
  <2>. QED
    BY <2>1, <2>4, <2>5, <2>6, <2>7 DEF AsyncInv
<1>5. CASE ServeMakeDir
  <2>. DEFINE k == Head(cq).tag
              n == FreeCallData
  <2>1. /\ up /\ cq # <<>> /\ status_[k] = "PROCESS" /\ cq' = Tail(cq)
        /\ status_' = [status_ EXCEPT ![k] = "FINISH", ![n] = "PROCESS"]
        /\ outstanding' = [outstanding EXCEPT ![k] = "finish", ![n] = "request"]
        /\ UNCHANGED <<up, caller, status>>
    BY <1>5 DEF ServeMakeDir, NextEvent
  <2>2. n \in CallDatas /\ status_[n] = "free"
    BY <2>1, RoomForTheNext
  <2>. HIDE DEF n
  <2>3. /\ cq' \in Seq([tag : CallDatas, ok : BOOLEAN])
        /\ k \in CallDatas /\ outstanding[k] = "none"
        /\ \A i \in 1 .. Len(cq') :
             /\ cq'[i].tag \in CallDatas /\ cq'[i].tag # k
             /\ status_[cq'[i].tag] # "free" /\ outstanding[cq'[i].tag] = "none"
        /\ \A i, j \in 1 .. Len(cq') : cq'[i].tag = cq'[j].tag => i = j
        /\ \A m \in Allocated : outstanding[m] = "none" /\ m # k => \E i \in 1 .. Len(cq') : cq'[i].tag = m
    BY <1>0, <2>1, EventLeaves DEF AsyncInv
  <2>. HIDE DEF k
  <2>4. k # n
    BY <2>1, <2>2
  <2>5. \A m \in CallDatas :
          /\ status_'[m] = IF m = k THEN "FINISH" ELSE IF m = n THEN "PROCESS" ELSE status_[m]
          /\ outstanding'[m] = IF m = k THEN "finish" ELSE IF m = n THEN "request" ELSE outstanding[m]
    BY <1>0, <2>1, <2>2, <2>3, <2>4 DEF AsyncTypes
  <2>6. AsyncTypes'
    BY <1>0, <2>1, <2>2, <2>3 DEF AsyncTypes
  <2>7. EventsAreOfCallDatas'
    <3>1. \A i \in 1 .. Len(cq') : status_'[cq'[i].tag] # "free" /\ outstanding'[cq'[i].tag] = "none"
      BY <2>2, <2>3, <2>5
    <3>2. \A m \in Allocated' : outstanding'[m] = "none" => \E i \in 1 .. Len(cq') : cq'[i].tag = m
      BY <2>3, <2>5 DEF Allocated
    <3>. QED
      BY <2>3, <3>1, <3>2 DEF EventsAreOfCallDatas
  <2>8. OperationsFitStates' /\ OneForTheNextCall'
    <3>1. OperationsFitStates'
      <4>1. OperationsFitStates
        BY <2>1 DEF AsyncInv
      <4>. QED
        BY <2>5, <4>1 DEF OperationsFitStates
    <3>2. \A m \in CallDatas : status_[m] = "PROCESS" <=> m = k
      BY <2>1, <2>3 DEF AsyncInv, OneForTheNextCall
    <3>3. \A m \in CallDatas : status_'[m] = "PROCESS" <=> m = n
      BY <2>2, <2>4, <2>5, <3>2
    <3>. QED
      BY <2>2, <3>1, <3>3 DEF OneForTheNextCall
  <2>9. CallersAreServedOnce'
    <3>1. \A m \in Matched' : m \in Matched
      BY <2>1, <2>3, <2>5 DEF Matched, Allocated
    <3>. QED
      BY <2>1, <3>1 DEF AsyncInv, CallersAreServedOnce
  <2>. QED
    BY <2>1, <2>6, <2>7, <2>8, <2>9 DEF AsyncInv
<1>6. CASE Delete
  <2>. DEFINE k == Head(cq).tag
  <2>1. /\ up /\ cq # <<>> /\ status_[k] = "FINISH" /\ cq' = Tail(cq)
        /\ status_' = [status_ EXCEPT ![k] = "free"]
        /\ UNCHANGED <<up, outstanding, caller, status>>
    BY <1>6 DEF Delete, NextEvent
  <2>3. /\ cq' \in Seq([tag : CallDatas, ok : BOOLEAN])
        /\ k \in CallDatas /\ outstanding[k] = "none"
        /\ \A i \in 1 .. Len(cq') :
             /\ cq'[i].tag \in CallDatas /\ cq'[i].tag # k
             /\ status_[cq'[i].tag] # "free" /\ outstanding[cq'[i].tag] = "none"
        /\ \A i, j \in 1 .. Len(cq') : cq'[i].tag = cq'[j].tag => i = j
        /\ \A m \in Allocated : outstanding[m] = "none" /\ m # k => \E i \in 1 .. Len(cq') : cq'[i].tag = m
    BY <1>0, <2>1, EventLeaves DEF AsyncInv
  <2>. HIDE DEF k
  <2>4. \A m \in CallDatas : status_'[m] = IF m = k THEN "free" ELSE status_[m]
    BY <1>0, <2>1 DEF AsyncTypes
  <2>5. AsyncTypes'
    BY <1>0, <2>1, <2>3 DEF AsyncTypes
  <2>6. EventsAreOfCallDatas'
    <3>1. \A i \in 1 .. Len(cq') : status_'[cq'[i].tag] # "free" /\ outstanding'[cq'[i].tag] = "none"
      <4>1. outstanding' = outstanding
        BY <2>1
      <4>. QED
        BY <2>3, <2>4, <4>1
    <3>2. \A m \in Allocated' : outstanding'[m] = "none" => \E i \in 1 .. Len(cq') : cq'[i].tag = m
      BY <2>1, <2>3, <2>4 DEF Allocated
    <3>. QED
      BY <2>3, <3>1, <3>2 DEF EventsAreOfCallDatas
  <2>7. OperationsFitStates' /\ OneForTheNextCall'
    BY <2>1, <2>3, <2>4 DEF AsyncInv, OperationsFitStates, OneForTheNextCall
  <2>8. CallersAreServedOnce'
    <3>1. \A m \in Matched' : m \in Matched
      BY <2>1, <2>4 DEF Matched, Allocated
    <3>. QED
      BY <2>1, <3>1 DEF AsyncInv, CallersAreServedOnce
  <2>. QED
    BY <2>1, <2>5, <2>6, <2>7, <2>8 DEF AsyncInv
<1>7. CASE Abort
  <2>1. /\ up' = FALSE /\ cq' = <<>> /\ UNCHANGED caller
        /\ status_' = [k \in CallDatas |-> "free"]
        /\ outstanding' = [k \in CallDatas |-> "none"]
        /\ status' = [c \in Callers |-> IF status[c] \in {"calling", "serving"} THEN "UNAVAILABLE"
                                                                            ELSE status[c]]
    BY <1>7 DEF Abort
  <2>2. cq' \in Seq([tag : CallDatas, ok : BOOLEAN])
    BY <2>1
  <2>3. AsyncTypes'
    BY <1>0, <2>1, <2>2 DEF AsyncTypes
  <2>. QED
    BY <2>1, <2>3 DEF AsyncInv
<1>8. CASE AsyncIdle \/ UNCHANGED asyncVars
  <2>1. UNCHANGED asyncVars
    BY <1>8 DEF AsyncIdle
  <2>. QED
    BY <2>1 DEF asyncVars, AsyncInv, AsyncTypes, EventsAreOfCallDatas, OperationsFitStates,
                OneForTheNextCall, CallersAreServedOnce, Matched, Allocated
<1>. QED
  BY <1>1, <1>2, <1>3, <1>4, <1>5, <1>6, <1>7, <1>8 DEF AsyncNext, HandleRpcs, Runtime

\* Until the server aborts, no CallData is deleted while gRPC or the queue refers to it, none
\* is forgotten, and exactly one is there for the next call.
THEOREM CallDatasAreAccountedFor == AsyncSpec => []OneThingToCome
<1>1. AsyncInv => OneThingToCome
  <2>. SUFFICES ASSUME AsyncInv, up
       PROVE /\ \A k \in CallDatas :
                  Cardinality(Queued(k)) + (IF outstanding[k] = "none" THEN 0 ELSE 1)
                    = IF k \in Allocated THEN 1 ELSE 0
             /\ Cardinality({k \in Allocated : status_[k] = "PROCESS"}) = 1
    BY DEF OneThingToCome
  <2>1. DOMAIN cq = 1 .. Len(cq)
    BY DEF AsyncInv, AsyncTypes
  <2>2. ASSUME NEW k \in CallDatas
        PROVE  Cardinality(Queued(k)) + (IF outstanding[k] = "none" THEN 0 ELSE 1)
                 = IF k \in Allocated THEN 1 ELSE 0
    <3>1. CASE k \in Allocated /\ outstanding[k] = "none"
      <4>1. PICK i \in 1 .. Len(cq) : cq[i].tag = k
        BY <3>1 DEF AsyncInv, EventsAreOfCallDatas
      <4>2. Queued(k) = {i}
        BY <2>1, <4>1 DEF AsyncInv, EventsAreOfCallDatas, Queued
      <4>3. Cardinality(Queued(k)) = 1
        BY <4>2, FS_Singleton
      <4>. QED
        BY <3>1, <4>3
    <3>2. CASE ~(k \in Allocated /\ outstanding[k] = "none")
      <4>1. Queued(k) = {}
        BY <2>1, <3>2 DEF AsyncInv, EventsAreOfCallDatas, Queued, Allocated
      <4>2. Cardinality(Queued(k)) = 0
        BY <4>1, FS_EmptySet
      <4>3. outstanding[k] = "none" <=> k \notin Allocated
        BY <3>2 DEF AsyncInv, AsyncTypes, OperationsFitStates, Allocated
      <4>. QED
        BY <4>2, <4>3
    <3>. QED
      BY <3>1, <3>2
  <2>3. Cardinality({k \in Allocated : status_[k] = "PROCESS"}) = 1
    <3>1. PICK k \in CallDatas : \A n \in CallDatas : status_[n] = "PROCESS" <=> n = k
      BY DEF AsyncInv, OneForTheNextCall
    <3>2. {n \in Allocated : status_[n] = "PROCESS"} = {k}
      BY <3>1 DEF Allocated
    <3>. QED
      BY <3>2, FS_Singleton
  <2>. QED
    BY <2>2, <2>3
<1>. QED
  BY <1>1, AsyncBegins, AsyncStep, PTL DEF AsyncSpec
----
(***************************************************************************)
(* The chunks of a stream                                                  *)
(***************************************************************************)
\* Division with remainder.
LEMMA DivMod ==
    ASSUME NEW a \in Int, NEW b \in Nat \ {0}
    PROVE  /\ a \div b \in Int /\ a % b \in 0 .. b - 1
           /\ a = (a \div b) * b + (a % b)
           /\ a >= 0 => a \div b >= 0
<1>. DEFINE q == a \div b
            r == a % b
<1>1. q \in Int /\ r \in 0 .. b - 1
  OBVIOUS
<1>2. a = q * b + r
  <2>. HIDE DEF q, r
  <2>1. ASSUME NEW x \in Int, x = a \div b, NEW y \in Int, y = a % b PROVE a = b * x + y
    BY <2>1
  <2>. QED
    BY <1>1, <2>1 DEF q, r
<1>3. a >= 0 => q >= 0
  BY <1>1, <1>2
<1>. QED
  BY <1>1, <1>2, <1>3

LEMMA Quotient ==
    ASSUME NEW q \in Int, NEW b \in Nat \ {0}, NEW r \in 0 .. b - 1
    PROVE  (q * b + r) \div b = q
OBVIOUS

\* The order of products is that of the factors.
LEMMA Products ==
    ASSUME NEW a \in Int, NEW b \in Int, NEW c \in Nat \ {0}
    PROVE  /\ a * c \in Int
           /\ (a + 1) * c = a * c + c
           /\ a < b <=> a * c < b * c
           /\ a = b <=> a * c = b * c
OBVIOUS

LEMMA IntLimitIsNat == IntLimit \in Nat \ {0} /\ ChunkSize \in Nat \ {0} /\ StreamIterations \in Nat \ {0}
  /\ ChunkSize < IntLimit /\ Heap \in Nat /\ Heap * ChunkSize > IntLimit + ChunkSize
<1>1. IntWidth - 1 \in Nat
  BY ChunkAssumption
<1>2. IntLimit \in Int
  BY <1>1 DEF IntLimit
<1>. QED
  BY <1>2, ChunkAssumption

\* What there is of the bytes ToInt(n) before chunk k.
Before(n, k) == IF k = TotalChunks(n) THEN ToInt(n) ELSE k * ChunkSize

LEMMA ToIntFacts ==
    ASSUME NEW n \in Nat
    PROVE  /\ ToInt(n) \in Int /\ ToInt(n) < IntLimit
           /\ n < IntLimit => ToInt(n) = n
           /\ n >= IntLimit => ToInt(n) < n
<1>. DEFINE m == (n + IntLimit) % (2 * IntLimit)
<1>. USE IntLimitIsNat
<1>1. m \in 0 .. 2 * IntLimit - 1
  BY DivMod
<1>2. n < IntLimit => m = n + IntLimit
  <2>. SUFFICES ASSUME n < IntLimit PROVE m = n + IntLimit
    OBVIOUS
  <2>1. n + IntLimit \in 0 .. 2 * IntLimit - 1
    OBVIOUS
  <2>. QED
    BY <2>1
<1>. QED
  BY <1>1, <1>2 DEF ToInt

\* The arithmetic of the chunks: of a size that is not negative as an int, and of the rest.
LEMMA WholeChunks ==
    ASSUME NEW n \in Nat, ToInt(n) >= 0
    PROVE  /\ TotalChunks(n) \in Nat
           /\ Before(n, 0) = 0
           /\ TotalChunks(n) = (ToInt(n) + ChunkSize - 1) \div ChunkSize
           /\ TotalChunks(n) * ChunkSize < ToInt(n) + ChunkSize
           /\ \A k \in Nat : k < TotalChunks(n) =>
                /\ CurrentChunkSize(n, k) \in Nat
                /\ Before(n, k) \in Nat
                /\ Before(n, k + 1) = Before(n, k) + CurrentChunkSize(n, k)
                /\ Before(n, k + 1) <= ToInt(n)
<1>. DEFINE v == ToInt(n)
            C == ChunkSize
            q == v \div C
            r == v % C
            t == TotalChunks(n)
<1>1. v \in Nat /\ C \in Nat \ {0}
  BY ToIntFacts, IntLimitIsNat
<1>. HIDE DEF v, C
<1>2. q \in Nat /\ r \in 0 .. C - 1 /\ v = q * C + r
  <2>1. v \in Int /\ v >= 0
    BY <1>1
  <2>2. q \in Int /\ r \in 0 .. C - 1 /\ v = q * C + r /\ q >= 0
    BY <1>1, <2>1, DivMod, Zenon
  <2>. QED
    BY <2>2
<1>3. Quot(v, C) = q /\ Rem(v, C) = r
  <2>1. Quot(v, C) = q
    BY <1>1 DEF Quot
  <2>2. C * q = q * C
    BY <1>1, <1>2
  <2>. QED
    BY <2>1, <2>2, <1>1, <1>2 DEF Rem
<1>4. t = q + (IF r = 0 THEN 0 ELSE 1)
  BY <1>3 DEF TotalChunks, v, C
<1>5. \A k : CurrentChunkSize(n, k) = IF k = t - 1 /\ r # 0 THEN r ELSE C
  BY <1>3 DEF CurrentChunkSize, v, C
<1>6. \A k : Before(n, k) = IF k = t THEN v ELSE k * C
  BY DEF Before, v, C
<1>. HIDE DEF q, r, t
<1>7. t \in Nat
  BY <1>2, <1>4
<1>8. (q + 1) * C = q * C + C /\ q * C \in Nat /\ (q - 1) * C = q * C - C
  BY <1>1, <1>2, Products
<1>9. t * C < v + C
  BY <1>1, <1>2, <1>4, <1>8
<1>10. t = (v + C - 1) \div C
  <2>1. v + C - 1 = q * C + (r + C - 1)
    BY <1>1, <1>2
  <2>2. CASE r = 0
    <3>1. v + C - 1 = q * C + (C - 1)
      BY <2>1, <2>2, <1>1, <1>2
    <3>. QED
      BY <3>1, <2>2, <1>1, <1>2, <1>4
  <2>3. CASE r # 0
    <3>1. v + C - 1 = (q + 1) * C + (r - 1) /\ r - 1 \in 0 .. C - 1 /\ q + 1 \in Int
      BY <2>1, <2>3, <1>1, <1>2, <1>8
    <3>2. ((q + 1) * C + (r - 1)) \div C = q + 1
      BY <3>1, <1>1, Quotient
    <3>. QED
      BY <3>1, <3>2, <2>3, <1>4
  <2>. QED
    BY <2>2, <2>3
<1>11. ASSUME NEW k \in Nat, k < t
       PROVE  /\ CurrentChunkSize(n, k) \in Nat
              /\ Before(n, k) \in Nat
              /\ Before(n, k + 1) = Before(n, k) + CurrentChunkSize(n, k)
              /\ Before(n, k + 1) <= v
  <2>1. CurrentChunkSize(n, k) = (IF k = t - 1 /\ r # 0 THEN r ELSE C)
    BY <1>5
  <2>2. Before(n, k) = k * C /\ k * C \in Nat /\ (k + 1) * C = k * C + C
    BY <1>1, <1>6, <1>7, <1>11, Products
  <2>3. CASE k = t - 1 /\ r # 0
    <3>1. k = q /\ Before(n, k + 1) = v
      BY <2>3, <1>2, <1>4, <1>6, <1>7
    <3>. QED
      BY <2>1, <2>2, <2>3, <3>1, <1>1, <1>2
  <2>4. CASE k = t - 1 /\ r = 0
    <3>1. k + 1 = q /\ Before(n, k + 1) = v
      BY <2>4, <1>2, <1>4, <1>6, <1>7
    <3>2. v = k * C + C
      BY <3>1, <2>2, <2>4, <1>1, <1>2
    <3>. QED
      BY <2>1, <2>2, <2>4, <3>1, <3>2, <1>1, <1>2
  <2>5. CASE k # t - 1
    <3>1. Before(n, k + 1) = (k + 1) * C /\ k + 1 <= q
      BY <2>5, <1>2, <1>4, <1>6, <1>7, <1>11
    <3>2. (k + 1) * C <= q * C
      BY <3>1, <1>1, <1>2, Products
    <3>. QED
      BY <2>1, <2>2, <2>5, <3>1, <3>2, <1>1, <1>2, <1>8
  <2>. QED
    BY <2>3, <2>4, <2>5
<1>12. Before(n, 0) = 0
  <2>1. CASE t = 0
    <3>1. q = 0 /\ r = 0
      BY <2>1, <1>2, <1>4
    <3>2. v = 0
      BY <3>1, <1>1, <1>2
    <3>. QED
      BY <2>1, <3>2, <1>6
  <2>2. CASE t # 0
    BY <2>2, <1>6, <1>1
  <2>. QED
    BY <2>1, <2>2
<1>. QED
  BY <1>7, <1>9, <1>10, <1>11, <1>12 DEF v, C, t

\* A size that is negative as an int leaves at most one chunk, of a negative size.
LEMMA NegativeChunks ==
    ASSUME NEW n \in Nat, ToInt(n) < 0
    PROVE  /\ TotalChunks(n) \in Int
           /\ TotalChunks(n) > 0 => TotalChunks(n) = 1 /\ CurrentChunkSize(n, 0) < 0
<1>. DEFINE v == ToInt(n)
            C == ChunkSize
            q == (-v) \div C
            r == (-v) % C
<1>1. v \in Int /\ v < 0 /\ C \in Nat \ {0}
  BY ToIntFacts, IntLimitIsNat
<1>. HIDE DEF v, C
<1>2. q \in Nat /\ r \in 0 .. C - 1 /\ -v = q * C + r
  <2>1. -v \in Int /\ -v >= 0
    BY <1>1
  <2>2. q \in Int /\ r \in 0 .. C - 1 /\ -v = q * C + r /\ q >= 0
    BY <1>1, <2>1, DivMod, Zenon
  <2>. QED
    BY <2>2
<1>3. Quot(v, C) = -q /\ Rem(v, C) = -r
  <2>1. Quot(v, C) = -q
    BY <1>1 DEF Quot
  <2>2. C * (-q) = -(q * C) /\ q * C \in Int
    BY <1>1, <1>2
  <2>3. Rem(v, C) = v - C * (-q)
    BY <2>1 DEF Rem
  <2>. QED
    BY <2>1, <2>2, <2>3, <1>1, <1>2
<1>4. TotalChunks(n) = (-q) + (IF r = 0 THEN 0 ELSE 1)
  BY <1>2, <1>3 DEF TotalChunks, v, C
<1>5. CurrentChunkSize(n, 0) = IF 0 = TotalChunks(n) - 1 /\ r # 0 THEN -r ELSE C
  BY <1>2, <1>3 DEF CurrentChunkSize, v, C
<1>. HIDE DEF q, r
<1>. QED
  BY <1>2, <1>4, <1>5

LEMMA ChunksAreInts ==
    ASSUME NEW n \in Nat, NEW k \in Nat
    PROVE  TotalChunks(n) \in Int /\ CurrentChunkSize(n, k) \in Int
<1>. DEFINE v == ToInt(n)
<1>1. v \in Int /\ ChunkSize \in Nat \ {0}
  BY ToIntFacts, IntLimitIsNat
<1>. HIDE DEF v
<1>2. v \div ChunkSize \in Int /\ (-v) \div ChunkSize \in Int
  BY <1>1
<1>3. Quot(v, ChunkSize) \in Int
  BY <1>2 DEF Quot
<1>4. Rem(v, ChunkSize) \in Int
  BY <1>1, <1>3 DEF Rem
<1>. QED
  BY <1>1, <1>3, <1>4 DEF TotalChunks, CurrentChunkSize, v

ChunkTypes ==
    /\ sender \in {"fetch", "close", "stream1", "stream2"}
    /\ size \in Nat /\ length \in Nat /\ chunk \in Nat /\ pos \in Int
    /\ bytes \in Nat /\ messages \in Nat /\ leaked \in Nat
    /\ progress \in {"sending", "sent", "bad_alloc"}

Undisturbed == ~broken /\ ~resized

\* The readers: each chunk has a buffer, none is sent past the last, and what was sent is what
\* there is before the next.
ReadersGoOn ==
    sender \in {"fetch", "close"} =>
      /\ leaked = chunk
      /\ ~resized => length = size
      /\ TotalChunks(size) >= 0 => chunk <= TotalChunks(size)
      /\ progress = "sent" /\ ~broken => TotalChunks(size) >= 0 /\ chunk = TotalChunks(size)
      /\ ToInt(size) >= 0 /\ Undisturbed =>
           bytes = Before(size, chunk) /\ pos = bytes /\ messages = chunk
      /\ ToInt(size) < 0 /\ TotalChunks(size) > 0 => chunk = 0 /\ progress # "sent"
      /\ ToInt(size) < 0 /\ TotalChunks(size) = 0 => bytes = 0
      /\ progress = "bad_alloc" => size >= IntLimit

\* The streams of P1 send a part in every round.
StreamsGoOn ==
    /\ sender = "stream1" =>
         /\ chunk <= size \div ChunkSize
         /\ progress = "sending" /\ ~broken => bytes = chunk * ChunkSize
         /\ progress = "sent" /\ ~broken => bytes = size
    /\ sender = "stream2" =>
         /\ chunk <= StreamIterations
         /\ ~broken => bytes = chunk * (size \div StreamIterations)
         /\ progress = "sent" /\ ~broken => chunk = StreamIterations
    /\ sender \in {"stream1", "stream2"} => progress # "bad_alloc"

ChunkInv == ChunkTypes /\ ReadersGoOn /\ StreamsGoOn

LEMMA ChunkBegins == ChunkInit => ChunkInv
<1>. SUFFICES ASSUME ChunkInit PROVE ChunkInv
  OBVIOUS
<1>1. size \in Nat
  BY IntLimitIsNat, ChunkAssumption DEF ChunkInit
<1>2. ChunkTypes
  BY <1>1 DEF ChunkInit, ChunkTypes
<1>3. ReadersGoOn
  <2>1. ToInt(size) \in Int /\ TotalChunks(size) \in Int
    BY <1>1, ToIntFacts, ChunksAreInts
  <2>2. ToInt(size) >= 0 => Before(size, 0) = 0
    BY <1>1, WholeChunks
  <2>. QED
    BY <2>1, <2>2 DEF ChunkInit, ReadersGoOn, Undisturbed
<1>4. StreamsGoOn
  <2>1. size \div ChunkSize \in Nat /\ size \div StreamIterations \in Nat
    BY <1>1, IntLimitIsNat
  <2>. QED
    BY <2>1, IntLimitIsNat DEF ChunkInit, StreamsGoOn
<1>. QED
  BY <1>2, <1>3, <1>4 DEF ChunkInv

\* The readers' chunks, one action at a time.
LEMMA ReaderSteps ==
    ASSUME ChunkInv, BadAlloc \/ SendChunk \/ SkipChunk \/ EndChunks \/ CacheShrinks
    PROVE  ChunkInv'
<1>. DEFINE v == ToInt(size)
            t == TotalChunks(size)
            n == CurrentChunkSize(size, chunk)
<1>1. /\ v \in Int /\ t \in Int /\ n \in Int /\ size \in Nat
      /\ v < IntLimit /\ (size < IntLimit => v = size) /\ (size >= IntLimit => v < size)
  BY ToIntFacts, ChunksAreInts DEF ChunkInv, ChunkTypes
<1>2. v >= 0 => /\ t \in Nat
                /\ t * ChunkSize < v + ChunkSize
                /\ chunk < t => /\ n \in Nat /\ Before(size, chunk) \in Nat
                                /\ Before(size, chunk + 1) = Before(size, chunk) + n
                                /\ Before(size, chunk + 1) <= v
  BY <1>1, WholeChunks DEF ChunkInv, ChunkTypes
<1>3. v < 0 /\ t > 0 => t = 1 /\ CurrentChunkSize(size, 0) < 0
  BY <1>1, NegativeChunks
<1>4. sender \in {"fetch", "close"} /\ progress = "sending" /\ UNCHANGED <<sender, size>>
  BY DEF BadAlloc, SendChunk, SkipChunk, EndChunks, CacheShrinks, Reads
<1>5. /\ ToInt(size) = v /\ TotalChunks(size) = t /\ CurrentChunkSize(size, chunk) = n
      /\ ToInt(size') = v /\ TotalChunks(size') = t /\ size' = size /\ sender' = sender
      /\ \A k : Before(size', k) = Before(size, k)
  BY <1>4
<1>6. StreamsGoOn'
  BY <1>4 DEF StreamsGoOn
<1>7. ChunkTypes'
  BY <1>1 DEF BadAlloc, SendChunk, SkipChunk, EndChunks, CacheShrinks, Write, ChunkInv, ChunkTypes
<1>. HIDE DEF v, t, n
<1>8. ReadersGoOn'
  <2>. USE <1>4, <1>5
  <2>1. CASE BadAlloc
    <3>1. /\ t < 0 \/ chunk < t
          /\ n < 0 \/ leaked = Heap
          /\ progress' = "bad_alloc"
          /\ UNCHANGED <<length, chunk, pos, bytes, messages, broken, resized, leaked>>
      BY <2>1 DEF BadAlloc, More
    <3>2. ASSUME v >= 0 PROVE size >= IntLimit
      <4>1. leaked = Heap /\ Heap + 1 <= t
        BY <1>1, <1>2, <3>1, <3>2, IntLimitIsNat DEF ChunkInv, ChunkTypes, ReadersGoOn
      <4>2. Heap * ChunkSize + ChunkSize <= t * ChunkSize
        BY <1>1, <4>1, IntLimitIsNat, Products
      <4>. QED
        BY <1>1, <1>2, <3>2, <4>2, IntLimitIsNat
    <3>3. size >= IntLimit
      BY <1>1, <3>2, IntLimitIsNat
    <3>. QED
      BY <3>1, <3>3 DEF ChunkInv, ChunkTypes, ReadersGoOn, Undisturbed
  <2>2. CASE SendChunk
    <3>1. /\ n >= 0 /\ pos >= 0 /\ pos + n <= length /\ pos' = pos + n
          /\ chunk' = chunk + 1 /\ leaked' = leaked + 1 /\ UNCHANGED <<length, resized>>
          /\ t < 0 \/ chunk < t
          /\ \/ ~broken /\ ~broken' /\ bytes' = bytes + n /\ messages' = messages + 1
                        /\ progress' = "sending"
             \/ broken'
          /\ progress' # "bad_alloc"
      BY <2>2 DEF SendChunk, Write, More
    <3>2. ASSUME v >= 0, Undisturbed'
          PROVE  bytes' = Before(size, chunk + 1) /\ pos' = bytes' /\ messages' = chunk'
      BY <1>1, <1>2, <3>1, <3>2 DEF ChunkInv, ChunkTypes, ReadersGoOn, Undisturbed
    <3>3. v < 0 => t < 0
      BY <1>1, <1>3, <3>1 DEF ChunkInv, ChunkTypes, ReadersGoOn
    <3>. QED
      BY <1>1, <3>1, <3>2, <3>3 DEF ChunkInv, ChunkTypes, ReadersGoOn, Undisturbed
  <2>3. CASE SkipChunk
    <3>1. /\ n >= 0 /\ (pos < 0 \/ pos + n > length) /\ (t < 0 \/ chunk < t)
          /\ chunk' = chunk + 1 /\ leaked' = leaked + 1
          /\ UNCHANGED <<length, bytes, messages, broken, resized, progress>>
      BY <2>3 DEF SkipChunk, More
    <3>2. ~(v >= 0 /\ Undisturbed)
      BY <1>1, <1>2, <3>1, IntLimitIsNat DEF ChunkInv, ChunkTypes, ReadersGoOn, Undisturbed
    <3>3. v < 0 => t < 0
      BY <1>1, <1>3, <3>1 DEF ChunkInv, ChunkTypes, ReadersGoOn
    <3>. QED
      BY <1>1, <3>1, <3>2, <3>3 DEF ChunkInv, ChunkTypes, ReadersGoOn, Undisturbed
  <2>4. CASE EndChunks
    <3>1. /\ t >= 0 /\ chunk >= t /\ progress' = "sent"
          /\ UNCHANGED <<length, chunk, pos, bytes, messages, broken, resized, leaked>>
      BY <1>1, <2>4 DEF EndChunks, More, ChunkInv, ChunkTypes
    <3>. QED
      BY <1>1, <1>3, <3>1 DEF ChunkInv, ChunkTypes, ReadersGoOn, Undisturbed
  <2>5. CASE CacheShrinks
    BY <2>5 DEF CacheShrinks, ChunkInv, ChunkTypes, ReadersGoOn, Undisturbed
  <2>. QED
    BY <2>1, <2>2, <2>3, <2>4, <2>5
<1>. QED
  BY <1>6, <1>7, <1>8 DEF ChunkInv

\* The rounds of P1's streams.
LEMMA StreamSteps == ASSUME ChunkInv, Stream1 \/ Stream2 PROVE ChunkInv'
<1>. DEFINE q == size \div ChunkSize
            r == size % ChunkSize
            e == size \div StreamIterations
<1>1. /\ q \in Nat /\ r \in Nat /\ e \in Nat /\ size = q * ChunkSize + r
      /\ chunk \in Nat /\ bytes \in Nat
  <2>1. size \in Int /\ size >= 0 /\ ChunkSize \in Nat \ {0} /\ StreamIterations \in Nat \ {0}
    BY IntLimitIsNat DEF ChunkInv, ChunkTypes
  <2>2. q \in Int /\ r \in 0 .. ChunkSize - 1 /\ size = q * ChunkSize + r /\ q >= 0
    BY <2>1, DivMod, Zenon
  <2>3. e \in Int /\ e >= 0
    BY <2>1, DivMod, Zenon
  <2>. QED
    BY <2>1, <2>2, <2>3 DEF ChunkInv, ChunkTypes
<1>2. ChunkTypes'
  BY <1>1, IntLimitIsNat DEF Stream1, Stream2, Write, ChunkInv, ChunkTypes
<1>3. ReadersGoOn' /\ UNCHANGED <<sender, size>>
  BY DEF Stream1, Stream2, ReadersGoOn
<1>4. /\ size \div ChunkSize = q /\ size % ChunkSize = r /\ size \div StreamIterations = e
      /\ size' \div ChunkSize = q /\ size' \div StreamIterations = e
  BY <1>3
<1>5. /\ (chunk + 1) * ChunkSize = chunk * ChunkSize + ChunkSize
      /\ (chunk + 1) * e = chunk * e + e
      /\ chunk * ChunkSize \in Nat /\ chunk * e \in Nat
  BY <1>1, IntLimitIsNat, Products
<1>. HIDE DEF q, r, e
<1>6. StreamsGoOn'
  <2>1. CASE Stream1
    <3>1. CASE chunk < q
      BY <1>1, <1>3, <1>4, <1>5, <2>1, <3>1 DEF Stream1, Write, ChunkInv, ChunkTypes, StreamsGoOn
    <3>2. CASE ~(chunk < q)
      <4>1. chunk = q
        BY <1>1, <1>4, <2>1, <3>2 DEF Stream1, ChunkInv, StreamsGoOn
      <4>. QED
        BY <1>1, <1>3, <1>4, <2>1, <4>1 DEF Stream1, Write, ChunkInv, ChunkTypes, StreamsGoOn
    <3>. QED
      BY <3>1, <3>2
  <2>2. CASE Stream2
    BY <1>1, <1>3, <1>4, <1>5, <2>2, IntLimitIsNat DEF Stream2, Write, ChunkInv, ChunkTypes, StreamsGoOn
  <2>. QED
    BY <2>1, <2>2
<1>. QED
  BY <1>2, <1>3, <1>6 DEF ChunkInv

LEMMA ChunkStep == ChunkInv /\ [ChunkNext]_chunkVars => ChunkInv'
<1>1. CASE ChunkInv /\ UNCHANGED chunkVars
  BY <1>1 DEF chunkVars, ChunkInv, ChunkTypes, ReadersGoOn, StreamsGoOn, Undisturbed
<1>. QED
  BY <1>1, ReaderSteps, StreamSteps DEF ChunkNext, StreamOver

\* What was sent without disturbance is the whole of it, as far as an int holds the size and,
\* for the second stream of P1, as it divides.
THEOREM StreamsCarryWhole == ChunkSpec => []StreamCarriesWhole
<1>1. ChunkInv => StreamCarriesWhole
  <2>. SUFFICES ASSUME ChunkInv PROVE StreamCarriesWhole
    OBVIOUS
  <2>1. progress = "bad_alloc" => size >= IntLimit
    BY DEF ChunkInv, ChunkTypes, ReadersGoOn, StreamsGoOn
  <2>2. ASSUME progress = "sent", ~broken, sender = "stream1" PROVE bytes = size
    BY <2>2 DEF ChunkInv, StreamsGoOn
  <2>3. ASSUME progress = "sent", ~broken, sender = "stream2"
        PROVE  bytes = size - (size % StreamIterations)
    <3>1. size \in Int /\ StreamIterations \in Nat \ {0}
      BY IntLimitIsNat DEF ChunkInv, ChunkTypes
    <3>2. /\ size \div StreamIterations \in Int /\ size % StreamIterations \in 0 .. StreamIterations - 1
          /\ size = (size \div StreamIterations) * StreamIterations + (size % StreamIterations)
      BY <3>1, DivMod, Zenon
    <3>3. bytes = StreamIterations * (size \div StreamIterations)
      BY <2>3 DEF ChunkInv, StreamsGoOn
    <3>. QED
      BY <3>1, <3>2, <3>3
  <2>4. ASSUME progress = "sent", ~broken, ~resized, sender \in {"fetch", "close"}
        PROVE  /\ bytes = size <=> size < IntLimit
               /\ size < IntLimit => messages = (size + ChunkSize - 1) \div ChunkSize
    <3>. DEFINE v == ToInt(size)
                t == TotalChunks(size)
    <3>1. size \in Nat /\ v \in Int /\ t \in Int
          /\ (size < IntLimit => v = size) /\ (size >= IntLimit => v < size)
      BY ToIntFacts, ChunksAreInts DEF ChunkInv, ChunkTypes
    <3>2. chunk = t /\ t >= 0 /\ (v < 0 => t = 0 /\ bytes = 0)
          /\ (v >= 0 => bytes = Before(size, t) /\ messages = t)
      BY <2>4, <3>1 DEF ChunkInv, ChunkTypes, ReadersGoOn, Undisturbed
    <3>3. v >= 0 => bytes = v /\ messages = (v + ChunkSize - 1) \div ChunkSize
      BY <3>1, <3>2, WholeChunks DEF Before
    <3>4. IntLimit \in Nat \ {0}
      BY IntLimitIsNat
    <3>. HIDE DEF v, t
    <3>5. CASE size < IntLimit
      BY <3>1, <3>3, <3>5
    <3>6. CASE size >= IntLimit
      BY <3>1, <3>2, <3>3, <3>4, <3>6
    <3>. QED
      BY <3>1, <3>4, <3>5, <3>6
  <2>. QED
    BY <2>1, <2>2, <2>3, <2>4 DEF StreamCarriesWhole, ChunkInv, ChunkTypes
<1>. QED
  BY <1>1, ChunkBegins, ChunkStep, PTL DEF ChunkSpec

----
(***************************************************************************)
(* The benchmark of Thrift                                                 *)
(***************************************************************************)
\* Quotient and remainder.
LEMMA TimesMonotone ==
    ASSUME NEW a \in Int, NEW b \in Int, NEW d \in Nat, a <= b
    PROVE  a * d <= b * d
<1>1. (b - a) * d \in Nat
  OBVIOUS
<1>2. b * d = a * d + (b - a) * d
  OBVIOUS
<1>3. a * d \in Int /\ b * d \in Int
  OBVIOUS
<1>. QED
  BY <1>1, <1>2, <1>3

\* What quotients and remainders are.
LEMMA Quotients ==
    ASSUME NEW x \in Int, NEW d \in Nat \ {0}
    PROVE  x = (x \div d) * d + (x % d) /\ x % d \in 0 .. d - 1 /\ x \div d \in Int
OBVIOUS

\* ... and that nothing else is.
LEMMA OneQuotient ==
    ASSUME NEW q \in Int, NEW d \in Nat \ {0}, NEW r \in 0 .. d - 1
    PROVE  (q * d + r) \div d = q /\ (q * d + r) % d = r
<1>. DEFINE x == q * d + r
            p == x \div d
            t == x % d
<1>1. q * d \in Int /\ x \in Int
  OBVIOUS
<1>3. x = q * d + r
  OBVIOUS
<1>. HIDE DEF x
<1>2. x = p * d + t /\ t \in 0 .. d - 1 /\ p \in Int /\ p * d \in Int
  <2>1. x = p * d + t /\ t \in 0 .. d - 1 /\ p \in Int
    BY <1>1, Quotients
  <2>. HIDE DEF p, t
  <2>. QED
    BY <2>1
<1>. HIDE DEF p, t
<1>4. ASSUME q < p PROVE FALSE
  <2>1. (q + 1) * d <= p * d /\ (q + 1) * d = q * d + d
    BY <1>2, <1>4, TimesMonotone
  <2>. QED
    BY <1>1, <1>2, <1>3, <2>1
<1>5. ASSUME p < q PROVE FALSE
  <2>1. (p + 1) * d <= q * d /\ (p + 1) * d = p * d + d
    BY <1>2, <1>5, TimesMonotone
  <2>. QED
    BY <1>1, <1>2, <1>3, <2>1
<1>6. p = q
  BY <1>2, <1>4, <1>5
<1>7. t = r
  BY <1>1, <1>2, <1>3, <1>6
<1>. QED
  BY <1>6, <1>7 DEF p, t, x

(***************************************************************************)
(* The clock                                                               *)
(***************************************************************************)
LEMMA BenchNumbers ==
    /\ NSEC \in Nat \ {0} /\ Longest \in 0 .. NSEC
    /\ {ITERATIONS, FewIterations, FewerIterations, Sizes, BigSizes} \subseteq Nat \ {0}
BY ThriftBenchAssumption

\* The clock wraps at most once during an operation.
LEMMA Wraps ==
    ASSUME NEW x \in 0 .. NSEC - 1, NEW d \in 0 .. Longest
    PROVE  /\ (x + d) % NSEC \in 0 .. NSEC - 1
           /\ (x + d) % NSEC = IF x + d >= NSEC THEN x + d - NSEC ELSE x + d
<1>1. NSEC \in Nat \ {0} /\ d \in 0 .. NSEC
  BY BenchNumbers
<1>2. CASE x + d >= NSEC
  <2>. DEFINE q == 1
              r == x + d - NSEC
  <2>1. q \in Int /\ r \in 0 .. NSEC - 1 /\ x + d = q * NSEC + r
    BY <1>1, <1>2
  <2>. HIDE DEF q, r
  <2>2. (q * NSEC + r) % NSEC = r
    BY <1>1, <2>1, OneQuotient
  <2>3. (x + d) % NSEC = r
    BY <2>1, <2>2
  <2>. QED
    BY <1>2, <2>1, <2>3 DEF r
<1>3. CASE x + d < NSEC
  <2>. DEFINE q == 0
              r == x + d
  <2>1. q \in Int /\ r \in 0 .. NSEC - 1 /\ x + d = q * NSEC + r
    BY <1>1, <1>3
  <2>. HIDE DEF q, r
  <2>2. (q * NSEC + r) % NSEC = r
    BY <1>1, <2>1, OneQuotient
  <2>3. (x + d) % NSEC = r
    BY <2>1, <2>2
  <2>. QED
    BY <1>1, <1>3, <2>1, <2>3 DEF r
<1>. QED
  BY <1>1, <1>2, <1>3

\* A total is what the operations took but for a second for each of those during which one
\* began.
Off(t) == \E k \in Nat : true[t] = total[t] + k * NSEC /\ (turned[t] <=> k > 0)
ClockInv ==
    /\ nsec \in 0 .. NSEC - 1
    /\ total \in [Totals -> Int] /\ true \in [Totals -> Int] /\ turned \in [Totals -> BOOLEAN]
    /\ \A t \in Totals : Off(t)

\* The totals at zero are the true ones ...
LEMMA ClockAtZero ==
    ASSUME nsec' \in 0 .. NSEC - 1, ZeroTotals
    PROVE  ClockInv'
<1>1. \A t \in Totals : total'[t] = 0 /\ true'[t] = 0 /\ turned'[t] = FALSE
  BY DEF ZeroTotals
<1>2. 0 * NSEC = 0 /\ 0 \in Nat
  BY BenchNumbers
<1>3. \A t \in Totals : Off(t)'
  BY <1>1, <1>2 DEF Off
<1>. QED
  BY <1>3 DEF ClockInv, ZeroTotals

\* ... and a measurement adds its time to both, or its time less a second to the printed one.
LEMMA ClockOnMeasure ==
    ASSUME ClockInv, NEW i, i.total \in Totals \union {"none"}, Clocked(i)
    PROVE  ClockInv'
<1>1. PICK d \in 0 .. Longest :
        /\ nsec' = (nsec + d) % NSEC
        /\ IF i.total = "none" THEN UNCHANGED <<total, true, turned>>
           ELSE /\ total' = [total EXCEPT ![i.total] = @ + nsec' - nsec]
                /\ true' = [true EXCEPT ![i.total] = @ + d]
                /\ turned' = [turned EXCEPT ![i.total] = @ \/ nsec + d >= NSEC]
  BY DEF Clocked
<1>2. /\ nsec \in 0 .. NSEC - 1 /\ nsec' \in 0 .. NSEC - 1 /\ NSEC \in Nat
      /\ nsec' = IF nsec + d >= NSEC THEN nsec + d - NSEC ELSE nsec + d
      /\ d \in Nat
  BY <1>1, Wraps, BenchNumbers DEF ClockInv
<1>3. CASE i.total = "none"
  BY <1>1, <1>2, <1>3 DEF ClockInv, Off
<1>4. CASE i.total \in Totals
  <2>. DEFINE t == i.total
  <2>1. "none" \notin Totals
    BY DEF Totals
  <2>2. /\ total' = [total EXCEPT ![t] = @ + nsec' - nsec]
        /\ true' = [true EXCEPT ![t] = @ + d]
        /\ turned' = [turned EXCEPT ![t] = @ \/ nsec + d >= NSEC]
        /\ t \in Totals
    BY <1>1, <1>4, <2>1
  <2>. HIDE DEF t
  <2>3. total' \in [Totals -> Int] /\ true' \in [Totals -> Int] /\ turned' \in [Totals -> BOOLEAN]
    <3>1. total[t] \in Int /\ true[t] \in Int
      BY <2>2 DEF ClockInv
    <3>2. total[t] + nsec' - nsec \in Int /\ true[t] + d \in Int
      BY <1>2, <3>1
    <3>. QED
      BY <2>2, <3>2 DEF ClockInv
  <2>4. Off(t)'
    <3>1. PICK k \in Nat : true[t] = total[t] + k * NSEC /\ (turned[t] <=> k > 0)
      BY <2>2 DEF ClockInv, Off
    <3>2. /\ total'[t] = total[t] + nsec' - nsec /\ true'[t] = true[t] + d
          /\ turned'[t] = (turned[t] \/ nsec + d >= NSEC)
          /\ total[t] \in Int /\ true[t] \in Int
      BY <2>2 DEF ClockInv
    <3>3. k * NSEC \in Int
      BY <1>2
    <3>4. CASE nsec + d >= NSEC
      <4>1. (k + 1) * NSEC = k * NSEC + NSEC
        BY <1>2
      <4>2. true'[t] = total'[t] + (k + 1) * NSEC
        BY <1>2, <3>1, <3>2, <3>3, <3>4, <4>1
      <4>3. k + 1 > 0 /\ k + 1 \in Nat
        OBVIOUS
      <4>4. turned'[t]
        BY <3>2, <3>4
      <4>. QED
        BY <4>2, <4>3, <4>4 DEF Off
    <3>5. CASE ~(nsec + d >= NSEC)
      <4>1. true'[t] = total'[t] + k * NSEC
        BY <1>2, <3>1, <3>2, <3>3, <3>5
      <4>2. turned'[t] <=> k > 0
        BY <3>1, <3>2, <3>5
      <4>. QED
        BY <4>1, <4>2 DEF Off
    <3>. QED
      BY <3>4, <3>5
  <2>5. ASSUME NEW u \in Totals, u # t PROVE Off(u)'
    <3>1. total'[u] = total[u] /\ true'[u] = true[u] /\ turned'[u] = turned[u]
      BY <2>2, <2>5 DEF ClockInv
    <3>. QED
      BY <3>1 DEF ClockInv, Off
  <2>. QED
    BY <1>2, <2>3, <2>4, <2>5 DEF ClockInv
<1>. QED
  BY <1>3, <1>4

\* An average is the true one, or off by whole seconds.
LEMMA OffBySeconds ==
    ASSUME ClockInv, NEW t \in Totals
    PROVE  (total[t] = true[t] <=> ~turned[t]) /\ (true[t] - total[t]) % NSEC = 0
<1>1. PICK k \in Nat : true[t] = total[t] + k * NSEC /\ (turned[t] <=> k > 0)
  BY DEF ClockInv, Off
<1>2. total[t] \in Int /\ true[t] \in Int /\ turned[t] \in BOOLEAN /\ NSEC \in Nat \ {0} /\ k * NSEC \in Int
  BY BenchNumbers DEF ClockInv
<1>3. true[t] - total[t] = k * NSEC + 0
  BY <1>1, <1>2
<1>4. (k * NSEC + 0) % NSEC = 0
  BY <1>2, OneQuotient
<1>5. k > 0 => k * NSEC > 0
  <2>1. ASSUME k > 0 PROVE 1 * NSEC <= k * NSEC
    BY <1>2, <2>1, TimesMonotone
  <2>. QED
    BY <1>2, <2>1
<1>6. k = 0 => k * NSEC = 0
  BY <1>2
<1>7. total[t] = true[t] <=> k = 0
  BY <1>1, <1>2, <1>5, <1>6
<1>8. k = 0 <=> ~(k > 0)
  OBVIOUS
<1>9. total[t] = true[t] <=> ~turned[t]
  BY <1>1, <1>7, <1>8
<1>. QED
  BY <1>3, <1>4, <1>9

(***************************************************************************)
(* The loops                                                               *)
(***************************************************************************)
ResetIns     == Instr("reset", "none", NoOp, 1)
NewBufferIns == Instr("buffer", "none", NoOp, 1)

\* A loop of the program and what follows it: n rounds of the body and the tail; ops[t], the
\* operation the body measures for the total t; and buffer[o], what the buffer has after the
\* o-th instruction of the body, for the o in known.
MarshalLoop(type, len, last) ==
    LET wb == Op("write", "binary", type, len)    rb == Op("read", "binary", type, len)
        wc == Op("write", "compact", type, len)   rc == Op("read", "compact", type, len)
        prints == <<Instr("print", "binm", wb, ITERATIONS), Instr("print", "compactm", wc, ITERATIONS),
                    Instr("print", "binu", rb, ITERATIONS), Instr("print", "compactu", rc, ITERATIONS)>>
    IN  [n      |-> ITERATIONS,
         body   |-> <<NewBufferIns, Instr("measure", "binm", wb, 1), Instr("measure", "binu", rb, 1),
                      Instr("measure", "compactm", wc, 1), Instr("measure", "compactu", rc, 1)>>,
         tail   |-> IF last THEN prints ELSE Append(prints, ResetIns),
         ops    |-> [t \in Totals |-> CASE t = "binm" -> wb [] t = "binu" -> rb [] t = "compactm" -> wc
                                        [] t = "compactu" -> rc [] OTHER -> NoOp],
         known  |-> 1 .. 5,
         buffer |-> <<<<>>, <<<<"binary", type>>>>, <<>>, <<<<"compact", type>>>>, <<>>>>]

\* Of the complex ones, the first and the last have the same body.
ComplexLoop(len, title, binu, compactu, last) ==
    LET wb == Op("write", "binary", "complex", len)   wc == Op("write", "compact", "complex", len)
        wj == Op("write", "json", "complex", len)
        prints == <<Instr("print", "binm", Op("write", "binary", title, len), ITERATIONS),
                    Instr("print", "compactm", Op("write", "compact", title, len), ITERATIONS),
                    Instr("print", binu, Op("read", "binary", title, len), ITERATIONS),
                    Instr("print", compactu, Op("read", "compact", title, len), ITERATIONS)>>
    IN  [n      |-> ITERATIONS,
         body   |-> <<NewBufferIns, Instr("measure", "binm", wb, 1), Instr("measure", "compactm", wc, 1),
                      Instr("measure", "none", wj, 1)>>,
         tail   |-> IF last THEN prints ELSE Append(prints, ResetIns),
         ops    |-> [t \in Totals |-> CASE t = "binm" -> wb [] t = "compactm" -> wc [] OTHER -> NoOp],
         known  |-> {},
         buffer |-> <<>>]

Complex2Loop ==
    LET wb == Op("write", "binary", "complex", 2)     rb == Op("read", "binary", "complex", 2)
        wc == Op("write", "compact", "complex", 2)    wj == Op("write", "json", "complex", 2)
    IN  [n      |-> ITERATIONS,
         body   |-> <<NewBufferIns, Instr("measure", "binm", wb, 1), Instr("measure", "binu", rb, 1),
                      Instr("measure", "compactm", wc, 1), Instr("measure", "none", wj, 1)>>,
         tail   |-> <<Instr("print", "binm", wb, ITERATIONS), Instr("print", "compactm", wc, ITERATIONS),
                      Instr("print", "binu", rb, ITERATIONS),
                      Instr("print", "compactu", Op("read", "compact", "complex", 2), ITERATIONS), ResetIns>>,
         ops    |-> [t \in Totals |-> CASE t = "binm" -> wb [] t = "binu" -> rb [] t = "compactm" -> wc
                                        [] OTHER -> NoOp],
         known  |-> 1 .. 2,
         buffer |-> <<<<>>, <<<<"binary", "complex">>, <<"binary", "stop">>>>>>]

RoundLoop(op, n) ==
    [n      |-> n,
     body   |-> <<Instr("measure", "time_sum", op, 1)>>,
     tail   |-> <<Instr("print", "time_sum", op, n), ResetIns>>,
     ops    |-> [t \in Totals |-> IF t = "time_sum" THEN op ELSE NoOp],
     known  |-> {},
     buffer |-> <<>>]

\* The operations of the cases of calls, and how often each is called.
Calls(c) ==
    CASE c = 5 -> <<CallOp("i32", 0), CallOp("double", 0),
                    CallOp("string", 1), CallOp("string", 2), CallOp("string", 3),
                    CallOp("complex", 1), CallOp("complex", 2), CallOp("complex", 3)>>
      [] c = 6 -> OfSizes("string", Sizes)
      [] c = 7 -> OfSizes("stream", Sizes)
      [] c = 8 -> OfSizes("stream", BigSizes)
Called(c) ==
    CASE c \in {5, 7} -> ITERATIONS [] c = 6 -> FewIterations [] c = 8 -> FewerIterations

\* The loops of a case.
Loops(c) == IF c \in {1, 2} THEN 1 ELSE IF c \in {3, 4} THEN 3 ELSE Len(Calls(c))
LoopAt(c, k) ==
    CASE c = 1 -> MarshalLoop("i32", 0, TRUE)
      [] c = 2 -> MarshalLoop("double", 0, TRUE)
      [] c = 3 -> MarshalLoop("string", k, k = 3)
      [] c = 4 /\ k = 1 -> ComplexLoop(1, "complex", "binm", "compactm", FALSE)
      [] c = 4 /\ k = 2 -> Complex2Loop
      [] c = 4 /\ k = 3 -> ComplexLoop(3, "string", "binu", "compactu", TRUE)
      [] c \in 5 .. 8 -> RoundLoop(Calls(c)[k], Called(c))

\* The instructions of a loop and of what follows it, and those before the k-th loop.
Looped(l) == l.n * Len(l.body)
Size(l)   == Looped(l) + Len(l.tail)
StartOf(c, k) ==
    CASE c \in {1, 2} -> 0
      [] c \in {3, 4} /\ k = 1 -> 0
      [] c \in {3, 4} /\ k = 2 -> Size(LoopAt(c, 1))
      [] c \in {3, 4} /\ k = 3 -> Size(LoopAt(c, 1)) + Size(LoopAt(c, 2))
      [] c \in 5 .. 8 -> (k - 1) * (Called(c) + 2)

\* After j rounds of the loop and o instructions of the next.
MeasuredBy(l, o, t) == \E r \in 1 .. o : l.body[r].what = "measure" /\ l.body[r].total = t
Rounded(l, j, o, t) ==
    IF ~MeasuredBy(l, Len(l.body), t) THEN 0 ELSE IF MeasuredBy(l, o, t) THEN j + 1 ELSE j
Sum(l, j, o, t) ==
    [ops |-> IF Rounded(l, j, o, t) = 0 THEN {} ELSE {l.ops[t]}, n |-> Rounded(l, j, o, t)]
Known(l, o, b) == o \in l.known => b = l.buffer[o]

InLoop(l, j, o, s, b) == s = [t \in Totals |-> Sum(l, j, o, t)] /\ Known(l, o, b)
AfterLoop(l, s)    == s = [t \in Totals |-> Sum(l, l.n, 0, t)]

\* The inductive invariant: where in the k-th loop of the case c the program is, and what the
\* totals then are of.
Place(c, k, nx, ms, b) ==
    LET l == LoopAt(c, k)
        s == StartOf(c, k)
    IN  \/ \E j \in 0 .. l.n - 1 : \E o \in 0 .. Len(l.body) - 1 :
             nx = s + (j * Len(l.body)) + o + 1 /\ InLoop(l, j, o, ms, b)
        \/ \E q \in 0 .. Len(l.tail) - 1 : nx = s + Looped(l) + q + 1 /\ AfterLoop(l, ms)
PlaceInv ==
    next <= Len(Code) => \E k \in 1 .. Loops(testcase) : Place(testcase, k, next, measured, buffer)
ThriftInv == testcase \in 1 .. Len(Cases) /\ next \in Nat \ {0} /\ ClockInv /\ PlaceInv

\* What makes the measurements of a loop those the titles name: each total is of one operation,
\* and a read finds what its protocol has written.
GoodBody(l) ==
    /\ l.n \in Nat \ {0} /\ Len(l.body) \in {1, 4, 5} /\ 0 \notin l.known
    /\ \A o \in 0 .. Len(l.body) - 1 :
         LET i == l.body[o + 1]
         IN  \/ i.what = "buffer" /\ Known(l, o + 1, <<>>)
             \/ /\ i.what = "measure" /\ i.total \in Totals \union {"none"}
                /\ i.total \in Totals => ~MeasuredBy(l, o, i.total)
                /\ \A b : Known(l, o, b) =>
                     /\ Known(l, o + 1, AfterOp(b, i.op))
                     /\ i.total \in Totals => Done(b, i.op) = l.ops[i.total]

\* What one more instruction of the body measures.
LEMMA OneMore ==
    ASSUME NEW l, NEW o \in Nat, o < Len(l.body), Len(l.body) \in Nat, NEW t
    PROVE  /\ MeasuredBy(l, o + 1, t) <=>
                MeasuredBy(l, o, t) \/ (l.body[o + 1].what = "measure" /\ l.body[o + 1].total = t)
           /\ ~MeasuredBy(l, 0, t)
           /\ MeasuredBy(l, o + 1, t) => MeasuredBy(l, Len(l.body), t)
<1>1. 1 .. o + 1 = (1 .. o) \union {o + 1}
  OBVIOUS
<1>2. 1 .. o + 1 \subseteq 1 .. Len(l.body) /\ 1 .. 0 = {}
  OBVIOUS
<1>. QED
  BY <1>1, <1>2 DEF MeasuredBy

\* The totals after one more instruction of a loop are those of one more.
LEMMA LoopGoesOn ==
    ASSUME NEW l, GoodBody(l), NEW j \in Nat, NEW o \in 0 .. Len(l.body) - 1,
           InLoop(l, j, o, measured, buffer), NEW i, i = l.body[o + 1],
           i.what = "buffer" => buffer' = <<>> /\ measured' = measured,
           i.what = "measure" => Clocked(i)
    PROVE  InLoop(l, j, o + 1, measured', buffer')
<1>. DEFINE m == Len(l.body)
<1>1. m \in Nat /\ o \in Nat /\ o < m
  BY DEF GoodBody
<1>2. \A t \in Totals : measured[t] = Sum(l, j, o, t)
  BY DEF InLoop
<1>3. CASE i.what = "buffer"
  <2>1. Known(l, o + 1, <<>>)
    BY <1>3 DEF GoodBody
  <2>2. \A t \in Totals : MeasuredBy(l, o + 1, t) <=> MeasuredBy(l, o, t)
    BY <1>1, <1>3, OneMore
  <2>3. \A t \in Totals : Sum(l, j, o + 1, t) = Sum(l, j, o, t)
    BY <2>2 DEF Sum, Rounded
  <2>. QED
    BY <1>3, <2>1, <2>3 DEF InLoop
<1>4. CASE i.what = "measure"
  <2>1. /\ i.total \in Totals \union {"none"}
        /\ i.total \in Totals => ~MeasuredBy(l, o, i.total)
        /\ Known(l, o + 1, AfterOp(buffer, i.op))
        /\ i.total \in Totals => Done(buffer, i.op) = l.ops[i.total]
    BY <1>4 DEF GoodBody, InLoop
  <2>2. /\ buffer' = AfterOp(buffer, i.op)
        /\ IF i.total = "none" THEN measured' = measured
           ELSE measured' = [measured EXCEPT ![i.total] = [ops |-> @.ops \union {Done(buffer, i.op)},
                                                           n |-> @.n + 1]]
    BY <1>4 DEF Clocked
  <2>3. "none" \notin Totals
    BY DEF Totals
  <2>4. CASE i.total = "none"
    <3>1. \A t \in Totals : MeasuredBy(l, o + 1, t) <=> MeasuredBy(l, o, t)
      BY <1>1, <2>3, <2>4, OneMore
    <3>2. \A t \in Totals : Sum(l, j, o + 1, t) = Sum(l, j, o, t)
      BY <3>1 DEF Sum, Rounded
    <3>. QED
      BY <2>1, <2>2, <2>4, <3>2 DEF InLoop
  <2>5. CASE i.total \in Totals
    <3>. DEFINE u == i.total
    <3>1. measured' = [measured EXCEPT ![u] = [ops |-> @.ops \union {l.ops[u]}, n |-> @.n + 1]]
      BY <2>1, <2>2, <2>3, <2>5
    <3>2. measured = [t \in Totals |-> Sum(l, j, o, t)]
      BY DEF InLoop
    <3>3. ASSUME NEW t \in Totals, t # u PROVE Sum(l, j, o + 1, t) = Sum(l, j, o, t)
      <4>1. MeasuredBy(l, o + 1, t) <=> MeasuredBy(l, o, t)
        BY <1>1, <3>3, OneMore
      <4>. QED
        BY <4>1 DEF Sum, Rounded
    <3>4. Sum(l, j, o + 1, u) = [ops |-> Sum(l, j, o, u).ops \union {l.ops[u]}, n |-> Sum(l, j, o, u).n + 1]
      <4>1. MeasuredBy(l, o + 1, u) /\ MeasuredBy(l, m, u) /\ ~MeasuredBy(l, o, u)
        BY <1>1, <1>4, <2>1, <2>5, OneMore
      <4>2. Rounded(l, j, o, u) = j /\ Rounded(l, j, o + 1, u) = j + 1
        BY <4>1 DEF Rounded
      <4>3. Sum(l, j, o, u) = [ops |-> IF j = 0 THEN {} ELSE {l.ops[u]}, n |-> j]
        BY <4>2 DEF Sum
      <4>4. j + 1 # 0
        OBVIOUS
      <4>5. Sum(l, j, o + 1, u) = [ops |-> {l.ops[u]}, n |-> j + 1]
        BY <4>2, <4>4 DEF Sum
      <4>6. Sum(l, j, o, u).n = j /\ Sum(l, j, o, u).ops = IF j = 0 THEN {} ELSE {l.ops[u]}
        BY <4>3
      <4>7. Sum(l, j, o, u).ops \union {l.ops[u]} = {l.ops[u]}
        BY <4>6
      <4>. QED
        BY <4>5, <4>6, <4>7
    <3>. HIDE DEF u
    <3>5. measured' = [t \in Totals |-> Sum(l, j, o + 1, t)]
      BY <3>1, <3>2, <3>3, <3>4
    <3>. QED
      BY <2>1, <2>2, <3>5 DEF InLoop
  <2>. QED
    BY <2>1, <2>4, <2>5
<1>. QED
  BY <1>3, <1>4 DEF GoodBody

\* The end of a round is the beginning of the next.
LEMMA NextRound ==
    ASSUME NEW l, GoodBody(l), NEW j \in Nat, NEW s, NEW b, InLoop(l, j, Len(l.body), s, b)
    PROVE  InLoop(l, j + 1, 0, s, b)
<1>1. \A t : ~MeasuredBy(l, 0, t)
  BY DEF MeasuredBy
<1>2. \A t \in Totals : Sum(l, j + 1, 0, t) = Sum(l, j, Len(l.body), t)
  BY <1>1 DEF Sum, Rounded
<1>3. Known(l, 0, b)
  BY DEF Known, GoodBody
<1>. QED
  BY <1>2, <1>3 DEF InLoop

\* Nothing is measured at the beginning.
LEMMA LoopBegins ==
    ASSUME NEW l, GoodBody(l), NEW b
    PROVE  InLoop(l, 0, 0, [t \in Totals |-> [ops |-> {}, n |-> 0]], b)
<1>1. \A t \in Totals : Rounded(l, 0, 0, t) = 0
  BY DEF MeasuredBy, Rounded
<1>2. \A t \in Totals : Sum(l, 0, 0, t) = [ops |-> {}, n |-> 0]
  BY <1>1 DEF Sum
<1>. QED
  BY <1>2 DEF InLoop, Known, GoodBody

\* What is printed after a loop, and what its end leaves: the next loop begins with nothing
\* measured.
MistitledIn(c, i) ==
    c = 4 /\ (i.op.type = "string" \/ (i.op.do = "read" /\ i.op # Op("read", "binary", "complex", 2)))
GoodEnd(c, l, q) ==
    LET i == l.tail[q]
    IN  \/ /\ i.what = "print" /\ i.total \in Totals
           /\ ~MistitledIn(c, i) <=> Sum(l, l.n, 0, i.total) = [ops |-> {i.op}, n |-> i.n]
        \/ i.what = "reset" /\ q = Len(l.tail)
GoodTail(c, l) == \A q \in 1 .. Len(l.tail) : GoodEnd(c, l, q)

\* What a loop has measured at its end, by the title of the average.
LEMMA Sums ==
    ASSUME NEW l, GoodBody(l), NEW t, NEW op
    PROVE  Sum(l, l.n, 0, t) = [ops |-> {op}, n |-> l.n]
             <=> MeasuredBy(l, Len(l.body), t) /\ l.ops[t] = op
<1>1. ~MeasuredBy(l, 0, t) /\ l.n \in Nat /\ l.n # 0
  BY DEF MeasuredBy, GoodBody
<1>2. CASE MeasuredBy(l, Len(l.body), t)
  <2>1. Sum(l, l.n, 0, t) = [ops |-> {l.ops[t]}, n |-> l.n]
    BY <1>1, <1>2 DEF Sum, Rounded
  <2>2. {l.ops[t]} = {op} <=> l.ops[t] = op
    OBVIOUS
  <2>3. \A A, B, n : [ops |-> A, n |-> n] = [ops |-> B, n |-> n] <=> A = B
    OBVIOUS
  <2>4. [ops |-> {l.ops[t]}, n |-> l.n] = [ops |-> {op}, n |-> l.n] <=> l.ops[t] = op
    BY <2>2, <2>3
  <2>. QED
    BY <1>2, <2>1, <2>4
<1>3. CASE ~MeasuredBy(l, Len(l.body), t)
  <2>1. Sum(l, l.n, 0, t).n = 0
    BY <1>3 DEF Sum, Rounded
  <2>. QED
    BY <1>1, <1>3, <2>1
<1>. QED
  BY <1>2, <1>3

\* An average of a loop that is printed after it has its title, or is one of those listed.
LEMMA PrintIsGood ==
    ASSUME NEW l, GoodBody(l), NEW c, NEW q, NEW i, i = l.tail[q],
           i.what = "print", i.total \in Totals, i.n = l.n,
           ~MistitledIn(c, i) <=> MeasuredBy(l, Len(l.body), i.total) /\ l.ops[i.total] = i.op
    PROVE  GoodEnd(c, l, q)
<1>. DEFINE t == i.total
            op == i.op
<1>. HIDE DEF t, op
<1>1. Sum(l, l.n, 0, t) = [ops |-> {op}, n |-> l.n] <=> MeasuredBy(l, Len(l.body), t) /\ l.ops[t] = op
  BY Sums
<1>. QED
  BY <1>1 DEF GoodEnd, t, op

\* The fields of an instruction ...
LEMMA InstrFields ==
    ASSUME NEW w, NEW t, NEW op, NEW n
    PROVE  /\ Instr(w, t, op, n).what = w /\ Instr(w, t, op, n).total = t
           /\ Instr(w, t, op, n).op = op /\ Instr(w, t, op, n).n = n
BY DEF Instr

\* ... and of an operation.
LEMMA OpFields ==
    ASSUME NEW d, NEW p, NEW t, NEW n
    PROVE  Op(d, p, t, n).do = d /\ Op(d, p, t, n).proto = p /\ Op(d, p, t, n).type = t
BY DEF Op

\* The loops of main: of a type that is marshalled,
LEMMA MarshalGood ==
    ASSUME NEW type \in {"i32", "double", "string"}, NEW len, NEW last \in BOOLEAN,
           NEW l, l = MarshalLoop(type, len, last), NEW c, c # 4
    PROVE  /\ GoodBody(l) /\ GoodTail(c, l) /\ Len(l.tail) = IF last THEN 4 ELSE 5
           /\ ~last => l.tail[5] = ResetIns
<1>. DEFINE wb == Op("write", "binary", type, len)
            rb == Op("read", "binary", type, len)
            wc == Op("write", "compact", type, len)
            rc == Op("read", "compact", type, len)
<1>1. /\ l.n = ITERATIONS /\ l.known = 1 .. 5 /\ Len(l.body) = 5
      /\ l.body[1] = NewBufferIns /\ l.body[2] = Instr("measure", "binm", wb, 1)
      /\ l.body[3] = Instr("measure", "binu", rb, 1) /\ l.body[4] = Instr("measure", "compactm", wc, 1)
      /\ l.body[5] = Instr("measure", "compactu", rc, 1)
  BY DEF MarshalLoop
<1>2. /\ l.buffer[1] = <<>> /\ l.buffer[2] = <<<<"binary", type>>>> /\ l.buffer[3] = <<>>
      /\ l.buffer[4] = <<<<"compact", type>>>> /\ l.buffer[5] = <<>>
  BY DEF MarshalLoop
<1>3. /\ l.ops["binm"] = wb /\ l.ops["binu"] = rb /\ l.ops["compactm"] = wc /\ l.ops["compactu"] = rc
      /\ {"binm", "binu", "compactm", "compactu"} \subseteq Totals
  BY DEF MarshalLoop, Totals
<1>4. /\ Len(l.tail) = IF last THEN 4 ELSE 5
      /\ l.tail[1] = Instr("print", "binm", wb, ITERATIONS)
      /\ l.tail[2] = Instr("print", "compactm", wc, ITERATIONS)
      /\ l.tail[3] = Instr("print", "binu", rb, ITERATIONS)
      /\ l.tail[4] = Instr("print", "compactu", rc, ITERATIONS)
      /\ ~last => l.tail[5] = ResetIns
  BY DEF MarshalLoop
<1>5. /\ wb.do = "write" /\ wb.proto = "binary" /\ wb.type = type
      /\ rb.do = "read" /\ rb.proto = "binary" /\ rb.type = type
      /\ wc.do = "write" /\ wc.proto = "compact" /\ wc.type = type
      /\ rc.do = "read" /\ rc.proto = "compact" /\ rc.type = type
  BY OpFields
<1>. HIDE DEF wb, rb, wc, rc
<1>6. /\ l.body[1].what = "buffer"
      /\ l.body[2].what = "measure" /\ l.body[2].total = "binm" /\ l.body[2].op = wb
      /\ l.body[3].what = "measure" /\ l.body[3].total = "binu" /\ l.body[3].op = rb
      /\ l.body[4].what = "measure" /\ l.body[4].total = "compactm" /\ l.body[4].op = wc
      /\ l.body[5].what = "measure" /\ l.body[5].total = "compactu" /\ l.body[5].op = rc
  BY <1>1, InstrFields DEF NewBufferIns
<1>7. /\ \A b : b = l.buffer[1] => AfterOp(b, wb) = l.buffer[2] /\ Done(b, wb) = wb
      /\ \A b : b = l.buffer[2] => AfterOp(b, rb) = l.buffer[3] /\ Done(b, rb) = rb
      /\ \A b : b = l.buffer[3] => AfterOp(b, wc) = l.buffer[4] /\ Done(b, wc) = wc
      /\ \A b : b = l.buffer[4] => AfterOp(b, rc) = l.buffer[5] /\ Done(b, rc) = rc
  <2>1. type # "complex"
    OBVIOUS
  <2>2. \A p : /\ Append(<<>>, <<p, type>>) = <<<<p, type>>>> /\ <<<<p, type>>>> # <<>>
               /\ Tail(<<<<p, type>>>>) = <<>> /\ Head(<<<<p, type>>>>) = <<p, type>>
    OBVIOUS
  <2>3. AfterOp(<<>>, wb) = l.buffer[2] /\ Done(<<>>, wb) = wb
    BY <1>2, <1>5, <2>1, <2>2 DEF AfterOp, Done
  <2>4. AfterOp(<<>>, wc) = l.buffer[4] /\ Done(<<>>, wc) = wc
    BY <1>2, <1>5, <2>1, <2>2 DEF AfterOp, Done
  <2>5. AfterOp(l.buffer[2], rb) = <<>> /\ Done(l.buffer[2], rb) = rb
    BY <1>2, <1>5, <2>2 DEF AfterOp, Done
  <2>6. AfterOp(l.buffer[4], rc) = <<>> /\ Done(l.buffer[4], rc) = rc
    BY <1>2, <1>5, <2>2 DEF AfterOp, Done
  <2>. QED
    BY <1>2, <2>3, <2>4, <2>5, <2>6
<1>8. GoodBody(l)
  <2>1. ASSUME NEW o \in 0 .. 4 PROVE o \in {0, 1, 2, 3, 4}
    OBVIOUS
  <2>2. /\ ~MeasuredBy(l, 1, "binm") /\ ~MeasuredBy(l, 2, "binu")
        /\ ~MeasuredBy(l, 3, "compactm") /\ ~MeasuredBy(l, 4, "compactu")
    BY <1>6 DEF MeasuredBy
  <2>3. \A o \in 1 .. 5 : \A b : Known(l, o, b) <=> b = l.buffer[o]
    BY <1>1 DEF Known
  <2>4. Known(l, 0 + 1, <<>>)
    BY <1>2, <2>3
  <2>5. \A b : /\ Known(l, 1, b) => Known(l, 1 + 1, AfterOp(b, wb)) /\ Done(b, wb) = wb
               /\ Known(l, 2, b) => Known(l, 2 + 1, AfterOp(b, rb)) /\ Done(b, rb) = rb
               /\ Known(l, 3, b) => Known(l, 3 + 1, AfterOp(b, wc)) /\ Done(b, wc) = wc
               /\ Known(l, 4, b) => Known(l, 4 + 1, AfterOp(b, rc)) /\ Done(b, rc) = rc
    BY <1>7, <2>3
  <2>6. l.n \in Nat \ {0} /\ Len(l.body) = 5 /\ 0 \notin l.known
    BY <1>1, BenchNumbers
  <2>. QED
    BY <1>3, <1>6, <2>1, <2>2, <2>4, <2>5, <2>6 DEF GoodBody
<1>9. GoodTail(c, l)
  <2>1. /\ MeasuredBy(l, Len(l.body), "binm") /\ MeasuredBy(l, Len(l.body), "binu")
        /\ MeasuredBy(l, Len(l.body), "compactm") /\ MeasuredBy(l, Len(l.body), "compactu")
    BY <1>1, <1>6 DEF MeasuredBy
  <2>3. \A i : ~MistitledIn(c, i)
    BY DEF MistitledIn
  <2>4. /\ l.tail[1].what = "print" /\ l.tail[1].total = "binm" /\ l.tail[1].op = wb /\ l.tail[1].n = l.n
        /\ l.tail[2].what = "print" /\ l.tail[2].total = "compactm" /\ l.tail[2].op = wc /\ l.tail[2].n = l.n
        /\ l.tail[3].what = "print" /\ l.tail[3].total = "binu" /\ l.tail[3].op = rb /\ l.tail[3].n = l.n
        /\ l.tail[4].what = "print" /\ l.tail[4].total = "compactu" /\ l.tail[4].op = rc /\ l.tail[4].n = l.n
        /\ ~last => l.tail[5].what = "reset"
    BY <1>1, <1>4, InstrFields DEF ResetIns
  <2>5. GoodEnd(c, l, 1)
    BY <1>3, <1>8, <2>1, <2>3, <2>4, PrintIsGood
  <2>6. GoodEnd(c, l, 2)
    BY <1>3, <1>8, <2>1, <2>3, <2>4, PrintIsGood
  <2>7. GoodEnd(c, l, 3)
    BY <1>3, <1>8, <2>1, <2>3, <2>4, PrintIsGood
  <2>8. GoodEnd(c, l, 4)
    BY <1>3, <1>8, <2>1, <2>3, <2>4, PrintIsGood
  <2>9. ~last => GoodEnd(c, l, 5)
    BY <1>4, <2>4 DEF GoodEnd
  <2>10. \A q \in 1 .. Len(l.tail) : q \in {1, 2, 3, 4} \/ (~last /\ q = 5)
    BY <1>4
  <2>. QED
    BY <2>5, <2>6, <2>7, <2>8, <2>9, <2>10 DEF GoodTail
<1>. QED
  BY <1>4, <1>8, <1>9

\* of a complex type, with one buffer or two,
LEMMA ComplexGood ==
    ASSUME NEW len \in Nat, NEW last \in BOOLEAN, NEW title \in {"complex", "string"},
           NEW binu \in {"binm", "binu"}, NEW compactu \in {"compactm", "compactu"},
           title = "complex" => len # 2
    PROVE  LET l == ComplexLoop(len, title, binu, compactu, last)
           IN  /\ GoodBody(l) /\ GoodTail(4, l) /\ Len(l.tail) = IF last THEN 4 ELSE 5
               /\ ~last => l.tail[5] = ResetIns
<1>. DEFINE l  == ComplexLoop(len, title, binu, compactu, last)
            wb == Op("write", "binary", "complex", len)
            wc == Op("write", "compact", "complex", len)
            wj == Op("write", "json", "complex", len)
            tb == Op("write", "binary", title, len)
            tc == Op("write", "compact", title, len)
            rb == Op("read", "binary", title, len)
            rc == Op("read", "compact", title, len)
<1>1. /\ l.n = ITERATIONS /\ l.known = {} /\ Len(l.body) = 4
      /\ l.body[1] = NewBufferIns /\ l.body[2] = Instr("measure", "binm", wb, 1)
      /\ l.body[3] = Instr("measure", "compactm", wc, 1) /\ l.body[4] = Instr("measure", "none", wj, 1)
  BY DEF ComplexLoop
<1>2. /\ l.ops["binm"] = wb /\ l.ops["compactm"] = wc
      /\ binu \in Totals /\ compactu \in Totals /\ {"binm", "compactm"} \subseteq Totals /\ "none" \notin Totals
  BY DEF ComplexLoop, Totals
<1>3. /\ Len(l.tail) = IF last THEN 4 ELSE 5
      /\ l.tail[1] = Instr("print", "binm", tb, ITERATIONS)
      /\ l.tail[2] = Instr("print", "compactm", tc, ITERATIONS)
      /\ l.tail[3] = Instr("print", binu, rb, ITERATIONS)
      /\ l.tail[4] = Instr("print", compactu, rc, ITERATIONS)
      /\ ~last => l.tail[5] = ResetIns
  BY DEF ComplexLoop
<1>4. /\ wb.do = "write" /\ wb.type = "complex" /\ wc.do = "write" /\ wc.type = "complex"
      /\ wj.do = "write" /\ wj.type = "complex"
      /\ tb.do = "write" /\ tb.type = title /\ tc.do = "write" /\ tc.type = title
      /\ rb.do = "read" /\ rb.type = title /\ rc.do = "read" /\ rc.type = title
  BY OpFields
<1>5. /\ title = "complex" => tb = wb /\ tc = wc
      /\ title = "complex" => rb # Op("read", "binary", "complex", 2) /\ rc # Op("read", "binary", "complex", 2)
  BY DEF Op
<1>. HIDE DEF l, wb, wc, wj, tb, tc, rb, rc
<1>6. /\ l.body[1].what = "buffer"
      /\ l.body[2].what = "measure" /\ l.body[2].total = "binm" /\ l.body[2].op = wb
      /\ l.body[3].what = "measure" /\ l.body[3].total = "compactm" /\ l.body[3].op = wc
      /\ l.body[4].what = "measure" /\ l.body[4].total = "none" /\ l.body[4].op = wj
  BY <1>1, InstrFields DEF NewBufferIns
<1>7. GoodBody(l)
  <2>1. ASSUME NEW o \in 0 .. 3 PROVE o \in {0, 1, 2, 3}
    OBVIOUS
  <2>2. ~MeasuredBy(l, 1, "binm") /\ ~MeasuredBy(l, 2, "compactm")
    BY <1>6 DEF MeasuredBy
  <2>3. \A o, b : Known(l, o, b)
    BY <1>1 DEF Known
  <2>4. \A b : Done(b, wb) = wb /\ Done(b, wc) = wc
    BY <1>4 DEF Done
  <2>5. l.n \in Nat \ {0} /\ Len(l.body) = 4 /\ 0 \notin l.known
    BY <1>1, BenchNumbers
  <2>. QED
    BY <1>2, <1>6, <2>1, <2>2, <2>3, <2>4, <2>5 DEF GoodBody
<1>8. GoodTail(4, l)
  <2>1. MeasuredBy(l, Len(l.body), "binm") /\ MeasuredBy(l, Len(l.body), "compactm")
    BY <1>1, <1>6 DEF MeasuredBy
  <2>2. \A t : MeasuredBy(l, Len(l.body), t) => t \in {"binm", "compactm", "none"}
    BY <1>1, <1>6 DEF MeasuredBy
  <2>3. /\ l.tail[1].what = "print" /\ l.tail[1].total = "binm" /\ l.tail[1].op = tb /\ l.tail[1].n = l.n
        /\ l.tail[2].what = "print" /\ l.tail[2].total = "compactm" /\ l.tail[2].op = tc /\ l.tail[2].n = l.n
        /\ l.tail[3].what = "print" /\ l.tail[3].total = binu /\ l.tail[3].op = rb /\ l.tail[3].n = l.n
        /\ l.tail[4].what = "print" /\ l.tail[4].total = compactu /\ l.tail[4].op = rc /\ l.tail[4].n = l.n
        /\ ~last => l.tail[5].what = "reset"
    BY <1>1, <1>3, InstrFields DEF ResetIns
  <2>4. /\ MistitledIn(4, l.tail[1]) <=> title = "string"
        /\ MistitledIn(4, l.tail[2]) <=> title = "string"
        /\ MistitledIn(4, l.tail[3]) /\ MistitledIn(4, l.tail[4])
    BY <1>4, <1>5, <2>3 DEF MistitledIn
  <2>5. l.ops["binm"] = tb <=> title # "string"
    BY <1>2, <1>4, <1>5
  <2>6. l.ops["compactm"] = tc <=> title # "string"
    BY <1>2, <1>4, <1>5
  <2>7. ~(MeasuredBy(l, Len(l.body), binu) /\ l.ops[binu] = rb)
    BY <1>2, <1>4, <2>2
  <2>8. ~(MeasuredBy(l, Len(l.body), compactu) /\ l.ops[compactu] = rc)
    BY <1>2, <1>4, <2>2
  <2>9. GoodEnd(4, l, 1)
    BY <1>2, <1>7, <2>1, <2>3, <2>4, <2>5, PrintIsGood
  <2>10. GoodEnd(4, l, 2)
    BY <1>2, <1>7, <2>1, <2>3, <2>4, <2>6, PrintIsGood
  <2>11. GoodEnd(4, l, 3)
    BY <1>2, <1>7, <2>3, <2>4, <2>7, PrintIsGood
  <2>12. GoodEnd(4, l, 4)
    BY <1>2, <1>7, <2>3, <2>4, <2>8, PrintIsGood
  <2>13. ~last => GoodEnd(4, l, 5)
    BY <1>3, <2>3 DEF GoodEnd
  <2>14. \A q \in 1 .. Len(l.tail) : q \in {1, 2, 3, 4} \/ (~last /\ q = 5)
    BY <1>3
  <2>. QED
    BY <2>9, <2>10, <2>11, <2>12, <2>13, <2>14 DEF GoodTail
<1>. QED
  BY <1>3, <1>7, <1>8 DEF l

\* of two complex types,
LEMMA Complex2Good ==
    ASSUME NEW l, l = Complex2Loop
    PROVE  GoodBody(l) /\ GoodTail(4, l) /\ Len(l.tail) = 5 /\ l.tail[5] = ResetIns
<1>. DEFINE wb == Op("write", "binary", "complex", 2)
            rb == Op("read", "binary", "complex", 2)
            wc == Op("write", "compact", "complex", 2)
            rc == Op("read", "compact", "complex", 2)
            wj == Op("write", "json", "complex", 2)
<1>1. /\ l.n = ITERATIONS /\ l.known = 1 .. 2 /\ Len(l.body) = 5
      /\ l.body[1] = NewBufferIns /\ l.body[2] = Instr("measure", "binm", wb, 1)
      /\ l.body[3] = Instr("measure", "binu", rb, 1) /\ l.body[4] = Instr("measure", "compactm", wc, 1)
      /\ l.body[5] = Instr("measure", "none", wj, 1)
  BY DEF Complex2Loop
<1>2. l.buffer[1] = <<>> /\ l.buffer[2] = <<<<"binary", "complex">>, <<"binary", "stop">>>>
  BY DEF Complex2Loop
<1>3. /\ l.ops["binm"] = wb /\ l.ops["binu"] = rb /\ l.ops["compactm"] = wc
      /\ {"binm", "binu", "compactm", "compactu"} \subseteq Totals /\ "none" \notin Totals
  BY DEF Complex2Loop, Totals
<1>4. /\ Len(l.tail) = 5
      /\ l.tail[1] = Instr("print", "binm", wb, ITERATIONS)
      /\ l.tail[2] = Instr("print", "compactm", wc, ITERATIONS)
      /\ l.tail[3] = Instr("print", "binu", rb, ITERATIONS)
      /\ l.tail[4] = Instr("print", "compactu", rc, ITERATIONS)
      /\ l.tail[5] = ResetIns
  BY DEF Complex2Loop
<1>5. /\ wb.do = "write" /\ wb.proto = "binary" /\ wb.type = "complex"
      /\ rb.do = "read" /\ rb.proto = "binary" /\ rb.type = "complex"
      /\ wc.do = "write" /\ wc.proto = "compact" /\ wc.type = "complex"
      /\ rc.do = "read" /\ rc.proto = "compact" /\ rc.type = "complex"
      /\ wj.do = "write" /\ wj.type = "complex"
  BY OpFields
<1>6. rb = Op("read", "binary", "complex", 2)
  OBVIOUS
<1>. HIDE DEF wb, rb, wc, rc, wj
<1>7. /\ l.body[1].what = "buffer"
      /\ l.body[2].what = "measure" /\ l.body[2].total = "binm" /\ l.body[2].op = wb
      /\ l.body[3].what = "measure" /\ l.body[3].total = "binu" /\ l.body[3].op = rb
      /\ l.body[4].what = "measure" /\ l.body[4].total = "compactm" /\ l.body[4].op = wc
      /\ l.body[5].what = "measure" /\ l.body[5].total = "none" /\ l.body[5].op = wj
  BY <1>1, InstrFields DEF NewBufferIns
<1>8. GoodBody(l)
  <2>1. ASSUME NEW o \in 0 .. 4 PROVE o \in {0, 1, 2, 3, 4}
    OBVIOUS
  <2>2. ~MeasuredBy(l, 1, "binm") /\ ~MeasuredBy(l, 2, "binu") /\ ~MeasuredBy(l, 3, "compactm")
    BY <1>7 DEF MeasuredBy
  <2>3. /\ \A b : Known(l, 1, b) <=> b = l.buffer[1]
        /\ \A b : Known(l, 2, b) <=> b = l.buffer[2]
        /\ \A b : Known(l, 3, b) /\ Known(l, 4, b) /\ Known(l, 5, b)
    BY <1>1 DEF Known
  <2>4. Known(l, 0 + 1, <<>>)
    BY <1>2, <2>3
  <2>5. AfterOp(<<>>, wb) = l.buffer[2]
    <3>1. AfterOp(<<>>, wb) = <<>> \o <<<<"binary", "complex">>, <<"binary", "stop">>>>
      BY <1>5 DEF AfterOp
    <3>. QED
      BY <1>2, <3>1
  <2>6. Done(l.buffer[2], rb) = rb
    BY <1>2, <1>5 DEF Done
  <2>7. \A b : Done(b, wb) = wb /\ Done(b, wc) = wc
    BY <1>5 DEF Done
  <2>8. /\ \A b : Known(l, 1, b) => Known(l, 1 + 1, AfterOp(b, wb))
        /\ \A b : Known(l, 2, b) => Known(l, 2 + 1, AfterOp(b, rb)) /\ Done(b, rb) = rb
        /\ \A b : Known(l, 3 + 1, b) /\ Known(l, 4 + 1, b)
    BY <1>2, <2>3, <2>5, <2>6
  <2>9. l.n \in Nat \ {0} /\ Len(l.body) = 5 /\ 0 \notin l.known
    BY <1>1, BenchNumbers
  <2>. QED
    BY <1>3, <1>7, <2>1, <2>2, <2>4, <2>7, <2>8, <2>9 DEF GoodBody
<1>9. GoodTail(4, l)
  <2>1. /\ MeasuredBy(l, Len(l.body), "binm") /\ MeasuredBy(l, Len(l.body), "binu")
        /\ MeasuredBy(l, Len(l.body), "compactm")
    BY <1>1, <1>7 DEF MeasuredBy
  <2>2. ~MeasuredBy(l, Len(l.body), "compactu")
    BY <1>1, <1>7 DEF MeasuredBy
  <2>3. /\ l.tail[1].what = "print" /\ l.tail[1].total = "binm" /\ l.tail[1].op = wb /\ l.tail[1].n = l.n
        /\ l.tail[2].what = "print" /\ l.tail[2].total = "compactm" /\ l.tail[2].op = wc /\ l.tail[2].n = l.n
        /\ l.tail[3].what = "print" /\ l.tail[3].total = "binu" /\ l.tail[3].op = rb /\ l.tail[3].n = l.n
        /\ l.tail[4].what = "print" /\ l.tail[4].total = "compactu" /\ l.tail[4].op = rc /\ l.tail[4].n = l.n
        /\ l.tail[5].what = "reset"
    BY <1>1, <1>4, InstrFields DEF ResetIns
  <2>4. rc # rb
    BY <1>5
  <2>5. /\ ~MistitledIn(4, l.tail[1]) /\ ~MistitledIn(4, l.tail[2]) /\ ~MistitledIn(4, l.tail[3])
        /\ MistitledIn(4, l.tail[4])
    BY <1>5, <1>6, <2>3, <2>4 DEF MistitledIn
  <2>6. GoodEnd(4, l, 1)
    BY <1>3, <1>8, <2>1, <2>3, <2>5, PrintIsGood
  <2>7. GoodEnd(4, l, 2)
    BY <1>3, <1>8, <2>1, <2>3, <2>5, PrintIsGood
  <2>8. GoodEnd(4, l, 3)
    BY <1>3, <1>8, <2>1, <2>3, <2>5, PrintIsGood
  <2>9. GoodEnd(4, l, 4)
    BY <1>3, <1>8, <2>2, <2>3, <2>5, PrintIsGood
  <2>10. GoodEnd(4, l, 5)
    BY <1>4, <2>3 DEF GoodEnd
  <2>11. \A q \in 1 .. Len(l.tail) : q \in {1, 2, 3, 4, 5}
    BY <1>4
  <2>. QED
    BY <2>6, <2>7, <2>8, <2>9, <2>10, <2>11 DEF GoodTail
<1>. QED
  BY <1>4, <1>8, <1>9

\* and of a call.
LEMMA RoundGood ==
    ASSUME NEW op, NEW n \in Nat \ {0}, op.do = "call", NEW l, l = RoundLoop(op, n), NEW c, c # 4
    PROVE  GoodBody(l) /\ GoodTail(c, l) /\ Len(l.tail) = 2 /\ l.tail[2] = ResetIns
<1>1. /\ l.n = n /\ l.known = {} /\ Len(l.body) = 1 /\ l.body[1] = Instr("measure", "time_sum", op, 1)
      /\ l.ops["time_sum"] = op /\ "time_sum" \in Totals
      /\ Len(l.tail) = 2 /\ l.tail[1] = Instr("print", "time_sum", op, n) /\ l.tail[2] = ResetIns
  BY DEF RoundLoop, Totals
<1>2. /\ l.body[1].what = "measure" /\ l.body[1].total = "time_sum" /\ l.body[1].op = op
      /\ l.tail[1].what = "print" /\ l.tail[1].total = "time_sum" /\ l.tail[1].op = op /\ l.tail[1].n = n
      /\ l.tail[2].what = "reset"
  BY <1>1, InstrFields DEF ResetIns
<1>3. GoodBody(l)
  <2>1. \A o \in 0 .. 0 : o = 0
    OBVIOUS
  <2>2. ~MeasuredBy(l, 0, "time_sum") /\ \A o, b : Known(l, o, b)
    BY <1>1 DEF MeasuredBy, Known
  <2>3. \A b : Done(b, op) = op
    BY DEF Done
  <2>. QED
    BY <1>1, <1>2, <2>1, <2>2, <2>3 DEF GoodBody
<1>4. GoodTail(c, l)
  <2>1. MeasuredBy(l, Len(l.body), "time_sum")
    BY <1>1, <1>2 DEF MeasuredBy
  <2>2. GoodEnd(c, l, 1)
    <3>1. ~MistitledIn(c, l.tail[1])
      BY DEF MistitledIn
    <3>. DEFINE i == l.tail[1]
    <3>2. i.what = "print" /\ i.total \in Totals /\ i.n = l.n
      BY <1>1, <1>2
    <3>3. MeasuredBy(l, Len(l.body), i.total) /\ l.ops[i.total] = i.op
      BY <1>1, <1>2, <2>1
    <3>4. i = l.tail[1]
      OBVIOUS
    <3>. HIDE DEF i
    <3>. QED
      BY <1>3, <3>1, <3>2, <3>3, <3>4, PrintIsGood
  <2>3. GoodEnd(c, l, 2)
    BY <1>1, <1>2 DEF GoodEnd
  <2>4. \A q \in 1 .. Len(l.tail) : q \in {1, 2}
    BY <1>1
  <2>. QED
    BY <2>2, <2>3, <2>4 DEF GoodTail
<1>. QED
  BY <1>1, <1>3, <1>4

(***************************************************************************)
(* The cases, laid out                                                     *)
(***************************************************************************)
Dos    == {"none", "write", "read", "call"}
Protos == {"none", "binary", "compact", "json"}
Types  == {"none", "i32", "double", "string", "complex", "stream"}
Whats  == {"measure", "print", "buffer", "reset"}
OpSet  == [do : Dos, proto : Protos, type : Types, len : Nat]
Ins    == [what : Whats, total : Totals \union {"none"}, op : OpSet, n : Nat]

\* The types of instructions ...
LEMMA InsType ==
    ASSUME NEW w \in Whats, NEW t \in Totals \union {"none"}, NEW op \in OpSet, NEW n \in Nat
    PROVE  Instr(w, t, op, n) \in Ins
BY DEF Instr, Ins

\* ... of operations ...
LEMMA OpType ==
    ASSUME NEW d \in Dos, NEW p \in Protos, NEW t \in Types, NEW n \in Nat
    PROVE  Op(d, p, t, n) \in OpSet
BY DEF Op, OpSet

\* ... and of the two instructions that measure nothing.
LEMMA OddTypes == ResetIns \in Ins /\ NewBufferIns \in Ins
<1>1. NoOp \in OpSet
  BY OpType DEF NoOp, Dos, Protos, Types
<1>2. Instr("reset", "none", NoOp, 1) \in Ins /\ Instr("buffer", "none", NoOp, 1) \in Ins
  BY <1>1, InsType DEF Whats
<1>. QED
  BY <1>2 DEF ResetIns, NewBufferIns

\* The sequence p has the loop l and its tail after s instructions.
HasLoop(p, l, s) ==
    /\ \A i \in 1 .. Looped(l) : p[s + i] = l.body[((i - 1) % Len(l.body)) + 1]
    /\ \A q \in 1 .. Len(l.tail) : p[s + Looped(l) + q] = l.tail[q]

\* A sequence that is a loop and its tail.
IsLoop(p, l) ==
    /\ p \in Seq(Ins) /\ Len(p) = Size(l) /\ HasLoop(p, l, 0)
    /\ Looped(l) \in Nat /\ Len(l.tail) \in Nat /\ Size(l) \in Nat

\* The place in a round of what is i-th in the repetition.
LEMMA InRound ==
    ASSUME NEW m \in Nat \ {0}, NEW i \in Nat \ {0}
    PROVE  ((i - 1) % m) + 1 \in 1 .. m
<1>. DEFINE x == i - 1
<1>1. x \in Int
  OBVIOUS
<1>. HIDE DEF x
<1>2. x % m \in 0 .. m - 1
  BY <1>1, Quotients
<1>. DEFINE y == x % m
<1>. HIDE DEF y
<1>3. y + 1 \in 1 .. m
  BY <1>2 DEF y
<1>. QED
  BY <1>3 DEF x, y

\* Concatenation, index by index.
LEMMA Concats ==
    ASSUME NEW p \in Seq(Ins), NEW q \in Seq(Ins)
    PROVE  /\ p \o q \in Seq(Ins) /\ Len(p \o q) = Len(p) + Len(q)
           /\ \A i \in 1 .. Len(p) : (p \o q)[i] = p[i]
           /\ \A i \in 1 .. Len(q) : (p \o q)[Len(p) + i] = q[i]
OBVIOUS

\* A body repeated and a tail are a loop, as the steps see it.
LEMMA LoopSequence ==
    ASSUME NEW l, l.body \in Seq(Ins), l.tail \in Seq(Ins), l.n \in Nat \ {0}, Len(l.body) \in Nat \ {0}
    PROVE  IsLoop(Repeat(l.n, l.body) \o l.tail, l) /\ Repeat(l.n, l.body) \in Seq(Ins)
<1>. DEFINE b == l.body
            e == l.tail
            m == Len(b)
            z == Looped(l)
            F(i) == b[((i - 1) % m) + 1]
            r == Repeat(l.n, b)
<1>1. z \in Nat /\ z = l.n * m
  <2>1. l.n * m \in Nat
    OBVIOUS
  <2>. QED
    BY <2>1 DEF Looped
<1>2. r = [i \in 1 .. z |-> F(i)]
  BY <1>1 DEF Repeat
<1>3. b \in Seq(Ins) /\ e \in Seq(Ins) /\ m \in Nat \ {0} /\ m = Len(b) /\ Len(e) \in Nat
  OBVIOUS
<1>. HIDE DEF m, b, e, z, r
<1>4. ASSUME NEW i \in 1 .. z PROVE F(i) \in Ins
  <2>1. i \in Nat \ {0}
    BY <1>1
  <2>2. ((i - 1) % m) + 1 \in 1 .. m
    BY <1>3, <2>1, InRound
  <2>. QED
    BY <1>3, <2>2
<1>. HIDE DEF F
<1>5. r \in Seq(Ins) /\ Len(r) = z /\ \A i \in 1 .. z : r[i] = F(i)
  <2>1. r \in [1 .. z -> Ins]
    BY <1>2, <1>4
  <2>2. r \in Seq(Ins) /\ Len(r) = z
    BY <1>1, <2>1
  <2>. QED
    BY <1>2, <2>2
<1>6. /\ r \o e \in Seq(Ins) /\ Len(r \o e) = z + Len(e)
      /\ \A i \in 1 .. z : (r \o e)[i] = r[i]
      /\ \A q \in 1 .. Len(e) : (r \o e)[z + q] = e[q]
  <2>1. r \in Seq(Ins) /\ Len(r) = z
    BY <1>5
  <2>2. /\ r \o e \in Seq(Ins) /\ Len(r \o e) = Len(r) + Len(e)
        /\ \A i \in 1 .. Len(r) : (r \o e)[i] = r[i]
        /\ \A q \in 1 .. Len(e) : (r \o e)[Len(r) + q] = e[q]
    BY <1>3, <2>1, Concats
  <2>. QED
    BY <2>1, <2>2
<1>. DEFINE w == r \o e
<1>. HIDE DEF w
<1>7. \A i \in 1 .. z : w[0 + i] = F(i)
  <2>1. \A i \in 1 .. z : 0 + i = i
    BY <1>1
  <2>. QED
    BY <1>5, <1>6, <2>1 DEF w
<1>8. \A q \in 1 .. Len(e) : w[0 + z + q] = e[q]
  <2>1. \A q \in 1 .. Len(e) : 0 + z + q = z + q
    BY <1>1, <1>3
  <2>. QED
    BY <1>6, <2>1 DEF w
<1>9. HasLoop(w, l, 0)
  BY <1>7, <1>8 DEF HasLoop, F, z, e, b, m
<1>10. Size(l) = z + Len(e) /\ Size(l) \in Nat
  BY <1>1, <1>3 DEF Size, z, e
<1>11. w \in Seq(Ins) /\ Len(w) = Size(l)
  BY <1>6, <1>10 DEF w
<1>12. IsLoop(w, l)
  BY <1>1, <1>3, <1>9, <1>10, <1>11 DEF IsLoop, z, e
<1>. QED
  BY <1>5, <1>12 DEF w, r, e, b

\* Loops in a longer sequence.
LEMMA LoopBefore ==
    ASSUME NEW p \in Seq(Ins), NEW q \in Seq(Ins), NEW l, NEW s \in Nat,
           Looped(l) \in Nat, Len(l.tail) \in Nat, s + Size(l) <= Len(p), HasLoop(p, l, s)
    PROVE  HasLoop(p \o q, l, s)
<1>1. \A i \in 1 .. Len(p) : (p \o q)[i] = p[i]
  OBVIOUS
<1>2. Len(p) \in Nat /\ Size(l) = Looped(l) + Len(l.tail)
  BY DEF Size
<1>3. \A i \in 1 .. Looped(l) : s + i \in 1 .. Len(p)
  BY <1>2
<1>4. \A i \in 1 .. Len(l.tail) : s + Looped(l) + i \in 1 .. Len(p)
  BY <1>2
<1>. QED
  BY <1>1, <1>3, <1>4 DEF HasLoop

\* ... and at the end of another.
LEMMA LoopAfter ==
    ASSUME NEW p \in Seq(Ins), NEW q, NEW l, IsLoop(q, l)
    PROVE  /\ HasLoop(p \o q, l, Len(p)) /\ p \o q \in Seq(Ins) /\ Len(p \o q) = Len(p) + Size(l)
<1>. DEFINE n == Len(p)
            z == Looped(l)
            T == Len(l.tail)
            N == Len(q)
            w == p \o q
<1>1. n \in Nat /\ z \in Nat /\ T \in Nat /\ N = z + T /\ N = Size(l)
  BY DEF IsLoop, Size
<1>2. w \in Seq(Ins) /\ Len(w) = n + N /\ \A i \in 1 .. N : w[n + i] = q[i]
  <2>1. q \in Seq(Ins)
    BY DEF IsLoop
  <2>. QED
    BY <2>1, Concats
<1>3. /\ \A i \in 1 .. z : q[0 + i] = l.body[((i - 1) % Len(l.body)) + 1]
      /\ \A i \in 1 .. T : q[0 + z + i] = l.tail[i]
  BY DEF IsLoop, HasLoop
<1>. HIDE DEF n, z, T, N, w
<1>4. \A i \in 1 .. z : i \in 1 .. N /\ 0 + i = i
  BY <1>1
<1>5. \A i \in 1 .. T : z + i \in 1 .. N /\ 0 + z + i = z + i /\ n + z + i = n + (z + i)
  BY <1>1
<1>6. \A i \in 1 .. z : w[n + i] = l.body[((i - 1) % Len(l.body)) + 1]
  BY <1>2, <1>3, <1>4
<1>7. \A i \in 1 .. T : w[n + z + i] = l.tail[i]
  BY <1>2, <1>3, <1>5
<1>8. HasLoop(w, l, n)
  BY <1>6, <1>7 DEF HasLoop, z, T
<1>. QED
  BY <1>1, <1>2, <1>8 DEF w, n

\* Three loops, one after the other.
LEMMA ThreeLoops ==
    ASSUME NEW a, NEW b, NEW c, NEW la, NEW lb, NEW lc, IsLoop(a, la), IsLoop(b, lb), IsLoop(c, lc)
    PROVE  LET p == a \o b \o c
           IN  /\ HasLoop(p, la, 0) /\ HasLoop(p, lb, Size(la)) /\ HasLoop(p, lc, Size(la) + Size(lb))
               /\ Len(p) = Size(la) + Size(lb) + Size(lc)
<1>1. /\ a \in Seq(Ins) /\ b \in Seq(Ins) /\ c \in Seq(Ins)
      /\ Len(a) = Size(la) /\ HasLoop(a, la, 0) /\ Size(la) \in Nat /\ Size(lb) \in Nat /\ Size(lc) \in Nat
      /\ Looped(la) \in Nat /\ Len(la.tail) \in Nat /\ Looped(lb) \in Nat /\ Len(lb.tail) \in Nat
  BY DEF IsLoop
<1>. DEFINE p == a \o b
<1>2. /\ HasLoop(p, lb, Size(la)) /\ p \in Seq(Ins) /\ Len(p) = Size(la) + Size(lb)
  <2>1. a \in Seq(Ins) /\ Len(a) = Size(la)
    BY <1>1
  <2>2. HasLoop(p, lb, Len(a)) /\ p \in Seq(Ins) /\ Len(p) = Len(a) + Size(lb)
    BY <2>1, LoopAfter
  <2>. HIDE DEF p
  <2>. QED
    BY <2>1, <2>2
<1>3. HasLoop(p, la, 0)
  BY <1>1, LoopBefore
<1>. HIDE DEF p
<1>4. HasLoop(p \o c, lc, Size(la) + Size(lb)) /\ Len(p \o c) = Size(la) + Size(lb) + Size(lc)
  <2>1. HasLoop(p \o c, lc, Len(p)) /\ Len(p \o c) = Len(p) + Size(lc)
    BY <1>2, LoopAfter
  <2>. QED
    BY <1>2, <2>1
<1>5. HasLoop(p \o c, la, 0)
  BY <1>1, <1>2, <1>3, LoopBefore
<1>6. HasLoop(p \o c, lb, Size(la))
  BY <1>1, <1>2, LoopBefore
<1>. QED
  BY <1>4, <1>5, <1>6 DEF p

\* Sequences put together.
LEMMA Joined ==
    ASSUME NEW p \in Seq(Ins), NEW q \in Seq(Ins), NEW r \in Seq(Ins), Len(r) = Len(p) + Len(q),
           \A i \in 1 .. Len(p) : r[i] = p[i], \A i \in 1 .. Len(q) : r[Len(p) + i] = q[i]
    PROVE  p \o q = r
<1>1. p \o q \in Seq(Ins) /\ Len(p \o q) = Len(r)
  OBVIOUS
<1>2. ASSUME NEW i \in 1 .. Len(p) + Len(q) PROVE (p \o q)[i] = r[i]
  <2>1. CASE i <= Len(p)
    BY <2>1
  <2>2. CASE i > Len(p)
    <3>1. i - Len(p) \in 1 .. Len(q) /\ i = Len(p) + (i - Len(p))
      BY <2>2
    <3>2. r[i] = q[i - Len(p)]
      BY <3>1
    <3>. QED
      BY <2>2, <3>2, ConcatProperties
  <2>. QED
    BY <2>1, <2>2
<1>. QED
  BY <1>1, <1>2, SeqEqual

\* Literal sequences put together: the provers need each by its lengths.
LEMMA Glue11 ==
    ASSUME NEW a \in Ins, NEW b \in Ins
    PROVE  <<a>> \o <<b>> = <<a, b>>
<1>. DEFINE p == <<a>>
            q == <<b>>
            r == <<a, b>>
<1>1. p \in Seq(Ins) /\ q \in Seq(Ins) /\ r \in Seq(Ins) /\ Len(p) = 1 /\ Len(q) = 1 /\ Len(r) = 2
  OBVIOUS
<1>2. r[1] = p[1] /\ r[1 + 1] = q[1]
  OBVIOUS
<1>. HIDE DEF p, q, r
<1>3. (\A i \in 1 .. 1 : r[i] = p[i]) /\ (\A i \in 1 .. 1 : r[1 + i] = q[i])
  <2>1. (\A i \in 1 .. 1 : i \in {1}) /\ (\A i \in 1 .. 1 : i \in {1})
    OBVIOUS
  <2>. QED
    BY <1>2, <2>1
<1>4. /\ Len(r) = Len(p) + Len(q)
      /\ \A i \in 1 .. Len(p) : r[i] = p[i]
      /\ \A i \in 1 .. Len(q) : r[Len(p) + i] = q[i]
  BY <1>1, <1>3
<1>5. p \o q = r
  BY <1>1, <1>4, Joined
<1>. QED
  BY <1>5 DEF p, q, r

\* Two and one.
LEMMA Glue21 ==
    ASSUME NEW a \in Ins, NEW b \in Ins, NEW c \in Ins
    PROVE  <<a, b>> \o <<c>> = <<a, b, c>>
<1>. DEFINE p == <<a, b>>
            q == <<c>>
            r == <<a, b, c>>
<1>1. p \in Seq(Ins) /\ q \in Seq(Ins) /\ r \in Seq(Ins) /\ Len(p) = 2 /\ Len(q) = 1 /\ Len(r) = 3
  OBVIOUS
<1>2. r[1] = p[1] /\ r[2] = p[2] /\ r[2 + 1] = q[1]
  OBVIOUS
<1>. HIDE DEF p, q, r
<1>3. (\A i \in 1 .. 2 : r[i] = p[i]) /\ (\A i \in 1 .. 1 : r[2 + i] = q[i])
  <2>1. (\A i \in 1 .. 2 : i \in {1, 2}) /\ (\A i \in 1 .. 1 : i \in {1})
    OBVIOUS
  <2>. QED
    BY <1>2, <2>1
<1>4. /\ Len(r) = Len(p) + Len(q)
      /\ \A i \in 1 .. Len(p) : r[i] = p[i]
      /\ \A i \in 1 .. Len(q) : r[Len(p) + i] = q[i]
  BY <1>1, <1>3
<1>5. p \o q = r
  BY <1>1, <1>4, Joined
<1>. QED
  BY <1>5 DEF p, q, r

\* Three and one.
LEMMA Glue31 ==
    ASSUME NEW a \in Ins, NEW b \in Ins, NEW c \in Ins, NEW d \in Ins
    PROVE  <<a, b, c>> \o <<d>> = <<a, b, c, d>>
<1>. DEFINE p == <<a, b, c>>
            q == <<d>>
            r == <<a, b, c, d>>
<1>1. p \in Seq(Ins) /\ q \in Seq(Ins) /\ r \in Seq(Ins) /\ Len(p) = 3 /\ Len(q) = 1 /\ Len(r) = 4
  OBVIOUS
<1>2. r[1] = p[1] /\ r[2] = p[2] /\ r[3] = p[3] /\ r[3 + 1] = q[1]
  OBVIOUS
<1>. HIDE DEF p, q, r
<1>3. (\A i \in 1 .. 3 : r[i] = p[i]) /\ (\A i \in 1 .. 1 : r[3 + i] = q[i])
  <2>1. (\A i \in 1 .. 3 : i \in {1, 2, 3}) /\ (\A i \in 1 .. 1 : i \in {1})
    OBVIOUS
  <2>. QED
    BY <1>2, <2>1
<1>4. /\ Len(r) = Len(p) + Len(q)
      /\ \A i \in 1 .. Len(p) : r[i] = p[i]
      /\ \A i \in 1 .. Len(q) : r[Len(p) + i] = q[i]
  BY <1>1, <1>3
<1>5. p \o q = r
  BY <1>1, <1>4, Joined
<1>. QED
  BY <1>5 DEF p, q, r

\* Four and one.
LEMMA Glue41 ==
    ASSUME NEW a \in Ins, NEW b \in Ins, NEW c \in Ins, NEW d \in Ins, NEW e \in Ins
    PROVE  <<a, b, c, d>> \o <<e>> = <<a, b, c, d, e>>
<1>. DEFINE p == <<a, b, c, d>>
            q == <<e>>
            r == <<a, b, c, d, e>>
<1>1. p \in Seq(Ins) /\ q \in Seq(Ins) /\ r \in Seq(Ins) /\ Len(p) = 4 /\ Len(q) = 1 /\ Len(r) = 5
  OBVIOUS
<1>2. r[1] = p[1] /\ r[2] = p[2] /\ r[3] = p[3] /\ r[4] = p[4] /\ r[4 + 1] = q[1]
  OBVIOUS
<1>. HIDE DEF p, q, r
<1>3. (\A i \in 1 .. 4 : r[i] = p[i]) /\ (\A i \in 1 .. 1 : r[4 + i] = q[i])
  <2>1. (\A i \in 1 .. 4 : i \in {1, 2, 3, 4}) /\ (\A i \in 1 .. 1 : i \in {1})
    OBVIOUS
  <2>. QED
    BY <1>2, <2>1
<1>4. /\ Len(r) = Len(p) + Len(q)
      /\ \A i \in 1 .. Len(p) : r[i] = p[i]
      /\ \A i \in 1 .. Len(q) : r[Len(p) + i] = q[i]
  BY <1>1, <1>3
<1>5. p \o q = r
  BY <1>1, <1>4, Joined
<1>. QED
  BY <1>5 DEF p, q, r

\* Two and two.
LEMMA Glue22 ==
    ASSUME NEW a \in Ins, NEW b \in Ins, NEW c \in Ins, NEW d \in Ins
    PROVE  <<a, b>> \o <<c, d>> = <<a, b, c, d>>
<1>. DEFINE p == <<a, b>>
            q == <<c, d>>
            r == <<a, b, c, d>>
<1>1. p \in Seq(Ins) /\ q \in Seq(Ins) /\ r \in Seq(Ins) /\ Len(p) = 2 /\ Len(q) = 2 /\ Len(r) = 4
  OBVIOUS
<1>2. r[1] = p[1] /\ r[2] = p[2] /\ r[2 + 1] = q[1] /\ r[2 + 2] = q[2]
  OBVIOUS
<1>. HIDE DEF p, q, r
<1>3. (\A i \in 1 .. 2 : r[i] = p[i]) /\ (\A i \in 1 .. 2 : r[2 + i] = q[i])
  <2>1. (\A i \in 1 .. 2 : i \in {1, 2}) /\ (\A i \in 1 .. 2 : i \in {1, 2})
    OBVIOUS
  <2>. QED
    BY <1>2, <2>1
<1>4. /\ Len(r) = Len(p) + Len(q)
      /\ \A i \in 1 .. Len(p) : r[i] = p[i]
      /\ \A i \in 1 .. Len(q) : r[Len(p) + i] = q[i]
  BY <1>1, <1>3
<1>5. p \o q = r
  BY <1>1, <1>4, Joined
<1>. QED
  BY <1>5 DEF p, q, r

\* Concatenation of instructions is associative.
LEMMA Associative ==
    ASSUME NEW p \in Seq(Ins), NEW q \in Seq(Ins), NEW r \in Seq(Ins)
    PROVE  (p \o q) \o r = p \o (q \o r)
<1>. DEFINE S == Ins
<1>1. p \in Seq(S) /\ q \in Seq(S) /\ r \in Seq(S)
  OBVIOUS
<1>. HIDE DEF S
<1>. QED
  BY <1>1, ConcatAssociative

\* A loop, the averages of marshalling, those of unmarshalling, and the sums put to 0.
Printed(n, body, a, b, c, d) == Repeat(n, body) \o (<<a>> \o <<b>>) \o (<<c>> \o <<d>>)

\* A loop and the four averages that follow it, with and without a reset.
LEMMA PrintedLoop ==
    ASSUME NEW a \in Ins, NEW b \in Ins, NEW c \in Ins, NEW d \in Ins,
           NEW l, NEW n \in Nat \ {0}, NEW body \in Seq(Ins), Len(body) \in Nat \ {0},
           l.body = body, l.n = n
    PROVE  /\ l.tail = <<a, b, c, d>> => IsLoop(Printed(n, body, a, b, c, d), l)
           /\ l.tail = Append(<<a, b, c, d>>, ResetIns)
                => IsLoop(Printed(n, body, a, b, c, d) \o <<ResetIns>>, l)
<1>. DEFINE r == Repeat(n, body)
            s == <<a, b>>
            t == <<c, d>>
            u == <<ResetIns>>
<1>1. ResetIns \in Ins
  BY OddTypes
<1>2. /\ s \o t = <<a, b, c, d>> /\ <<a>> \o <<b>> = s /\ <<c>> \o <<d>> = t
      /\ (s \o t) \o u = Append(<<a, b, c, d>>, ResetIns)
  <2>1. s \o t = <<a, b, c, d>> /\ <<a>> \o <<b>> = s /\ <<c>> \o <<d>> = t
    BY Glue11, Glue22
  <2>2. <<a, b, c, d>> \in Seq(Ins)
    OBVIOUS
  <2>3. <<a, b, c, d>> \o u = Append(<<a, b, c, d>>, ResetIns)
    BY <1>1, <2>2, AppendIsConcat
  <2>. QED
    BY <2>1, <2>3
<1>3. s \in Seq(Ins) /\ t \in Seq(Ins) /\ u \in Seq(Ins) /\ s \o t \in Seq(Ins) /\ (s \o t) \o u \in Seq(Ins)
  <2>1. s \in Seq(Ins) /\ t \in Seq(Ins) /\ u \in Seq(Ins)
    BY <1>1
  <2>. HIDE DEF s, t, u
  <2>. QED
    BY <2>1, Concats
<1>. HIDE DEF s, t, u
<1>4. ASSUME NEW p \in Seq(Ins)
      PROVE  (p \o s) \o t = p \o (s \o t) /\ ((p \o s) \o t) \o u = p \o ((s \o t) \o u)
  <2>. DEFINE v == s \o t
  <2>0. s \in Seq(Ins) /\ t \in Seq(Ins)
    BY <1>3
  <2>1. (p \o s) \o t = p \o v
    BY <2>0, Associative, ZenonT(40)
  <2>2. v \in Seq(Ins) /\ u \in Seq(Ins)
    BY <1>3
  <2>. HIDE DEF v
  <2>3. (p \o v) \o u = p \o (v \o u)
    BY <2>2, Associative, ZenonT(40)
  <2>. QED
    BY <2>1, <2>3 DEF v
<1>5. ASSUME l.tail = <<a, b, c, d>> PROVE IsLoop(Printed(n, body, a, b, c, d), l)
  <2>1. IsLoop(r \o (s \o t), l) /\ r \in Seq(Ins)
    BY <1>2, <1>3, <1>5, LoopSequence
  <2>. HIDE DEF r
  <2>2. IsLoop((r \o s) \o t, l)
    BY <1>4, <2>1
  <2>. QED
    BY <1>2, <2>2 DEF r, Printed
<1>6. ASSUME l.tail = Append(<<a, b, c, d>>, ResetIns)
      PROVE  IsLoop(Printed(n, body, a, b, c, d) \o <<ResetIns>>, l)
  <2>1. IsLoop(r \o ((s \o t) \o u), l) /\ r \in Seq(Ins)
    BY <1>2, <1>3, <1>6, LoopSequence
  <2>. HIDE DEF r
  <2>2. IsLoop(((r \o s) \o t) \o u, l)
    BY <1>4, <2>1
  <2>. QED
    BY <1>2, <2>2 DEF r, u, Printed
<1>. QED
  BY <1>5, <1>6

\* The code of main is made of these loops: of a type that is marshalled,
LEMMA MarshalLaid ==
    ASSUME NEW type \in {"i32", "double", "string"}, NEW len \in Nat
    PROVE  /\ IsLoop(Marshalling(type, len), MarshalLoop(type, len, TRUE))
           /\ IsLoop(Marshalling(type, len) \o Reset, MarshalLoop(type, len, FALSE))
<1>. DEFINE wb == Op("write", "binary", type, len)
            rb == Op("read", "binary", type, len)
            wc == Op("write", "compact", type, len)
            rc == Op("read", "compact", type, len)
            m1 == Instr("measure", "binm", wb, 1)
            m2 == Instr("measure", "binu", rb, 1)
            m3 == Instr("measure", "compactm", wc, 1)
            m4 == Instr("measure", "compactu", rc, 1)
            t1 == Instr("print", "binm", wb, ITERATIONS)
            t2 == Instr("print", "compactm", wc, ITERATIONS)
            t3 == Instr("print", "binu", rb, ITERATIONS)
            t4 == Instr("print", "compactu", rc, ITERATIONS)
            b  == <<NewBufferIns, m1, m2, m3, m4>>
<1>1. {m1, m2, m3, m4, t1, t2, t3, t4, NewBufferIns} \subseteq Ins
  <2>1. {wb, rb, wc, rc} \subseteq OpSet
    BY OpType DEF Dos, Protos, Types
  <2>. HIDE DEF wb, rb, wc, rc
  <2>2. ITERATIONS \in Nat /\ 1 \in Nat
    BY BenchNumbers
  <2>3. m1 \in Ins /\ m2 \in Ins /\ m3 \in Ins /\ m4 \in Ins
    BY <2>1, <2>2, InsType DEF Whats, Totals
  <2>4. t1 \in Ins /\ t2 \in Ins /\ t3 \in Ins /\ t4 \in Ins
    BY <2>1, <2>2, InsType DEF Whats, Totals
  <2>. QED
    BY <2>3, <2>4, OddTypes
<1>2. ASSUME NEW last \in BOOLEAN, NEW l, l = MarshalLoop(type, len, last)
      PROVE  /\ l.body = b /\ l.n = ITERATIONS
             /\ l.tail = IF last THEN <<t1, t2, t3, t4>> ELSE Append(<<t1, t2, t3, t4>>, ResetIns)
  BY <1>2 DEF MarshalLoop
<1>3. WriteAndRead(type, len) = <<NewBufferIns>> \o <<m1>> \o <<m2>> \o <<m3>> \o <<m4>>
  BY DEF WriteAndRead, NewBuffer, Measure, NewBufferIns
<1>4. /\ PrintWrites(type, len) = <<t1>> \o <<t2>>
      /\ PrintReads("binu", "compactu", type, len) = <<t3>> \o <<t4>>
      /\ Reset = <<ResetIns>>
  BY DEF PrintWrites, PrintReads, Average, Reset, ResetIns
<1>. HIDE DEF m1, m2, m3, m4, t1, t2, t3, t4
<1>5. b \in Seq(Ins) /\ Len(b) = 5 /\ ITERATIONS \in Nat \ {0}
  BY <1>1, BenchNumbers
<1>6. WriteAndRead(type, len) = b
  <2>1. <<NewBufferIns>> \o <<m1>> = <<NewBufferIns, m1>>
    BY <1>1, Glue11
  <2>2. <<NewBufferIns, m1>> \o <<m2>> = <<NewBufferIns, m1, m2>>
    BY <1>1, Glue21
  <2>3. <<NewBufferIns, m1, m2>> \o <<m3>> = <<NewBufferIns, m1, m2, m3>>
    BY <1>1, Glue31
  <2>4. <<NewBufferIns, m1, m2, m3>> \o <<m4>> = b
    BY <1>1, Glue41
  <2>. QED
    BY <1>3, <2>1, <2>2, <2>3, <2>4
<1>. HIDE DEF b
<1>7. Marshalling(type, len) = Printed(ITERATIONS, b, t1, t2, t3, t4)
  BY <1>4, <1>6 DEF Marshalling, Printed
<1>8. ASSUME NEW last \in BOOLEAN
      PROVE  LET p == Printed(ITERATIONS, b, t1, t2, t3, t4)
             IN  IF last THEN IsLoop(p, MarshalLoop(type, len, last))
                 ELSE IsLoop(p \o <<ResetIns>>, MarshalLoop(type, len, last))
  <2>. DEFINE l == MarshalLoop(type, len, last)
              q == Printed(ITERATIONS, b, t1, t2, t3, t4)
  <2>1. /\ l.body = b /\ l.n = ITERATIONS
        /\ l.tail = IF last THEN <<t1, t2, t3, t4>> ELSE Append(<<t1, t2, t3, t4>>, ResetIns)
    BY <1>2
  <2>. HIDE DEF l
  <2>2. /\ l.tail = <<t1, t2, t3, t4>> => IsLoop(q, l)
        /\ l.tail = Append(<<t1, t2, t3, t4>>, ResetIns) => IsLoop(q \o <<ResetIns>>, l)
    <3>1. t1 \in Ins /\ t2 \in Ins /\ t3 \in Ins /\ t4 \in Ins
      BY <1>1
    <3>2. ITERATIONS \in Nat \ {0} /\ b \in Seq(Ins) /\ Len(b) \in Nat \ {0}
      BY <1>5
    <3>3. l.body = b /\ l.n = ITERATIONS
      BY <2>1
    <3>. QED
      BY <3>1, <3>2, <3>3, PrintedLoop
  <2>. QED
    BY <2>1, <2>2 DEF l
<1>. QED
  BY <1>4, <1>7, <1>8

\* of a complex type,
LEMMA ComplexLaid ==
    ASSUME NEW len \in Nat, NEW title \in {"complex", "string"},
           NEW binu \in {"binm", "binu"}, NEW compactu \in {"compactm", "compactu"}
    PROVE  LET p == Repeat(ITERATIONS,
                      NewBuffer \o Measure("binm", Op("write", "binary", "complex", len))
                        \o Measure("compactm", Op("write", "compact", "complex", len))
                        \o Measure("none", Op("write", "json", "complex", len)))
                     \o PrintWrites(title, len) \o PrintReads(binu, compactu, title, len)
           IN  /\ IsLoop(p, ComplexLoop(len, title, binu, compactu, TRUE))
               /\ IsLoop(p \o Reset, ComplexLoop(len, title, binu, compactu, FALSE))
<1>. DEFINE wb == Op("write", "binary", "complex", len)
            wc == Op("write", "compact", "complex", len)
            wj == Op("write", "json", "complex", len)
            tb == Op("write", "binary", title, len)
            tc == Op("write", "compact", title, len)
            rb == Op("read", "binary", title, len)
            rc == Op("read", "compact", title, len)
            m1 == Instr("measure", "binm", wb, 1)
            m2 == Instr("measure", "compactm", wc, 1)
            m3 == Instr("measure", "none", wj, 1)
            t1 == Instr("print", "binm", tb, ITERATIONS)
            t2 == Instr("print", "compactm", tc, ITERATIONS)
            t3 == Instr("print", binu, rb, ITERATIONS)
            t4 == Instr("print", compactu, rc, ITERATIONS)
            b  == <<NewBufferIns, m1, m2, m3>>
<1>1. {m1, m2, m3, t1, t2, t3, t4, NewBufferIns} \subseteq Ins
  <2>1. {wb, wc, wj, tb, tc, rb, rc} \subseteq OpSet
    BY OpType DEF Dos, Protos, Types
  <2>. HIDE DEF wb, wc, wj, tb, tc, rb, rc
  <2>2. ITERATIONS \in Nat /\ 1 \in Nat
    BY BenchNumbers
  <2>3. binu \in Totals /\ compactu \in Totals
    BY DEF Totals
  <2>4. m1 \in Ins /\ m2 \in Ins /\ m3 \in Ins
    BY <2>1, <2>2, InsType DEF Whats, Totals
  <2>5. t1 \in Ins /\ t2 \in Ins /\ t3 \in Ins /\ t4 \in Ins
    BY <2>1, <2>2, <2>3, InsType DEF Whats, Totals
  <2>. QED
    BY <2>4, <2>5, OddTypes
<1>2. ASSUME NEW last \in BOOLEAN, NEW l, l = ComplexLoop(len, title, binu, compactu, last)
      PROVE  /\ l.body = b /\ l.n = ITERATIONS
             /\ l.tail = IF last THEN <<t1, t2, t3, t4>> ELSE Append(<<t1, t2, t3, t4>>, ResetIns)
  BY <1>2 DEF ComplexLoop
<1>3. NewBuffer \o Measure("binm", wb) \o Measure("compactm", wc) \o Measure("none", wj)
        = <<NewBufferIns>> \o <<m1>> \o <<m2>> \o <<m3>>
  BY DEF NewBuffer, Measure, NewBufferIns
<1>4. /\ PrintWrites(title, len) = <<t1>> \o <<t2>>
      /\ PrintReads(binu, compactu, title, len) = <<t3>> \o <<t4>>
      /\ Reset = <<ResetIns>>
  BY DEF PrintWrites, PrintReads, Average, Reset, ResetIns
<1>. HIDE DEF m1, m2, m3, t1, t2, t3, t4
<1>5. b \in Seq(Ins) /\ Len(b) = 4 /\ ITERATIONS \in Nat \ {0}
  BY <1>1, BenchNumbers
<1>6. NewBuffer \o Measure("binm", wb) \o Measure("compactm", wc) \o Measure("none", wj) = b
  <2>1. <<NewBufferIns>> \o <<m1>> = <<NewBufferIns, m1>>
    BY <1>1, Glue11
  <2>2. <<NewBufferIns, m1>> \o <<m2>> = <<NewBufferIns, m1, m2>>
    BY <1>1, Glue21
  <2>3. <<NewBufferIns, m1, m2>> \o <<m3>> = <<NewBufferIns, m1, m2, m3>>
    BY <1>1, Glue31
  <2>. QED
    BY <1>3, <2>1, <2>2, <2>3
<1>. HIDE DEF b
<1>8. ASSUME NEW last \in BOOLEAN
      PROVE  LET p == Printed(ITERATIONS, b, t1, t2, t3, t4)
             IN  IF last THEN IsLoop(p, ComplexLoop(len, title, binu, compactu, last))
                 ELSE IsLoop(p \o <<ResetIns>>, ComplexLoop(len, title, binu, compactu, last))
  <2>. DEFINE l == ComplexLoop(len, title, binu, compactu, last)
              q == Printed(ITERATIONS, b, t1, t2, t3, t4)
  <2>1. /\ l.body = b /\ l.n = ITERATIONS
        /\ l.tail = IF last THEN <<t1, t2, t3, t4>> ELSE Append(<<t1, t2, t3, t4>>, ResetIns)
    BY <1>2
  <2>. HIDE DEF l
  <2>2. /\ l.tail = <<t1, t2, t3, t4>> => IsLoop(q, l)
        /\ l.tail = Append(<<t1, t2, t3, t4>>, ResetIns) => IsLoop(q \o <<ResetIns>>, l)
    <3>1. t1 \in Ins /\ t2 \in Ins /\ t3 \in Ins /\ t4 \in Ins
      BY <1>1
    <3>2. ITERATIONS \in Nat \ {0} /\ b \in Seq(Ins) /\ Len(b) \in Nat \ {0}
      BY <1>5
    <3>3. l.body = b /\ l.n = ITERATIONS
      BY <2>1
    <3>. QED
      BY <3>1, <3>2, <3>3, PrintedLoop
  <2>. QED
    BY <2>1, <2>2 DEF l
<1>. QED
  BY <1>4, <1>6, <1>8 DEF Printed
\* of two complex types,
LEMMA Complex2Laid == IsLoop(Complex2, Complex2Loop)
<1>. DEFINE wb == Op("write", "binary", "complex", 2)
            rb == Op("read", "binary", "complex", 2)
            wc == Op("write", "compact", "complex", 2)
            rc == Op("read", "compact", "complex", 2)
            wj == Op("write", "json", "complex", 2)
            m1 == Instr("measure", "binm", wb, 1)
            m2 == Instr("measure", "binu", rb, 1)
            m3 == Instr("measure", "compactm", wc, 1)
            m4 == Instr("measure", "none", wj, 1)
            t1 == Instr("print", "binm", wb, ITERATIONS)
            t2 == Instr("print", "compactm", wc, ITERATIONS)
            t3 == Instr("print", "binu", rb, ITERATIONS)
            t4 == Instr("print", "compactu", rc, ITERATIONS)
            b  == <<NewBufferIns, m1, m2, m3, m4>>
<1>1. {m1, m2, m3, m4, t1, t2, t3, t4, NewBufferIns} \subseteq Ins
  <2>1. {wb, rb, wc, rc, wj} \subseteq OpSet
    BY OpType DEF Dos, Protos, Types
  <2>. HIDE DEF wb, rb, wc, rc, wj
  <2>2. ITERATIONS \in Nat /\ 1 \in Nat
    BY BenchNumbers
  <2>3. m1 \in Ins /\ m2 \in Ins /\ m3 \in Ins /\ m4 \in Ins
    BY <2>1, <2>2, InsType DEF Whats, Totals
  <2>4. t1 \in Ins /\ t2 \in Ins /\ t3 \in Ins /\ t4 \in Ins
    BY <2>1, <2>2, InsType DEF Whats, Totals
  <2>. QED
    BY <2>3, <2>4, OddTypes
<1>. DEFINE l == Complex2Loop
<1>2. l.body = b /\ l.n = ITERATIONS /\ l.tail = <<t1, t2, t3, t4, ResetIns>>
  BY DEF Complex2Loop
<1>3. NewBuffer \o Measure("binm", wb) \o Measure("binu", rb) \o Measure("compactm", wc) \o Measure("none", wj)
        = <<NewBufferIns>> \o <<m1>> \o <<m2>> \o <<m3>> \o <<m4>>
  BY DEF NewBuffer, Measure, NewBufferIns
<1>4. /\ PrintWrites("complex", 2) = <<t1>> \o <<t2>>
      /\ PrintReads("binu", "compactu", "complex", 2) = <<t3>> \o <<t4>>
      /\ Reset = <<ResetIns>>
  BY DEF PrintWrites, PrintReads, Average, Reset, ResetIns
<1>. HIDE DEF l, m1, m2, m3, m4, t1, t2, t3, t4
<1>5. b \in Seq(Ins) /\ Len(b) = 5 /\ ITERATIONS \in Nat \ {0}
  BY <1>1, BenchNumbers
<1>6. NewBuffer \o Measure("binm", wb) \o Measure("binu", rb) \o Measure("compactm", wc) \o Measure("none", wj) = b
  <2>1. <<NewBufferIns>> \o <<m1>> = <<NewBufferIns, m1>>
    BY <1>1, Glue11
  <2>2. <<NewBufferIns, m1>> \o <<m2>> = <<NewBufferIns, m1, m2>>
    BY <1>1, Glue21
  <2>3. <<NewBufferIns, m1, m2>> \o <<m3>> = <<NewBufferIns, m1, m2, m3>>
    BY <1>1, Glue31
  <2>4. <<NewBufferIns, m1, m2, m3>> \o <<m4>> = b
    BY <1>1, Glue41
  <2>. QED
    BY <1>3, <2>1, <2>2, <2>3, <2>4
<1>7. l.tail = Append(<<t1, t2, t3, t4>>, ResetIns)
  <2>1. <<t1, t2, t3, t4>> \o <<ResetIns>> = <<t1, t2, t3, t4, ResetIns>>
    BY <1>1, OddTypes, Glue41
  <2>2. <<t1, t2, t3, t4>> \in Seq(Ins)
    BY <1>1
  <2>3. Append(<<t1, t2, t3, t4>>, ResetIns) = <<t1, t2, t3, t4>> \o <<ResetIns>>
    BY <2>2, OddTypes, AppendIsConcat
  <2>. QED
    BY <1>2, <2>1, <2>3
<1>. HIDE DEF b
<1>8. IsLoop(Printed(ITERATIONS, b, t1, t2, t3, t4) \o <<ResetIns>>, l)
  <2>1. t1 \in Ins /\ t2 \in Ins /\ t3 \in Ins /\ t4 \in Ins
    BY <1>1
  <2>2. ITERATIONS \in Nat \ {0} /\ b \in Seq(Ins) /\ Len(b) \in Nat \ {0}
    BY <1>5
  <2>3. l.body = b /\ l.n = ITERATIONS
    BY <1>2
  <2>. QED
    BY <1>7, <2>1, <2>2, <2>3, PrintedLoop
<1>9. Complex2 = Printed(ITERATIONS, b, t1, t2, t3, t4) \o <<ResetIns>>
  BY <1>4, <1>6 DEF Complex2, Printed
<1>. QED
  BY <1>8, <1>9 DEF l

\* of a call,
LEMMA RoundLaid ==
    ASSUME NEW op \in OpSet, NEW n \in Nat \ {0}
    PROVE  IsLoop(RoundTrips(op, n), RoundLoop(op, n)) /\ Size(RoundLoop(op, n)) = n + 2
<1>. DEFINE m == Instr("measure", "time_sum", op, 1)
            t == Instr("print", "time_sum", op, n)
            l == RoundLoop(op, n)
            r == Repeat(n, <<m>>)
<1>1. m \in Ins /\ t \in Ins
  BY InsType DEF Whats, Totals
<1>2. l.n = n /\ l.body = <<m>> /\ l.tail = <<t, ResetIns>> /\ Len(l.body) = 1 /\ Len(l.tail) = 2
  BY DEF RoundLoop
<1>3. Measure("time_sum", op) = <<m>> /\ Average("time_sum", op, n) = <<t>> /\ Reset = <<ResetIns>>
  BY DEF Measure, Average, Reset, ResetIns
<1>. HIDE DEF m, t, l
<1>4. l.body \in Seq(Ins) /\ l.tail \in Seq(Ins) /\ <<t>> \in Seq(Ins) /\ <<ResetIns>> \in Seq(Ins)
  BY <1>1, <1>2, OddTypes
<1>5. <<t>> \o <<ResetIns>> = <<t, ResetIns>>
  BY <1>1, OddTypes, Glue11
<1>6. IsLoop(Repeat(l.n, l.body) \o l.tail, l) /\ Repeat(l.n, l.body) \in Seq(Ins)
  <2>1. l.n \in Nat \ {0} /\ Len(l.body) \in Nat \ {0} /\ l.body \in Seq(Ins) /\ l.tail \in Seq(Ins)
    BY <1>2, <1>4
  <2>. QED
    BY <2>1, LoopSequence
<1>7. IsLoop(r \o (<<t>> \o <<ResetIns>>), l) /\ r \in Seq(Ins)
  BY <1>2, <1>5, <1>6
<1>. HIDE DEF r
<1>8. (r \o <<t>>) \o <<ResetIns>> = r \o (<<t>> \o <<ResetIns>>)
  BY <1>4, <1>7, Associative
<1>9. RoundTrips(op, n) = (r \o <<t>>) \o <<ResetIns>>
  BY <1>3 DEF RoundTrips, r
<1>10. Size(l) = n + 2
  <2>1. n * 1 = n
    OBVIOUS
  <2>. QED
    BY <1>2, <2>1 DEF Size, Looped
<1>. QED
  BY <1>7, <1>8, <1>9, <1>10 DEF l

\* and of a call of each size in turn.
LEMMA RoundsLaid ==
    ASSUME NEW ops \in Seq(OpSet), NEW n \in Nat \ {0}, NEW k \in 1 .. Len(ops)
    PROVE  /\ HasLoop(Rounds(ops, n), RoundLoop(ops[k], n), (k - 1) * (n + 2))
           /\ Len(Rounds(ops, n)) = Len(ops) * (n + 2)
           /\ Size(RoundLoop(ops[k], n)) = n + 2
<1>. DEFINE d == n + 2
            s == (k - 1) * d
            p == Rounds(ops, n)
            l == RoundLoop(ops[k], n)
            w == RoundTrips(ops[k], n)
            N == Len(ops) * d
            F(i) == RoundTrips(ops[((i - 1) \div d) + 1], n)[((i - 1) % d) + 1]
<1>1. d \in Nat \ {0} /\ k \in Nat \ {0} /\ Len(ops) \in Nat /\ k <= Len(ops) /\ ops[k] \in OpSet
  OBVIOUS
<1>2. p = [i \in 1 .. N |-> F(i)]
  BY DEF Rounds
<1>3. IsLoop(w, l) /\ Size(l) = d
  BY <1>1, RoundLaid
<1>. HIDE DEF d
<1>4. s \in Nat /\ N \in Nat
  BY <1>1
<1>5. s + d <= N
  <2>1. k * d <= Len(ops) * d
    BY <1>1, TimesMonotone
  <2>2. k * d = (k - 1) * d + d
    BY <1>1
  <2>. QED
    BY <2>1, <2>2
<1>. DEFINE o == ops[k]
<1>6. ASSUME NEW i \in 1 .. d PROVE F(s + i) = w[i]
  <2>1. i - 1 \in 0 .. d - 1 /\ k - 1 \in Int
    BY <1>1
  <2>2. ((k - 1) * d + (i - 1)) \div d = k - 1 /\ ((k - 1) * d + (i - 1)) % d = i - 1
    BY <1>1, <2>1, OneQuotient
  <2>3. (s + i) - 1 = (k - 1) * d + (i - 1)
    BY <1>1, <1>4
  <2>4. (k - 1) + 1 = k /\ (i - 1) + 1 = i
    BY <1>1
  <2>. HIDE DEF s
  <2>. QED
    BY <2>2, <2>3, <2>4
<1>. HIDE DEF F, N, p, s
<1>7. Len(p) = N
  BY <1>2, <1>4
<1>8. ASSUME NEW i \in 1 .. d PROVE p[s + i] = w[i]
  <2>1. s + i \in 1 .. N
    BY <1>1, <1>4, <1>5
  <2>. QED
    BY <1>2, <1>6, <2>1
<1>. HIDE DEF w, l
<1>9. Looped(l) \in Nat /\ Len(l.tail) \in Nat /\ d = Looped(l) + Len(l.tail) /\ HasLoop(w, l, 0)
  BY <1>3 DEF IsLoop, Size
<1>10. ASSUME NEW i \in 1 .. Looped(l) PROVE p[s + i] = l.body[((i - 1) % Len(l.body)) + 1]
  <2>1. i \in 1 .. d /\ 0 + i = i
    BY <1>9
  <2>. QED
    BY <1>8, <1>9, <2>1 DEF HasLoop
<1>11. ASSUME NEW q \in 1 .. Len(l.tail) PROVE p[s + Looped(l) + q] = l.tail[q]
  <2>. DEFINE i == Looped(l) + q
  <2>1. i \in 1 .. d /\ 0 + Looped(l) + q = i /\ s + Looped(l) + q = s + i
    BY <1>4, <1>9
  <2>2. w[i] = l.tail[q]
    BY <1>9, <2>1 DEF HasLoop
  <2>. QED
    BY <1>8, <2>1, <2>2
<1>12. HasLoop(p, l, s)
  BY <1>10, <1>11 DEF HasLoop
<1>. QED
  BY <1>3, <1>7, <1>12 DEF p, l, s, d, N
\* The k-th loop of the case c is where StartOf says; what is before it is whole loops, and the
\* next one comes after a reset, or there is none.
Laid(c, k) ==
    LET l == LoopAt(c, k)
        s == StartOf(c, k)
    IN  /\ s \in Nat /\ Looped(l) \in Nat /\ Len(l.tail) \in Nat \ {0}
        /\ GoodBody(l) /\ GoodTail(c, l) /\ HasLoop(Cases[c], l, s)
        /\ IF k = Loops(c) THEN Len(Cases[c]) = s + Size(l)
           ELSE StartOf(c, k + 1) = s + Size(l) /\ l.tail[Len(l.tail)] = ResetIns

\* A loop that is where StartOf says, in a case that is long enough for it, is laid.
LEMMA LaidOut ==
    ASSUME NEW c, NEW k, NEW l, NEW s \in Nat, LoopAt(c, k) = l, StartOf(c, k) = s,
           Looped(l) \in Nat, Len(l.tail) \in Nat \ {0},
           GoodBody(l), GoodTail(c, l), HasLoop(Cases[c], l, s),
           k = Loops(c) => Len(Cases[c]) = s + Size(l),
           k # Loops(c) => StartOf(c, k + 1) = s + Size(l) /\ l.tail[Len(l.tail)] = ResetIns
    PROVE  Laid(c, k)
BY DEF Laid

\* Cases 1 and 2, of integers and of doubles, have one loop.
LEMMA MarshalCases ==
    ASSUME NEW c \in {1, 2}
    PROVE  Loops(c) = 1 /\ Laid(c, 1)
<1>1. ASSUME NEW type \in {"i32", "double"}, LoopAt(c, 1) = MarshalLoop(type, 0, TRUE),
             Cases[c] = Marshalling(type, 0)
      PROVE  Laid(c, 1)
  <2>. DEFINE l == LoopAt(c, 1)
  <2>1. l = MarshalLoop(type, 0, TRUE)
    BY <1>1
  <2>2. IsLoop(Cases[c], l)
    BY <1>1, MarshalLaid
  <2>. HIDE DEF l
  <2>3. GoodBody(l) /\ GoodTail(c, l) /\ Len(l.tail) = 4
    <3>1. c # 4 /\ TRUE \in BOOLEAN /\ type \in {"i32", "double", "string"}
      OBVIOUS
    <3>. QED
      BY <2>1, <3>1, MarshalGood, ZenonT(40)
  <2>4. Looped(l) \in Nat /\ Size(l) \in Nat /\ HasLoop(Cases[c], l, 0) /\ Len(Cases[c]) = 0 + Size(l)
    BY <2>2 DEF IsLoop
  <2>5. StartOf(c, 1) = 0 /\ Loops(c) = 1 /\ LoopAt(c, 1) = l
    BY DEF StartOf, Loops, l
  <2>6. Len(l.tail) \in Nat \ {0} /\ 0 \in Nat
    BY <2>3
  <2>. QED
    BY <2>3, <2>4, <2>5, <2>6, LaidOut
<1>2. CASE c = 1
  <2>1. LoopAt(c, 1) = MarshalLoop("i32", 0, TRUE) /\ Cases[c] = Marshalling("i32", 0) /\ Loops(c) = 1
    BY <1>2 DEF LoopAt, Cases, MarshalInt, Loops
  <2>. QED
    BY <1>1, <2>1
<1>3. CASE c = 2
  <2>1. LoopAt(c, 1) = MarshalLoop("double", 0, TRUE) /\ Cases[c] = Marshalling("double", 0) /\ Loops(c) = 1
    BY <1>3 DEF LoopAt, Cases, MarshalDouble, Loops
  <2>. QED
    BY <1>1, <2>1
<1>. QED
  BY <1>2, <1>3

\* Cases of three loops.
LEMMA ThreeLaid ==
    ASSUME NEW c \in {3, 4}, NEW a1, NEW a2, NEW a3, Cases[c] = a1 \o a2 \o a3,
           IsLoop(a1, LoopAt(c, 1)), IsLoop(a2, LoopAt(c, 2)), IsLoop(a3, LoopAt(c, 3)),
           \A k \in 1 .. 3 : GoodBody(LoopAt(c, k)) /\ GoodTail(c, LoopAt(c, k)),
           \A k \in 1 .. 3 : Len(LoopAt(c, k).tail) = IF k = 3 THEN 4 ELSE 5,
           \A k \in 1 .. 2 : LoopAt(c, k).tail[5] = ResetIns
    PROVE  Loops(c) = 3 /\ \A k \in 1 .. 3 : Laid(c, k)
<1>. DEFINE la == LoopAt(c, 1)
            lb == LoopAt(c, 2)
            lc == LoopAt(c, 3)
<1>1. /\ Loops(c) = 3
      /\ StartOf(c, 1) = 0 /\ StartOf(c, 2) = Size(la) /\ StartOf(c, 3) = Size(la) + Size(lb)
  BY DEF Loops, StartOf
<1>2. /\ HasLoop(Cases[c], la, 0) /\ HasLoop(Cases[c], lb, Size(la))
      /\ HasLoop(Cases[c], lc, Size(la) + Size(lb))
      /\ Len(Cases[c]) = Size(la) + Size(lb) + Size(lc)
  <2>1. IsLoop(a1, la) /\ IsLoop(a2, lb) /\ IsLoop(a3, lc) /\ Cases[c] = a1 \o a2 \o a3
    OBVIOUS
  <2>. HIDE DEF la, lb, lc
  <2>2. LET p == a1 \o a2 \o a3
        IN  /\ HasLoop(p, la, 0) /\ HasLoop(p, lb, Size(la)) /\ HasLoop(p, lc, Size(la) + Size(lb))
            /\ Len(p) = Size(la) + Size(lb) + Size(lc)
    BY <2>1, ThreeLoops
  <2>. QED
    BY <2>1, <2>2
<1>3. /\ Looped(la) \in Nat /\ Looped(lb) \in Nat /\ Looped(lc) \in Nat
      /\ Size(la) \in Nat /\ Size(lb) \in Nat /\ Size(lc) \in Nat
  BY DEF IsLoop
<1>4. /\ Len(la.tail) = 5 /\ Len(lb.tail) = 5 /\ Len(lc.tail) = 4
      /\ la.tail[5] = ResetIns /\ lb.tail[5] = ResetIns
      /\ GoodBody(la) /\ GoodBody(lb) /\ GoodBody(lc)
      /\ GoodTail(c, la) /\ GoodTail(c, lb) /\ GoodTail(c, lc)
  OBVIOUS
<1>. DEFINE s2 == Size(la)
            s3 == Size(la) + Size(lb)
<1>5. /\ LoopAt(c, 1) = la /\ LoopAt(c, 2) = lb /\ LoopAt(c, 3) = lc
      /\ StartOf(c, 1) = 0 /\ StartOf(c, 2) = s2 /\ StartOf(c, 3) = s3
      /\ s2 \in Nat /\ s3 \in Nat /\ s2 = 0 + Size(la) /\ s3 = s2 + Size(lb)
      /\ StartOf(c, 1 + 1) = s2 /\ StartOf(c, 2 + 1) = s3 /\ Loops(c) = 3
      /\ Len(Cases[c]) = s3 + Size(lc)
      /\ HasLoop(Cases[c], la, 0) /\ HasLoop(Cases[c], lb, s2) /\ HasLoop(Cases[c], lc, s3)
  BY <1>1, <1>2, <1>3
<1>. HIDE DEF la, lb, lc, s2, s3
<1>6. Len(la.tail) \in Nat \ {0} /\ Len(lb.tail) \in Nat \ {0} /\ Len(lc.tail) \in Nat \ {0}
      /\ la.tail[Len(la.tail)] = ResetIns /\ lb.tail[Len(lb.tail)] = ResetIns
  BY <1>4
<1>7. Laid(c, 1) /\ Laid(c, 2) /\ Laid(c, 3)
  <2>1. 1 # 3 /\ 2 # 3 /\ 0 \in Nat
    OBVIOUS
  <2>2. Laid(c, 1)
    BY <1>3, <1>4, <1>5, <1>6, <2>1, LaidOut
  <2>3. Laid(c, 2)
    BY <1>3, <1>4, <1>5, <1>6, <2>1, LaidOut
  <2>4. Laid(c, 3)
    BY <1>3, <1>4, <1>5, <1>6, LaidOut
  <2>. QED
    BY <2>2, <2>3, <2>4
<1>8. \A k \in 1 .. 3 : k \in {1, 2, 3}
  OBVIOUS
<1>. QED
  BY <1>5, <1>7, <1>8

\* Case 3, of strings of three lengths.
LEMMA StringCase == Loops(3) = 3 /\ \A k \in 1 .. 3 : Laid(3, k)
<1>1. \A k \in 1 .. 3 : LoopAt(3, k) = MarshalLoop("string", k, k = 3)
  BY DEF LoopAt
<1>2. Cases[3] = String1 \o String2 \o String3
  BY DEF Cases
<1>3. /\ IsLoop(String1, LoopAt(3, 1)) /\ IsLoop(String2, LoopAt(3, 2)) /\ IsLoop(String3, LoopAt(3, 3))
  <2>1. /\ LoopAt(3, 1) = MarshalLoop("string", 1, FALSE) /\ LoopAt(3, 2) = MarshalLoop("string", 2, FALSE)
        /\ LoopAt(3, 3) = MarshalLoop("string", 3, TRUE)
    <3>1. 1 \in 1 .. 3 /\ 2 \in 1 .. 3 /\ 3 \in 1 .. 3 /\ (1 = 3) = FALSE /\ (2 = 3) = FALSE /\ (3 = 3) = TRUE
      OBVIOUS
    <3>. QED
      BY <1>1, <3>1
  <2>2. IsLoop(String1, MarshalLoop("string", 1, FALSE))
    BY MarshalLaid DEF String1
  <2>3. IsLoop(String2, MarshalLoop("string", 2, FALSE))
    BY MarshalLaid DEF String2
  <2>4. IsLoop(String3, MarshalLoop("string", 3, TRUE))
    BY MarshalLaid DEF String3
  <2>. QED
    BY <2>1, <2>2, <2>3, <2>4
<1>4. ASSUME NEW k \in 1 .. 3
      PROVE  /\ GoodBody(LoopAt(3, k)) /\ GoodTail(3, LoopAt(3, k))
             /\ Len(LoopAt(3, k).tail) = IF k = 3 THEN 4 ELSE 5
             /\ k \in 1 .. 2 => LoopAt(3, k).tail[5] = ResetIns
  <2>. DEFINE last == k = 3
              l    == MarshalLoop("string", k, last)
  <2>1. last \in BOOLEAN /\ LoopAt(3, k) = l /\ (k \in 1 .. 2 => ~last)
    BY <1>1
  <2>. HIDE DEF last
  <2>2. GoodBody(l) /\ GoodTail(3, l) /\ Len(l.tail) = (IF last THEN 4 ELSE 5) /\ (~last => l.tail[5] = ResetIns)
    BY <2>1, MarshalGood
  <2>. HIDE DEF l
  <2>. QED
    BY <2>1, <2>2 DEF last
<1>5. /\ \A k \in 1 .. 3 : GoodBody(LoopAt(3, k)) /\ GoodTail(3, LoopAt(3, k))
      /\ \A k \in 1 .. 3 : Len(LoopAt(3, k).tail) = IF k = 3 THEN 4 ELSE 5
      /\ \A k \in 1 .. 2 : LoopAt(3, k).tail[5] = ResetIns
  <2>1. 1 .. 2 \subseteq 1 .. 3
    OBVIOUS
  <2>. QED
    BY <1>4, <2>1
<1>. QED
  BY <1>2, <1>3, <1>5, ThreeLaid

\* Case 4, of complex types.
LEMMA ComplexCase == Loops(4) = 3 /\ \A k \in 1 .. 3 : Laid(4, k)
<1>1. /\ LoopAt(4, 1) = ComplexLoop(1, "complex", "binm", "compactm", FALSE)
      /\ LoopAt(4, 2) = Complex2Loop
      /\ LoopAt(4, 3) = ComplexLoop(3, "string", "binu", "compactu", TRUE)
  BY DEF LoopAt
<1>2. Cases[4] = Complex1 \o Complex2 \o Complex3
  BY DEF Cases
<1>3. IsLoop(Complex1, LoopAt(4, 1))
  BY <1>1, ComplexLaid DEF Complex1
<1>4. IsLoop(Complex2, LoopAt(4, 2))
  BY <1>1, Complex2Laid
<1>5. IsLoop(Complex3, LoopAt(4, 3))
  BY <1>1, ComplexLaid DEF Complex3
<1>6. /\ GoodBody(LoopAt(4, 1)) /\ GoodTail(4, LoopAt(4, 1)) /\ Len(LoopAt(4, 1).tail) = 5
      /\ LoopAt(4, 1).tail[5] = ResetIns
  <2>. DEFINE l == ComplexLoop(1, "complex", "binm", "compactm", FALSE)
  <2>1. GoodBody(l) /\ GoodTail(4, l) /\ Len(l.tail) = (IF FALSE THEN 4 ELSE 5) /\ (~FALSE => l.tail[5] = ResetIns)
    <3>1. 1 \in Nat /\ 1 # 2 /\ FALSE \in BOOLEAN
      OBVIOUS
    <3>2. GoodBody(l) /\ GoodTail(4, l)
      BY <3>1, ComplexGood
    <3>3. Len(l.tail) = IF FALSE THEN 4 ELSE 5
      BY <3>1, ComplexGood
    <3>4. ~FALSE => l.tail[5] = ResetIns
      BY <3>1, ComplexGood
    <3>. QED
      BY <3>2, <3>3, <3>4
  <2>. HIDE DEF l
  <2>. QED
    BY <1>1, <2>1 DEF l
<1>7. /\ GoodBody(LoopAt(4, 2)) /\ GoodTail(4, LoopAt(4, 2)) /\ Len(LoopAt(4, 2).tail) = 5
      /\ LoopAt(4, 2).tail[5] = ResetIns
  BY <1>1, Complex2Good
<1>8. GoodBody(LoopAt(4, 3)) /\ GoodTail(4, LoopAt(4, 3)) /\ Len(LoopAt(4, 3).tail) = 4
  <2>. DEFINE l == ComplexLoop(3, "string", "binu", "compactu", TRUE)
  <2>1. GoodBody(l) /\ GoodTail(4, l) /\ Len(l.tail) = (IF TRUE THEN 4 ELSE 5)
    BY ComplexGood
  <2>. HIDE DEF l
  <2>. QED
    BY <1>1, <2>1 DEF l
<1>9. (\A k \in 1 .. 3 : k \in {1, 2, 3}) /\ (\A k \in 1 .. 2 : k \in {1, 2})
  OBVIOUS
<1>10. /\ \A k \in 1 .. 3 : GoodBody(LoopAt(4, k)) /\ GoodTail(4, LoopAt(4, k))
       /\ \A k \in 1 .. 3 : Len(LoopAt(4, k).tail) = IF k = 3 THEN 4 ELSE 5
       /\ \A k \in 1 .. 2 : LoopAt(4, k).tail[5] = ResetIns
  BY <1>6, <1>7, <1>8, <1>9
<1>. QED
  BY <1>2, <1>3, <1>4, <1>5, <1>10, ThreeLaid

\* The calls of cases 5 to 8.
LEMMA CallsType ==
    ASSUME NEW c \in 5 .. 8
    PROVE  /\ Calls(c) \in Seq(OpSet) /\ Len(Calls(c)) \in Nat \ {0} /\ Called(c) \in Nat \ {0}
           /\ \A k \in 1 .. Len(Calls(c)) : Calls(c)[k].do = "call"
           /\ Cases[c] = Rounds(Calls(c), Called(c))
<1>1. ASSUME NEW type \in Types, NEW n \in Nat \ {0}
      PROVE  /\ OfSizes(type, n) \in Seq(OpSet) /\ Len(OfSizes(type, n)) = n
             /\ \A k \in 1 .. n : OfSizes(type, n)[k].do = "call"
  <2>1. \A k \in 1 .. n : CallOp(type, k) \in OpSet /\ CallOp(type, k).do = "call"
    BY OpType, OpFields DEF CallOp, Dos, Protos
  <2>2. OfSizes(type, n) = [k \in 1 .. n |-> CallOp(type, k)]
    BY DEF OfSizes
  <2>3. OfSizes(type, n) \in [1 .. n -> OpSet]
    BY <2>1, <2>2
  <2>. QED
    BY <2>1, <2>2, <2>3
<1>2. CASE c = 5
  <2>. DEFINE a1 == CallOp("i32", 0)
              a2 == CallOp("double", 0)
              a3 == CallOp("string", 1)
              a4 == CallOp("string", 2)
              a5 == CallOp("string", 3)
              a6 == CallOp("complex", 1)
              a7 == CallOp("complex", 2)
              a8 == CallOp("complex", 3)
              s  == <<a1, a2, a3, a4, a5, a6, a7, a8>>
  <2>1. \A type \in Types, n \in Nat : CallOp(type, n) \in OpSet /\ CallOp(type, n).do = "call"
    BY OpType, OpFields DEF CallOp, Dos, Protos
  <2>2. {a1, a2, a3, a4, a5, a6, a7, a8} \subseteq OpSet
    BY <2>1 DEF Types
  <2>3. /\ a1.do = "call" /\ a2.do = "call" /\ a3.do = "call" /\ a4.do = "call"
        /\ a5.do = "call" /\ a6.do = "call" /\ a7.do = "call" /\ a8.do = "call"
    BY <2>1 DEF Types
  <2>4. Calls(c) = s /\ Called(c) = ITERATIONS /\ Cases[c] = Rounds(s, ITERATIONS)
    BY <1>2 DEF Calls, Called, Cases, SmallMessages
  <2>. HIDE DEF a1, a2, a3, a4, a5, a6, a7, a8
  <2>5. s \in Seq(OpSet) /\ Len(s) = 8
    BY <2>2
  <2>6. \A k \in 1 .. 8 : k \in {1, 2, 3, 4, 5, 6, 7, 8}
    OBVIOUS
  <2>7. \A k \in 1 .. 8 : s[k].do = "call"
    BY <2>3, <2>6
  <2>. HIDE DEF s
  <2>. QED
    BY <2>4, <2>5, <2>7, BenchNumbers
<1>3. CASE c = 6
  <2>1. Calls(c) = OfSizes("string", Sizes) /\ Called(c) = FewIterations /\ Cases[c] = LargeMessages
    BY <1>3 DEF Calls, Called, Cases
  <2>. QED
    BY <1>1, <2>1, BenchNumbers DEF LargeMessages, Types
<1>4. CASE c = 7
  <2>1. Calls(c) = OfSizes("stream", Sizes) /\ Called(c) = ITERATIONS /\ Cases[c] = Streaming
    BY <1>4 DEF Calls, Called, Cases
  <2>. QED
    BY <1>1, <2>1, BenchNumbers DEF Streaming, Types
<1>5. CASE c = 8
  <2>1. Calls(c) = OfSizes("stream", BigSizes) /\ Called(c) = FewerIterations /\ Cases[c] = Bandwidth
    BY <1>5 DEF Calls, Called, Cases
  <2>. QED
    BY <1>1, <2>1, BenchNumbers DEF Bandwidth, Types
<1>6. c \in {5, 6, 7, 8}
  OBVIOUS
<1>. QED
  BY <1>2, <1>3, <1>4, <1>5, <1>6

\* Cases 5 to 8, of a call of each size, have as many loops as sizes.
LEMMA CallCases ==
    ASSUME NEW c \in 5 .. 8
    PROVE  Loops(c) \in Nat \ {0} /\ \A k \in 1 .. Loops(c) : Laid(c, k)
<1>. DEFINE ops == Calls(c)
            n   == Called(c)
<1>1. /\ ops \in Seq(OpSet) /\ Len(ops) \in Nat \ {0} /\ n \in Nat \ {0}
      /\ \A k \in 1 .. Len(ops) : ops[k].do = "call"
      /\ Cases[c] = Rounds(ops, n)
  BY CallsType
<1>2. Loops(c) = Len(ops)
  BY DEF Loops
<1>3. \A k \in 1 .. Len(ops) : LoopAt(c, k) = RoundLoop(ops[k], n)
  BY DEF LoopAt
<1>4. \A k \in Int : StartOf(c, k) = (k - 1) * (n + 2)
  BY DEF StartOf
<1>. HIDE DEF ops, n
<1>5. ASSUME NEW k \in 1 .. Len(ops) PROVE Laid(c, k)
  <2>. DEFINE l == RoundLoop(ops[k], n)
              d == n + 2
              s == (k - 1) * d
  <2>1. ops[k] \in OpSet /\ ops[k].do = "call" /\ c # 4
    BY <1>1
  <2>2. GoodBody(l) /\ GoodTail(c, l) /\ Len(l.tail) = 2 /\ l.tail[2] = ResetIns
    BY <1>1, <2>1, RoundGood
  <2>3. HasLoop(Cases[c], l, s) /\ Len(Cases[c]) = Len(ops) * d /\ Size(l) = d
    BY <1>1, RoundsLaid
  <2>4. Looped(l) \in Nat
    BY <1>1, <2>1, RoundLaid DEF IsLoop
  <2>5. d \in Nat /\ s \in Nat
    <3>1. n \in Nat /\ k - 1 \in Nat
      BY <1>1
    <3>2. d \in Nat
      BY <3>1
    <3>. HIDE DEF d
    <3>. QED
      BY <3>1, <3>2
  <2>. HIDE DEF d
  <2>6. k * d = s + d /\ ((k + 1) - 1) * d = k * d
    BY <1>1, <2>5
  <2>7. LoopAt(c, k) = l /\ StartOf(c, k) = s /\ StartOf(c, k + 1) = k * d
    BY <1>3, <1>4, <2>6 DEF d
  <2>. HIDE DEF l, s
  <2>8. k = Loops(c) => Len(Cases[c]) = s + Size(l)
    BY <1>2, <2>3, <2>6
  <2>9. StartOf(c, k + 1) = s + Size(l) /\ l.tail[Len(l.tail)] = ResetIns /\ Len(l.tail) \in Nat \ {0}
    BY <2>2, <2>3, <2>6, <2>7
  <2>10. HasLoop(Cases[c], l, s) /\ s \in Nat
    BY <2>3, <2>5
  <2>. QED
    BY <2>2, <2>4, <2>7, <2>8, <2>9, <2>10, LaidOut
<1>. QED
  BY <1>1, <1>2, <1>5

\* Where each loop of each case is ...
LEMMA Layout ==
    ASSUME NEW c \in 1 .. Len(Cases)
    PROVE  c \in 1 .. 8 /\ Loops(c) \in Nat \ {0} /\ \A k \in 1 .. Loops(c) : Laid(c, k)
<1>1. Len(Cases) = 8
  BY DEF Cases
<1>2. c \in {1, 2} \/ c = 3 \/ c = 4 \/ c \in 5 .. 8
  BY <1>1
<1>3. CASE c \in {1, 2}
  <2>1. Loops(c) = 1 /\ Laid(c, 1)
    BY <1>3, MarshalCases
  <2>2. \A k \in 1 .. 1 : k = 1
    OBVIOUS
  <2>. QED
    BY <1>1, <2>1, <2>2
<1>4. CASE c = 3
  BY <1>1, <1>4, StringCase
<1>5. CASE c = 4
  BY <1>1, <1>5, ComplexCase
<1>6. CASE c \in 5 .. 8
  BY <1>1, <1>6, CallCases
<1>. QED
  BY <1>2, <1>3, <1>4, <1>5, <1>6
(***************************************************************************)
(* The steps of the program                                                *)
(***************************************************************************)
LoopFacts(c, k, l, s) ==
    /\ k \in Nat /\ s \in Nat /\ Looped(l) \in Nat /\ Len(l.tail) \in Nat \ {0}
    /\ Looped(l) = l.n * Len(l.body) /\ Size(l) = Looped(l) + Len(l.tail)
    /\ l.n \in Nat \ {0} /\ Len(l.body) \in Nat \ {0}
    /\ GoodBody(l) /\ GoodTail(c, l) /\ HasLoop(Cases[c], l, s)
    /\ k = Loops(c) => Len(Cases[c]) = s + Size(l)
    /\ k # Loops(c) =>
         StartOf(c, k + 1) = s + Size(l) /\ l.tail[Len(l.tail)] = ResetIns /\ k + 1 \in 1 .. Loops(c)

\* ... and what it is then.
LEMMA LaidFacts ==
    ASSUME NEW c \in 1 .. Len(Cases), NEW k \in 1 .. Loops(c)
    PROVE  LoopFacts(c, k, LoopAt(c, k), StartOf(c, k))
<1>1. Laid(c, k) /\ Loops(c) \in Nat
  BY Layout
<1>2. (k # Loops(c) => k + 1 \in 1 .. Loops(c)) /\ k \in Nat
  BY <1>1
<1>. DEFINE l == LoopAt(c, k)
            s == StartOf(c, k)
<1>3. /\ s \in Nat /\ Looped(l) \in Nat /\ Len(l.tail) \in Nat \ {0}
      /\ GoodBody(l) /\ GoodTail(c, l) /\ HasLoop(Cases[c], l, s)
      /\ IF k = Loops(c) THEN Len(Cases[c]) = s + Size(l)
         ELSE StartOf(c, k + 1) = s + Size(l) /\ l.tail[Len(l.tail)] = ResetIns
  BY <1>1 DEF Laid
<1>. HIDE DEF l, s
<1>4. l.n \in Nat \ {0} /\ Len(l.body) \in {1, 4, 5}
  BY <1>3 DEF GoodBody
<1>. DEFINE m == Len(l.body)
<1>. HIDE DEF m
<1>5. m \in Nat \ {0}
  <2>1. m \in {1, 4, 5}
    BY <1>4 DEF m
  <2>. QED
    BY <2>1
<1>6. Looped(l) = l.n * Len(l.body) /\ Size(l) = Looped(l) + Len(l.tail)
  BY DEF Looped, Size
<1>7. LoopFacts(c, k, l, s)
  BY <1>2, <1>3, <1>4, <1>5, <1>6 DEF LoopFacts, m
<1>. QED
  BY <1>7 DEF l, s

\* A case has some length and a loop.
LEMMA CodeLength == ASSUME NEW c \in 1 .. Len(Cases) PROVE Len(Cases[c]) \in Nat /\ 1 \in 1 .. Loops(c)
<1>. DEFINE k == Loops(c)
            l == LoopAt(c, k)
            s == StartOf(c, k)
<1>1. k \in 1 .. Loops(c) /\ 1 \in 1 .. Loops(c)
  BY Layout
<1>2. LoopFacts(c, k, l, s)
  BY <1>1, LaidFacts
<1>. HIDE DEF l, s
<1>3. s \in Nat /\ Looped(l) \in Nat /\ Len(l.tail) \in Nat /\ Size(l) = Looped(l) + Len(l.tail)
      /\ Len(Cases[c]) = s + Size(l)
  BY <1>2 DEF LoopFacts
<1>. QED
  BY <1>1, <1>3

\* Every case begins with a loop.
LEMMA BenchBegins ==
    ASSUME NEW c \in 1 .. Len(Cases), NEW b, NEW k \in 1 .. Loops(c)
    PROVE  Place(c, k, StartOf(c, k) + 1, [t \in Totals |-> [ops |-> {}, n |-> 0]], b)
<1>. DEFINE l == LoopAt(c, k)
            s == StartOf(c, k)
            m == Len(l.body)
            z == [t \in Totals |-> [ops |-> {}, n |-> 0]]
<1>1. GoodBody(l) /\ l.n \in Nat \ {0} /\ m \in Nat \ {0} /\ s \in Nat
  BY LaidFacts DEF LoopFacts
<1>2. InLoop(l, 0, 0, z, b)
  BY <1>1, LoopBegins
<1>. HIDE DEF z
<1>3. 0 \in 0 .. l.n - 1 /\ 0 \in 0 .. m - 1 /\ s + 1 = s + (0 * m) + 0 + 1
  BY <1>1
<1>4. \E j \in 0 .. l.n - 1 : \E o \in 0 .. m - 1 : s + 1 = s + (j * m) + o + 1 /\ InLoop(l, j, o, z, b)
  BY <1>2, <1>3
<1>. QED
  BY <1>4 DEF Place, z

\* The instruction of the body that is next, and that of the tail.
LoopCode(p, l, s) ==
    /\ \A j \in 0 .. l.n - 1 : \A o \in 0 .. Len(l.body) - 1 :
         p[s + (j * Len(l.body)) + o + 1] = l.body[o + 1]
    /\ \A q \in 0 .. Len(l.tail) - 1 : p[s + Looped(l) + q + 1] = l.tail[q + 1]

\* The code between the start of a loop and its end is the loop.
LEMMA CodeOfLoop ==
    ASSUME NEW c \in 1 .. Len(Cases), NEW k \in 1 .. Loops(c)
    PROVE  LoopCode(Cases[c], LoopAt(c, k), StartOf(c, k))
<1>. DEFINE l == LoopAt(c, k)
            s == StartOf(c, k)
            p == Cases[c]
            m == Len(l.body)
            n == l.n
<1>1. /\ s \in Nat /\ n \in Nat \ {0} /\ m \in Nat \ {0} /\ Looped(l) = n * m /\ HasLoop(p, l, s)
      /\ Looped(l) \in Nat /\ Len(l.tail) \in Nat
  BY LaidFacts DEF LoopFacts
<1>. HIDE DEF l, s, p, m, n
<1>2. ASSUME NEW j \in 0 .. n - 1, NEW o \in 0 .. m - 1 PROVE p[s + (j * m) + o + 1] = l.body[o + 1]
  <2>. DEFINE i == (j * m) + o + 1
  <2>1. j \in Int /\ j * m \in Nat /\ (j + 1) * m = j * m + m
    BY <1>1
  <2>2. (j + 1) * m <= n * m
    <3>1. j + 1 \in Int /\ n \in Int /\ m \in Nat /\ j + 1 <= n
      BY <1>1
    <3>. QED
      BY <3>1, TimesMonotone
  <2>3. i \in 1 .. Looped(l)
    BY <1>1, <2>1, <2>2
  <2>4. i - 1 = j * m + o
    BY <2>1
  <2>5. (j * m + o) % m = o
    BY <1>1, <2>1, OneQuotient
  <2>6. ((i - 1) % m) + 1 = o + 1
    BY <2>4, <2>5
  <2>7. s + i = s + (j * m) + o + 1
    BY <1>1, <2>1
  <2>. HIDE DEF i
  <2>8. p[s + i] = l.body[((i - 1) % m) + 1]
    BY <1>1, <2>3 DEF HasLoop, m
  <2>. QED
    BY <2>6, <2>7, <2>8
<1>3. ASSUME NEW q \in 0 .. Len(l.tail) - 1 PROVE p[s + Looped(l) + q + 1] = l.tail[q + 1]
  <2>1. q + 1 \in 1 .. Len(l.tail) /\ s + Looped(l) + q + 1 = s + Looped(l) + (q + 1)
    BY <1>1
  <2>. QED
    BY <1>1, <2>1 DEF HasLoop
<1>4. LoopCode(p, l, s)
  BY <1>2, <1>3 DEF LoopCode, m, n
<1>. QED
  BY <1>4 DEF l, s, p

\* After an instruction of the body.
LEMMA BodyMoves ==
    ASSUME NEW c \in 1 .. Len(Cases), NEW k \in 1 .. Loops(c), NEW l, NEW s, l = LoopAt(c, k), s = StartOf(c, k),
           NEW j \in 0 .. l.n - 1, NEW o \in 0 .. Len(l.body) - 1, NEW ms, NEW b, InLoop(l, j, o + 1, ms, b)
    PROVE  Place(c, k, s + (j * Len(l.body)) + o + 1 + 1, ms, b)
<1>. DEFINE m == Len(l.body)
            T == Len(l.tail)
            z == Looped(l)
            nx == s + (j * m) + o + 1 + 1
<1>1. /\ s \in Nat /\ l.n \in Nat \ {0} /\ m \in Nat \ {0} /\ z = l.n * m /\ GoodBody(l)
      /\ T \in Nat \ {0} /\ z \in Nat
  BY LaidFacts DEF LoopFacts
<1>. HIDE DEF m, T, z
<1>2. o \in 0 .. m - 1 /\ j \in Nat /\ o \in Nat /\ j * m \in Nat /\ (j + 1) * m = j * m + m
  <2>1. o \in 0 .. m - 1
    BY DEF m
  <2>2. j \in Nat
    BY <1>1
  <2>. QED
    BY <1>1, <2>1, <2>2
<1>3. CASE o + 1 # m
  <2>1. o + 1 \in 0 .. m - 1 /\ nx = s + (j * m) + (o + 1) + 1
    BY <1>1, <1>2, <1>3
  <2>. HIDE DEF nx
  <2>2. \E i \in 0 .. l.n - 1 : \E r \in 0 .. m - 1 : nx = s + (i * m) + r + 1 /\ InLoop(l, i, r, ms, b)
    BY <2>1
  <2>. QED
    BY <2>2 DEF Place, m, nx
<1>4. CASE o + 1 = m
  <2>1. InLoop(l, j + 1, 0, ms, b)
    BY <1>1, <1>2, <1>4, NextRound DEF m
  <2>2. CASE j + 1 # l.n
    <3>1. j + 1 \in 0 .. l.n - 1 /\ 0 \in 0 .. m - 1 /\ nx = s + ((j + 1) * m) + 0 + 1
      <4>1. j + 1 \in 0 .. l.n - 1 /\ 0 \in 0 .. m - 1
        BY <1>1, <2>2
      <4>. DEFINE y == j * m
                  x == (j + 1) * m
      <4>2. y \in Nat /\ x = y + m /\ nx = s + y + o + 1 + 1 /\ s \in Nat /\ o \in Nat /\ m = o + 1
        BY <1>1, <1>2, <1>4
      <4>. HIDE DEF x, y, nx
      <4>3. nx = s + x + 0 + 1
        BY <4>2
      <4>. QED
        BY <4>1, <4>3 DEF x
    <3>. HIDE DEF nx
    <3>2. \E i \in 0 .. l.n - 1 : \E r \in 0 .. m - 1 : nx = s + (i * m) + r + 1 /\ InLoop(l, i, r, ms, b)
      BY <2>1, <3>1
    <3>. QED
      BY <3>2 DEF Place, m, nx
  <2>3. CASE j + 1 = l.n
    <3>1. AfterLoop(l, ms)
      BY <2>1, <2>3 DEF InLoop, AfterLoop
    <3>2. (j + 1) * m = z
      BY <1>1, <2>3
    <3>3. 0 \in 0 .. T - 1 /\ nx = s + z + 0 + 1
      <4>. DEFINE y == j * m
      <4>1. /\ y \in Nat /\ z = y + m /\ nx = s + y + o + 1 + 1 /\ s \in Nat /\ o \in Nat /\ m = o + 1
            /\ T \in Nat \ {0}
        BY <1>1, <1>2, <1>4, <3>2
      <4>. HIDE DEF y, nx
      <4>. QED
        BY <4>1
    <3>. HIDE DEF nx
    <3>4. \E q \in 0 .. T - 1 : nx = s + z + q + 1 /\ AfterLoop(l, ms)
      BY <3>1, <3>3
    <3>. QED
      BY <3>4 DEF Place, m, nx, z, T
  <2>. QED
    BY <2>2, <2>3
<1>. QED
  BY <1>3, <1>4

\* After an instruction of the tail.
LEMMA TailMoves ==
    ASSUME NEW c \in 1 .. Len(Cases), NEW k \in 1 .. Loops(c), NEW l, NEW s, l = LoopAt(c, k), s = StartOf(c, k),
           NEW q \in 0 .. Len(l.tail) - 1, NEW nx, nx = s + Looped(l) + q + 1 + 1, nx <= Len(Cases[c]),
           NEW ms, NEW b, AfterLoop(l, ms),
           NEW mz, mz = IF l.tail[q + 1].what = "reset" THEN [t \in Totals |-> [ops |-> {}, n |-> 0]] ELSE ms
    PROVE  \E h \in 1 .. Loops(c) : Place(c, h, nx, mz, b)
<1>. DEFINE T == Len(l.tail)
            z == Looped(l)
            S == Size(l)
<1>1. s \in Nat /\ z \in Nat /\ T \in Nat \ {0} /\ S = z + T
  BY LaidFacts DEF LoopFacts
<1>2. /\ GoodTail(c, l)
      /\ k = Loops(c) => Len(Cases[c]) = s + S
      /\ k # Loops(c) => StartOf(c, k + 1) = s + S /\ l.tail[T] = ResetIns /\ k + 1 \in 1 .. Loops(c)
  BY LaidFacts DEF LoopFacts
<1>3. q \in 0 .. T - 1 /\ q \in Nat /\ nx = s + z + q + 1 + 1
  BY <1>1
<1>. HIDE DEF T, z, S
<1>4. CASE q + 1 = T
  <2>1. nx = s + S + 1
    <3>1. S = z + (q + 1) /\ s \in Nat /\ z \in Nat /\ q \in Nat /\ nx = s + z + q + 1 + 1
      BY <1>1, <1>3, <1>4
    <3>. HIDE DEF S, z
    <3>. QED
      BY <3>1
  <2>2. k # Loops(c)
    BY <1>1, <1>2, <2>1
  <2>3. l.tail[q + 1] = ResetIns
    BY <1>2, <1>4, <2>2
  <2>4. l.tail[q + 1].what = "reset"
    BY <2>3, InstrFields DEF ResetIns
  <2>5. nx = StartOf(c, k + 1) + 1 /\ k + 1 \in 1 .. Loops(c)
    BY <1>2, <2>1, <2>2
  <2>6. mz = [t \in Totals |-> [ops |-> {}, n |-> 0]]
    BY <2>4
  <2>7. Place(c, k + 1, StartOf(c, k + 1) + 1, [t \in Totals |-> [ops |-> {}, n |-> 0]], b)
    BY <2>5, BenchBegins
  <2>. QED
    BY <2>5, <2>6, <2>7
<1>5. CASE q + 1 # T
  <2>1. l.tail[q + 1].what # "reset"
    <3>1. q + 1 \in 1 .. T
      BY <1>1, <1>3
    <3>2. GoodEnd(c, l, q + 1)
      BY <1>2, <3>1 DEF GoodTail, T
    <3>. QED
      BY <1>5, <3>2 DEF GoodEnd, T
  <2>2. q + 1 \in 0 .. T - 1 /\ nx = s + z + (q + 1) + 1
    <3>1. q + 1 \in 0 .. T - 1
      BY <1>1, <1>3, <1>5
    <3>2. s \in Nat /\ z \in Nat /\ q \in Nat /\ nx = s + z + q + 1 + 1
      BY <1>1, <1>3
    <3>. HIDE DEF z
    <3>. QED
      BY <3>1, <3>2
  <2>3. \E i \in 0 .. T - 1 : nx = s + z + i + 1 /\ AfterLoop(l, mz)
    BY <2>1, <2>2
  <2>4. Place(c, k, nx, mz, b)
    BY <2>3 DEF Place, T, z
  <2>. QED
    BY <2>4
<1>. QED
  BY <1>4, <1>5
\* The invariant holds at the start.
LEMMA ThriftInitInv == ThriftBenchInit => ThriftInv
<1>. SUFFICES ASSUME ThriftBenchInit PROVE ThriftInv
  OBVIOUS
<1>. DEFINE z == [t \in Totals |-> [ops |-> {}, n |-> 0]]
<1>1. /\ testcase \in 1 .. Len(Cases) /\ next = 1 /\ nsec = 0
      /\ total = [t \in Totals |-> 0] /\ true = [t \in Totals |-> 0] /\ turned = [t \in Totals |-> FALSE]
      /\ measured = z
  BY DEF ThriftBenchInit
<1>2. ClockInv
  <2>1. 0 * NSEC = 0 /\ 0 \in Nat /\ 0 \in 0 .. NSEC - 1
    BY BenchNumbers
  <2>2. \A t \in Totals : Off(t)
    BY <1>1, <2>1 DEF Off
  <2>. QED
    BY <1>1, <2>1, <2>2 DEF ClockInv
<1>3. PlaceInv
  <2>1. 1 \in 1 .. Loops(testcase)
    BY <1>1, CodeLength
  <2>2. Place(testcase, 1, StartOf(testcase, 1) + 1, z, buffer)
    BY <1>1, <2>1, BenchBegins
  <2>3. StartOf(testcase, 1) = 0
    <3>1. testcase \in 1 .. 8
      BY <1>1, Layout
    <3>2. CASE testcase \in 1 .. 4
      <4>1. testcase \in {1, 2, 3, 4}
        BY <3>2
      <4>. QED
        BY <4>1 DEF StartOf
    <3>3. CASE testcase \in 5 .. 8
      <4>1. Called(testcase) \in Nat
        BY <3>3, CallsType
      <4>2. (1 - 1) * (Called(testcase) + 2) = 0
        BY <4>1
      <4>. QED
        BY <3>3, <4>2 DEF StartOf
    <3>. QED
      BY <3>1, <3>2, <3>3
  <2>. QED
    BY <1>1, <2>1, <2>2, <2>3 DEF PlaceInv
<1>. QED
  BY <1>1, <1>2, <1>3 DEF ThriftInv

\* The clock and what the instructions read of it.
LEMMA InstrClock ==
    ASSUME ClockInv, Execute, Code[next].what = "measure" => Code[next].total \in Totals \union {"none"},
           Code[next].what \in {"measure", "reset", "buffer", "print"}
    PROVE  ClockInv'
<1>. DEFINE i == Code[next]
<1>1. CASE i.what = "measure"
  <2>1. Clocked(i)
    BY <1>1 DEF Execute
  <2>. HIDE DEF i
  <2>2. i.total \in Totals \union {"none"}
    BY <1>1 DEF i
  <2>. QED
    BY <2>1, <2>2, ClockOnMeasure
<1>2. CASE i.what = "reset"
  <2>1. ZeroTotals /\ nsec' = nsec
    BY <1>2 DEF Execute
  <2>. QED
    BY <2>1, ClockAtZero DEF ClockInv
<1>3. CASE i.what \in {"buffer", "print"}
  <2>1. UNCHANGED <<nsec, total, true, turned>>
    BY <1>3 DEF Execute
  <2>. QED
    BY <2>1 DEF ClockInv, Off
<1>. QED
  BY <1>1, <1>2, <1>3

\* An instruction of the body of a loop keeps it: the loop goes on, starts again, or ends,
LEMMA ExecuteInBody ==
    ASSUME ThriftInv, Execute, NEW k \in 1 .. Loops(testcase), NEW l, NEW s,
           l = LoopAt(testcase, k), s = StartOf(testcase, k),
           NEW j \in 0 .. l.n - 1, NEW o \in 0 .. Len(l.body) - 1,
           next = s + (j * Len(l.body)) + o + 1, InLoop(l, j, o, measured, buffer)
    PROVE  ClockInv' /\ Place(testcase, k, next', measured', buffer')
<1>. DEFINE i == Code[next]
<1>1. testcase \in 1 .. Len(Cases)
  BY DEF ThriftInv
<1>2. i = l.body[o + 1]
  <2>1. LoopCode(Code, l, s)
    BY <1>1, CodeOfLoop DEF Code
  <2>. QED
    BY <2>1 DEF LoopCode
<1>3. GoodBody(l) /\ j \in Nat
  <2>1. GoodBody(l) /\ l.n \in Nat
    BY <1>1, LaidFacts DEF LoopFacts
  <2>. QED
    BY <2>1
<1>4. i.what = "buffer" \/ (i.what = "measure" /\ i.total \in Totals \union {"none"})
  <2>. DEFINE b == l.body[o + 1]
  <2>1. b.what = "buffer" \/ (b.what = "measure" /\ b.total \in Totals \union {"none"})
    BY <1>3 DEF GoodBody
  <2>. HIDE DEF b
  <2>. QED
    BY <1>2, <2>1 DEF b
<1>5. /\ i.what = "buffer" => buffer' = <<>> /\ measured' = measured
      /\ i.what = "measure" => Clocked(i)
      /\ next' = next + 1
  BY DEF Execute
<1>6. ClockInv'
  BY <1>4, InstrClock DEF ThriftInv
<1>. HIDE DEF i
<1>7. InLoop(l, j, o + 1, measured', buffer')
  BY <1>2, <1>3, <1>5, LoopGoesOn
<1>8. Place(testcase, k, s + (j * Len(l.body)) + o + 1 + 1, measured', buffer')
  BY <1>1, <1>7, BodyMoves
<1>. QED
  BY <1>5, <1>6, <1>8

\* and so does one after the loop, the last of them leading to the next loop or to the end.
LEMMA ExecuteInTail ==
    ASSUME ThriftInv, Execute, NEW k \in 1 .. Loops(testcase), NEW l, NEW s,
           l = LoopAt(testcase, k), s = StartOf(testcase, k),
           NEW q \in 0 .. Len(l.tail) - 1, next = s + Looped(l) + q + 1, AfterLoop(l, measured)
    PROVE  /\ ClockInv'
           /\ next' <= Len(Code) => \E h \in 1 .. Loops(testcase) : Place(testcase, h, next', measured', buffer')
<1>. DEFINE i == Code[next]
<1>1. testcase \in 1 .. Len(Cases)
  BY DEF ThriftInv
<1>2. i = l.tail[q + 1]
  <2>1. LoopCode(Code, l, s)
    BY <1>1, CodeOfLoop DEF Code
  <2>. QED
    BY <2>1 DEF LoopCode
<1>3. GoodTail(testcase, l) /\ q + 1 \in 1 .. Len(l.tail)
  <2>1. GoodTail(testcase, l) /\ Len(l.tail) \in Nat
    BY <1>1, LaidFacts DEF LoopFacts
  <2>. QED
    BY <2>1
<1>4. i.what \in {"print", "reset"}
  BY <1>2, <1>3 DEF GoodTail, GoodEnd
<1>5. /\ i.what = "print" => buffer' = buffer /\ measured' = measured
      /\ i.what = "reset" => measured' = [t \in Totals |-> [ops |-> {}, n |-> 0]]
      /\ next' = next + 1
  BY DEF Execute, ZeroTotals
<1>6. ClockInv'
  <2>1. i.what # "measure"
    BY <1>4
  <2>. QED
    BY <1>4, <2>1, InstrClock DEF ThriftInv
<1>. HIDE DEF i
<1>7. measured' = IF l.tail[q + 1].what = "reset" THEN [t \in Totals |-> [ops |-> {}, n |-> 0]] ELSE measured
  BY <1>2, <1>4, <1>5
<1>8. next' = s + Looped(l) + q + 1 + 1
  BY <1>5
<1>9. ASSUME next' <= Len(Code)
      PROVE  \E h \in 1 .. Loops(testcase) : Place(testcase, h, next', measured', buffer')
  <2>1. next' <= Len(Cases[testcase])
    BY <1>9 DEF Code
  <2>. QED
    BY <1>1, <1>7, <1>8, <2>1, TailMoves
<1>. QED
  BY <1>6, <1>9

\* Hence it holds after every step ...
LEMMA ThriftStepInv == ThriftInv /\ [ThriftBenchNext]_thriftBenchVars => ThriftInv'
<1>. SUFFICES ASSUME ThriftInv, [ThriftBenchNext]_thriftBenchVars PROVE ThriftInv'
  OBVIOUS
<1>1. testcase \in 1 .. Len(Cases) /\ next \in Nat \ {0} /\ Len(Code) \in Nat
  BY CodeLength DEF ThriftInv, Code
<1>2. CASE Execute
  <2>1. next' = next + 1 /\ testcase' = testcase /\ next <= Len(Code)
    BY <1>2 DEF Execute
  <2>2. PICK k \in 1 .. Loops(testcase) : Place(testcase, k, next, measured, buffer)
    BY <2>1 DEF ThriftInv, PlaceInv
  <2>. DEFINE l == LoopAt(testcase, k)
              s == StartOf(testcase, k)
  <2>3. ClockInv' /\ (next' <= Len(Code) =>
          \E h \in 1 .. Loops(testcase) : Place(testcase, h, next', measured', buffer'))
    <3>1. \/ \E j \in 0 .. l.n - 1 : \E o \in 0 .. Len(l.body) - 1 :
               next = s + (j * Len(l.body)) + o + 1 /\ InLoop(l, j, o, measured, buffer)
          \/ \E q \in 0 .. Len(l.tail) - 1 : next = s + Looped(l) + q + 1 /\ AfterLoop(l, measured)
      BY <2>2 DEF Place
    <3>2. ASSUME NEW j \in 0 .. l.n - 1, NEW o \in 0 .. Len(l.body) - 1,
                 next = s + (j * Len(l.body)) + o + 1, InLoop(l, j, o, measured, buffer)
          PROVE  ClockInv' /\ Place(testcase, k, next', measured', buffer')
      BY <1>2, <3>2, ExecuteInBody
    <3>3. ASSUME NEW q \in 0 .. Len(l.tail) - 1, next = s + Looped(l) + q + 1, AfterLoop(l, measured)
          PROVE  /\ ClockInv'
                 /\ next' <= Len(Code) =>
                      \E h \in 1 .. Loops(testcase) : Place(testcase, h, next', measured', buffer')
      BY <1>2, <3>3, ExecuteInTail
    <3>. HIDE DEF l, s
    <3>. QED
      BY <3>1, <3>2, <3>3
  <2>4. Code' = Code
    BY <2>1 DEF Code
  <2>5. PlaceInv'
    BY <2>1, <2>3, <2>4 DEF PlaceInv
  <2>6. next' \in Nat \ {0}
    BY <1>1, <2>1
  <2>. QED
    BY <1>1, <2>1, <2>3, <2>5, <2>6 DEF ThriftInv
<1>3. CASE CallThrows
  <2>1. next' = Len(Code) + 1 /\ UNCHANGED <<testcase, nsec, total, true, turned>>
    BY <1>3 DEF CallThrows
  <2>2. Code' = Code
    BY <2>1 DEF Code
  <2>3. ClockInv'
    BY <2>1 DEF ThriftInv, ClockInv, Off
  <2>4. PlaceInv' /\ next' \in Nat \ {0}
    BY <1>1, <2>1, <2>2 DEF PlaceInv
  <2>. QED
    BY <1>1, <2>1, <2>3, <2>4 DEF ThriftInv
<1>4. CASE BenchOver \/ UNCHANGED thriftBenchVars
  <2>1. UNCHANGED thriftBenchVars
    BY <1>4 DEF BenchOver
  <2>. QED
    BY <2>1 DEF thriftBenchVars, ThriftInv, ClockInv, Off, PlaceInv, Code
<1>. QED
  BY <1>2, <1>3, <1>4 DEF ThriftBenchNext

\* ... and it says of an average printed what the property asks of it.
LEMMA ThriftInvProvesAverages == ThriftInv => AveragesAreTrue
<1>. SUFFICES ASSUME ThriftInv, next <= Len(Code), Code[next].what = "print"
     PROVE  LET i == Code[next]
                t == i.total
            IN  /\ ~Mistitled(i) <=> measured[t] = [ops |-> {i.op}, n |-> i.n]
                /\ total[t] = true[t] <=> ~turned[t]
                /\ (true[t] - total[t]) % NSEC = 0
  BY DEF AveragesAreTrue
<1>. DEFINE i == Code[next]
            t == i.total
<1>1. testcase \in 1 .. Len(Cases)
  BY DEF ThriftInv
<1>2. PICK k \in 1 .. Loops(testcase) : Place(testcase, k, next, measured, buffer)
  BY DEF ThriftInv, PlaceInv
<1>. DEFINE l == LoopAt(testcase, k)
            s == StartOf(testcase, k)
<1>3. GoodBody(l) /\ GoodTail(testcase, l) /\ Len(l.tail) \in Nat
  BY <1>1, LaidFacts DEF LoopFacts
<1>4. LoopCode(Code, l, s)
  BY <1>1, CodeOfLoop DEF Code
<1>5. ASSUME NEW j \in 0 .. l.n - 1, NEW o \in 0 .. Len(l.body) - 1, next = s + (j * Len(l.body)) + o + 1
      PROVE  FALSE
  <2>1. i = l.body[o + 1]
    BY <1>5, <1>4 DEF LoopCode
  <2>2. l.body[o + 1].what \in {"buffer", "measure"}
    BY <1>3 DEF GoodBody
  <2>. QED
    BY <2>1, <2>2
<1>6. PICK q \in 0 .. Len(l.tail) - 1 : next = s + Looped(l) + q + 1 /\ AfterLoop(l, measured)
  BY <1>2, <1>5 DEF Place
<1>7. i = l.tail[q + 1]
  BY <1>6, <1>4 DEF LoopCode
<1>8. q + 1 \in 1 .. Len(l.tail)
  BY <1>3
<1>9. GoodEnd(testcase, l, q + 1)
  BY <1>3, <1>8 DEF GoodTail
<1>. HIDE DEF l, s
<1>10. t \in Totals /\ (~MistitledIn(testcase, i) <=> Sum(l, l.n, 0, t) = [ops |-> {i.op}, n |-> i.n])
  BY <1>7, <1>9 DEF GoodEnd
<1>11. Mistitled(i) <=> MistitledIn(testcase, i)
  BY DEF Mistitled, MistitledIn
<1>12. measured[t] = Sum(l, l.n, 0, t)
  BY <1>6, <1>10 DEF AfterLoop
<1>13. (total[t] = true[t] <=> ~turned[t]) /\ (true[t] - total[t]) % NSEC = 0
  BY <1>10, OffBySeconds DEF ThriftInv
<1>. QED
  BY <1>10, <1>11, <1>12, <1>13

\* Every average printed is over as many measurements as it is divided by, all of the operation
\* in its title, but for those listed, and is the true one or off by whole seconds: in every
\* case of main, for any number of iterations and of sizes.
THEOREM AveragesAreTitled == ThriftBenchSpec => []AveragesAreTrue
BY ThriftInitInv, ThriftStepInv, ThriftInvProvesAverages, PTL DEF ThriftBenchSpec
====
