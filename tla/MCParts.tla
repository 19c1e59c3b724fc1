---- MODULE MCParts ----
(***************************************************************************)
(* The parts of the repository that share no state with the file system's     *)
(* server and client, side by side for TLC: each behaviour is one of the part  *)
(* `which`, whose variables alone change.                                      *)
(***************************************************************************)
EXTENDS DirtyLog, LogBench, MemMap, UdpAck, AsyncServer, ThriftRpc, ChunkedStream, ThriftBench, TLC

CONSTANTS r0, r1, r2, r3

VARIABLE which

\* Two files whose flat names are the same.
Names == {<<"x", "/", "y">>, <<"x", "%", "y">>}

Numerals == [i \in 0 .. 5 |-> ToString(i)]

CallsOf ==
    (r0 :> <<"getHelloMessage">>) @@ (r1 :> <<"AcceptDouble">>) @@ (r2 :> <<"AcceptInt">>)
      @@ (r3 :> <<"AcceptComplexDataStructure">>)

Init ==
    /\ which \in {"log", "logtester", "map", "udp", "async", "thrift", "chunks", "bench"}
    /\ LogInit /\ BenchInit /\ MapInit /\ UdpInit /\ AsyncInit /\ RpcInit /\ ChunkInit
    /\ ThriftBenchInit
    /\ which # "log" => single /\ ~dangling
    /\ which # "chunks" => sender = "fetch" /\ size = 0
    /\ which # "bench" => testcase = 1

Log ==
    /\ which = "log" /\ LogNext
    /\ UNCHANGED <<which, benchVars, mapVars, udpVars, asyncVars, rpcVars, chunkVars, thriftBenchVars>>
Logtester ==
    /\ which = "logtester" /\ BenchNext
    /\ UNCHANGED <<which, logVars, mapVars, udpVars, asyncVars, rpcVars, chunkVars, thriftBenchVars>>
Map ==
    /\ which = "map" /\ MapNext
    /\ UNCHANGED <<which, logVars, benchVars, udpVars, asyncVars, rpcVars, chunkVars, thriftBenchVars>>
Udp ==
    /\ which = "udp" /\ UdpNext
    /\ UNCHANGED <<which, logVars, benchVars, mapVars, asyncVars, rpcVars, chunkVars, thriftBenchVars>>
Async ==
    /\ which = "async" /\ AsyncNext
    /\ UNCHANGED <<which, logVars, benchVars, mapVars, udpVars, rpcVars, chunkVars, thriftBenchVars>>
Thrift ==
    /\ which = "thrift" /\ RpcNext
    /\ UNCHANGED <<which, logVars, benchVars, mapVars, udpVars, asyncVars, chunkVars, thriftBenchVars>>
Chunked ==
    /\ which = "chunks" /\ ChunkNext
    /\ UNCHANGED <<which, logVars, benchVars, mapVars, udpVars, asyncVars, rpcVars, thriftBenchVars>>
Bench ==
    /\ which = "bench" /\ ThriftBenchNext
    /\ UNCHANGED <<which, logVars, benchVars, mapVars, udpVars, asyncVars, rpcVars, chunkVars>>

Next == Log \/ Logtester \/ Map \/ Udp \/ Async \/ Thrift \/ Chunked \/ Bench

vars == <<which, logVars, benchVars, mapVars, udpVars, asyncVars, rpcVars, chunkVars, thriftBenchVars>>

\* The fairness of the part, which asks nothing of the others.
UdpClientSteps ==
    /\ which = "udp" /\ UdpClient
    /\ UNCHANGED <<which, logVars, benchVars, mapVars, asyncVars, rpcVars, chunkVars, thriftBenchVars>>
UdpServerSteps ==
    /\ which = "udp" /\ ServerLoop
    /\ UNCHANGED <<which, logVars, benchVars, mapVars, asyncVars, rpcVars, chunkVars, thriftBenchVars>>
AsyncServerSteps ==
    /\ which = "async" /\ HandleRpcs
    /\ UNCHANGED <<which, logVars, benchVars, mapVars, udpVars, rpcVars, chunkVars, thriftBenchVars>>
AsyncRuntimeSteps ==
    /\ which = "async" /\ Runtime
    /\ UNCHANGED <<which, logVars, benchVars, mapVars, udpVars, rpcVars, chunkVars, thriftBenchVars>>
ThriftSteps ==
    /\ which = "thrift" /\ RpcStep
    /\ UNCHANGED <<which, logVars, benchVars, mapVars, udpVars, asyncVars, chunkVars, thriftBenchVars>>

Fairness ==
    /\ WF_vars(UdpClientSteps) /\ WF_vars(UdpServerSteps)
    /\ WF_vars(AsyncServerSteps) /\ WF_vars(AsyncRuntimeSteps)
    /\ WF_vars(ThriftSteps)

Spec == Init /\ [][Next]_vars /\ Fairness
----
\* The benchmark of the UDP client ends.
UdpBenchmarkEnds == which = "udp" => AllRoundsMeasured

\* The asynchronous server answers every call, or it or the client has died.
AsyncServerAnswers == which = "async" => AsyncCallAnswered

\* Every call of a Thrift client returns.
ThriftCallsReturn == which = "thrift" => EveryRpcReturns
====
