---- MODULE UdpAck ----
(***************************************************************************)
(* The UDP benchmark of P1/part2: a client that sends one packet at a time and *)
(* waits a second for its acknowledgement (client.c), and a server that drops  *)
(* some packets and acknowledges the others (serverbasic.c).  The network       *)
(* loses, delays and reorders.                                                 *)
(*                                                                         *)
(* Packets carry no number.  The model numbers the sends to say which packet an *)
(* acknowledgement was for; the client cannot see it.                          *)
(***************************************************************************)
EXTENDS Integers, FiniteSets

CONSTANTS
    warmup_rounds,
    main_rounds,
    MaxLosses,      \* bound: the packets lost, or dropped by the server
    MaxLate,        \* bound: the timeouts while something is under way
    MaxFailures     \* bound: the reads that fail with another error

ASSUME UdpAssumption == {warmup_rounds, main_rounds, MaxLosses, MaxLate, MaxFailures} \subseteq Nat

VARIABLES
    toServer,    \* the sends whose packet is under way
    toClient,    \* the sends whose acknowledgement is under way
    sent,        \* the sends so far
    loop,        \* the loop of main the client is in: "warmup", "main", "resend", "done"
    waiting,     \* the client is in UDP_Read
    warm,        \* the warm-up rounds that are over
    ack, dropped, itr,    \* the variables of main
    mixed,       \* history: a round was ended by the acknowledgement of another packet
    losses, late, failures

network == <<toServer, toClient, losses>>
udpVars == <<network, sent, loop, waiting, warm, ack, dropped, itr, mixed, late, failures>>

\* send_packet: UDP_Write.  The inner loop counts a drop before each resend.
Send ==
    /\ ~waiting
    /\ loop = "main" => ack # main_rounds
    /\ loop # "done"
    /\ waiting' = TRUE
    /\ sent' = sent + 1
    /\ toServer' = toServer \union {sent + 1}
    /\ dropped' = IF loop = "resend" THEN dropped + 1 ELSE dropped
    /\ UNCHANGED <<toClient, losses, loop, warm, ack, itr, mixed, late, failures>>

\* A warm-up round ends, however its send went.
WarmRound ==
    /\ loop = "warmup"
    /\ warm' = warm + 1
    /\ loop' = IF warm + 1 = warmup_rounds THEN "main" ELSE "warmup"

\* send_packet returns SUCCESS; a round of main is over.
Receive ==
    /\ waiting
    /\ \E i \in toClient :
         /\ toClient' = toClient \ {i}
         /\ \/ WarmRound /\ UNCHANGED <<ack, itr, mixed>>
            \/ /\ loop # "warmup"
               /\ ack' = ack + 1
               /\ itr' = itr + 1
               /\ mixed' = (mixed \/ i # sent)
               /\ loop' = "main"
               /\ UNCHANGED warm
    /\ waiting' = FALSE
    /\ UNCHANGED <<toServer, losses, sent, dropped, late, failures>>

\* Mutant: the socket has no timeout.
TimeoutNever == waiting /\ UNCHANGED udpVars

\* ... or TIMEOUT, because nothing comes or because it is slow.
Timeout ==
    /\ waiting
    /\ \/ toServer \union toClient = {} /\ UNCHANGED late
       \/ toServer \union toClient # {} /\ late < MaxLate /\ late' = late + 1
    /\ \/ WarmRound /\ UNCHANGED dropped
       \/ loop = "main" /\ loop' = "resend" /\ dropped' = dropped + 1 /\ UNCHANGED warm
       \/ loop = "resend" /\ UNCHANGED <<loop, dropped, warm>>
    /\ waiting' = FALSE
    /\ UNCHANGED <<network, sent, ack, itr, mixed, failures>>

\* ... or FAILURE: main's loop goes on as if nothing had been sent.
Failure ==
    /\ waiting
    /\ failures < MaxFailures
    /\ failures' = failures + 1
    /\ \/ WarmRound
       \/ loop \in {"main", "resend"} /\ UNCHANGED <<loop, warm>>
    /\ waiting' = FALSE
    /\ UNCHANGED <<network, sent, ack, dropped, itr, mixed, late>>

\* The loop over the rounds ends; the totals are printed.
Report ==
    /\ loop = "main"
    /\ ~waiting
    /\ ack = main_rounds
    /\ loop' = "done"
    /\ UNCHANGED <<network, sent, waiting, warm, ack, dropped, itr, mixed, late, failures>>

\* Mutant: the server acknowledges twice.
ServerLoopTwice ==
    \E i \in toServer :
      /\ toClient' = toClient \union {i, -i}
      /\ toServer' = toServer \ {i}
      /\ UNCHANGED <<losses, sent, loop, waiting, warm, ack, dropped, itr, mixed, late, failures>>

\* serverbasic.c: reads a packet and acknowledges it, or drops it.
ServerLoop ==
    \E i \in toServer :
      /\ toServer' = toServer \ {i}
      /\ \/ toClient' = toClient \union {i} /\ UNCHANGED losses
         \/ losses < MaxLosses /\ losses' = losses + 1 /\ UNCHANGED toClient
      /\ UNCHANGED <<sent, loop, waiting, warm, ack, dropped, itr, mixed, late, failures>>

LoseAck ==
    \E i \in toClient :
      /\ losses < MaxLosses
      /\ losses' = losses + 1
      /\ toClient' = toClient \ {i}
      /\ UNCHANGED <<toServer, sent, loop, waiting, warm, ack, dropped, itr, mixed, late, failures>>

UdpDone == loop = "done" /\ UNCHANGED udpVars

UdpInit ==
    /\ toServer = {} /\ toClient = {}
    /\ sent = 0 /\ warm = 0 /\ ack = 0 /\ dropped = 0 /\ itr = 0
    /\ loop = IF warmup_rounds = 0 THEN "main" ELSE "warmup"
    /\ waiting = FALSE
    /\ mixed = FALSE
    /\ losses = 0 /\ late = 0 /\ failures = 0

UdpClient == Send \/ Receive \/ Timeout \/ Failure \/ Report

UdpNext == UdpClient \/ ServerLoop \/ LoseAck \/ UdpDone

UdpSpec == UdpInit /\ [][UdpNext]_udpVars /\ WF_udpVars(UdpClient) /\ WF_udpVars(ServerLoop)
----
(***************************************************************************)
(* Properties                                                              *)
(***************************************************************************)
\* Each reading is of its own packet, unless the client has at some time stopped
\* waiting for a packet that was still under way.
MixupNeedsLateness == mixed => late + failures > 0

\* The benchmark ends: every round is acknowledged at last, as losses do.
AllRoundsMeasured == <>(loop = "done")
====
