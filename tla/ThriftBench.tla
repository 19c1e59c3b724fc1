---- MODULE ThriftBench ----
(***************************************************************************)
(* The benchmark of P1/part3/thrift (cpp_thrift_with_marshalling.cpp): the test  *)
(* cases -t chooses from, each a sequence of instructions.  One measures an      *)
(* operation between two readings of the clock and adds the difference to a       *)
(* total; another prints a total, over the iterations, under a title.             *)
(*                                                                         *)
(* Binary and compact protocol share one memory buffer in each iteration.        *)
(***************************************************************************)
EXTENDS Integers, Sequences

CONSTANTS
    ITERATIONS,       \* 100
    FewIterations,    \* test_iterations of case 6: 5
    FewerIterations,  \* test_iterations of case 8: 3
    Sizes, BigSizes,  \* the entries of sizeArr: 11, and 4 in case 8
    NSEC,             \* bound: the ticks of a second
    Longest           \* bound: the ticks an operation takes

ASSUME ThriftBenchAssumption ==
    /\ {ITERATIONS, FewIterations, FewerIterations, Sizes, BigSizes, NSEC} \subseteq Nat \ {0}
    /\ Longest \in 0 .. NSEC

VARIABLES
    testcase,  \* tFlagValue
    next,      \* the next instruction
    buffer,    \* trans_m: what was written and not read
    nsec,      \* tv_nsec
    total,     \* total[t]: the sum of the differences
    true,      \* history: true[t]: the time the measured operations took
    turned,    \* history: turned[t]: during one of them a second began
    measured   \* history: measured[t]: the operations, and their number

thriftBenchVars == <<testcase, next, buffer, nsec, total, true, turned, measured>>

Totals == {"binm", "binu", "compactm", "compactu", "time_sum"}
----
(***************************************************************************)
(* Operations and instructions                                             *)
(***************************************************************************)
Op(do, proto, type, len) == [do |-> do, proto |-> proto, type |-> type, len |-> len]
NoOp == Op("none", "none", "none", 0)
CallOp(type, len)        == Op("call", "binary", type, len)

\* An instruction; t is the total it is about, n what it is divided by.
Instr(what, t, op, n) == [what |-> what, total |-> t, op |-> op, n |-> n]
Measure(t, op)        == <<Instr("measure", t, op, 1)>>
Average(t, title, n)  == <<Instr("print", t, title, n)>>
NewBuffer             == <<Instr("buffer", "none", NoOp, 1)>>
Reset                 == <<Instr("reset", "none", NoOp, 1)>>

Repeat(n, body) ==
    [i \in 1 .. n * Len(body) |-> body[((i - 1) % Len(body)) + 1]]

\* The averages of marshalling, and those of unmarshalling.
PrintWrites(type, len) ==
    Average("binm", Op("write", "binary", type, len), ITERATIONS)
      \o Average("compactm", Op("write", "compact", type, len), ITERATIONS)
PrintReads(bin, compact, type, len) ==
    Average(bin, Op("read", "binary", type, len), ITERATIONS)
      \o Average(compact, Op("read", "compact", type, len), ITERATIONS)

WriteAndRead(type, len) ==
    NewBuffer
      \o Measure("binm", Op("write", "binary", type, len))
      \o Measure("binu", Op("read", "binary", type, len))
      \o Measure("compactm", Op("write", "compact", type, len))
      \o Measure("compactu", Op("read", "compact", type, len))

Marshalling(type, len) ==
    Repeat(ITERATIONS, WriteAndRead(type, len))
      \o PrintWrites(type, len) \o PrintReads("binu", "compactu", type, len)

\* Rounds of calls, their average, and the sums put to 0.
RoundTrips(op, n) ==
    Repeat(n, Measure("time_sum", op)) \o Average("time_sum", op, n) \o Reset

\* The same for one operation after the other.
Rounds(ops, n) ==
    [i \in 1 .. Len(ops) * (n + 2) |->
        RoundTrips(ops[((i - 1) \div (n + 2)) + 1], n)[((i - 1) % (n + 2)) + 1]]

\* The loop over sizeArr.
OfSizes(type, n) == [k \in 1 .. n |-> CallOp(type, k)]
----
(***************************************************************************)
(* The cases of main                                                       *)
(***************************************************************************)
MarshalInt    == Marshalling("i32", 0)
MarshalDouble == Marshalling("double", 0)

\* Mutant: the totals are not put to 0.
String1Carries == Marshalling("string", 1)

String1 == Marshalling("string", 1) \o Reset

String2 == Marshalling("string", 2) \o Reset

String3 == Marshalling("string", 3)

\* Nothing is unmarshalled: the averages of marshalling are printed again.
Complex1 ==
    Repeat(ITERATIONS,
           NewBuffer \o Measure("binm", Op("write", "binary", "complex", 1))
             \o Measure("compactm", Op("write", "compact", "complex", 1))
             \o Measure("none", Op("write", "json", "complex", 1)))
      \o PrintWrites("complex", 1) \o PrintReads("binm", "compactm", "complex", 1) \o Reset

\* Binary is unmarshalled, up to the stop of the struct; compact is not.
Complex2 ==
    Repeat(ITERATIONS,
           NewBuffer \o Measure("binm", Op("write", "binary", "complex", 2))
             \o Measure("binu", Op("read", "binary", "complex", 2))
             \o Measure("compactm", Op("write", "compact", "complex", 2))
             \o Measure("none", Op("write", "json", "complex", 2)))
      \o PrintWrites("complex", 2) \o PrintReads("binu", "compactu", "complex", 2) \o Reset

\* Nothing is unmarshalled, and the titles say string.
Complex3 ==
    Repeat(ITERATIONS,
           NewBuffer \o Measure("binm", Op("write", "binary", "complex", 3))
             \o Measure("compactm", Op("write", "compact", "complex", 3))
             \o Measure("none", Op("write", "json", "complex", 3)))
      \o PrintWrites("string", 3) \o PrintReads("binu", "compactu", "string", 3)

SmallMessages ==
    Rounds(<<CallOp("i32", 0), CallOp("double", 0),
             CallOp("string", 1), CallOp("string", 2), CallOp("string", 3),
             CallOp("complex", 1), CallOp("complex", 2), CallOp("complex", 3)>>, ITERATIONS)

LargeMessages == Rounds(OfSizes("string", Sizes), FewIterations)
Streaming     == Rounds(OfSizes("stream", Sizes), ITERATIONS)
Bandwidth     == Rounds(OfSizes("stream", BigSizes), FewerIterations)

Cases == <<MarshalInt, MarshalDouble, String1 \o String2 \o String3,
           Complex1 \o Complex2 \o Complex3, SmallMessages, LargeMessages, Streaming,
           Bandwidth>>
Code == Cases[testcase]
----
ZeroTotals ==
    /\ total' = [t \in Totals |-> 0]
    /\ true' = [t \in Totals |-> 0]
    /\ turned' = [t \in Totals |-> FALSE]
    /\ measured' = [t \in Totals |-> [ops |-> {}, n |-> 0]]

\* What is left in the buffer: a struct ends with a stop, which is not read.
AfterOp(b, op) ==
    CASE op.do = "write" /\ op.type = "complex" ->
           b \o <<<<op.proto, "complex">>, <<op.proto, "stop">>>>
      [] op.do = "write" /\ op.type # "complex" -> Append(b, <<op.proto, op.type>>)
      [] op.do = "read" /\ b # <<>> -> Tail(b)
      [] OTHER           -> b

\* What op does with the buffer b: a read that finds something else than it expects
\* is not the operation it should be.
Done(b, op) ==
    IF op.do = "read" /\ (b = <<>> \/ Head(b) # <<op.proto, op.type>>) THEN NoOp ELSE op

\* total += stop.tv_nsec - start.tv_nsec; that of json is printed only.
Clocked(i) ==
    \E d \in 0 .. Longest :
      LET stopNsec == (nsec + d) % NSEC
          t        == i.total
      IN  /\ nsec' = stopNsec
          /\ IF t = "none" THEN UNCHANGED <<total, true, turned, measured>>
             ELSE /\ total' = [total EXCEPT ![t] = @ + stopNsec - nsec]
                  /\ true' = [true EXCEPT ![t] = @ + d]
                  /\ turned' = [turned EXCEPT ![t] = @ \/ nsec + d >= NSEC]
                  /\ measured' = [measured EXCEPT ![t] = [ops |-> @.ops \union {Done(buffer, i.op)},
                                                         n |-> @.n + 1]]
          /\ buffer' = AfterOp(buffer, i.op)

Execute ==
    /\ next <= Len(Code)
    /\ next' = next + 1
    /\ LET i == Code[next]
       IN  CASE i.what = "measure" -> Clocked(i)
             [] i.what = "reset"   -> ZeroTotals /\ UNCHANGED <<buffer, nsec>>
             [] i.what = "buffer"  -> /\ buffer' = <<>>
                                     /\ UNCHANGED <<nsec, total, true, turned, measured>>
             [] i.what = "print"   -> UNCHANGED <<buffer, nsec, total, true, turned, measured>>
    /\ UNCHANGED testcase

\* A call, or a connection that cannot be opened, ends the program by catch (...).
CallThrows ==
    /\ next <= Len(Code)
    /\ next = 1 \/ (Code[next].what = "measure" /\ Code[next].op.do = "call")
    /\ next' = Len(Code) + 1
    /\ UNCHANGED <<testcase, buffer, nsec, total, true, turned, measured>>

BenchOver == next > Len(Code) /\ UNCHANGED thriftBenchVars

ThriftBenchInit ==
    /\ testcase \in 1 .. Len(Cases)
    /\ next = 1
    /\ buffer = <<>>
    /\ nsec = 0
    /\ total = [t \in Totals |-> 0]
    /\ true = [t \in Totals |-> 0]
    /\ turned = [t \in Totals |-> FALSE]
    /\ measured = [t \in Totals |-> [ops |-> {}, n |-> 0]]

ThriftBenchNext == Execute \/ CallThrows \/ BenchOver

ThriftBenchSpec == ThriftBenchInit /\ [][ThriftBenchNext]_thriftBenchVars
----
(***************************************************************************)
(* Properties                                                              *)
(***************************************************************************)
\* Of the averages of case 4, those printed for unmarshalling are of marshalling, or
\* of nothing, but the one of binary at the second length; the third are mistitled.
Mistitled(i) ==
    /\ testcase = 4
    /\ i.op.type = "string" \/ (i.op.do = "read" /\ i.op # Op("read", "binary", "complex", 2))

\* A printed average is over as many measurements as it is divided by, all of the
\* operation in the title, and with none of an earlier section, but for those
\* listed: the totals of all sections and the buffer of both protocols are shared,
\* and a read finds what its protocol has written.  And it is the true one exactly if no second began during one of them,
\* or else off by whole seconds.
AveragesAreTrue ==
    next <= Len(Code) /\ Code[next].what = "print" =>
      LET i == Code[next]
          t == i.total
      IN  /\ ~Mistitled(i) <=> measured[t] = [ops |-> {i.op}, n |-> i.n]
          /\ total[t] = true[t] <=> ~turned[t]
          /\ (true[t] - total[t]) % NSEC = 0
====
