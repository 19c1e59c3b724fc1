---- MODULE BenchProofs ----
(***************************************************************************)
(* What the benchmark of the two logs measures is what its titles say.          *)
(*                                                                         *)
(* The program is a constant, the concatenation of thirteen sections: Lengths  *)
(* and Layout say where each begins, the lemmas named after a section which        *)
(* instructions it has, and Next1 which one is next.  BenchInv gives the files   *)
(* after every instruction of every section; the lemmas ending in Step carry it   *)
(* over one.                                                               *)
(***************************************************************************)
EXTENDS LogBench, SequenceTheorems, FiniteSetTheorems, FunctionTheorems, TLAPS

(***************************************************************************)
(* The benchmark of the two logs                                           *)
(***************************************************************************)
LEMMA BenchConstants ==
    /\ Half \in Nat /\ Half >= 2 /\ Full \in Nat /\ Full = Half + Half
    /\ Numeral \in [0 .. Full - 1 -> STRING]
BY BenchAssumption DEF Full

\* The parts of the names in the logs.
Words == {"/", "%", ".tmp", "hello.txt", "write_test_0", "w", "rite_test_50", "write_test_50", "write_test_100",
          "not_in_log.txt", "not_in_lot.txt"} \union {Numeral[i] : i \in 0 .. Full - 1}

\* The entries the first n writes of SetUp leave in the log, and the pending files of the
\* first n creations.
Hello(n)  == [i \in 1 .. n |-> Name(i - 1)]
FlatOf(n) == {FlatName(Name(i)) : i \in 0 .. n - 1}

\* The files are the three logs and the pending files.
Shaped(f) == f = [log |-> f.log, log50 |-> f.log50, log100 |-> f.log100, pending |-> f.pending]

\* The copies SetUp makes.
Copies == {"cp_log_log50", "cp_log_log100"}

\* What an instruction leaves alone, and what it makes of the rest.
LEMMA OnWrite ==
    ASSUME NEW f, Shaped(f), NEW i, i.do = "write"
    PROVE  /\ Shaped(Run(i, f)) /\ Run(i, f).log = Append(f.log, Tail(i.path))
           /\ Run(i, f).log50 = f.log50 /\ Run(i, f).log100 = f.log100 /\ Run(i, f).pending = f.pending
BY DEF Run, Shaped, WriteSingleLog

LEMMA OnCreate ==
    ASSUME NEW f, Shaped(f), NEW i, i.do = "create"
    PROVE  /\ Shaped(Run(i, f)) /\ Run(i, f).pending = f.pending \union {FlatName(i.path)}
           /\ Run(i, f).log = f.log /\ Run(i, f).log50 = f.log50 /\ Run(i, f).log100 = f.log100
BY DEF Run, Shaped, CreatePending

LEMMA OnClose ==
    ASSUME NEW f, Shaped(f), NEW i, i.do = "close"
    PROVE  /\ Shaped(Run(i, f))
           /\ Run(i, f).log50 = f.log50 /\ Run(i, f).log100 = f.log100 /\ Run(i, f).pending = f.pending
<1>1. Run(i, f) = CloseEntry(f, i.path)
  BY DEF Run
<1>2. PICK x : CloseEntry(f, i.path) = [f EXCEPT !.log = x]
  BY DEF CloseEntry
<1>. QED
  BY <1>1, <1>2 DEF Shaped

LEMMA OnRm ==
    ASSUME NEW f, Shaped(f), NEW i, i.do = "rm"
    PROVE  /\ Shaped(Run(i, f)) /\ Run(i, f).pending = f.pending \ {FlatName(i.path)}
           /\ Run(i, f).log = f.log /\ Run(i, f).log50 = f.log50 /\ Run(i, f).log100 = f.log100
BY DEF Run, Shaped, RemovePending

LEMMA OnInitSingle ==
    ASSUME NEW f, Shaped(f), NEW i, i.do = "init_single"
    PROVE  /\ Shaped(Run(i, f)) /\ Run(i, f).log = <<>>
           /\ Run(i, f).log50 = f.log50 /\ Run(i, f).log100 = f.log100 /\ Run(i, f).pending = f.pending
BY DEF Run, Shaped, InitSingleLog

LEMMA OnInitMulti ==
    ASSUME NEW f, Shaped(f), NEW i, i.do = "init_multi"
    PROVE  /\ Shaped(Run(i, f)) /\ Run(i, f).pending = {}
           /\ Run(i, f).log = f.log /\ Run(i, f).log50 = f.log50 /\ Run(i, f).log100 = f.log100
BY DEF Run, Shaped, InitMultiLog

LEMMA OnSave50 ==
    ASSUME NEW f, Shaped(f), NEW i, i.do = "cp_log_log50"
    PROVE  /\ Shaped(Run(i, f)) /\ Run(i, f).log50 = f.log
           /\ Run(i, f).log = f.log /\ Run(i, f).log100 = f.log100 /\ Run(i, f).pending = f.pending
BY DEF Run, Shaped

LEMMA OnSave100 ==
    ASSUME NEW f, Shaped(f), NEW i, i.do = "cp_log_log100"
    PROVE  /\ Shaped(Run(i, f)) /\ Run(i, f).log100 = f.log
           /\ Run(i, f).log = f.log /\ Run(i, f).log50 = f.log50 /\ Run(i, f).pending = f.pending
BY DEF Run, Shaped

LEMMA OnRestore50 ==
    ASSUME NEW f, Shaped(f), NEW i, i.do = "cp_log50_log"
    PROVE  /\ Shaped(Run(i, f)) /\ Run(i, f).log = f.log50
           /\ Run(i, f).log50 = f.log50 /\ Run(i, f).log100 = f.log100 /\ Run(i, f).pending = f.pending
BY DEF Run, Shaped

LEMMA OnRestore100 ==
    ASSUME NEW f, Shaped(f), NEW i, i.do = "cp_log100_log"
    PROVE  /\ Shaped(Run(i, f)) /\ Run(i, f).log = f.log100
           /\ Run(i, f).log50 = f.log50 /\ Run(i, f).log100 = f.log100 /\ Run(i, f).pending = f.pending
BY DEF Run, Shaped

LEMMA OnOther ==
    ASSUME NEW f, NEW i, i.do \notin {"write", "create", "close", "rm", "init_single", "init_multi",
                                     "cp_log_log50", "cp_log_log100", "cp_log50_log", "cp_log100_log"}
    PROVE  Run(i, f) = f
BY DEF Run

\* Only SetUp writes the two logs that are copied back.
LEMMA RunFacts ==
    ASSUME NEW f, Shaped(f), NEW i
    PROVE  /\ Shaped(Run(i, f))
           /\ i.do \notin Copies => Run(i, f).log50 = f.log50 /\ Run(i, f).log100 = f.log100
<1>1. CASE i.do = "write"
  BY <1>1, OnWrite
<1>2. CASE i.do = "create"
  BY <1>2, OnCreate
<1>3. CASE i.do = "close"
  BY <1>3, OnClose
<1>4. CASE i.do = "rm"
  BY <1>4, OnRm
<1>5. CASE i.do = "init_single"
  BY <1>5, OnInitSingle
<1>6. CASE i.do = "init_multi"
  BY <1>6, OnInitMulti
<1>7. CASE i.do = "cp_log_log50"
  BY <1>7, OnSave50 DEF Copies
<1>8. CASE i.do = "cp_log_log100"
  BY <1>8, OnSave100 DEF Copies
<1>9. CASE i.do = "cp_log50_log"
  BY <1>9, OnRestore50
<1>10. CASE i.do = "cp_log100_log"
  BY <1>10, OnRestore100
<1>11. CASE i.do \notin {"write", "create", "close", "rm", "init_single", "init_multi",
                        "cp_log_log50", "cp_log_log100", "cp_log50_log", "cp_log100_log"}
  BY <1>11, OnOther
<1>. QED
  BY <1>1, <1>2, <1>3, <1>4, <1>5, <1>6, <1>7, <1>8, <1>9, <1>10, <1>11

\* The pending file of a path.
LEMMA FlatNames ==
    ASSUME NEW p \in Seq(Words), p # <<>>
    PROVE  /\ FlatName(p) \in Seq(Words) /\ Len(FlatName(p)) = Len(p) + 1
           /\ \A k \in 1 .. Len(p) : FlatName(p)[k] = IF p[k] = "/" THEN "%" ELSE p[k]
<1>. DEFINE q == [k \in DOMAIN p |-> IF p[k] = "/" THEN "%" ELSE p[k]]
<1>1. Len(p) \in Nat /\ DOMAIN p = 1 .. Len(p) /\ \A k \in 1 .. Len(p) : p[k] \in Words
  OBVIOUS
<1>2. \A k \in 1 .. Len(p) : q[k] \in Words /\ q[k] = IF p[k] = "/" THEN "%" ELSE p[k]
  BY <1>1 DEF Words
<1>3. q = [k \in 1 .. Len(p) |-> q[k]]
  BY <1>1
<1>. HIDE DEF q
<1>4. q \in Seq(Words) /\ Len(q) = Len(p)
  BY <1>1, <1>2, <1>3
<1>5. FlatName(p) = q \o <<".tmp">>
  BY DEF FlatName, q
<1>6. <<".tmp">> \in Seq(Words) /\ Len(<<".tmp">>) = 1
  BY DEF Words
<1>7. /\ q \o <<".tmp">> \in Seq(Words) /\ Len(q \o <<".tmp">>) = Len(p) + 1
      /\ \A k \in 1 .. Len(p) : (q \o <<".tmp">>)[k] = q[k]
  BY <1>1, <1>4, <1>6, ConcatProperties
<1>. QED
  BY <1>2, <1>5, <1>7

\* Names and their pending files tell the files apart.
LEMMA HelloNames ==
    /\ \A i \in 0 .. Full - 1 :
         /\ Name(i) \in Seq(Words) /\ Len(Name(i)) = 2 /\ Name(i)[1] = "hello.txt"
         /\ FlatName(Name(i))[1] = "hello.txt"
    /\ \A i, j \in 0 .. Full - 1 : Name(i) = Name(j) \/ FlatName(Name(i)) = FlatName(Name(j)) => i = j
<1>1. ASSUME NEW i \in 0 .. Full - 1
      PROVE  /\ Name(i) \in Seq(Words) /\ Len(Name(i)) = 2 /\ Name(i)[1] = "hello.txt"
             /\ Name(i)[2] = Numeral[i]
  <2>1. Numeral[i] \in Words /\ "hello.txt" \in Words
    BY DEF Words
  <2>. QED
    BY <2>1 DEF Name
<1>2. ASSUME NEW i \in 0 .. Full - 1
      PROVE  FlatName(Name(i))[1] = "hello.txt" /\ FlatName(Name(i))[2] = Numeral[i]
  <2>1. Numeral[i] # "/"
    BY BenchAssumption
  <2>2. Name(i) # <<>> /\ 1 \in 1 .. Len(Name(i)) /\ 2 \in 1 .. Len(Name(i))
    BY <1>1
  <2>3. Name(i) \in Seq(Words)
    BY <1>1
  <2>4. \A k \in 1 .. Len(Name(i)) : FlatName(Name(i))[k] = IF Name(i)[k] = "/" THEN "%" ELSE Name(i)[k]
    BY <2>2, <2>3, FlatNames
  <2>. QED
    BY <1>1, <2>1, <2>2, <2>4
<1>3. \A i, j \in 0 .. Full - 1 : Numeral[i] = Numeral[j] => i = j
  BY BenchAssumption
<1>. QED
  BY <1>1, <1>2, <1>3

\* The log of the first n entries, and one more.
LEMMA HelloType ==
    ASSUME NEW n \in 0 .. Full
    PROVE  Hello(n) \in Seq(Seq(Words)) /\ Len(Hello(n)) = n /\ DOMAIN Hello(n) = 1 .. n
<1>1. \A i \in 1 .. n : Name(i - 1) \in Seq(Words)
  BY HelloNames, BenchConstants
<1>. QED
  BY <1>1, BenchConstants DEF Hello

LEMMA HelloLog ==
    ASSUME NEW n \in 0 .. Full
    PROVE  /\ Hello(n) \in Seq(Seq(Words)) /\ Len(Hello(n)) = n
           /\ \A i \in 1 .. n : Hello(n)[i] = Name(i - 1)
           /\ n < Full => Append(Hello(n), Name(n)) = Hello(n + 1)
<1>1. Hello(n) \in Seq(Seq(Words)) /\ Len(Hello(n)) = n /\ DOMAIN Hello(n) = 1 .. n
  BY HelloType
<1>2. \A i \in 1 .. n : Hello(n)[i] = Name(i - 1)
  BY DEF Hello
<1>3. ASSUME n < Full PROVE Append(Hello(n), Name(n)) = Hello(n + 1)
  <2>. DEFINE s == Append(Hello(n), Name(n))
              t == Hello(n + 1)
  <2>1. Name(n) \in Seq(Words)
    BY <1>3, HelloNames, BenchConstants
  <2>2. s \in Seq(Seq(Words)) /\ Len(s) = n + 1 /\ s[n + 1] = Name(n)
        /\ \A i \in 1 .. n : s[i] = Name(i - 1)
    BY <1>1, <1>2, <2>1, AppendProperties
  <2>3. t = [i \in 1 .. n + 1 |-> Name(i - 1)]
    BY DEF Hello
  <2>4. \A i \in 1 .. n + 1 : s[i] = t[i]
    BY <2>2, <2>3, BenchConstants
  <2>5. t \in Seq(Seq(Words)) /\ Len(t) = n + 1
    <3>1. n + 1 \in 0 .. Full
      BY <1>3, BenchConstants
    <3>. QED
      BY <3>1, HelloType
  <2>. HIDE DEF s, t
  <2>6. s = t
    BY <2>2, <2>4, <2>5, SeqEqual
  <2>. QED
    BY <2>6 DEF s, t
<1>. QED
  BY <1>1, <1>2, <1>3

\* The pending files of the first n, and one more.
LEMMA FlatFiles ==
    ASSUME NEW n \in 0 .. Full
    PROVE  /\ IsFiniteSet(FlatOf(n)) /\ Cardinality(FlatOf(n)) = n
           /\ FlatOf(0) = {}
           /\ \A i \in 0 .. n - 1 : FlatName(Name(i)) \in FlatOf(n)
           /\ \A x \in FlatOf(n) : x[1] = "hello.txt"
           /\ n < Full => FlatOf(n + 1) = FlatOf(n) \union {FlatName(Name(n))}
<1>. DEFINE g == [k \in 1 .. n |-> FlatName(Name(k - 1))]
<1>1. g \in [1 .. n -> FlatOf(n)]
  BY DEF FlatOf
<1>2. \A k, l \in 1 .. n : g[k] = g[l] => k = l
  <2>. SUFFICES ASSUME NEW k \in 1 .. n, NEW l \in 1 .. n, g[k] = g[l] PROVE k = l
    OBVIOUS
  <2>1. k - 1 \in 0 .. Full - 1 /\ l - 1 \in 0 .. Full - 1
    BY BenchConstants
  <2>2. FlatName(Name(k - 1)) = FlatName(Name(l - 1))
    OBVIOUS
  <2>3. k - 1 = l - 1
    BY <2>1, <2>2, HelloNames
  <2>. QED
    BY <2>3
<1>3. \A x \in FlatOf(n) : \E k \in 1 .. n : g[k] = x
  <2>. SUFFICES ASSUME NEW j \in 0 .. n - 1 PROVE \E k \in 1 .. n : g[k] = FlatName(Name(j))
    BY DEF FlatOf
  <2>1. j + 1 \in 1 .. n /\ (j + 1) - 1 = j
    OBVIOUS
  <2>2. g[j + 1] = FlatName(Name(j))
    BY <2>1
  <2>. QED
    BY <2>1, <2>2
<1>. HIDE DEF g
<1>4. ExistsBijection(1 .. n, FlatOf(n))
  <2>1. g \in Bijection(1 .. n, FlatOf(n))
    BY <1>1, <1>2, <1>3 DEF Bijection, Injection, Surjection, IsInjective
  <2>. QED
    BY <2>1 DEF ExistsBijection
<1>5. IsFiniteSet(FlatOf(n)) /\ Cardinality(FlatOf(n)) = n
  <2>1. n \in Nat
    BY BenchConstants
  <2>. QED
    BY <1>4, <2>1, FS_NatBijection, FS_CountingElements
<1>6. \A x \in FlatOf(n) : x[1] = "hello.txt"
  <2>1. \A i \in 0 .. n - 1 : i \in 0 .. Full - 1
    BY BenchConstants
  <2>. QED
    BY <2>1, HelloNames DEF FlatOf
<1>7. n < Full => FlatOf(n + 1) = FlatOf(n) \union {FlatName(Name(n))}
  <2>1. 0 .. (n + 1) - 1 = (0 .. n - 1) \union {n}
    BY BenchConstants
  <2>. QED
    BY <2>1 DEF FlatOf
<1>8. FlatOf(0) = {} /\ \A i \in 0 .. n - 1 : FlatName(Name(i)) \in FlatOf(n)
  BY DEF FlatOf
<1>. QED
  BY <1>5, <1>6, <1>7, <1>8

(***************************************************************************)
(* The program, section by section                                         *)
(***************************************************************************)
Ops == {"write", "create", "close", "rm", "check", "is_modified", "init_single", "init_multi",
        "cp_log_log50", "cp_log_log100", "cp_log50_log", "cp_log100_log"}
Instrs == [do : Ops, path : Seq(Words), title : [size : Int, place : Int]]

Ins(op, p, t) == [do |-> op, path |-> p, title |-> t]

Section(k) ==
    CASE k = 1 -> SetUp              [] k = 2 -> TestInit           [] k = 3 -> TestWrite0
      [] k = 4 -> TestWrite50        [] k = 5 -> TestWrite100       [] k = 6 -> TestCheckBeginning
      [] k = 7 -> TestCheckMiddle    [] k = 8 -> TestCheckEnd       [] k = 9 -> TestCheckNotInLog
      [] k = 10 -> TestRemoveBeginning [] k = 11 -> TestRemoveMiddle
      [] k = 12 -> TestRemoveEnd     [] k = 13 -> TestRemoveNotInLog

\* The instructions of section k, and of those before it.
Length(k) ==
    CASE k = 1 -> Full + 2   [] k = 2 -> Full + Full + 2   [] k = 3 -> 4
      [] k = 4 -> Half + 5   [] k = 5 -> Full + 5          [] k = 6 -> Full + 3
      [] k = 7 -> 3          [] k = 8 -> 3                 [] k = 9 -> 5
      [] k = 10 -> Full + 3  [] k = 11 -> 3                [] k = 12 -> 3
      [] k = 13 -> 5

\* What the two loops are, for every bound.
LEMMA Loops ==
    ASSUME NEW a \in 0 .. Full, NEW b \in a .. Full
    PROVE  /\ WriteLoop(a, b) \in Seq(Instrs) /\ Len(WriteLoop(a, b)) = b - a
           /\ \A i \in 1 .. b - a : /\ WriteLoop(a, b)[i].do = "write"
                                    /\ WriteLoop(a, b)[i].title = Untimed
                                    /\ Tail(WriteLoop(a, b)[i].path) = Name(a + i - 1)
           /\ CreateLoop(a, b) \in Seq(Instrs) /\ Len(CreateLoop(a, b)) = b - a
           /\ \A i \in 1 .. b - a : CreateLoop(a, b)[i] = Ins("create", Name(a + i - 1), Untimed)
<1>1. \A i \in 1 .. b - a : a + i - 1 \in 0 .. Full - 1
  BY BenchConstants
<1>2. \A i \in 1 .. b - a :
        /\ Name(a + i - 1) \in Seq(Words) /\ <<>> \o Name(a + i - 1) = Name(a + i - 1)
        /\ <<"/">> \o Name(a + i - 1) \in Seq(Words)
        /\ Tail(<<"/">> \o Name(a + i - 1)) = Name(a + i - 1)
  <2>. TAKE i \in 1 .. b - a
  <2>. DEFINE n == Name(a + i - 1)
  <2>1. n \in Seq(Words) /\ <<"/">> \in Seq(Words)
    <3>1. n \in Seq(Words)
      BY <1>1, HelloNames
    <3>2. <<"/">> \in Seq(Words)
      BY DEF Words
    <3>. QED
      BY <3>1, <3>2
  <2>. HIDE DEF n
  <2>2. <<>> \o n = n
    BY <2>1, ConcatEmptySeq
  <2>3. <<"/">> \o n \in Seq(Words) /\ Len(<<"/">> \o n) = 1 + Len(n)
    BY <2>1
  <2>4. Tail(<<"/">> \o n) \in Seq(Words) /\ Len(Tail(<<"/">> \o n)) = Len(n)
    BY <2>1, <2>3
  <2>5. \A j \in 1 .. Len(n) : Tail(<<"/">> \o n)[j] = n[j]
    BY <2>1, <2>3, <2>4
  <2>6. Tail(<<"/">> \o n) = n
    BY <2>1, <2>4, <2>5, SeqEqual
  <2>. QED
    BY <2>1, <2>2, <2>3, <2>6 DEF n
<1>3. Untimed \in [size : Int, place : Int]
  BY DEF Untimed
<1>4. b - a \in Nat
  BY BenchConstants
<1>5. WriteLoop(a, b) = [i \in 1 .. b - a |-> Ins("write", <<"/">> \o Name(a + i - 1), Untimed)]
  BY DEF WriteLoop, Loop, Ins
<1>6. CreateLoop(a, b) = [i \in 1 .. b - a |-> Ins("create", Name(a + i - 1), Untimed)]
  BY <1>2 DEF CreateLoop, Loop, Ins
<1>7. \A i \in 1 .. b - a : /\ Ins("write", <<"/">> \o Name(a + i - 1), Untimed) \in Instrs
                            /\ Ins("create", Name(a + i - 1), Untimed) \in Instrs
  BY <1>2, <1>3 DEF Ins, Instrs, Ops
<1>8. WriteLoop(a, b) \in Seq(Instrs) /\ Len(WriteLoop(a, b)) = b - a
  <2>. DEFINE g == WriteLoop(a, b)
  <2>1. g = [i \in 1 .. b - a |-> g[i]] /\ \A i \in 1 .. b - a : g[i] \in Instrs
    BY <1>5, <1>7
  <2>. HIDE DEF g
  <2>2. g \in Seq(Instrs) /\ Len(g) = b - a
    BY <1>4, <2>1
  <2>. QED
    BY <2>2 DEF g
<1>9. CreateLoop(a, b) \in Seq(Instrs) /\ Len(CreateLoop(a, b)) = b - a
  <2>. DEFINE g == CreateLoop(a, b)
  <2>1. g = [i \in 1 .. b - a |-> g[i]] /\ \A i \in 1 .. b - a : g[i] \in Instrs
    BY <1>6, <1>7
  <2>. HIDE DEF g
  <2>2. g \in Seq(Instrs) /\ Len(g) = b - a
    BY <1>4, <2>1
  <2>. QED
    BY <2>2 DEF g
<1>10. \A i \in 1 .. b - a : CreateLoop(a, b)[i] = Ins("create", Name(a + i - 1), Untimed)
  BY <1>6
<1>11. \A i \in 1 .. b - a : WriteLoop(a, b)[i] = Ins("write", <<"/">> \o Name(a + i - 1), Untimed)
  BY <1>5
<1>12. \A i \in 1 .. b - a : /\ WriteLoop(a, b)[i].do = "write"
                             /\ WriteLoop(a, b)[i].title = Untimed
                             /\ Tail(WriteLoop(a, b)[i].path) = Name(a + i - 1)
  <2>. TAKE i \in 1 .. b - a
  <2>1. WriteLoop(a, b)[i] = Ins("write", <<"/">> \o Name(a + i - 1), Untimed)
    BY <1>11
  <2>. DEFINE z == Ins("write", <<"/">> \o Name(a + i - 1), Untimed)
  <2>2. z.do = "write" /\ z.title = Untimed /\ z.path = <<"/">> \o Name(a + i - 1)
    BY DEF Ins
  <2>. HIDE DEF z
  <2>3. WriteLoop(a, b)[i] = z
    BY <2>1 DEF z
  <2>. QED
    BY <1>2, <2>2, <2>3
<1>. QED
  BY <1>8, <1>9, <1>10, <1>12

\* The single instructions.
LEMMA Singles ==
    ASSUME NEW op \in Ops
    PROVE  /\ Simply(op) = <<Ins(op, <<>>, Untimed)>> /\ Ins(op, <<>>, Untimed) \in Instrs
           /\ \A p : Do(op, p) = <<Ins(op, p, Untimed)>>
           /\ \A p, n, k : Time(op, p, Titled(n, k)) = <<Ins(op, p, Titled(n, k))>>
           /\ \A p \in Seq(Words), n, k \in Int : Ins(op, p, Titled(n, k)) \in Instrs
<1>1. Untimed \in [size : Int, place : Int] /\ \A n, k \in Int : Titled(n, k) \in [size : Int, place : Int]
  BY DEF Untimed, Titled
<1>2. <<>> \in Seq(Words)
  OBVIOUS
<1>3. \A p \in Seq(Words), t \in [size : Int, place : Int] : Ins(op, p, t) \in Instrs
  BY DEF Ins, Instrs
<1>4. \A p, t : Time(op, p, t) = <<Ins(op, p, t)>> /\ Do(op, p) = <<Ins(op, p, Untimed)>>
  BY DEF Do, Time, Ins
<1>5. Simply(op) = Do(op, <<>>)
  BY DEF Simply
<1>. QED
  BY <1>1, <1>2, <1>3, <1>4, <1>5

\* The files the tests have of their own.
LEMMA OtherNames ==
    ASSUME NEW w \in Words
    PROVE  /\ Other(w) \in Seq(Words) /\ Len(Other(w)) = 1 /\ Other(w)[1] = w
           /\ Slash(Other(w)) \in Seq(Words) /\ Slash(Other(w)) # <<>> /\ Slash(Other(w))[1] = "/"
<1>1. "/" \in Words
  BY DEF Words
<1>. QED
  BY <1>1 DEF Other, Slash

\* Sequences of instructions, joined.
LEMMA Join ==
    ASSUME NEW s \in Seq(Instrs), NEW t \in Seq(Instrs), NEW n \in Nat, Len(s) = n
    PROVE  /\ s \o t \in Seq(Instrs) /\ Len(s \o t) = n + Len(t)
           /\ \A i \in 1 .. n : (s \o t)[i] = s[i]
           /\ \A i \in 1 .. Len(t) : (s \o t)[n + i] = t[i]
OBVIOUS

LEMMA JoinOne ==
    ASSUME NEW s \in Seq(Instrs), NEW x \in Instrs, NEW n \in Nat, Len(s) = n
    PROVE  /\ s \o <<x>> \in Seq(Instrs) /\ Len(s \o <<x>>) = n + 1
           /\ \A i \in 1 .. n : (s \o <<x>>)[i] = s[i]
           /\ (s \o <<x>>)[n + 1] = x
OBVIOUS

LEMMA Two ==
    ASSUME NEW a \in Instrs, NEW b \in Instrs
    PROVE  LET s == <<a>> \o <<b>>
           IN  s \in Seq(Instrs) /\ Len(s) = 2 /\ s[1] = a /\ s[2] = b
OBVIOUS

LEMMA Three ==
    ASSUME NEW a \in Instrs, NEW b \in Instrs, NEW c \in Instrs
    PROVE  LET s == <<a>> \o <<b>> \o <<c>>
           IN  s \in Seq(Instrs) /\ Len(s) = 3 /\ s[1] = a /\ s[2] = b /\ s[3] = c
OBVIOUS

\* A loop and what comes after it, one instruction at a time.
LEMMA LoopAndThree ==
    ASSUME NEW L \in Seq(Instrs), NEW n \in Nat, Len(L) = n,
           NEW a \in Instrs, NEW b \in Instrs, NEW c \in Instrs
    PROVE  LET s == L \o <<a>> \o <<b>> \o <<c>>
           IN  /\ s \in Seq(Instrs) /\ Len(s) = n + 3
               /\ \A i \in 1 .. n : s[i] = L[i]
               /\ s[n + 1] = a /\ s[n + 2] = b /\ s[n + 3] = c
<1>. DEFINE r == L \o <<a>>
            t == r \o <<b>>
            s == t \o <<c>>
<1>1. /\ r \in Seq(Instrs) /\ Len(r) = n + 1 /\ r[n + 1] = a
      /\ \A i \in 1 .. n : r[i] = L[i]
  BY JoinOne
<1>. HIDE DEF r
<1>2. /\ t \in Seq(Instrs) /\ Len(t) = (n + 1) + 1 /\ t[(n + 1) + 1] = b
      /\ \A i \in 1 .. n + 1 : t[i] = r[i]
  BY <1>1, JoinOne
<1>. HIDE DEF t
<1>3. /\ s \in Seq(Instrs) /\ Len(s) = (n + 2) + 1 /\ s[(n + 2) + 1] = c
      /\ \A i \in 1 .. n + 2 : s[i] = t[i]
  BY <1>2, JoinOne
<1>. HIDE DEF s
<1>4. /\ s \in Seq(Instrs) /\ Len(s) = n + 3
      /\ \A i \in 1 .. n : s[i] = L[i]
      /\ s[n + 1] = a /\ s[n + 2] = b /\ s[n + 3] = c
  BY <1>1, <1>2, <1>3
<1>. QED
  BY <1>4 DEF s, t, r

LEMMA LoopAndGroup ==
    ASSUME NEW L \in Seq(Instrs), NEW n \in Nat, Len(L) = n,
           NEW a \in Instrs, NEW b \in Instrs, NEW c \in Instrs
    PROVE  LET s == L \o (<<a>> \o <<b>> \o <<c>>)
           IN  /\ s \in Seq(Instrs) /\ Len(s) = n + 3
               /\ \A i \in 1 .. n : s[i] = L[i]
               /\ s[n + 1] = a /\ s[n + 2] = b /\ s[n + 3] = c
<1>. DEFINE t == <<a>> \o <<b>> \o <<c>>
<1>1. t \in Seq(Instrs) /\ Len(t) = 3 /\ t[1] = a /\ t[2] = b /\ t[3] = c
  BY Three
<1>. HIDE DEF t
<1>2. /\ L \o t \in Seq(Instrs) /\ Len(L \o t) = n + Len(t)
      /\ \A i \in 1 .. n : (L \o t)[i] = L[i]
      /\ \A i \in 1 .. Len(t) : (L \o t)[n + i] = t[i]
  BY <1>1, Join
<1>3. (L \o t)[n + 1] = a /\ (L \o t)[n + 2] = b /\ (L \o t)[n + 3] = c
  BY <1>1, <1>2
<1>. QED
  BY <1>1, <1>2, <1>3 DEF t

LEMMA AndTwo ==
    ASSUME NEW L \in Seq(Instrs), NEW n \in Nat, Len(L) = n, NEW d \in Instrs, NEW e \in Instrs
    PROVE  LET s == L \o (<<d>> \o <<e>>)
           IN  /\ s \in Seq(Instrs) /\ Len(s) = n + 2
               /\ \A i \in 1 .. n : s[i] = L[i]
               /\ s[n + 1] = d /\ s[n + 2] = e
<1>. DEFINE t == <<d>> \o <<e>>
<1>1. t \in Seq(Instrs) /\ Len(t) = 2 /\ t[1] = d /\ t[2] = e
  BY Two
<1>. HIDE DEF t
<1>2. /\ L \o t \in Seq(Instrs) /\ Len(L \o t) = n + Len(t)
      /\ \A i \in 1 .. n : (L \o t)[i] = L[i]
      /\ \A i \in 1 .. Len(t) : (L \o t)[n + i] = t[i]
  BY <1>1, Join
<1>3. (L \o t)[n + 1] = d /\ (L \o t)[n + 2] = e
  BY <1>1, <1>2
<1>. QED
  BY <1>1, <1>2, <1>3 DEF t

\* The same without a loop.
LEMMA Four ==
    ASSUME NEW a \in Instrs, NEW b \in Instrs, NEW c \in Instrs, NEW d \in Instrs
    PROVE  LET s == <<a>> \o <<b>> \o (<<c>> \o <<d>>)
           IN  s \in Seq(Instrs) /\ Len(s) = 4 /\ s[1] = a /\ s[2] = b /\ s[3] = c /\ s[4] = d
OBVIOUS

LEMMA Five ==
    ASSUME NEW a \in Instrs, NEW b \in Instrs, NEW c \in Instrs, NEW d \in Instrs, NEW e \in Instrs
    PROVE  LET s == <<a>> \o <<b>> \o <<c>> \o (<<d>> \o <<e>>)
           IN  /\ s \in Seq(Instrs) /\ Len(s) = 5
               /\ s[1] = a /\ s[2] = b /\ s[3] = c /\ s[4] = d /\ s[5] = e
OBVIOUS

\* The instructions of each section, one by one.
LEMMA SetUpIs ==
    /\ SetUp \in Seq(Instrs) /\ Len(SetUp) = Full + 2
    /\ \A i \in 1 .. Half : SetUp[i].do = "write" /\ Tail(SetUp[i].path) = Name(i - 1)
                            /\ SetUp[i].title = Untimed
    /\ SetUp[Half + 1] = Ins("cp_log_log50", <<>>, Untimed)
    /\ \A i \in Half + 2 .. Full + 1 : SetUp[i].do = "write" /\ Tail(SetUp[i].path) = Name(i - 2)
                                       /\ SetUp[i].title = Untimed
    /\ SetUp[Full + 2] = Ins("cp_log_log100", <<>>, Untimed)
<1>. DEFINE A == WriteLoop(0, Half)
            B == WriteLoop(Half, Full)
            x == Ins("cp_log_log50", <<>>, Untimed)
            y == Ins("cp_log_log100", <<>>, Untimed)
            s == A \o <<x>> \o B \o <<y>>
<1>1. /\ A \in Seq(Instrs) /\ Len(A) = Half
      /\ \A i \in 1 .. Half : A[i].do = "write" /\ A[i].title = Untimed /\ Tail(A[i].path) = Name(i - 1)
  <2>1. 0 \in 0 .. Full /\ Half \in 0 .. Full
    BY BenchConstants
  <2>2. Half \in 0 .. Full /\ Half - 0 = Half /\ \A i \in 1 .. Half : 0 + i - 1 = i - 1
    BY BenchConstants
  <2>3. /\ A \in Seq(Instrs) /\ Len(A) = Half - 0
        /\ \A i \in 1 .. Half - 0 : A[i].do = "write" /\ A[i].title = Untimed
                                     /\ Tail(A[i].path) = Name(0 + i - 1)
    BY <2>1, <2>2, Loops
  <2>. QED
    BY <2>2, <2>3
<1>2. /\ B \in Seq(Instrs) /\ Len(B) = Half
      /\ \A i \in 1 .. Half : B[i].do = "write" /\ B[i].title = Untimed /\ Tail(B[i].path) = Name(Half + i - 1)
  <2>1. Full \in Half .. Full /\ Half \in 0 .. Full /\ Full - Half = Half
    BY BenchConstants
  <2>. QED
    BY <2>1, Loops
<1>3. x \in Instrs /\ y \in Instrs /\ SetUp = s
  <2>1. "cp_log_log50" \in Ops /\ "cp_log_log100" \in Ops /\ <<>> \in Seq(Words)
    BY DEF Ops
  <2>. QED
    BY <2>1, Singles DEF SetUp
<1>. HIDE DEF A, B, x, y
<1>4. /\ s \in Seq(Instrs) /\ Len(s) = Full + 2
      /\ \A i \in 1 .. Half : s[i] = A[i]
      /\ s[Half + 1] = x
      /\ \A i \in 1 .. Half : s[Half + 1 + i] = B[i]
      /\ s[Full + 2] = y
  <2>. DEFINE s1 == A \o <<x>>
              s2 == s1 \o B
  <2>1. /\ s1 \in Seq(Instrs) /\ Len(s1) = Half + 1
        /\ \A i \in 1 .. Half : s1[i] = A[i]
        /\ s1[Half + 1] = x
    <3>1. A \in Seq(Instrs) /\ Len(A) = Half /\ Half \in Nat /\ x \in Instrs
      BY <1>1, <1>3, BenchConstants
    <3>. QED
      BY <3>1, JoinOne
  <2>. HIDE DEF s1
  <2>2. /\ s2 \in Seq(Instrs) /\ Len(s2) = Full + 1
        /\ \A i \in 1 .. Half + 1 : s2[i] = s1[i]
        /\ \A i \in 1 .. Half : s2[Half + 1 + i] = B[i]
    <3>1. Half + 1 \in Nat /\ Full + 1 = Half + 1 + Half
      BY BenchConstants
    <3>. QED
      BY <1>2, <2>1, <3>1, Join, ZenonT(30)
  <2>. HIDE DEF s2
  <2>3. /\ s2 \o <<y>> \in Seq(Instrs) /\ Len(s2 \o <<y>>) = Full + 2
        /\ \A i \in 1 .. Full + 1 : (s2 \o <<y>>)[i] = s2[i]
        /\ (s2 \o <<y>>)[Full + 2] = y
    <3>1. Full + 1 \in Nat /\ Full + 2 = Full + 1 + 1
      BY BenchConstants
    <3>. QED
      BY <1>3, <2>2, <3>1, JoinOne
  <2>4. s = s2 \o <<y>>
    BY DEF s1, s2
  <2>. HIDE DEF s
  <2>5. \A i \in 1 .. Half : s[i] = A[i]
    BY <2>1, <2>2, <2>3, <2>4, BenchConstants
  <2>6. s[Half + 1] = x
    BY <2>1, <2>2, <2>3, <2>4, BenchConstants
  <2>7. \A i \in 1 .. Half : s[Half + 1 + i] = B[i]
    BY <2>2, <2>3, <2>4, BenchConstants
  <2>. QED
    BY <2>3, <2>4, <2>5, <2>6, <2>7
<1>. HIDE DEF s
<1>5. ASSUME NEW i \in Half + 2 .. Full + 1
      PROVE  s[i].do = "write" /\ Tail(s[i].path) = Name(i - 2) /\ s[i].title = Untimed
  <2>. DEFINE k == i - Half - 1
  <2>1. k \in 1 .. Half /\ Half + 1 + k = i /\ Half + k - 1 = i - 2
    BY BenchConstants
  <2>. HIDE DEF k
  <2>2. s[Half + 1 + k] = B[k] /\ B[k].do = "write" /\ B[k].title = Untimed
        /\ Tail(B[k].path) = Name(Half + k - 1)
    BY <1>2, <1>4, <2>1
  <2>. QED
    BY <2>1, <2>2
<1>. QED
  BY <1>1, <1>3, <1>4, <1>5 DEF x, y

\* The loop that fills the directory of pending files.
LEMMA Creates ==
    ASSUME NEW n \in 0 .. Full
    PROVE  /\ CreateLoop(0, n) \in Seq(Instrs) /\ Len(CreateLoop(0, n)) = n
           /\ \A i \in 1 .. n : CreateLoop(0, n)[i] = Ins("create", Name(i - 1), Untimed)
<1>1. 0 \in 0 .. Full /\ n \in 0 .. Full /\ n - 0 = n /\ \A i \in 1 .. n : 0 + i - 1 = i - 1
  BY BenchConstants
<1>2. /\ CreateLoop(0, n) \in Seq(Instrs) /\ Len(CreateLoop(0, n)) = n - 0
      /\ \A i \in 1 .. n - 0 : CreateLoop(0, n)[i] = Ins("create", Name(0 + i - 1), Untimed)
  BY <1>1, Loops
<1>. QED
  BY <1>1, <1>2

LEMMA TestInitIs ==
    /\ TestInit \in Seq(Instrs) /\ Len(TestInit) = Full + Full + 2
    /\ \A i \in 1 .. Full : TestInit[i].do = "write" /\ TestInit[i].title = Untimed
                            /\ Tail(TestInit[i].path) = Name(i - 1)
    /\ \A i \in 1 .. Full : TestInit[Full + i] = Ins("create", Name(i - 1), Untimed)
    /\ TestInit[Full + Full + 1] = Ins("init_single", <<>>, Titled(Full, -1))
    /\ TestInit[Full + Full + 2] = Ins("init_multi", <<>>, Titled(Full, -1))
<1>. DEFINE A == WriteLoop(0, Full)
            B == CreateLoop(0, Full)
            x == Ins("init_single", <<>>, Titled(Full, -1))
            y == Ins("init_multi", <<>>, Titled(Full, -1))
            s1 == A \o B
            s2 == s1 \o <<x>>
            s == s2 \o <<y>>
<1>1. /\ A \in Seq(Instrs) /\ Len(A) = Full
      /\ \A i \in 1 .. Full : A[i].do = "write" /\ A[i].title = Untimed /\ Tail(A[i].path) = Name(i - 1)
  <2>1. 0 \in 0 .. Full /\ Full \in 0 .. Full
    BY BenchConstants
  <2>2. Full \in 0 .. Full /\ Full - 0 = Full /\ \A i \in 1 .. Full : 0 + i - 1 = i - 1
    BY BenchConstants
  <2>3. /\ A \in Seq(Instrs) /\ Len(A) = Full - 0
        /\ \A i \in 1 .. Full - 0 : A[i].do = "write" /\ A[i].title = Untimed
                                     /\ Tail(A[i].path) = Name(0 + i - 1)
    BY <2>1, <2>2, Loops
  <2>. QED
    BY <2>2, <2>3
<1>2. /\ B \in Seq(Instrs) /\ Len(B) = Full
      /\ \A i \in 1 .. Full : B[i] = Ins("create", Name(i - 1), Untimed)
  <2>1. Full \in 0 .. Full
    BY BenchConstants
  <2>. QED
    BY <2>1, Creates
<1>3. x \in Instrs /\ y \in Instrs /\ TestInit = s
  <2>1. "init_single" \in Ops /\ "init_multi" \in Ops /\ <<>> \in Seq(Words)
        /\ Full \in Int /\ -1 \in Int
    BY BenchConstants DEF Ops
  <2>. QED
    BY <2>1, Singles DEF TestInit
<1>. HIDE DEF A, B, x, y, s
<1>4. Full \in Nat
  BY BenchConstants
<1>5. /\ s1 \in Seq(Instrs) /\ Len(s1) = Full + Full
      /\ \A i \in 1 .. Full : s1[i] = A[i] /\ s1[Full + i] = B[i]
  BY <1>1, <1>2, <1>4, Join
<1>. HIDE DEF s1
<1>6. /\ s2 \in Seq(Instrs) /\ Len(s2) = Full + Full + 1
      /\ \A i \in 1 .. Full + Full : s2[i] = s1[i]
      /\ s2[Full + Full + 1] = x
  <2>1. Full + Full \in Nat
    BY <1>4
  <2>. QED
    BY <1>3, <1>5, <2>1, JoinOne
<1>. HIDE DEF s2
<1>7. /\ s \in Seq(Instrs) /\ Len(s) = Full + Full + 2
      /\ \A i \in 1 .. Full + Full + 1 : s[i] = s2[i]
      /\ s[Full + Full + 2] = y
  <2>1. Full + Full + 1 \in Nat /\ Full + Full + 1 + 1 = Full + Full + 2
    BY <1>4
  <2>. QED
    BY <1>3, <1>6, <2>1, JoinOne DEF s
<1>8. \A i \in 1 .. Full : s[i] = A[i] /\ s[Full + i] = B[i]
  BY <1>4, <1>5, <1>6, <1>7
<1>9. s[Full + Full + 1] = x
  BY <1>4, <1>6, <1>7
<1>. QED
  BY <1>1, <1>2, <1>3, <1>7, <1>8, <1>9 DEF x, y

\* The entries the tests ask for, and the numbers in their titles.
LEMMA Places ==
    /\ 0 \in 0 .. Full - 1 /\ Half - 1 \in 0 .. Full - 1 /\ Full - 1 \in 0 .. Full - 1
    /\ Half \in 0 .. Full /\ Full \in 0 .. Full /\ 0 \in 0 .. Full
    /\ Name(0) \in Seq(Words) /\ Name(Half - 1) \in Seq(Words) /\ Name(Full - 1) \in Seq(Words)
    /\ {0, 1, Half, Full} \subseteq Int
<1>1. /\ 0 \in 0 .. Full - 1 /\ Half - 1 \in 0 .. Full - 1 /\ Full - 1 \in 0 .. Full - 1
      /\ Half \in 0 .. Full /\ Full \in 0 .. Full /\ 0 \in 0 .. Full
      /\ {0, 1, Half, Full} \subseteq Int
  BY BenchConstants
<1>. QED
  BY <1>1, HelloNames

\* What is not timed, and the two that end a test.
LEMMA Untitled == /\ \A op \in Ops : Ins(op, <<>>, Untimed) \in Instrs /\ Simply(op) = <<Ins(op, <<>>, Untimed)>>
                  /\ Inits = <<Ins("init_single", <<>>, Untimed)>> \o <<Ins("init_multi", <<>>, Untimed)>>
<1>1. "init_single" \in Ops /\ "init_multi" \in Ops
  BY DEF Ops
<1>. QED
  BY <1>1, Singles DEF Inits

LEMMA TestWrite0Is ==
    /\ TestWrite0 \in Seq(Instrs) /\ Len(TestWrite0) = 4
    /\ TestWrite0[1] = Ins("write", Slash(Other("write_test_0")), Titled(0, 0))
    /\ TestWrite0[2] = Ins("create", Other("write_test_0"), Titled(0, 0))
    /\ TestWrite0[3] = Ins("init_single", <<>>, Untimed)
    /\ TestWrite0[4] = Ins("init_multi", <<>>, Untimed)
<1>. DEFINE a == Ins("write", Slash(Other("write_test_0")), Titled(0, 0))
            b == Ins("create", Other("write_test_0"), Titled(0, 0))
            c == Ins("init_single", <<>>, Untimed)
            d == Ins("init_multi", <<>>, Untimed)
<1>1. "write" \in Ops /\ "create" \in Ops /\ "init_single" \in Ops /\ "init_multi" \in Ops
      /\ "write_test_0" \in Words
  BY DEF Ops, Words
<1>2. Other("write_test_0") \in Seq(Words) /\ Slash(Other("write_test_0")) \in Seq(Words)
  BY <1>1, OtherNames
<1>3. a \in Instrs /\ b \in Instrs /\ c \in Instrs /\ d \in Instrs
  BY <1>1, <1>2, Singles
<1>4. TestWrite0 = <<a>> \o <<b>> \o (<<c>> \o <<d>>)
  <2>1. Time("write", Slash(Other("write_test_0")), Titled(0, 0)) = <<a>>
    BY <1>1, Singles
  <2>2. Time("create", Other("write_test_0"), Titled(0, 0)) = <<b>>
    BY <1>1, Singles
  <2>3. Inits = <<c>> \o <<d>>
    BY Untitled
  <2>. HIDE DEF a, b, c, d
  <2>. QED
    BY <2>1, <2>2, <2>3 DEF TestWrite0
<1>. HIDE DEF a, b, c, d
<1>. QED
  BY <1>3, <1>4, Four DEF a, b, c, d

LEMMA TestWrite50Is ==
    /\ TestWrite50 \in Seq(Instrs) /\ Len(TestWrite50) = Half + 5
    /\ \A i \in 1 .. Half : TestWrite50[i] = Ins("create", Name(i - 1), Untimed)
    /\ TestWrite50[Half + 1] = Ins("cp_log50_log", <<>>, Untimed)
    /\ TestWrite50[Half + 2] = Ins("write", Other("w") \o Other("rite_test_50"), Titled(Half, 0))
    /\ TestWrite50[Half + 3] = Ins("create", Slash(Other("write_test_50")), Titled(Half, 0))
    /\ TestWrite50[Half + 4] = Ins("init_single", <<>>, Untimed)
    /\ TestWrite50[Half + 5] = Ins("init_multi", <<>>, Untimed)
<1>. DEFINE L == CreateLoop(0, Half)
            a == Ins("cp_log50_log", <<>>, Untimed)
            b == Ins("write", Other("w") \o Other("rite_test_50"), Titled(Half, 0))
            c == Ins("create", Slash(Other("write_test_50")), Titled(Half, 0))
            d == Ins("init_single", <<>>, Untimed)
            e == Ins("init_multi", <<>>, Untimed)
            s3 == L \o <<a>> \o <<b>> \o <<c>>
            s == s3 \o (<<d>> \o <<e>>)
<1>1. {"cp_log50_log", "write", "create", "init_single", "init_multi"} \subseteq Ops
      /\ {"w", "rite_test_50", "write_test_50"} \subseteq Words
  BY DEF Ops, Words
<1>2. {Other("w") \o Other("rite_test_50"), Slash(Other("write_test_50"))} \subseteq Seq(Words)
  <2>1. Other("w") \in Seq(Words) /\ Other("rite_test_50") \in Seq(Words) /\ Slash(Other("write_test_50")) \in Seq(Words)
    BY <1>1, OtherNames
  <2>2. Other("w") \o Other("rite_test_50") \in Seq(Words)
    BY <2>1
  <2>. QED
    BY <2>1, <2>2
<1>3. a \in Instrs /\ b \in Instrs /\ c \in Instrs /\ d \in Instrs /\ e \in Instrs
  <2>1. a \in Instrs
    BY <1>1, Singles
  <2>2. b \in Instrs
    BY <1>1, <1>2, Singles, Places
  <2>3. c \in Instrs
    BY <1>1, <1>2, Singles, Places
  <2>4. d \in Instrs
    BY <1>1, Singles
  <2>5. e \in Instrs
    BY <1>1, Singles
  <2>. QED
    BY <2>1, <2>2, <2>3, <2>4, <2>5
<1>4. TestWrite50 = s
  <2>1. Simply("cp_log50_log") = <<a>>
    BY <1>1, Singles
  <2>2. Time("write", Other("w") \o Other("rite_test_50"), Titled(Half, 0)) = <<b>>
    BY <1>1, Singles
  <2>3. Time("create", Slash(Other("write_test_50")), Titled(Half, 0)) = <<c>>
    BY <1>1, Singles
  <2>4. Inits = <<d>> \o <<e>>
    BY Untitled
  <2>. HIDE DEF a, b, c, d, e
  <2>. QED
    BY <2>1, <2>2, <2>3, <2>4 DEF TestWrite50
<1>5. /\ L \in Seq(Instrs) /\ Len(L) = Half
      /\ \A i \in 1 .. Half : L[i] = Ins("create", Name(i - 1), Untimed)
  BY Creates, Places
<1>. HIDE DEF L, a, b, c, d, e
<1>6. /\ s \in Seq(Instrs) /\ Len(s) = Half + 5
      /\ \A i \in 1 .. Half : s[i] = L[i]
      /\ s[Half + 1] = a /\ s[Half + 2] = b /\ s[Half + 3] = c /\ s[Half + 4] = d /\ s[Half + 5] = e
  <2>1. /\ s3 \in Seq(Instrs) /\ Len(s3) = Half + 3
        /\ \A i \in 1 .. Half : s3[i] = L[i]
        /\ s3[Half + 1] = a /\ s3[Half + 2] = b /\ s3[Half + 3] = c
    <3>1. L \in Seq(Instrs) /\ Len(L) = Half /\ Half \in Nat
      BY <1>5, BenchConstants
    <3>. QED
      BY <1>3, <3>1, LoopAndThree, SMTT(20)
  <2>. HIDE DEF s3
  <2>2. /\ s \in Seq(Instrs) /\ Len(s) = Half + 3 + 2
        /\ \A i \in 1 .. Half + 3 : s[i] = s3[i]
        /\ s[Half + 3 + 1] = d /\ s[Half + 3 + 2] = e
    <3>. DEFINE m == Half + 3
    <3>1. m \in Nat /\ s3 \in Seq(Instrs) /\ Len(s3) = m
      BY <2>1, BenchConstants
    <3>. HIDE DEF m
    <3>2. /\ s \in Seq(Instrs) /\ Len(s) = m + 2
          /\ \A i \in 1 .. m : s[i] = s3[i]
          /\ s[m + 1] = d /\ s[m + 2] = e
      BY <1>3, <3>1, AndTwo
    <3>. QED
      BY <3>2 DEF m
  <2>. HIDE DEF s
  <2>3. Half \in Nat
    BY BenchConstants
  <2>4. \A i \in 1 .. Half : s[i] = L[i]
    BY <2>1, <2>2, <2>3
  <2>5. s[Half + 1] = a /\ s[Half + 2] = b /\ s[Half + 3] = c
    BY <2>1, <2>2, <2>3
  <2>6. Len(s) = Half + 5 /\ s[Half + 4] = d /\ s[Half + 5] = e
    BY <2>2, <2>3
  <2>. QED
    BY <2>2, <2>4, <2>5, <2>6
<1>. HIDE DEF s
<1>. QED
  BY <1>4, <1>5, <1>6 DEF a, b, c, d, e

LEMMA TestWrite100Is ==
    /\ TestWrite100 \in Seq(Instrs) /\ Len(TestWrite100) = Full + 5
    /\ \A i \in 1 .. Full : TestWrite100[i] = Ins("create", Name(i - 1), Untimed)
    /\ TestWrite100[Full + 1] = Ins("cp_log100_log", <<>>, Untimed)
    /\ TestWrite100[Full + 2] = Ins("write", Slash(Other("write_test_100")), Titled(Full, 0))
    /\ TestWrite100[Full + 3] = Ins("create", Other("write_test_100"), Titled(Full, 0))
    /\ TestWrite100[Full + 4] = Ins("init_single", <<>>, Untimed)
    /\ TestWrite100[Full + 5] = Ins("init_multi", <<>>, Untimed)
<1>. DEFINE L == CreateLoop(0, Full)
            a == Ins("cp_log100_log", <<>>, Untimed)
            b == Ins("write", Slash(Other("write_test_100")), Titled(Full, 0))
            c == Ins("create", Other("write_test_100"), Titled(Full, 0))
            d == Ins("init_single", <<>>, Untimed)
            e == Ins("init_multi", <<>>, Untimed)
            s3 == L \o <<a>> \o <<b>> \o <<c>>
            s == s3 \o (<<d>> \o <<e>>)
<1>1. {"cp_log100_log", "write", "create", "init_single", "init_multi"} \subseteq Ops
      /\ {"write_test_100"} \subseteq Words
  BY DEF Ops, Words
<1>2. {Slash(Other("write_test_100")), Other("write_test_100")} \subseteq Seq(Words)
  BY <1>1, OtherNames, Places
<1>3. a \in Instrs /\ b \in Instrs /\ c \in Instrs /\ d \in Instrs /\ e \in Instrs
  <2>1. a \in Instrs
    BY <1>1, Singles
  <2>2. b \in Instrs
    BY <1>1, <1>2, Singles, Places
  <2>3. c \in Instrs
    BY <1>1, <1>2, Singles, Places
  <2>4. d \in Instrs
    BY <1>1, Singles
  <2>5. e \in Instrs
    BY <1>1, Singles
  <2>. QED
    BY <2>1, <2>2, <2>3, <2>4, <2>5
<1>4. TestWrite100 = s
  <2>1. Simply("cp_log100_log") = <<a>>
    BY <1>1, Singles
  <2>2. Time("write", Slash(Other("write_test_100")), Titled(Full, 0)) = <<b>>
    BY <1>1, Singles
  <2>3. Time("create", Other("write_test_100"), Titled(Full, 0)) = <<c>>
    BY <1>1, Singles
  <2>4. Inits = <<d>> \o <<e>>
    BY Untitled
  <2>. HIDE DEF a, b, c, d, e
  <2>. QED
    BY <2>1, <2>2, <2>3, <2>4 DEF TestWrite100
<1>5. /\ L \in Seq(Instrs) /\ Len(L) = Full
      /\ \A i \in 1 .. Full : L[i] = Ins("create", Name(i - 1), Untimed)
  BY Creates, Places
<1>. HIDE DEF L, a, b, c, d, e
<1>6. /\ s \in Seq(Instrs) /\ Len(s) = Full + 5
      /\ \A i \in 1 .. Full : s[i] = L[i]
      /\ s[Full + 1] = a /\ s[Full + 2] = b /\ s[Full + 3] = c /\ s[Full + 4] = d /\ s[Full + 5] = e
  <2>1. /\ s3 \in Seq(Instrs) /\ Len(s3) = Full + 3
        /\ \A i \in 1 .. Full : s3[i] = L[i]
        /\ s3[Full + 1] = a /\ s3[Full + 2] = b /\ s3[Full + 3] = c
    <3>1. L \in Seq(Instrs) /\ Len(L) = Full /\ Full \in Nat
      BY <1>5, BenchConstants
    <3>. QED
      BY <1>3, <3>1, LoopAndThree, SMTT(20)
  <2>. HIDE DEF s3
  <2>2. /\ s \in Seq(Instrs) /\ Len(s) = Full + 3 + 2
        /\ \A i \in 1 .. Full + 3 : s[i] = s3[i]
        /\ s[Full + 3 + 1] = d /\ s[Full + 3 + 2] = e
    <3>. DEFINE m == Full + 3
    <3>1. m \in Nat /\ s3 \in Seq(Instrs) /\ Len(s3) = m
      BY <2>1, BenchConstants
    <3>. HIDE DEF m
    <3>2. /\ s \in Seq(Instrs) /\ Len(s) = m + 2
          /\ \A i \in 1 .. m : s[i] = s3[i]
          /\ s[m + 1] = d /\ s[m + 2] = e
      BY <1>3, <3>1, AndTwo
    <3>. QED
      BY <3>2 DEF m
  <2>. HIDE DEF s
  <2>3. Full \in Nat
    BY BenchConstants
  <2>4. \A i \in 1 .. Full : s[i] = L[i]
    BY <2>1, <2>2, <2>3
  <2>5. s[Full + 1] = a /\ s[Full + 2] = b /\ s[Full + 3] = c
    BY <2>1, <2>2, <2>3
  <2>6. Len(s) = Full + 5 /\ s[Full + 4] = d /\ s[Full + 5] = e
    BY <2>2, <2>3
  <2>. QED
    BY <2>2, <2>4, <2>5, <2>6
<1>. HIDE DEF s
<1>. QED
  BY <1>4, <1>5, <1>6 DEF a, b, c, d, e

LEMMA TestCheckBeginningIs ==
    /\ TestCheckBeginning \in Seq(Instrs) /\ Len(TestCheckBeginning) = Full + 3
    /\ \A i \in 1 .. Full : TestCheckBeginning[i] = Ins("create", Name(i - 1), Untimed)
    /\ TestCheckBeginning[Full + 1] = Ins("cp_log100_log", <<>>, Untimed)
    /\ TestCheckBeginning[Full + 2] = Ins("check", Name(0), Titled(Full, 1))
    /\ TestCheckBeginning[Full + 3] = Ins("is_modified", Name(0), Titled(Full, 1))
<1>. DEFINE L == CreateLoop(0, Full)
            a == Ins("cp_log100_log", <<>>, Untimed)
            b == Ins("check", Name(0), Titled(Full, 1))
            c == Ins("is_modified", Name(0), Titled(Full, 1))
            s == L \o (<<a>> \o <<b>> \o <<c>>)
<1>1. {"cp_log100_log", "check", "is_modified"} \subseteq Ops
  BY DEF Ops
<1>2. {Name(0)} \subseteq Seq(Words)
  BY <1>1, OtherNames, Places
<1>3. a \in Instrs /\ b \in Instrs /\ c \in Instrs
  <2>1. a \in Instrs
    BY <1>1, Singles
  <2>2. b \in Instrs
    BY <1>1, <1>2, Singles, Places
  <2>3. c \in Instrs
    BY <1>1, <1>2, Singles, Places
  <2>. QED
    BY <2>1, <2>2, <2>3
<1>4. TestCheckBeginning = s
  <2>1. Simply("cp_log100_log") = <<a>>
    BY <1>1, Singles
  <2>2. Time("check", Name(0), Titled(Full, 1)) = <<b>>
    BY <1>1, Singles
  <2>3. Time("is_modified", Name(0), Titled(Full, 1)) = <<c>>
    BY <1>1, Singles
  <2>. HIDE DEF a, b, c
  <2>. QED
    BY <2>1, <2>2, <2>3 DEF TestCheckBeginning, Ask
<1>5. /\ L \in Seq(Instrs) /\ Len(L) = Full
      /\ \A i \in 1 .. Full : L[i] = Ins("create", Name(i - 1), Untimed)
  BY Creates, Places
<1>. HIDE DEF L, a, b, c
<1>6. /\ s \in Seq(Instrs) /\ Len(s) = Full + 3
      /\ \A i \in 1 .. Full : s[i] = L[i]
      /\ s[Full + 1] = a /\ s[Full + 2] = b /\ s[Full + 3] = c
  <2>1. L \in Seq(Instrs) /\ Len(L) = Full /\ Full \in Nat
    BY <1>5, BenchConstants
  <2>. QED
    BY <1>3, <2>1, LoopAndGroup
<1>. HIDE DEF s
<1>. QED
  BY <1>4, <1>5, <1>6 DEF a, b, c

LEMMA TestCheckMiddleIs ==
    /\ TestCheckMiddle \in Seq(Instrs) /\ Len(TestCheckMiddle) = 3
    /\ TestCheckMiddle[1] = Ins("cp_log100_log", <<>>, Untimed)
    /\ TestCheckMiddle[2] = Ins("check", Name(Half - 1), Titled(Full, Half))
    /\ TestCheckMiddle[3] = Ins("is_modified", Name(Half - 1), Titled(Full, Half))
<1>. DEFINE a == Ins("cp_log100_log", <<>>, Untimed)
            b == Ins("check", Name(Half - 1), Titled(Full, Half))
            c == Ins("is_modified", Name(Half - 1), Titled(Full, Half))
            s == <<a>> \o <<b>> \o <<c>>
<1>1. {"cp_log100_log", "check", "is_modified"} \subseteq Ops
  BY DEF Ops
<1>2. {Name(Half - 1)} \subseteq Seq(Words)
  BY <1>1, OtherNames, Places
<1>3. a \in Instrs /\ b \in Instrs /\ c \in Instrs
  <2>1. a \in Instrs
    BY <1>1, Singles
  <2>2. b \in Instrs
    BY <1>1, <1>2, Singles, Places
  <2>3. c \in Instrs
    BY <1>1, <1>2, Singles, Places
  <2>. QED
    BY <2>1, <2>2, <2>3
<1>4. TestCheckMiddle = s
  <2>1. Simply("cp_log100_log") = <<a>>
    BY <1>1, Singles
  <2>2. Time("check", Name(Half - 1), Titled(Full, Half)) = <<b>>
    BY <1>1, Singles
  <2>3. Time("is_modified", Name(Half - 1), Titled(Full, Half)) = <<c>>
    BY <1>1, Singles
  <2>. HIDE DEF a, b, c
  <2>. QED
    BY <2>1, <2>2, <2>3 DEF TestCheckMiddle, Ask
<1>. HIDE DEF a, b, c
<1>6. /\ s \in Seq(Instrs) /\ Len(s) = 3
      /\ s[1] = a /\ s[2] = b /\ s[3] = c
  BY <1>3, Three
<1>. HIDE DEF s
<1>. QED
  BY <1>4, <1>6 DEF a, b, c

LEMMA TestCheckEndIs ==
    /\ TestCheckEnd \in Seq(Instrs) /\ Len(TestCheckEnd) = 3
    /\ TestCheckEnd[1] = Ins("cp_log100_log", <<>>, Untimed)
    /\ TestCheckEnd[2] = Ins("check", Name(Full - 1), Titled(Full, Full))
    /\ TestCheckEnd[3] = Ins("is_modified", Name(Full - 1), Titled(Full, Full))
<1>. DEFINE a == Ins("cp_log100_log", <<>>, Untimed)
            b == Ins("check", Name(Full - 1), Titled(Full, Full))
            c == Ins("is_modified", Name(Full - 1), Titled(Full, Full))
            s == <<a>> \o <<b>> \o <<c>>
<1>1. {"cp_log100_log", "check", "is_modified"} \subseteq Ops
  BY DEF Ops
<1>2. {Name(Full - 1)} \subseteq Seq(Words)
  BY <1>1, OtherNames, Places
<1>3. a \in Instrs /\ b \in Instrs /\ c \in Instrs
  <2>1. a \in Instrs
    BY <1>1, Singles
  <2>2. b \in Instrs
    BY <1>1, <1>2, Singles, Places
  <2>3. c \in Instrs
    BY <1>1, <1>2, Singles, Places
  <2>. QED
    BY <2>1, <2>2, <2>3
<1>4. TestCheckEnd = s
  <2>1. Simply("cp_log100_log") = <<a>>
    BY <1>1, Singles
  <2>2. Time("check", Name(Full - 1), Titled(Full, Full)) = <<b>>
    BY <1>1, Singles
  <2>3. Time("is_modified", Name(Full - 1), Titled(Full, Full)) = <<c>>
    BY <1>1, Singles
  <2>. HIDE DEF a, b, c
  <2>. QED
    BY <2>1, <2>2, <2>3 DEF TestCheckEnd, Ask
<1>. HIDE DEF a, b, c
<1>6. /\ s \in Seq(Instrs) /\ Len(s) = 3
      /\ s[1] = a /\ s[2] = b /\ s[3] = c
  BY <1>3, Three
<1>. HIDE DEF s
<1>. QED
  BY <1>4, <1>6 DEF a, b, c

LEMMA TestCheckNotInLogIs ==
    /\ TestCheckNotInLog \in Seq(Instrs) /\ Len(TestCheckNotInLog) = 5
    /\ TestCheckNotInLog[1] = Ins("cp_log100_log", <<>>, Untimed)
    /\ TestCheckNotInLog[2] = Ins("check", Other("not_in_log.txt"), Titled(Full, 0))
    /\ TestCheckNotInLog[3] = Ins("is_modified", Other("not_in_log.txt"), Titled(Full, 0))
    /\ TestCheckNotInLog[4] = Ins("init_single", <<>>, Untimed)
    /\ TestCheckNotInLog[5] = Ins("init_multi", <<>>, Untimed)
<1>. DEFINE a == Ins("cp_log100_log", <<>>, Untimed)
            b == Ins("check", Other("not_in_log.txt"), Titled(Full, 0))
            c == Ins("is_modified", Other("not_in_log.txt"), Titled(Full, 0))
            d == Ins("init_single", <<>>, Untimed)
            e == Ins("init_multi", <<>>, Untimed)
            s == <<a>> \o <<b>> \o <<c>> \o (<<d>> \o <<e>>)
<1>1. {"cp_log100_log", "check", "is_modified", "init_single", "init_multi"} \subseteq Ops
      /\ {"not_in_log.txt"} \subseteq Words
  BY DEF Ops, Words
<1>2. {Other("not_in_log.txt")} \subseteq Seq(Words)
  BY <1>1, OtherNames, Places
<1>3. a \in Instrs /\ b \in Instrs /\ c \in Instrs /\ d \in Instrs /\ e \in Instrs
  <2>1. a \in Instrs
    BY <1>1, Singles
  <2>2. b \in Instrs
    BY <1>1, <1>2, Singles, Places
  <2>3. c \in Instrs
    BY <1>1, <1>2, Singles, Places
  <2>4. d \in Instrs
    BY <1>1, Singles
  <2>5. e \in Instrs
    BY <1>1, Singles
  <2>. QED
    BY <2>1, <2>2, <2>3, <2>4, <2>5
<1>4. TestCheckNotInLog = s
  <2>1. Simply("cp_log100_log") = <<a>>
    BY <1>1, Singles
  <2>2. Time("check", Other("not_in_log.txt"), Titled(Full, 0)) = <<b>>
    BY <1>1, Singles
  <2>3. Time("is_modified", Other("not_in_log.txt"), Titled(Full, 0)) = <<c>>
    BY <1>1, Singles
  <2>4. Inits = <<d>> \o <<e>>
    BY Untitled
  <2>. HIDE DEF a, b, c, d, e
  <2>. QED
    BY <2>1, <2>2, <2>3, <2>4 DEF TestCheckNotInLog, Ask
<1>. HIDE DEF a, b, c, d, e
<1>6. /\ s \in Seq(Instrs) /\ Len(s) = 5
      /\ s[1] = a /\ s[2] = b /\ s[3] = c /\ s[4] = d /\ s[5] = e
  BY <1>3, Five
<1>. HIDE DEF s
<1>. QED
  BY <1>4, <1>6 DEF a, b, c, d, e

LEMMA TestRemoveBeginningIs ==
    /\ TestRemoveBeginning \in Seq(Instrs) /\ Len(TestRemoveBeginning) = Full + 3
    /\ \A i \in 1 .. Full : TestRemoveBeginning[i] = Ins("create", Name(i - 1), Untimed)
    /\ TestRemoveBeginning[Full + 1] = Ins("cp_log100_log", <<>>, Untimed)
    /\ TestRemoveBeginning[Full + 2] = Ins("close", Name(0), Titled(Full, 1))
    /\ TestRemoveBeginning[Full + 3] = Ins("rm", Name(0), Titled(Full, 1))
<1>. DEFINE L == CreateLoop(0, Full)
            a == Ins("cp_log100_log", <<>>, Untimed)
            b == Ins("close", Name(0), Titled(Full, 1))
            c == Ins("rm", Name(0), Titled(Full, 1))
            s == L \o <<a>> \o <<b>> \o <<c>>
<1>1. {"cp_log100_log", "close", "rm"} \subseteq Ops
  BY DEF Ops
<1>2. {Name(0)} \subseteq Seq(Words)
  BY <1>1, OtherNames, Places
<1>3. a \in Instrs /\ b \in Instrs /\ c \in Instrs
  <2>1. a \in Instrs
    BY <1>1, Singles
  <2>2. b \in Instrs
    BY <1>1, <1>2, Singles, Places
  <2>3. c \in Instrs
    BY <1>1, <1>2, Singles, Places
  <2>. QED
    BY <2>1, <2>2, <2>3
<1>4. TestRemoveBeginning = s
  <2>1. Simply("cp_log100_log") = <<a>>
    BY <1>1, Singles
  <2>2. Time("close", Name(0), Titled(Full, 1)) = <<b>>
    BY <1>1, Singles
  <2>3. Time("rm", Name(0), Titled(Full, 1)) = <<c>>
    BY <1>1, Singles
  <2>. HIDE DEF a, b, c
  <2>. QED
    BY <2>1, <2>2, <2>3 DEF TestRemoveBeginning
<1>5. /\ L \in Seq(Instrs) /\ Len(L) = Full
      /\ \A i \in 1 .. Full : L[i] = Ins("create", Name(i - 1), Untimed)
  BY Creates, Places
<1>. HIDE DEF L, a, b, c
<1>6. /\ s \in Seq(Instrs) /\ Len(s) = Full + 3
      /\ \A i \in 1 .. Full : s[i] = L[i]
      /\ s[Full + 1] = a /\ s[Full + 2] = b /\ s[Full + 3] = c
  <2>1. L \in Seq(Instrs) /\ Len(L) = Full /\ Full \in Nat
    BY <1>5, BenchConstants
  <2>. QED
    BY <1>3, <2>1, LoopAndThree
<1>. HIDE DEF s
<1>. QED
  BY <1>4, <1>5, <1>6 DEF a, b, c

LEMMA TestRemoveMiddleIs ==
    /\ TestRemoveMiddle \in Seq(Instrs) /\ Len(TestRemoveMiddle) = 3
    /\ TestRemoveMiddle[1] = Ins("cp_log100_log", <<>>, Untimed)
    /\ TestRemoveMiddle[2] = Ins("close", Name(Half - 1), Titled(Full, Half))
    /\ TestRemoveMiddle[3] = Ins("rm", Name(Half - 1), Titled(Full, Half))
<1>. DEFINE a == Ins("cp_log100_log", <<>>, Untimed)
            b == Ins("close", Name(Half - 1), Titled(Full, Half))
            c == Ins("rm", Name(Half - 1), Titled(Full, Half))
            s == <<a>> \o <<b>> \o <<c>>
<1>1. {"cp_log100_log", "close", "rm"} \subseteq Ops
  BY DEF Ops
<1>2. {Name(Half - 1)} \subseteq Seq(Words)
  BY <1>1, OtherNames, Places
<1>3. a \in Instrs /\ b \in Instrs /\ c \in Instrs
  <2>1. a \in Instrs
    BY <1>1, Singles
  <2>2. b \in Instrs
    BY <1>1, <1>2, Singles, Places
  <2>3. c \in Instrs
    BY <1>1, <1>2, Singles, Places
  <2>. QED
    BY <2>1, <2>2, <2>3
<1>4. TestRemoveMiddle = s
  <2>1. Simply("cp_log100_log") = <<a>>
    BY <1>1, Singles
  <2>2. Time("close", Name(Half - 1), Titled(Full, Half)) = <<b>>
    BY <1>1, Singles
  <2>3. Time("rm", Name(Half - 1), Titled(Full, Half)) = <<c>>
    BY <1>1, Singles
  <2>. HIDE DEF a, b, c
  <2>. QED
    BY <2>1, <2>2, <2>3 DEF TestRemoveMiddle
<1>. HIDE DEF a, b, c
<1>6. /\ s \in Seq(Instrs) /\ Len(s) = 3
      /\ s[1] = a /\ s[2] = b /\ s[3] = c
  BY <1>3, Three
<1>. HIDE DEF s
<1>. QED
  BY <1>4, <1>6 DEF a, b, c

LEMMA TestRemoveEndIs ==
    /\ TestRemoveEnd \in Seq(Instrs) /\ Len(TestRemoveEnd) = 3
    /\ TestRemoveEnd[1] = Ins("cp_log100_log", <<>>, Untimed)
    /\ TestRemoveEnd[2] = Ins("close", Name(Full - 1), Titled(Full, Full))
    /\ TestRemoveEnd[3] = Ins("rm", Name(Full - 1), Titled(Full, Full))
<1>. DEFINE a == Ins("cp_log100_log", <<>>, Untimed)
            b == Ins("close", Name(Full - 1), Titled(Full, Full))
            c == Ins("rm", Name(Full - 1), Titled(Full, Full))
            s == <<a>> \o <<b>> \o <<c>>
<1>1. {"cp_log100_log", "close", "rm"} \subseteq Ops
  BY DEF Ops
<1>2. {Name(Full - 1)} \subseteq Seq(Words)
  BY <1>1, OtherNames, Places
<1>3. a \in Instrs /\ b \in Instrs /\ c \in Instrs
  <2>1. a \in Instrs
    BY <1>1, Singles
  <2>2. b \in Instrs
    BY <1>1, <1>2, Singles, Places
  <2>3. c \in Instrs
    BY <1>1, <1>2, Singles, Places
  <2>. QED
    BY <2>1, <2>2, <2>3
<1>4. TestRemoveEnd = s
  <2>1. Simply("cp_log100_log") = <<a>>
    BY <1>1, Singles
  <2>2. Time("close", Name(Full - 1), Titled(Full, Full)) = <<b>>
    BY <1>1, Singles
  <2>3. Time("rm", Name(Full - 1), Titled(Full, Full)) = <<c>>
    BY <1>1, Singles
  <2>. HIDE DEF a, b, c
  <2>. QED
    BY <2>1, <2>2, <2>3 DEF TestRemoveEnd
<1>. HIDE DEF a, b, c
<1>6. /\ s \in Seq(Instrs) /\ Len(s) = 3
      /\ s[1] = a /\ s[2] = b /\ s[3] = c
  BY <1>3, Three
<1>. HIDE DEF s
<1>. QED
  BY <1>4, <1>6 DEF a, b, c

LEMMA TestRemoveNotInLogIs ==
    /\ TestRemoveNotInLog \in Seq(Instrs) /\ Len(TestRemoveNotInLog) = 5
    /\ TestRemoveNotInLog[1] = Ins("cp_log100_log", <<>>, Untimed)
    /\ TestRemoveNotInLog[2] = Ins("close", Other("not_in_lot.txt"), Titled(Full, 0))
    /\ TestRemoveNotInLog[3] = Ins("rm", Other("not_in_log.txt"), Titled(Full, 0))
    /\ TestRemoveNotInLog[4] = Ins("init_single", <<>>, Untimed)
    /\ TestRemoveNotInLog[5] = Ins("init_multi", <<>>, Untimed)
<1>. DEFINE a == Ins("cp_log100_log", <<>>, Untimed)
            b == Ins("close", Other("not_in_lot.txt"), Titled(Full, 0))
            c == Ins("rm", Other("not_in_log.txt"), Titled(Full, 0))
            d == Ins("init_single", <<>>, Untimed)
            e == Ins("init_multi", <<>>, Untimed)
            s == <<a>> \o <<b>> \o <<c>> \o (<<d>> \o <<e>>)
<1>1. {"cp_log100_log", "close", "rm", "init_single", "init_multi"} \subseteq Ops
      /\ {"not_in_lot.txt", "not_in_log.txt"} \subseteq Words
  BY DEF Ops, Words
<1>2. {Other("not_in_lot.txt"), Other("not_in_log.txt")} \subseteq Seq(Words)
  BY <1>1, OtherNames, Places
<1>3. a \in Instrs /\ b \in Instrs /\ c \in Instrs /\ d \in Instrs /\ e \in Instrs
  <2>1. a \in Instrs
    BY <1>1, Singles
  <2>2. b \in Instrs
    BY <1>1, <1>2, Singles, Places
  <2>3. c \in Instrs
    BY <1>1, <1>2, Singles, Places
  <2>4. d \in Instrs
    BY <1>1, Singles
  <2>5. e \in Instrs
    BY <1>1, Singles
  <2>. QED
    BY <2>1, <2>2, <2>3, <2>4, <2>5
<1>4. TestRemoveNotInLog = s
  <2>1. Simply("cp_log100_log") = <<a>>
    BY <1>1, Singles
  <2>2. Time("close", Other("not_in_lot.txt"), Titled(Full, 0)) = <<b>>
    BY <1>1, Singles
  <2>3. Time("rm", Other("not_in_log.txt"), Titled(Full, 0)) = <<c>>
    BY <1>1, Singles
  <2>4. Inits = <<d>> \o <<e>>
    BY Untitled
  <2>. HIDE DEF a, b, c, d, e
  <2>. QED
    BY <2>1, <2>2, <2>3, <2>4 DEF TestRemoveNotInLog
<1>. HIDE DEF a, b, c, d, e
<1>6. /\ s \in Seq(Instrs) /\ Len(s) = 5
      /\ s[1] = a /\ s[2] = b /\ s[3] = c /\ s[4] = d /\ s[5] = e
  BY <1>3, Five
<1>. HIDE DEF s
<1>. QED
  BY <1>4, <1>6 DEF a, b, c, d, e

\* Section k after s, the program up to section k, and the instructions before it.
With(s, k) == s \o Section(k)

UpTo1 == SetUp
UpTo2 == With(UpTo1, 2)
UpTo3 == With(UpTo2, 3)
UpTo4 == With(UpTo3, 4)
UpTo5 == With(UpTo4, 5)
UpTo6 == With(UpTo5, 6)
UpTo7 == With(UpTo6, 7)
UpTo8 == With(UpTo7, 8)
UpTo9 == With(UpTo8, 9)
UpTo10 == With(UpTo9, 10)
UpTo11 == With(UpTo10, 11)
UpTo12 == With(UpTo11, 12)
UpTo13 == With(UpTo12, 13)
Start(k) ==
    CASE k = 1 -> 0 [] k = 2 -> Len(UpTo1) [] k = 3 -> Len(UpTo2) [] k = 4 -> Len(UpTo3) [] k = 5 -> Len(UpTo4)
      [] k = 6 -> Len(UpTo5) [] k = 7 -> Len(UpTo6) [] k = 8 -> Len(UpTo7)
      [] k = 9 -> Len(UpTo8) [] k = 10 -> Len(UpTo9) [] k = 11 -> Len(UpTo10)
      [] k = 12 -> Len(UpTo11) [] k = 13 -> Len(UpTo12) [] k = 14 -> Len(UpTo13)

\* The lengths of the sections, whose sum is that of the program.
LEMMA Lengths == \A k \in 1 .. 13 : /\ Section(k) \in Seq(Instrs) /\ Len(Section(k)) = Length(k)
                                  /\ Length(k) \in Nat \ {0}
<1>1. Section(1) \in Seq(Instrs) /\ Len(Section(1)) = Length(1) /\ Length(1) \in Nat \ {0}
  <2>1. Section(1) = SetUp
    BY DEF Section
  <2>2. SetUp \in Seq(Instrs) /\ Len(SetUp) = Full + 2
    BY SetUpIs, Zenon
  <2>3. Length(1) = Full + 2
    BY DEF Length
  <2>4. Full + 2 \in Nat \ {0}
    BY BenchConstants
  <2>. QED
    BY <2>1, <2>2, <2>3, <2>4
<1>2. Section(2) \in Seq(Instrs) /\ Len(Section(2)) = Length(2) /\ Length(2) \in Nat \ {0}
  <2>1. Section(2) = TestInit
    BY DEF Section
  <2>2. TestInit \in Seq(Instrs) /\ Len(TestInit) = Full + Full + 2
    BY TestInitIs, Zenon
  <2>3. Length(2) = Full + Full + 2
    BY DEF Length
  <2>4. Full + Full + 2 \in Nat \ {0}
    BY BenchConstants
  <2>. QED
    BY <2>1, <2>2, <2>3, <2>4
<1>3. Section(3) \in Seq(Instrs) /\ Len(Section(3)) = Length(3) /\ Length(3) \in Nat \ {0}
  <2>1. Section(3) = TestWrite0
    BY DEF Section
  <2>2. TestWrite0 \in Seq(Instrs) /\ Len(TestWrite0) = 4
    BY TestWrite0Is, Zenon
  <2>3. Length(3) = 4
    BY DEF Length
  <2>4. 4 \in Nat \ {0}
    BY BenchConstants
  <2>. QED
    BY <2>1, <2>2, <2>3, <2>4
<1>4. Section(4) \in Seq(Instrs) /\ Len(Section(4)) = Length(4) /\ Length(4) \in Nat \ {0}
  <2>1. Section(4) = TestWrite50
    BY DEF Section
  <2>2. TestWrite50 \in Seq(Instrs) /\ Len(TestWrite50) = Half + 5
    BY TestWrite50Is, Zenon
  <2>3. Length(4) = Half + 5
    BY DEF Length
  <2>4. Half + 5 \in Nat \ {0}
    BY BenchConstants
  <2>. QED
    BY <2>1, <2>2, <2>3, <2>4
<1>5. Section(5) \in Seq(Instrs) /\ Len(Section(5)) = Length(5) /\ Length(5) \in Nat \ {0}
  <2>1. Section(5) = TestWrite100
    BY DEF Section
  <2>2. TestWrite100 \in Seq(Instrs) /\ Len(TestWrite100) = Full + 5
    BY TestWrite100Is, Zenon
  <2>3. Length(5) = Full + 5
    BY DEF Length
  <2>4. Full + 5 \in Nat \ {0}
    BY BenchConstants
  <2>. QED
    BY <2>1, <2>2, <2>3, <2>4
<1>6. Section(6) \in Seq(Instrs) /\ Len(Section(6)) = Length(6) /\ Length(6) \in Nat \ {0}
  <2>1. Section(6) = TestCheckBeginning
    BY DEF Section
  <2>2. TestCheckBeginning \in Seq(Instrs) /\ Len(TestCheckBeginning) = Full + 3
    BY TestCheckBeginningIs, Zenon
  <2>3. Length(6) = Full + 3
    BY DEF Length
  <2>4. Full + 3 \in Nat \ {0}
    BY BenchConstants
  <2>. QED
    BY <2>1, <2>2, <2>3, <2>4
<1>7. Section(7) \in Seq(Instrs) /\ Len(Section(7)) = Length(7) /\ Length(7) \in Nat \ {0}
  <2>1. Section(7) = TestCheckMiddle
    BY DEF Section
  <2>2. TestCheckMiddle \in Seq(Instrs) /\ Len(TestCheckMiddle) = 3
    BY TestCheckMiddleIs, Zenon
  <2>3. Length(7) = 3
    BY DEF Length
  <2>4. 3 \in Nat \ {0}
    BY BenchConstants
  <2>. QED
    BY <2>1, <2>2, <2>3, <2>4
<1>8. Section(8) \in Seq(Instrs) /\ Len(Section(8)) = Length(8) /\ Length(8) \in Nat \ {0}
  <2>1. Section(8) = TestCheckEnd
    BY DEF Section
  <2>2. TestCheckEnd \in Seq(Instrs) /\ Len(TestCheckEnd) = 3
    BY TestCheckEndIs, Zenon
  <2>3. Length(8) = 3
    BY DEF Length
  <2>4. 3 \in Nat \ {0}
    BY BenchConstants
  <2>. QED
    BY <2>1, <2>2, <2>3, <2>4
<1>9. Section(9) \in Seq(Instrs) /\ Len(Section(9)) = Length(9) /\ Length(9) \in Nat \ {0}
  <2>1. Section(9) = TestCheckNotInLog
    BY DEF Section
  <2>2. TestCheckNotInLog \in Seq(Instrs) /\ Len(TestCheckNotInLog) = 5
    BY TestCheckNotInLogIs, Zenon
  <2>3. Length(9) = 5
    BY DEF Length
  <2>4. 5 \in Nat \ {0}
    BY BenchConstants
  <2>. QED
    BY <2>1, <2>2, <2>3, <2>4
<1>10. Section(10) \in Seq(Instrs) /\ Len(Section(10)) = Length(10) /\ Length(10) \in Nat \ {0}
  <2>1. Section(10) = TestRemoveBeginning
    BY DEF Section
  <2>2. TestRemoveBeginning \in Seq(Instrs) /\ Len(TestRemoveBeginning) = Full + 3
    BY TestRemoveBeginningIs, Zenon
  <2>3. Length(10) = Full + 3
    BY DEF Length
  <2>4. Full + 3 \in Nat \ {0}
    BY BenchConstants
  <2>. QED
    BY <2>1, <2>2, <2>3, <2>4
<1>11. Section(11) \in Seq(Instrs) /\ Len(Section(11)) = Length(11) /\ Length(11) \in Nat \ {0}
  <2>1. Section(11) = TestRemoveMiddle
    BY DEF Section
  <2>2. TestRemoveMiddle \in Seq(Instrs) /\ Len(TestRemoveMiddle) = 3
    BY TestRemoveMiddleIs, Zenon
  <2>3. Length(11) = 3
    BY DEF Length
  <2>4. 3 \in Nat \ {0}
    BY BenchConstants
  <2>. QED
    BY <2>1, <2>2, <2>3, <2>4
<1>12. Section(12) \in Seq(Instrs) /\ Len(Section(12)) = Length(12) /\ Length(12) \in Nat \ {0}
  <2>1. Section(12) = TestRemoveEnd
    BY DEF Section
  <2>2. TestRemoveEnd \in Seq(Instrs) /\ Len(TestRemoveEnd) = 3
    BY TestRemoveEndIs, Zenon
  <2>3. Length(12) = 3
    BY DEF Length
  <2>4. 3 \in Nat \ {0}
    BY BenchConstants
  <2>. QED
    BY <2>1, <2>2, <2>3, <2>4
<1>13. Section(13) \in Seq(Instrs) /\ Len(Section(13)) = Length(13) /\ Length(13) \in Nat \ {0}
  <2>1. Section(13) = TestRemoveNotInLog
    BY DEF Section
  <2>2. TestRemoveNotInLog \in Seq(Instrs) /\ Len(TestRemoveNotInLog) = 5
    BY TestRemoveNotInLogIs, Zenon
  <2>3. Length(13) = 5
    BY DEF Length
  <2>4. 5 \in Nat \ {0}
    BY BenchConstants
  <2>. QED
    BY <2>1, <2>2, <2>3, <2>4
<1>. QED
  <2>. SUFFICES ASSUME NEW k \in 1 .. 13
                PROVE  Section(k) \in Seq(Instrs) /\ Len(Section(k)) = Length(k) /\ Length(k) \in Nat \ {0}
    OBVIOUS
  <2>1. k \in {1, 2, 3, 4, 5, 6, 7, 8, 9, 10, 11, 12, 13}
    OBVIOUS
  <2>. QED
    BY <2>1, <1>1, <1>2, <1>3, <1>4, <1>5, <1>6, <1>7, <1>8, <1>9, <1>10, <1>11, <1>12, <1>13

\* The program begins with s; it has section k after its first n instructions.
Begins(s) == \A i \in 1 .. Len(s) : Program[i] = s[i]
HasAfter(n, k) == \A o \in 1 .. Length(k) : Program[n + o] = Section(k)[o]

\* What the program has up to a section and in it, from what it has up to the next.
LEMMA Joined ==
    ASSUME NEW s \in Seq(Instrs), NEW k \in 1 .. 13
    PROVE  /\ With(s, k) \in Seq(Instrs) /\ Len(s) \in Nat /\ Len(With(s, k)) = Len(s) + Length(k)
           /\ \A i \in 1 .. Len(s) : With(s, k)[i] = s[i]
           /\ \A o \in 1 .. Length(k) : With(s, k)[Len(s) + o] = Section(k)[o]
<1>1. Section(k) \in Seq(Instrs) /\ Len(Section(k)) = Length(k)
  BY Lengths
<1>2. Len(s) \in Nat
  OBVIOUS
<1>. QED
  BY <1>1, <1>2, Join DEF With

LEMMA Placed ==
    ASSUME NEW s \in Seq(Instrs), NEW k \in 1 .. 13, Begins(With(s, k))
    PROVE  Len(s) \in Nat /\ Len(With(s, k)) = Len(s) + Length(k) /\ Begins(s) /\ HasAfter(Len(s), k)
<1>1. Length(k) \in Nat
  BY Lengths
<1>2. Len(s) \in Nat /\ Len(With(s, k)) = Len(s) + Length(k)
  BY Joined
<1>3. Begins(s)
  <2>1. \A i \in 1 .. Len(s) : With(s, k)[i] = s[i]
    BY Joined
  <2>2. \A i \in 1 .. Len(s) : i \in 1 .. Len(With(s, k))
    BY <1>1, <1>2
  <2>. QED
    BY <2>1, <2>2 DEF Begins
<1>4. HasAfter(Len(s), k)
  <2>1. \A o \in 1 .. Length(k) : With(s, k)[Len(s) + o] = Section(k)[o]
    BY Joined
  <2>2. \A o \in 1 .. Length(k) : Len(s) + o \in 1 .. Len(With(s, k))
    BY <1>1, <1>2
  <2>. QED
    BY <2>1, <2>2 DEF Begins, HasAfter
<1>. QED
  BY <1>2, <1>3, <1>4

\* The program is its sections.
LEMMA Layout ==
    /\ Len(Program) = Start(14) /\ Start(1) = 0
    /\ \A k \in 1 .. 13 :
         Start(k) \in Nat /\ Start(k + 1) = Start(k) + Length(k) /\ HasAfter(Start(k), k)
<1>1. UpTo1 \in Seq(Instrs) /\ UpTo1 = Section(1)
  <2>1. UpTo1 = Section(1)
    BY DEF UpTo1, Section
  <2>2. 1 \in 1 .. 13
    OBVIOUS
  <2>. QED
    BY <2>1, <2>2, Lengths
<1>2. UpTo2 \in Seq(Instrs)
  <2>1. 2 \in 1 .. 13
    OBVIOUS
  <2>. QED
    BY <2>1, <1>1, Joined DEF UpTo2
<1>3. UpTo3 \in Seq(Instrs)
  <2>1. 3 \in 1 .. 13
    OBVIOUS
  <2>. QED
    BY <2>1, <1>2, Joined DEF UpTo3
<1>4. UpTo4 \in Seq(Instrs)
  <2>1. 4 \in 1 .. 13
    OBVIOUS
  <2>. QED
    BY <2>1, <1>3, Joined DEF UpTo4
<1>5. UpTo5 \in Seq(Instrs)
  <2>1. 5 \in 1 .. 13
    OBVIOUS
  <2>. QED
    BY <2>1, <1>4, Joined DEF UpTo5
<1>6. UpTo6 \in Seq(Instrs)
  <2>1. 6 \in 1 .. 13
    OBVIOUS
  <2>. QED
    BY <2>1, <1>5, Joined DEF UpTo6
<1>7. UpTo7 \in Seq(Instrs)
  <2>1. 7 \in 1 .. 13
    OBVIOUS
  <2>. QED
    BY <2>1, <1>6, Joined DEF UpTo7
<1>8. UpTo8 \in Seq(Instrs)
  <2>1. 8 \in 1 .. 13
    OBVIOUS
  <2>. QED
    BY <2>1, <1>7, Joined DEF UpTo8
<1>9. UpTo9 \in Seq(Instrs)
  <2>1. 9 \in 1 .. 13
    OBVIOUS
  <2>. QED
    BY <2>1, <1>8, Joined DEF UpTo9
<1>10. UpTo10 \in Seq(Instrs)
  <2>1. 10 \in 1 .. 13
    OBVIOUS
  <2>. QED
    BY <2>1, <1>9, Joined DEF UpTo10
<1>11. UpTo11 \in Seq(Instrs)
  <2>1. 11 \in 1 .. 13
    OBVIOUS
  <2>. QED
    BY <2>1, <1>10, Joined DEF UpTo11
<1>12. UpTo12 \in Seq(Instrs)
  <2>1. 12 \in 1 .. 13
    OBVIOUS
  <2>. QED
    BY <2>1, <1>11, Joined DEF UpTo12
<1>13. UpTo13 \in Seq(Instrs)
  <2>1. 13 \in 1 .. 13
    OBVIOUS
  <2>. QED
    BY <2>1, <1>12, Joined DEF UpTo13
<1>14. Program = UpTo13
  <2>1. /\ Section(2) = TestInit /\ Section(3) = TestWrite0 /\ Section(4) = TestWrite50
        /\ Section(5) = TestWrite100 /\ Section(6) = TestCheckBeginning
        /\ Section(7) = TestCheckMiddle /\ Section(8) = TestCheckEnd
    BY DEF Section
  <2>2. /\ Section(9) = TestCheckNotInLog /\ Section(10) = TestRemoveBeginning
        /\ Section(11) = TestRemoveMiddle /\ Section(12) = TestRemoveEnd
        /\ Section(13) = TestRemoveNotInLog
    BY DEF Section
  <2>. QED
    BY <2>1, <2>2 DEF Program, With, UpTo1, UpTo2, UpTo3, UpTo4, UpTo5, UpTo6, UpTo7,
       UpTo8, UpTo9, UpTo10, UpTo11, UpTo12, UpTo13
<1>15. Begins(UpTo13)
  BY <1>14 DEF Begins
<1>16. Len(UpTo12) \in Nat /\ Len(UpTo13) = Len(UpTo12) + Length(13) /\ Begins(UpTo12)
       /\ HasAfter(Len(UpTo12), 13)
  <2>1. 13 \in 1 .. 13
    OBVIOUS
  <2>. QED
    BY <2>1, <1>12, <1>15, Placed DEF UpTo13
<1>17. Len(UpTo11) \in Nat /\ Len(UpTo12) = Len(UpTo11) + Length(12) /\ Begins(UpTo11)
       /\ HasAfter(Len(UpTo11), 12)
  <2>1. 12 \in 1 .. 13
    OBVIOUS
  <2>. QED
    BY <2>1, <1>11, <1>16, Placed DEF UpTo12
<1>18. Len(UpTo10) \in Nat /\ Len(UpTo11) = Len(UpTo10) + Length(11) /\ Begins(UpTo10)
       /\ HasAfter(Len(UpTo10), 11)
  <2>1. 11 \in 1 .. 13
    OBVIOUS
  <2>. QED
    BY <2>1, <1>10, <1>17, Placed DEF UpTo11
<1>19. Len(UpTo9) \in Nat /\ Len(UpTo10) = Len(UpTo9) + Length(10) /\ Begins(UpTo9)
       /\ HasAfter(Len(UpTo9), 10)
  <2>1. 10 \in 1 .. 13
    OBVIOUS
  <2>. QED
    BY <2>1, <1>9, <1>18, Placed DEF UpTo10
<1>20. Len(UpTo8) \in Nat /\ Len(UpTo9) = Len(UpTo8) + Length(9) /\ Begins(UpTo8)
       /\ HasAfter(Len(UpTo8), 9)
  <2>1. 9 \in 1 .. 13
    OBVIOUS
  <2>. QED
    BY <2>1, <1>8, <1>19, Placed DEF UpTo9
<1>21. Len(UpTo7) \in Nat /\ Len(UpTo8) = Len(UpTo7) + Length(8) /\ Begins(UpTo7)
       /\ HasAfter(Len(UpTo7), 8)
  <2>1. 8 \in 1 .. 13
    OBVIOUS
  <2>. QED
    BY <2>1, <1>7, <1>20, Placed DEF UpTo8
<1>22. Len(UpTo6) \in Nat /\ Len(UpTo7) = Len(UpTo6) + Length(7) /\ Begins(UpTo6)
       /\ HasAfter(Len(UpTo6), 7)
  <2>1. 7 \in 1 .. 13
    OBVIOUS
  <2>. QED
    BY <2>1, <1>6, <1>21, Placed DEF UpTo7
<1>23. Len(UpTo5) \in Nat /\ Len(UpTo6) = Len(UpTo5) + Length(6) /\ Begins(UpTo5)
       /\ HasAfter(Len(UpTo5), 6)
  <2>1. 6 \in 1 .. 13
    OBVIOUS
  <2>. QED
    BY <2>1, <1>5, <1>22, Placed DEF UpTo6
<1>24. Len(UpTo4) \in Nat /\ Len(UpTo5) = Len(UpTo4) + Length(5) /\ Begins(UpTo4)
       /\ HasAfter(Len(UpTo4), 5)
  <2>1. 5 \in 1 .. 13
    OBVIOUS
  <2>. QED
    BY <2>1, <1>4, <1>23, Placed DEF UpTo5
<1>25. Len(UpTo3) \in Nat /\ Len(UpTo4) = Len(UpTo3) + Length(4) /\ Begins(UpTo3)
       /\ HasAfter(Len(UpTo3), 4)
  <2>1. 4 \in 1 .. 13
    OBVIOUS
  <2>. QED
    BY <2>1, <1>3, <1>24, Placed DEF UpTo4
<1>26. Len(UpTo2) \in Nat /\ Len(UpTo3) = Len(UpTo2) + Length(3) /\ Begins(UpTo2)
       /\ HasAfter(Len(UpTo2), 3)
  <2>1. 3 \in 1 .. 13
    OBVIOUS
  <2>. QED
    BY <2>1, <1>2, <1>25, Placed DEF UpTo3
<1>27. Len(UpTo1) \in Nat /\ Len(UpTo2) = Len(UpTo1) + Length(2) /\ Begins(UpTo1)
       /\ HasAfter(Len(UpTo1), 2)
  <2>1. 2 \in 1 .. 13
    OBVIOUS
  <2>. QED
    BY <2>1, <1>1, <1>26, Placed DEF UpTo2
<1>28. Start(1) \in Nat /\ Start(1 + 1) = Start(1) + Length(1) /\ HasAfter(Start(1), 1)
  <2>1. Start(1) = 0 /\ Start(1 + 1) = Len(UpTo1)
    BY DEF Start
  <2>2. 1 \in 1 .. 13
    OBVIOUS
  <2>3. Len(UpTo1) = Length(1) /\ Length(1) \in Nat
    BY <1>1, <2>2, Lengths
  <2>4. \A o \in 1 .. Length(1) : 0 + o = o
    BY <2>3
  <2>5. HasAfter(0, 1)
    BY <1>1, <2>3, <2>4, <1>27 DEF HasAfter, Begins
  <2>. QED
    BY <2>1, <2>3, <2>5
<1>29. Start(2) \in Nat /\ Start(2 + 1) = Start(2) + Length(2) /\ HasAfter(Start(2), 2)
  <2>1. Start(2) = Len(UpTo1) /\ Start(2 + 1) = Len(UpTo2)
    BY DEF Start
  <2>. QED
    BY <2>1, <1>27
<1>30. Start(3) \in Nat /\ Start(3 + 1) = Start(3) + Length(3) /\ HasAfter(Start(3), 3)
  <2>1. Start(3) = Len(UpTo2) /\ Start(3 + 1) = Len(UpTo3)
    BY DEF Start
  <2>. QED
    BY <2>1, <1>26
<1>31. Start(4) \in Nat /\ Start(4 + 1) = Start(4) + Length(4) /\ HasAfter(Start(4), 4)
  <2>1. Start(4) = Len(UpTo3) /\ Start(4 + 1) = Len(UpTo4)
    BY DEF Start
  <2>. QED
    BY <2>1, <1>25
<1>32. Start(5) \in Nat /\ Start(5 + 1) = Start(5) + Length(5) /\ HasAfter(Start(5), 5)
  <2>1. Start(5) = Len(UpTo4) /\ Start(5 + 1) = Len(UpTo5)
    BY DEF Start
  <2>. QED
    BY <2>1, <1>24
<1>33. Start(6) \in Nat /\ Start(6 + 1) = Start(6) + Length(6) /\ HasAfter(Start(6), 6)
  <2>1. Start(6) = Len(UpTo5) /\ Start(6 + 1) = Len(UpTo6)
    BY DEF Start
  <2>. QED
    BY <2>1, <1>23
<1>34. Start(7) \in Nat /\ Start(7 + 1) = Start(7) + Length(7) /\ HasAfter(Start(7), 7)
  <2>1. Start(7) = Len(UpTo6) /\ Start(7 + 1) = Len(UpTo7)
    BY DEF Start
  <2>. QED
    BY <2>1, <1>22
<1>35. Start(8) \in Nat /\ Start(8 + 1) = Start(8) + Length(8) /\ HasAfter(Start(8), 8)
  <2>1. Start(8) = Len(UpTo7) /\ Start(8 + 1) = Len(UpTo8)
    BY DEF Start
  <2>. QED
    BY <2>1, <1>21
<1>36. Start(9) \in Nat /\ Start(9 + 1) = Start(9) + Length(9) /\ HasAfter(Start(9), 9)
  <2>1. Start(9) = Len(UpTo8) /\ Start(9 + 1) = Len(UpTo9)
    BY DEF Start
  <2>. QED
    BY <2>1, <1>20
<1>37. Start(10) \in Nat /\ Start(10 + 1) = Start(10) + Length(10) /\ HasAfter(Start(10), 10)
  <2>1. Start(10) = Len(UpTo9) /\ Start(10 + 1) = Len(UpTo10)
    BY DEF Start
  <2>. QED
    BY <2>1, <1>19
<1>38. Start(11) \in Nat /\ Start(11 + 1) = Start(11) + Length(11) /\ HasAfter(Start(11), 11)
  <2>1. Start(11) = Len(UpTo10) /\ Start(11 + 1) = Len(UpTo11)
    BY DEF Start
  <2>. QED
    BY <2>1, <1>18
<1>39. Start(12) \in Nat /\ Start(12 + 1) = Start(12) + Length(12) /\ HasAfter(Start(12), 12)
  <2>1. Start(12) = Len(UpTo11) /\ Start(12 + 1) = Len(UpTo12)
    BY DEF Start
  <2>. QED
    BY <2>1, <1>17
<1>40. Start(13) \in Nat /\ Start(13 + 1) = Start(13) + Length(13) /\ HasAfter(Start(13), 13)
  <2>1. Start(13) = Len(UpTo12) /\ Start(13 + 1) = Len(UpTo13)
    BY DEF Start
  <2>. QED
    BY <2>1, <1>16
<1>41. Len(Program) = Start(14) /\ Start(1) = 0
  BY <1>14 DEF Start
<1>. QED
  <2>. SUFFICES ASSUME NEW k \in 1 .. 13
                PROVE  Start(k) \in Nat /\ Start(k + 1) = Start(k) + Length(k) /\ HasAfter(Start(k), k)
    BY <1>41
  <2>1. k \in {1, 2, 3, 4, 5, 6, 7, 8, 9, 10, 11, 12, 13}
    OBVIOUS
  <2>. QED
    BY <2>1, <1>28, <1>29, <1>30, <1>31, <1>32, <1>33, <1>34, <1>35, <1>36, <1>37, <1>38, <1>39, <1>40

(***************************************************************************)
(* What the files are before each instruction                              *)
(***************************************************************************)
\* The pending files that the removals leave.
Flat(i) == FlatName(Name(i))
Left1 == FlatOf(Full) \ {Flat(0)}
Left2 == Left1 \ {Flat(Half - 1)}
Left3 == Left2 \ {Flat(Full - 1)}

\* The files after o instructions of a section: of SetUp, of TestInit, of TestWrite0, of
\* the test of a write on n entries, of the tests of a check, of the tests of a removal.
InSetUp(f, o) ==
    /\ f.pending = {}
    /\ o <= Half => f.log = Hello(o)
    /\ o > Half => f.log = Hello(o - 1) /\ f.log50 = Hello(Half)

InTestInit(f, o) ==
    /\ f.log \in Seq(Seq(Words))
    /\ o <= Full => Len(f.log) = Full + o /\ f.pending = {}
    /\ o > Full /\ o <= Full + Full => Len(f.log) = Full + Full /\ f.pending = FlatOf(o - Full)
    /\ o > Full + Full => f.log = <<>> /\ f.pending = FlatOf(Full)

InTestWrite0(f, o) ==
    /\ o = 0 => f.log = <<>>
    /\ o <= 1 => f.pending = {}
    /\ o = 3 => f.log = <<>>

InTestWrite(n, f, o) ==
    /\ o <= n => f.log = <<>> /\ f.pending = FlatOf(o)
    /\ o = n + 1 => f.log = Hello(n)
    /\ o \in {n + 1, n + 2} => f.pending = FlatOf(n)
    /\ o = n + 4 => f.log = <<>>

InCheckBeginning(f, o) ==
    /\ o <= Full => f.pending = FlatOf(o)
    /\ o > Full => f.log = Hello(Full) /\ f.pending = FlatOf(Full)

InCheck(f, o) ==
    /\ o <= 3 => f.pending = FlatOf(Full)
    /\ o \in 1 .. 3 => f.log = Hello(Full)
    /\ o = 4 => f.log = <<>>

InRemoveBeginning(f, o) ==
    /\ o <= Full => f.pending = FlatOf(o)
    /\ o = Full + 1 => f.log = Hello(Full)
    /\ o > Full => f.pending = FlatOf(Full)

InRemove(left, f, o) ==
    /\ o <= 2 => f.pending = left
    /\ o = 1 => f.log = Hello(Full)
    /\ o = 4 => f.log = <<>>

\* The files after o instructions of section k; after the last section, 14.
Holds(k, f, o) ==
    /\ Shaped(f)
    /\ k > 1 => f.log50 = Hello(Half) /\ f.log100 = Hello(Full)
    /\ k = 1 => InSetUp(f, o)
    /\ k = 2 => InTestInit(f, o)
    /\ k = 3 => InTestWrite0(f, o)
    /\ k = 4 => InTestWrite(Half, f, o)
    /\ k = 5 => InTestWrite(Full, f, o)
    /\ k = 6 => InCheckBeginning(f, o)
    /\ k \in 7 .. 9 => InCheck(f, o)
    /\ k = 10 => InRemoveBeginning(f, o)
    /\ k = 11 => InRemove(Left1, f, o)
    /\ k = 12 => InRemove(Left2, f, o)
    /\ k = 13 => InRemove(Left3, f, o)
    /\ k = 14 => f.log = <<>> /\ f.pending = {}

\* The inductive invariant: the next instruction is the one after the o-th of section k, or
\* the program is at its end.
BenchInv ==
    \/ \E k \in 1 .. 13 : \E o \in 0 .. Length(k) - 1 : at = Start(k) + (o + 1) /\ Holds(k, files, o)
    \/ at = Len(Program) + 1 /\ Holds(14, files, 0)

\* What is timed when the instruction i is next on the files f.
TitleOK(i, f) ==
    /\ i.do \in {"write", "check", "close"} /\ i.title # Untimed =>
         /\ Len(f.log) = i.title.size
         /\ i.do \in {"check", "close"} =>
              IF i.title.place = 0 THEN ~InSingleLog(f, i.path)
              ELSE f.log[i.title.place] = i.path /\ InSingleLog(f, i.path)
    /\ i.do \in {"init_multi", "create", "is_modified"} /\ i.title # Untimed =>
         Cardinality(f.pending) = i.title.size
    /\ i.do \in OnMultiLog /\ i.title # Untimed =>
         (IsFileModified(f, i.path) <=> i.title.place > 0)

\* The fields of an instruction.
LEMMA InsFields ==
    ASSUME NEW op, NEW p, NEW t
    PROVE  Ins(op, p, t).do = op /\ Ins(op, p, t).path = p /\ Ins(op, p, t).title = t
BY DEF Ins

\* What makes a title true: nothing, a size, a size and a place in the log, a size and a
\* pending file.
LEMMA UntimedOK == ASSUME NEW f, NEW i, i.title = Untimed PROVE TitleOK(i, f)
BY DEF TitleOK

LEMMA SizeOK ==
    ASSUME NEW f, NEW i, NEW n, NEW k, i.do = "write", i.title = Titled(n, k), Len(f.log) = n
    PROVE  TitleOK(i, f)
BY DEF TitleOK, Titled, OnMultiLog

LEMMA InitOK == ASSUME NEW f, NEW i, i.do = "init_single" PROVE TitleOK(i, f)
BY DEF TitleOK, OnMultiLog

LEMMA AskOK ==
    ASSUME NEW f, NEW i, NEW n, NEW k, i.do \in {"check", "close"}, i.title = Titled(n, k), Len(f.log) = n,
           k = 0 => \A j \in DOMAIN f.log : f.log[j] # i.path,
           k # 0 => k \in DOMAIN f.log /\ f.log[k] = i.path
    PROVE  TitleOK(i, f)
<1>1. i.title.size = n /\ i.title.place = k
  BY DEF Titled
<1>2. k = 0 => ~InSingleLog(f, i.path)
  BY DEF InSingleLog
<1>3. k # 0 => f.log[k] = i.path /\ InSingleLog(f, i.path)
  BY DEF InSingleLog
<1>4. i.do \notin OnMultiLog
  BY DEF OnMultiLog
<1>. QED
  BY <1>1, <1>2, <1>3, <1>4 DEF TitleOK, OnMultiLog

LEMMA PendingOK ==
    ASSUME NEW f, NEW i, NEW n, NEW k \in Int, i.do \in {"init_multi", "create", "is_modified", "rm"},
           i.title = Titled(n, k),
           i.do # "rm" => Cardinality(f.pending) = n, FlatName(i.path) \in f.pending <=> k > 0
    PROVE  TitleOK(i, f)
<1>1. i.title.size = n /\ i.title.place = k
  BY DEF Titled
<1>2. i.do \notin {"write", "check", "close"}
  OBVIOUS
<1>3. IsFileModified(f, i.path) <=> k > 0
  BY DEF IsFileModified
<1>. QED
  BY <1>1, <1>2, <1>3 DEF TitleOK

\* Names that are nowhere in the logs.
LEMMA Strangers ==
    /\ \A w \in {"write_test_0", "write_test_50", "write_test_100", "not_in_log.txt", "not_in_lot.txt"} :
         /\ \A n \in 0 .. Full : \A j \in 1 .. n : Hello(n)[j] # Other(w)
         /\ \A n \in 0 .. Full : FlatName(Other(w)) \notin FlatOf(n) /\ FlatName(Slash(Other(w))) \notin FlatOf(n)
    /\ \A n \in 0 .. Full : FlatName(<<>>) \notin FlatOf(n)
<1>1. ASSUME NEW w \in {"write_test_0", "write_test_50", "write_test_100", "not_in_log.txt", "not_in_lot.txt"}
      PROVE  /\ Len(Other(w)) = 1
             /\ FlatName(Other(w))[1] = w /\ FlatName(Slash(Other(w)))[1] = "%"
  <2>1. w \in Words
    BY DEF Words
  <2>2. /\ Other(w) \in Seq(Words) /\ Len(Other(w)) = 1 /\ Other(w)[1] = w /\ Other(w) # <<>>
        /\ Slash(Other(w)) \in Seq(Words) /\ Slash(Other(w)) # <<>> /\ Slash(Other(w))[1] = "/"
    BY <2>1, OtherNames
  <2>3. \A k \in 1 .. 1 : FlatName(Other(w))[k] = IF Other(w)[k] = "/" THEN "%" ELSE Other(w)[k]
    BY <2>2, FlatNames
  <2>4. 1 \in 1 .. Len(Slash(Other(w)))
    BY <2>2
  <2>5. \A k \in 1 .. Len(Slash(Other(w))) :
           FlatName(Slash(Other(w)))[k] = IF Slash(Other(w))[k] = "/" THEN "%" ELSE Slash(Other(w))[k]
    BY <2>2, FlatNames
  <2>6. FlatName(Other(w))[1] = w
    BY <2>2, <2>3
  <2>7. FlatName(Slash(Other(w)))[1] = "%"
    BY <2>2, <2>4, <2>5
  <2>. QED
    BY <2>2, <2>6, <2>7
<1>2. ASSUME NEW n \in 0 .. Full, NEW j \in 1 .. n PROVE Len(Hello(n)[j]) = 2
  <2>1. Hello(n)[j] = Name(j - 1)
    BY HelloLog
  <2>2. j - 1 \in 0 .. Full - 1
    BY BenchConstants
  <2>. QED
    BY <2>1, <2>2, HelloNames
<1>3. ASSUME NEW n \in 0 .. Full, NEW x \in FlatOf(n) PROVE x[1] = "hello.txt"
  BY FlatFiles
<1>4. FlatName(<<>>)[1] = ".tmp"
  <2>. DEFINE q == [k \in DOMAIN <<>> |-> IF <<>>[k] = "/" THEN "%" ELSE <<>>[k]]
  <2>1. q = <<>>
    OBVIOUS
  <2>2. FlatName(<<>>) = <<>> \o <<".tmp">>
    BY <2>1 DEF FlatName
  <2>3. <<".tmp">> \in Seq(Words)
    BY DEF Words
  <2>4. <<>> \o <<".tmp">> = <<".tmp">>
    BY <2>3, ConcatEmptySeq
  <2>. QED
    BY <2>2, <2>4
<1>5. ASSUME NEW w \in {"write_test_0", "write_test_50", "write_test_100", "not_in_log.txt", "not_in_lot.txt"},
             NEW n \in 0 .. Full
      PROVE  /\ \A j \in 1 .. n : Hello(n)[j] # Other(w)
             /\ FlatName(Other(w)) \notin FlatOf(n) /\ FlatName(Slash(Other(w))) \notin FlatOf(n)
  <2>1. Len(Other(w)) = 1 /\ \A j \in 1 .. n : Len(Hello(n)[j]) = 2
    BY <1>1, <1>2
  <2>2. w # "hello.txt" /\ FlatName(Other(w))[1] = w /\ FlatName(Slash(Other(w)))[1] = "%"
    BY <1>1
  <2>3. \A x \in FlatOf(n) : x[1] = "hello.txt"
    BY <1>3
  <2>4. \A j \in 1 .. n : Hello(n)[j] # Other(w)
    BY <2>1
  <2>. QED
    BY <2>2, <2>3, <2>4
<1>6. ASSUME NEW n \in 0 .. Full PROVE FlatName(<<>>) \notin FlatOf(n)
  BY <1>3, <1>4
<1>. QED
  BY <1>5, <1>6

\* The log of all entries, and the pending files of all.
LEMMA FullLog ==
    /\ Len(Hello(Full)) = Full /\ Len(Hello(Half)) = Half
    /\ DOMAIN Hello(Full) = 1 .. Full /\ DOMAIN Hello(Half) = 1 .. Half
    /\ 1 \in 1 .. Full /\ Half \in 1 .. Full /\ Full \in 1 .. Full
    /\ Hello(Full)[1] = Name(0) /\ Hello(Full)[Half] = Name(Half - 1) /\ Hello(Full)[Full] = Name(Full - 1)
    /\ Hello(0) = <<>>
<1>1. Half \in 0 .. Full /\ Full \in 0 .. Full /\ 1 \in 1 .. Full /\ Half \in 1 .. Full /\ Full \in 1 .. Full
  BY BenchConstants
<1>2. \A i \in 1 .. Full : Hello(Full)[i] = Name(i - 1)
  BY <1>1, HelloLog
<1>3. Hello(Full)[1] = Name(0)
  BY <1>1, <1>2
<1>4. Hello(0) = <<>>
  BY DEF Hello
<1>. QED
  BY <1>1, <1>2, <1>3, <1>4, HelloType

\* What is pending until each of the three removals.
LEMMA Removals ==
    /\ Flat(0) \in FlatOf(Full) /\ Flat(Half - 1) \in Left1 /\ Flat(Full - 1) \in Left2
    /\ Flat(Half - 1) \in FlatOf(Full) /\ Flat(Full - 1) \in FlatOf(Full)
    /\ Cardinality(FlatOf(Full)) = Full /\ Left3 \subseteq FlatOf(Full)
<1>1. /\ 0 \in 0 .. Full - 1 /\ Half - 1 \in 0 .. Full - 1 /\ Full - 1 \in 0 .. Full - 1
      /\ 0 # Half - 1 /\ 0 # Full - 1 /\ Half - 1 # Full - 1 /\ Full \in 0 .. Full
  BY BenchConstants
<1>2. Flat(0) # Flat(Half - 1) /\ Flat(0) # Flat(Full - 1) /\ Flat(Half - 1) # Flat(Full - 1)
  BY <1>1, HelloNames DEF Flat
<1>3. Flat(0) \in FlatOf(Full) /\ Flat(Half - 1) \in FlatOf(Full) /\ Flat(Full - 1) \in FlatOf(Full)
  BY <1>1 DEF Flat, FlatOf
<1>4. Cardinality(FlatOf(Full)) = Full
  BY <1>1, FlatFiles
<1>. QED
  BY <1>2, <1>3, <1>4 DEF Left1, Left2, Left3

\* The place a title gives to a path, in the log and among the pending files.
Place(p, k) ==
    /\ k \in 0 .. Full
    /\ k = 0 => \A j \in 1 .. Full : Hello(Full)[j] # p
    /\ k # 0 => Hello(Full)[k] = p
    /\ FlatName(p) \in FlatOf(Full) <=> k > 0

\* The entries the tests ask for have the places the titles give.
LEMMA PlacesInLog ==
    /\ Place(Name(0), 1) /\ Place(Name(Half - 1), Half) /\ Place(Name(Full - 1), Full)
    /\ Place(Other("not_in_log.txt"), 0) /\ Place(Other("not_in_lot.txt"), 0)
<1>1. Place(Name(0), 1)
  <2>1. 1 \in 0 .. Full /\ FlatName(Name(0)) \in FlatOf(Full) /\ Hello(Full)[1] = Name(0)
    BY BenchConstants, FullLog, Removals DEF Flat
  <2>. QED
    BY <2>1 DEF Place
<1>2. Place(Name(Half - 1), Half)
  <2>1. Half \in 0 .. Full /\ Half > 0
    BY BenchConstants
  <2>2. FlatName(Name(Half - 1)) \in FlatOf(Full) /\ Hello(Full)[Half] = Name(Half - 1)
    BY FullLog, Removals DEF Flat
  <2>. QED
    BY <2>1, <2>2 DEF Place
<1>3. Place(Name(Full - 1), Full)
  <2>1. Full \in 0 .. Full /\ Full > 0
    BY BenchConstants
  <2>2. FlatName(Name(Full - 1)) \in FlatOf(Full) /\ Hello(Full)[Full] = Name(Full - 1)
    BY FullLog, Removals DEF Flat
  <2>. QED
    BY <2>1, <2>2 DEF Place
<1>4. ASSUME NEW w \in {"not_in_log.txt", "not_in_lot.txt"} PROVE Place(Other(w), 0)
  <2>1. Full \in 0 .. Full /\ 0 \in 0 .. Full
    BY BenchConstants
  <2>2. FlatName(Other(w)) \notin FlatOf(Full)
    BY <2>1, Strangers
  <2>3. \A j \in 1 .. Full : Hello(Full)[j] # Other(w)
    BY <2>1, Strangers
  <2>. QED
    BY <2>1, <2>2, <2>3 DEF Place
<1>. QED
  BY <1>1, <1>2, <1>3, <1>4

\* What an instruction of each kind shows and leaves behind, on the files the tests give it.
LEMMA Created ==
    ASSUME NEW f, Shaped(f), NEW o \in 0 .. Full - 1, f.pending = FlatOf(o),
           NEW i, i = Ins("create", Name(o), Untimed)
    PROVE  /\ i.do \notin Copies /\ TitleOK(i, f)
           /\ Run(i, f).log = f.log /\ Run(i, f).pending = FlatOf(o + 1)
<1>1. i.do = "create" /\ i.path = Name(o) /\ i.title = Untimed
  BY InsFields
<1>2. Run(i, f).log = f.log /\ Run(i, f).pending = f.pending \union {FlatName(Name(o))}
  <2>1. Run(i, f).log = f.log /\ Run(i, f).pending = f.pending \union {FlatName(i.path)}
    BY <1>1, OnCreate
  <2>. QED
    BY <1>1, <2>1
<1>3. o \in 0 .. Full /\ o < Full
  BY BenchConstants
<1>4. FlatOf(o + 1) = FlatOf(o) \union {FlatName(Name(o))}
  BY <1>3, FlatFiles
<1>. QED
  BY <1>1, <1>2, <1>4, UntimedOK DEF Copies

LEMMA Restored ==
    ASSUME NEW f, Shaped(f), NEW i
    PROVE  /\ i = Ins("cp_log50_log", <<>>, Untimed) =>
                /\ i.do \notin Copies /\ TitleOK(i, f)
                /\ Run(i, f).log = f.log50 /\ Run(i, f).pending = f.pending
           /\ i = Ins("cp_log100_log", <<>>, Untimed) =>
                /\ i.do \notin Copies /\ TitleOK(i, f)
                /\ Run(i, f).log = f.log100 /\ Run(i, f).pending = f.pending
<1>1. CASE i = Ins("cp_log50_log", <<>>, Untimed)
  <2>1. i.do = "cp_log50_log" /\ i.title = Untimed
    BY <1>1, InsFields
  <2>2. i # Ins("cp_log100_log", <<>>, Untimed)
    BY <2>1, InsFields
  <2>. QED
    BY <2>1, <2>2, OnRestore50, UntimedOK DEF Copies
<1>2. CASE i = Ins("cp_log100_log", <<>>, Untimed)
  <2>1. i.do = "cp_log100_log" /\ i.title = Untimed
    BY <1>2, InsFields
  <2>2. i # Ins("cp_log50_log", <<>>, Untimed)
    BY <2>1, InsFields
  <2>. QED
    BY <2>1, <2>2, OnRestore100, UntimedOK DEF Copies
<1>. QED
  BY <1>1, <1>2

LEMMA Reset ==
    ASSUME NEW f, Shaped(f), NEW i
    PROVE  /\ i = Ins("init_single", <<>>, Untimed) =>
                /\ i.do \notin Copies /\ TitleOK(i, f)
                /\ Run(i, f).log = <<>> /\ Run(i, f).pending = f.pending
           /\ i = Ins("init_multi", <<>>, Untimed) =>
                /\ i.do \notin Copies /\ TitleOK(i, f)
                /\ Run(i, f).log = f.log /\ Run(i, f).pending = {}
<1>1. CASE i = Ins("init_single", <<>>, Untimed)
  <2>1. i.do = "init_single" /\ i.title = Untimed
    BY <1>1, InsFields
  <2>2. i # Ins("init_multi", <<>>, Untimed)
    BY <2>1, InsFields
  <2>. QED
    BY <2>1, <2>2, OnInitSingle, UntimedOK DEF Copies
<1>2. CASE i = Ins("init_multi", <<>>, Untimed)
  <2>1. i.do = "init_multi" /\ i.title = Untimed
    BY <1>2, InsFields
  <2>2. i # Ins("init_single", <<>>, Untimed)
    BY <2>1, InsFields
  <2>. QED
    BY <2>1, <2>2, OnInitMulti, UntimedOK DEF Copies
<1>. QED
  BY <1>1, <1>2

LEMMA Written ==
    ASSUME NEW f, Shaped(f), NEW i, NEW p, NEW n, i = Ins("write", p, Titled(n, 0)), Len(f.log) = n
    PROVE  i.do \notin Copies /\ TitleOK(i, f) /\ Run(i, f).pending = f.pending
<1>1. i.do = "write" /\ i.title = Titled(n, 0)
  BY InsFields
<1>2. TitleOK(i, f)
  BY <1>1, SizeOK
<1>3. Run(i, f).pending = f.pending
  BY <1>1, OnWrite
<1>. QED
  BY <1>1, <1>2, <1>3 DEF Copies

LEMMA CreatedNew ==
    ASSUME NEW f, Shaped(f), NEW i, NEW p, NEW n \in 0 .. Full, i = Ins("create", p, Titled(n, 0)),
           f.pending = FlatOf(n), FlatName(p) \notin FlatOf(n)
    PROVE  i.do \notin Copies /\ TitleOK(i, f) /\ Run(i, f).log = f.log
<1>1. i.do = "create" /\ i.path = p /\ i.title = Titled(n, 0)
  BY InsFields
<1>2. Cardinality(f.pending) = n
  BY FlatFiles
<1>3. FlatName(i.path) \in f.pending <=> 0 > 0
  BY <1>1
<1>4. Run(i, f).log = f.log
  BY <1>1, OnCreate
<1>5. TitleOK(i, f)
  BY <1>1, <1>2, <1>3, PendingOK
<1>. QED
  BY <1>1, <1>4, <1>5 DEF Copies

LEMMA Asked ==
    ASSUME NEW f, Shaped(f), NEW i, NEW p, NEW k, Place(p, k), f.log = Hello(Full), f.pending = FlatOf(Full),
           i \in {Ins("check", p, Titled(Full, k)), Ins("is_modified", p, Titled(Full, k))}
    PROVE  i.do \notin Copies /\ TitleOK(i, f) /\ Run(i, f) = f
<1>1. i.do \in {"check", "is_modified"} /\ i.path = p /\ i.title = Titled(Full, k)
  BY InsFields
<1>2. k \in Int /\ (k # 0 => k \in 1 .. Full)
  BY BenchConstants DEF Place
<1>3. CASE i.do = "check"
  <2>1. Len(f.log) = Full /\ DOMAIN f.log = 1 .. Full
    BY FullLog
  <2>2. k = 0 => \A j \in DOMAIN f.log : f.log[j] # i.path
    BY <1>1, <2>1 DEF Place
  <2>3. k # 0 => k \in DOMAIN f.log /\ f.log[k] = i.path
    BY <1>1, <1>2, <2>1 DEF Place
  <2>4. TitleOK(i, f)
    BY <1>1, <1>3, <2>1, <2>2, <2>3, AskOK
  <2>. QED
    BY <1>3, <2>4, OnOther DEF Copies
<1>4. CASE i.do = "is_modified"
  <2>1. Cardinality(f.pending) = Full
    BY Removals
  <2>2. FlatName(i.path) \in f.pending <=> k > 0
    BY <1>1 DEF Place
  <2>3. TitleOK(i, f)
    BY <1>1, <1>2, <1>4, <2>1, <2>2, PendingOK
  <2>. QED
    BY <1>4, <2>3, OnOther DEF Copies
<1>. QED
  BY <1>1, <1>3, <1>4

LEMMA Closed ==
    ASSUME NEW f, Shaped(f), NEW i, NEW p, NEW k, Place(p, k), f.log = Hello(Full),
           i = Ins("close", p, Titled(Full, k))
    PROVE  i.do \notin Copies /\ TitleOK(i, f) /\ Run(i, f).pending = f.pending
<1>1. i.do = "close" /\ i.path = p /\ i.title = Titled(Full, k)
  BY InsFields
<1>2. k \in Int /\ (k # 0 => k \in 1 .. Full)
  BY BenchConstants DEF Place
<1>3. Len(f.log) = Full /\ DOMAIN f.log = 1 .. Full
  BY FullLog
<1>4. k = 0 => \A j \in DOMAIN f.log : f.log[j] # i.path
  BY <1>1, <1>3 DEF Place
<1>5. k # 0 => k \in DOMAIN f.log /\ f.log[k] = i.path
  BY <1>1, <1>2, <1>3 DEF Place
<1>6. TitleOK(i, f)
  BY <1>1, <1>3, <1>4, <1>5, AskOK
<1>. QED
  BY <1>1, <1>6, OnClose DEF Copies

LEMMA Removed ==
    ASSUME NEW f, Shaped(f), NEW i, NEW p, NEW n, NEW k \in Int, i = Ins("rm", p, Titled(n, k)),
           FlatName(p) \in f.pending <=> k > 0
    PROVE  /\ i.do \notin Copies /\ TitleOK(i, f)
           /\ Run(i, f).log = f.log /\ Run(i, f).pending = f.pending \ {FlatName(p)}
<1>1. i.do = "rm" /\ i.path = p /\ i.title = Titled(n, k)
  BY InsFields
<1>2. FlatName(i.path) \in f.pending <=> k > 0
  BY <1>1
<1>3. TitleOK(i, f)
  <2>1. i.do \in {"init_multi", "create", "is_modified", "rm"} /\ ~(i.do # "rm")
    BY <1>1
  <2>. QED
    BY <1>1, <1>2, <2>1, PendingOK
<1>4. Run(i, f).log = f.log /\ Run(i, f).pending = f.pending \ {FlatName(i.path)}
  <2>1. Shaped(f) /\ i.do = "rm"
    BY <1>1
  <2>. QED
    BY ONLY <2>1, OnRm
<1>. QED
  BY <1>1, <1>3, <1>4 DEF Copies

(***************************************************************************)
(* One instruction of each section                                         *)
(***************************************************************************)
LEMMA SetUpStep ==
    ASSUME NEW f, Shaped(f), NEW o \in 0 .. Full + 1, InSetUp(f, o),
           NEW i, i = SetUp[o + 1], NEW g, g = Run(i, f)
    PROVE  /\ Shaped(g) /\ TitleOK(i, f)
           /\ o < Full + 1 => InSetUp(g, o + 1)
           /\ o = Full + 1 => g.log50 = Hello(Half) /\ g.log100 = Hello(Full) /\ InTestInit(g, 0)
<1>0. Half \in Nat /\ Full \in Nat /\ Full = Half + Half /\ Shaped(g) /\ f.pending = {} /\ Half >= 2
  BY BenchConstants, RunFacts DEF InSetUp
<1>1. CASE o < Half
  <2>1. i.do = "write" /\ i.title = Untimed /\ Tail(i.path) = Name(o)
    <3>. DEFINE c == o + 1
    <3>1. c \in 1 .. Half /\ c - 1 = o
      BY <1>0, <1>1
    <3>. HIDE DEF c
    <3>2. SetUp[c].do = "write" /\ SetUp[c].title = Untimed /\ Tail(SetUp[c].path) = Name(c - 1)
      BY <3>1, SetUpIs
    <3>. QED
      BY <3>1, <3>2 DEF c
  <2>2. g.log = Append(f.log, Tail(i.path)) /\ g.pending = f.pending
    <3>1. Shaped(f) /\ g = Run(i, f) /\ i.do = "write"
      BY <2>1
    <3>. QED
      BY ONLY <3>1, OnWrite
  <2>3. f.log = Hello(o)
    BY <1>0, <1>1 DEF InSetUp
  <2>4. Append(Hello(o), Name(o)) = Hello(o + 1)
    <3>1. o \in 0 .. Full /\ o < Full
      BY <1>0, <1>1
    <3>. QED
      BY <3>1, HelloLog
  <2>5. g.log = Hello(o + 1)
    BY <2>1, <2>2, <2>3, <2>4
  <2>6. InSetUp(g, o + 1) /\ o < Full + 1
    BY <1>0, <1>1, <2>2, <2>5 DEF InSetUp
  <2>7. TitleOK(i, f)
    BY <2>1, UntimedOK
  <2>. QED
    BY <1>0, <2>6, <2>7
<1>2. CASE o = Half
  <2>1. i = Ins("cp_log_log50", <<>>, Untimed)
    BY <1>2, SetUpIs
  <2>2. i.do = "cp_log_log50" /\ i.title = Untimed
    BY <2>1, InsFields
  <2>3. g.log50 = f.log /\ g.pending = f.pending /\ g.log = f.log
    BY <2>2, OnSave50
  <2>4. f.log = Hello(Half)
    BY <1>0, <1>2 DEF InSetUp
  <2>5. InSetUp(g, o + 1) /\ o < Full + 1
    <3>1. o + 1 > Half /\ o + 1 - 1 = Half /\ o < Full + 1
      BY <1>0, <1>2
    <3>. QED
      BY <1>0, <2>3, <2>4, <3>1 DEF InSetUp
  <2>6. TitleOK(i, f)
    BY <2>2, UntimedOK
  <2>. QED
    BY <1>0, <2>5, <2>6
<1>3. CASE o > Half /\ o < Full + 1
  <2>1. i.do = "write" /\ i.title = Untimed /\ Tail(i.path) = Name(o - 1)
    <3>1. o + 1 \in Half + 2 .. Full + 1 /\ o + 1 - 2 = o - 1
      BY <1>0, <1>3
    <3>. QED
      BY <3>1, SetUpIs
  <2>2. g.log = Append(f.log, Tail(i.path)) /\ g.pending = f.pending /\ g.log50 = f.log50
    <3>1. Shaped(f) /\ g = Run(i, f) /\ i.do = "write"
      BY <2>1
    <3>. QED
      BY ONLY <3>1, OnWrite
  <2>3. f.log = Hello(o - 1) /\ f.log50 = Hello(Half)
    BY <1>0, <1>3 DEF InSetUp
  <2>4. Append(Hello(o - 1), Name(o - 1)) = Hello(o)
    <3>1. o - 1 \in 0 .. Full /\ o - 1 < Full /\ o - 1 + 1 = o
      BY <1>0, <1>3
    <3>2. Append(Hello(o - 1), Name(o - 1)) = Hello(o - 1 + 1)
      BY <3>1, HelloLog
    <3>. QED
      BY <3>1, <3>2
  <2>5. g.log = Hello(o)
    BY <2>1, <2>2, <2>3, <2>4
  <2>6. InSetUp(g, o + 1)
    <3>1. o + 1 > Half /\ o + 1 - 1 = o
      BY <1>0, <1>3
    <3>. QED
      BY <1>0, <2>2, <2>3, <2>5, <3>1 DEF InSetUp
  <2>7. TitleOK(i, f)
    BY <2>1, UntimedOK
  <2>. QED
    BY <1>0, <1>3, <2>6, <2>7
<1>4. CASE o = Full + 1
  <2>1. i = Ins("cp_log_log100", <<>>, Untimed)
    <3>1. o + 1 = Full + 2
      BY <1>0, <1>4
    <3>. QED
      BY <3>1, SetUpIs
  <2>2. i.do = "cp_log_log100" /\ i.title = Untimed
    BY <2>1, InsFields
  <2>3. g.log50 = f.log50 /\ g.log100 = f.log /\ g.pending = f.pending /\ g.log = f.log
    <3>1. Shaped(f) /\ g = Run(i, f) /\ i.do = "cp_log_log100"
      BY <2>2
    <3>. QED
      BY ONLY <3>1, OnSave100
  <2>4. f.log = Hello(Full) /\ f.log50 = Hello(Half)
    BY <1>0, <1>4 DEF InSetUp
  <2>5. Hello(Full) \in Seq(Seq(Words)) /\ Len(Hello(Full)) = Full
    <3>1. Full \in 0 .. Full
      BY <1>0
    <3>. QED
      BY <3>1, HelloType
  <2>6. InTestInit(g, 0)
    BY <1>0, <2>3, <2>4, <2>5 DEF InTestInit
  <2>7. TitleOK(i, f)
    BY <2>2, UntimedOK
  <2>. QED
    BY <1>0, <1>4, <2>3, <2>4, <2>6, <2>7
<1>. QED
  BY <1>0, <1>1, <1>2, <1>3, <1>4

LEMMA TestInitStep ==
    ASSUME NEW f, Shaped(f), NEW o \in 0 .. Full + Full + 1, InTestInit(f, o),
           NEW i, i = TestInit[o + 1], NEW g, g = Run(i, f)
    PROVE  /\ i.do \notin Copies /\ TitleOK(i, f)
           /\ o < Full + Full + 1 => InTestInit(g, o + 1)
           /\ o = Full + Full + 1 => InTestWrite0(g, 0)
<1>0. Full \in Nat /\ f.log \in Seq(Seq(Words)) /\ Full >= 2
  BY BenchConstants DEF InTestInit
<1>1. CASE o < Full
  <2>1. i.do = "write" /\ i.title = Untimed /\ Tail(i.path) = Name(o)
    <3>. DEFINE c == o + 1
    <3>1. c \in 1 .. Full /\ c - 1 = o
      BY <1>0, <1>1
    <3>. HIDE DEF c
    <3>2. TestInit[c].do = "write" /\ TestInit[c].title = Untimed /\ Tail(TestInit[c].path) = Name(c - 1)
      BY <3>1, TestInitIs
    <3>. QED
      BY <3>1, <3>2 DEF c
  <2>2. g.log = Append(f.log, Tail(i.path)) /\ g.pending = f.pending
    <3>1. Shaped(f) /\ g = Run(i, f) /\ i.do = "write"
      BY <2>1
    <3>. QED
      BY ONLY <3>1, OnWrite
  <2>3. Len(f.log) = Full + o /\ f.pending = {}
    BY <1>0, <1>1 DEF InTestInit
  <2>4. Name(o) \in Seq(Words)
    <3>1. o \in 0 .. Full - 1
      BY <1>0, <1>1
    <3>. QED
      BY <3>1, HelloNames
  <2>5. g.log \in Seq(Seq(Words)) /\ Len(g.log) = Full + (o + 1)
    <3>1. Append(f.log, Name(o)) \in Seq(Seq(Words)) /\ Len(Append(f.log, Name(o))) = Len(f.log) + 1
      BY <1>0, <2>4, AppendProperties
    <3>2. g.log = Append(f.log, Name(o))
      BY <2>1, <2>2
    <3>. QED
      BY <1>0, <2>3, <3>1, <3>2
  <2>6. InTestInit(g, o + 1) /\ o < Full + Full + 1
    BY <1>0, <1>1, <2>2, <2>3, <2>5 DEF InTestInit
  <2>7. TitleOK(i, f)
    BY <2>1, UntimedOK
  <2>. QED
    BY <1>0, <1>1, <2>1, <2>6, <2>7 DEF Copies
<1>2. CASE o >= Full /\ o < Full + Full
  <2>. DEFINE c == o - Full
  <2>1. c \in 0 .. Full - 1 /\ o + 1 = Full + (c + 1) /\ c + 1 \in 1 .. Full /\ c + 1 - 1 = c /\ c \in 0 .. Full
    BY <1>0, <1>2
  <2>2. f.pending = FlatOf(c)
    <3>1. FlatOf(0) = {}
      BY <2>1, FlatFiles
    <3>2. CASE o = Full
      <4>1. f.pending = {} /\ o - Full = 0
        BY <1>0, <3>2 DEF InTestInit
      <4>. QED
        BY <3>1, <4>1
    <3>3. CASE o > Full
      BY <1>0, <1>2, <3>3 DEF InTestInit
    <3>. QED
      BY <1>0, <1>2, <3>2, <3>3
  <2>3. Len(f.log) = Full + Full
    <3>1. CASE o = Full
      BY <1>0, <3>1 DEF InTestInit
    <3>2. CASE o > Full
      <4>1. o <= Full + Full
        BY <1>0, <1>2
      <4>. QED
        BY <3>2, <4>1 DEF InTestInit
    <3>. QED
      BY <1>0, <1>2, <3>1, <3>2
  <2>. HIDE DEF c
  <2>4. i = Ins("create", Name(c), Untimed)
    BY <2>1, TestInitIs
  <2>5. i.do \notin Copies /\ TitleOK(i, f) /\ g.log = f.log /\ g.pending = FlatOf(c + 1)
    BY <2>1, <2>2, <2>4, Created
  <2>6. o + 1 - Full = c + 1
    BY <1>0, <2>1
  <2>7. InTestInit(g, o + 1)
    BY <1>0, <1>2, <2>3, <2>5, <2>6 DEF InTestInit
  <2>. QED
    BY <1>0, <1>2, <2>5, <2>7
<1>3. CASE o = Full + Full
  <2>1. i = Ins("init_single", <<>>, Titled(Full, -1))
    BY <1>3, TestInitIs
  <2>2. i.do = "init_single" /\ i.title = Titled(Full, -1)
    BY <2>1, InsFields
  <2>3. f.pending = FlatOf(Full)
    <3>1. o > Full /\ o <= Full + Full /\ o - Full = Full
      BY <1>0, <1>3
    <3>. QED
      BY <3>1 DEF InTestInit
  <2>4. TitleOK(i, f)
    BY <2>2, InitOK
  <2>5. g.log = <<>> /\ g.pending = f.pending
    BY <2>2, OnInitSingle
  <2>6. InTestInit(g, o + 1)
    <3>1. ~(o + 1 <= Full) /\ ~(o + 1 <= Full + Full)
      BY <1>0, <1>3
    <3>2. g.log \in Seq(Seq(Words)) /\ g.pending = FlatOf(Full)
      BY <2>3, <2>5
    <3>. QED
      BY <2>5, <3>1, <3>2 DEF InTestInit
  <2>. QED
    BY <1>0, <1>3, <2>2, <2>4, <2>6 DEF Copies
<1>4. CASE o = Full + Full + 1
  <2>1. i = Ins("init_multi", <<>>, Titled(Full, -1))
    <3>1. o + 1 = Full + Full + 2
      BY <1>0, <1>4
    <3>. QED
      BY <3>1, TestInitIs
  <2>2. i.do = "init_multi" /\ i.title = Titled(Full, -1) /\ i.path = <<>>
    BY <2>1, InsFields
  <2>3. f.log = <<>> /\ f.pending = FlatOf(Full)
    BY <1>0, <1>4 DEF InTestInit
  <2>4. TitleOK(i, f)
    <3>1. Cardinality(f.pending) = Full
      BY <2>3, Removals
    <3>2. Full \in 0 .. Full
      BY <1>0
    <3>3. FlatName(<<>>) \notin FlatOf(Full)
      BY <3>2, Strangers
    <3>4. (FlatName(i.path) \in f.pending <=> -1 > 0) /\ -1 \in Int
      BY <2>2, <2>3, <3>3
    <3>. QED
      BY <2>2, <3>1, <3>4, PendingOK
  <2>5. g.log = f.log /\ g.pending = {}
    BY <2>2, OnInitMulti
  <2>6. InTestWrite0(g, 0)
    BY <2>3, <2>5 DEF InTestWrite0
  <2>. QED
    BY <1>0, <1>4, <2>2, <2>4, <2>6 DEF Copies
<1>. QED
  BY <1>0, <1>1, <1>2, <1>3, <1>4

LEMMA TestWrite0Step ==
    ASSUME NEW f, Shaped(f), NEW o \in 0 .. 3, InTestWrite0(f, o),
           NEW i, i = TestWrite0[o + 1], NEW g, g = Run(i, f)
    PROVE  /\ i.do \notin Copies /\ TitleOK(i, f)
           /\ o < 3 => InTestWrite0(g, o + 1)
           /\ o = 3 => InTestWrite(Half, g, 0)
<1>0. Half \in Nat /\ 0 \in 0 .. Full /\ FlatOf(0) = {} /\ Half >= 2
  <2>1. Half \in Nat /\ 0 \in 0 .. Full /\ Half >= 2
    BY BenchConstants
  <2>. QED
    BY <2>1, FlatFiles
<1>1. CASE o = 0
  <2>1. i = Ins("write", Slash(Other("write_test_0")), Titled(0, 0))
    BY <1>1, TestWrite0Is
  <2>2. Len(f.log) = 0 /\ f.pending = {}
    BY <1>1 DEF InTestWrite0
  <2>3. i.do \notin Copies /\ TitleOK(i, f) /\ g.pending = f.pending
    BY <2>1, <2>2, Written
  <2>. QED
    BY <1>1, <2>2, <2>3 DEF InTestWrite0
<1>2. CASE o = 1
  <2>1. i = Ins("create", Other("write_test_0"), Titled(0, 0))
    BY <1>2, TestWrite0Is
  <2>2. f.pending = FlatOf(0)
    BY <1>0, <1>2 DEF InTestWrite0
  <2>3. FlatName(Other("write_test_0")) \notin FlatOf(0)
    BY <1>0
  <2>4. i.do \notin Copies /\ TitleOK(i, f)
    BY <1>0, <2>1, <2>2, <2>3, CreatedNew
  <2>. QED
    BY <1>2, <2>4 DEF InTestWrite0
<1>3. CASE o = 2
  <2>1. i = Ins("init_single", <<>>, Untimed)
    BY <1>3, TestWrite0Is
  <2>2. i.do \notin Copies /\ TitleOK(i, f) /\ g.log = <<>>
    BY <2>1, Reset
  <2>. QED
    BY <1>3, <2>2 DEF InTestWrite0
<1>4. CASE o = 3
  <2>1. i = Ins("init_multi", <<>>, Untimed)
    BY <1>4, TestWrite0Is
  <2>2. i.do \notin Copies /\ TitleOK(i, f) /\ g.log = f.log /\ g.pending = {}
    BY <2>1, Reset
  <2>3. f.log = <<>>
    BY <1>4 DEF InTestWrite0
  <2>4. InTestWrite(Half, g, 0)
    BY <1>0, <2>2, <2>3 DEF InTestWrite
  <2>. QED
    BY <1>4, <2>2, <2>4
<1>. QED
  BY <1>1, <1>2, <1>3, <1>4

\* The tests of a write on n entries differ in the two paths and in the copy they restore.
IsTestWrite(s, n, p, q) ==
    /\ \A j \in 1 .. n : s[j] = Ins("create", Name(j - 1), Untimed)
    /\ s[n + 2] = Ins("write", p, Titled(n, 0)) /\ s[n + 3] = Ins("create", q, Titled(n, 0))
    /\ s[n + 4] = Ins("init_single", <<>>, Untimed) /\ s[n + 5] = Ins("init_multi", <<>>, Untimed)

LEMMA TestWriteStep ==
    ASSUME NEW n \in 0 .. Full, NEW s, NEW p, NEW q, IsTestWrite(s, n, p, q),
           FlatName(q) \notin FlatOf(n), n > 0,
           NEW f, Shaped(f), NEW o \in 0 .. n + 4, InTestWrite(n, f, o),
           NEW i, i = s[o + 1], NEW g, g = Run(i, f),
           o = n => /\ i.do \notin Copies /\ TitleOK(i, f)
                    /\ g.log = Hello(n) /\ g.pending = f.pending
    PROVE  /\ i.do \notin Copies /\ TitleOK(i, f)
           /\ o < n + 4 => InTestWrite(n, g, o + 1)
           /\ o = n + 4 => g.log = <<>> /\ g.pending = {}
<1>0. n \in Nat /\ n <= Full
  BY BenchConstants
<1>1. CASE o < n
  <2>. DEFINE c == o + 1
  <2>1. c \in 1 .. n /\ c - 1 = o /\ o \in 0 .. Full - 1 /\ o <= n /\ o + 1 <= n
    BY <1>0, <1>1, BenchConstants
  <2>. HIDE DEF c
  <2>2. s[c] = Ins("create", Name(c - 1), Untimed)
    BY <2>1 DEF IsTestWrite
  <2>3. i = Ins("create", Name(o), Untimed)
    BY <2>1, <2>2 DEF c
  <2>4. f.log = <<>> /\ f.pending = FlatOf(o)
    BY <2>1 DEF InTestWrite
  <2>5. i.do \notin Copies /\ TitleOK(i, f) /\ g.log = f.log /\ g.pending = FlatOf(o + 1)
    BY <2>1, <2>3, <2>4, Created
  <2>6. InTestWrite(n, g, o + 1)
    BY <1>0, <2>1, <2>4, <2>5 DEF InTestWrite
  <2>. QED
    BY <1>0, <1>1, <2>5, <2>6
<1>2. CASE o = n
  <2>1. f.pending = FlatOf(n)
    BY <1>0, <1>2 DEF InTestWrite
  <2>2. InTestWrite(n, g, o + 1)
    BY <1>0, <1>2, <2>1 DEF InTestWrite
  <2>. QED
    BY <1>0, <1>2, <2>2
<1>3. CASE o = n + 1
  <2>1. i = Ins("write", p, Titled(n, 0))
    <3>1. o + 1 = n + 2
      BY <1>0, <1>3
    <3>. QED
      BY <3>1 DEF IsTestWrite
  <2>2. f.log = Hello(n) /\ f.pending = FlatOf(n)
    BY <1>0, <1>3 DEF InTestWrite
  <2>3. Len(f.log) = n
    BY <2>2, HelloType
  <2>4. i.do \notin Copies /\ TitleOK(i, f) /\ g.pending = f.pending
    BY <2>1, <2>3, Written
  <2>5. InTestWrite(n, g, o + 1)
    BY <1>0, <1>3, <2>2, <2>4 DEF InTestWrite
  <2>. QED
    BY <1>0, <1>3, <2>4, <2>5
<1>4. CASE o = n + 2
  <2>1. i = Ins("create", q, Titled(n, 0))
    <3>1. o + 1 = n + 3
      BY <1>0, <1>4
    <3>. QED
      BY <3>1 DEF IsTestWrite
  <2>2. f.pending = FlatOf(n)
    BY <1>0, <1>4 DEF InTestWrite
  <2>3. i.do \notin Copies /\ TitleOK(i, f)
    BY <2>1, <2>2, CreatedNew
  <2>4. InTestWrite(n, g, o + 1)
    BY <1>0, <1>4 DEF InTestWrite
  <2>. QED
    BY <1>0, <1>4, <2>3, <2>4
<1>5. CASE o = n + 3
  <2>1. i = Ins("init_single", <<>>, Untimed)
    <3>1. o + 1 = n + 4
      BY <1>0, <1>5
    <3>. QED
      BY <3>1 DEF IsTestWrite
  <2>2. i.do \notin Copies /\ TitleOK(i, f) /\ g.log = <<>>
    BY <2>1, Reset
  <2>3. InTestWrite(n, g, o + 1)
    BY <1>0, <1>5, <2>2 DEF InTestWrite
  <2>. QED
    BY <1>0, <1>5, <2>2, <2>3
<1>6. CASE o = n + 4
  <2>1. i = Ins("init_multi", <<>>, Untimed)
    <3>1. o + 1 = n + 5
      BY <1>0, <1>6
    <3>. QED
      BY <3>1 DEF IsTestWrite
  <2>2. i.do \notin Copies /\ TitleOK(i, f) /\ g.log = f.log /\ g.pending = {}
    BY <2>1, Reset
  <2>3. f.log = <<>>
    BY <1>0, <1>6 DEF InTestWrite
  <2>. QED
    BY <1>0, <1>6, <2>2, <2>3
<1>. QED
  BY <1>0, <1>1, <1>2, <1>3, <1>4, <1>5, <1>6

LEMMA TestWrite50Step ==
    ASSUME NEW f, Shaped(f), f.log50 = Hello(Half), NEW o \in 0 .. Half + 4, InTestWrite(Half, f, o),
           NEW i, i = TestWrite50[o + 1], NEW g, g = Run(i, f)
    PROVE  /\ i.do \notin Copies /\ TitleOK(i, f)
           /\ o < Half + 4 => InTestWrite(Half, g, o + 1)
           /\ o = Half + 4 => g.log = <<>> /\ g.pending = {}
<1>1. Half \in 0 .. Full /\ Half > 0
  BY BenchConstants
<1>2. FlatName(Slash(Other("write_test_50"))) \notin FlatOf(Half)
  BY <1>1, Strangers
<1>3. ASSUME o = Half
      PROVE  /\ i.do \notin Copies /\ TitleOK(i, f)
             /\ g.log = Hello(Half) /\ g.pending = f.pending
  <2>1. i = Ins("cp_log50_log", <<>>, Untimed)
    BY <1>3, TestWrite50Is
  <2>. QED
    BY <2>1, Restored
<1>4. IsTestWrite(TestWrite50, Half, Other("w") \o Other("rite_test_50"), Slash(Other("write_test_50")))
  BY TestWrite50Is, Zenon DEF IsTestWrite
<1>. QED
  BY <1>1, <1>2, <1>3, <1>4, TestWriteStep, SMTT(60)

LEMMA TestWrite100Step ==
    ASSUME NEW f, Shaped(f), f.log100 = Hello(Full), NEW o \in 0 .. Full + 4, InTestWrite(Full, f, o),
           NEW i, i = TestWrite100[o + 1], NEW g, g = Run(i, f)
    PROVE  /\ i.do \notin Copies /\ TitleOK(i, f)
           /\ o < Full + 4 => InTestWrite(Full, g, o + 1)
           /\ o = Full + 4 => g.log = <<>> /\ g.pending = {}
<1>1. Full \in 0 .. Full /\ Full > 0
  BY BenchConstants
<1>2. FlatName(Other("write_test_100")) \notin FlatOf(Full)
  BY <1>1, Strangers
<1>3. ASSUME o = Full
      PROVE  /\ i.do \notin Copies /\ TitleOK(i, f)
             /\ g.log = Hello(Full) /\ g.pending = f.pending
  <2>1. i = Ins("cp_log100_log", <<>>, Untimed)
    BY <1>3, TestWrite100Is
  <2>. QED
    BY <2>1, Restored
<1>4. IsTestWrite(TestWrite100, Full, Slash(Other("write_test_100")), Other("write_test_100"))
  BY TestWrite100Is, Zenon DEF IsTestWrite
<1>. QED
  BY <1>1, <1>2, <1>3, <1>4, TestWriteStep, SMTT(60)

LEMMA CheckBeginningStep ==
    ASSUME NEW f, Shaped(f), f.log100 = Hello(Full), NEW o \in 0 .. Full + 2, InCheckBeginning(f, o),
           NEW i, i = TestCheckBeginning[o + 1], NEW g, g = Run(i, f)
    PROVE  /\ i.do \notin Copies /\ TitleOK(i, f)
           /\ o < Full + 2 => InCheckBeginning(g, o + 1)
           /\ o = Full + 2 => g.pending = FlatOf(Full)
<1>0. Full \in Nat
  BY BenchConstants
<1>1. CASE o < Full
  <2>. DEFINE c == o + 1
  <2>1. c \in 1 .. Full /\ c - 1 = o /\ o \in 0 .. Full - 1 /\ o <= Full /\ o + 1 <= Full
    BY <1>0, <1>1
  <2>. HIDE DEF c
  <2>2. TestCheckBeginning[c] = Ins("create", Name(c - 1), Untimed)
    BY <2>1, TestCheckBeginningIs
  <2>3. i = Ins("create", Name(o), Untimed)
    BY <2>1, <2>2 DEF c
  <2>4. f.pending = FlatOf(o)
    BY <2>1 DEF InCheckBeginning
  <2>5. i.do \notin Copies /\ TitleOK(i, f) /\ g.pending = FlatOf(o + 1)
    BY <2>1, <2>3, <2>4, Created
  <2>6. InCheckBeginning(g, o + 1)
    BY <1>0, <2>1, <2>5 DEF InCheckBeginning
  <2>. QED
    BY <1>0, <1>1, <2>5, <2>6
<1>2. CASE o = Full
  <2>1. i = Ins("cp_log100_log", <<>>, Untimed)
    BY <1>2, TestCheckBeginningIs
  <2>2. f.pending = FlatOf(Full)
    BY <1>0, <1>2 DEF InCheckBeginning
  <2>3. i.do \notin Copies /\ TitleOK(i, f) /\ g.log = Hello(Full) /\ g.pending = f.pending
    BY <2>1, Restored
  <2>4. InCheckBeginning(g, o + 1)
    BY <1>0, <1>2, <2>2, <2>3 DEF InCheckBeginning
  <2>. QED
    BY <1>0, <1>2, <2>3, <2>4
<1>3. CASE o \in {Full + 1, Full + 2}
  <2>1. i \in {Ins("check", Name(0), Titled(Full, 1)), Ins("is_modified", Name(0), Titled(Full, 1))}
    <3>1. o + 1 \in {Full + 2, Full + 3}
      BY <1>0, <1>3
    <3>. QED
      BY <3>1, TestCheckBeginningIs
  <2>2. f.log = Hello(Full) /\ f.pending = FlatOf(Full)
    BY <1>0, <1>3 DEF InCheckBeginning
  <2>3. i.do \notin Copies /\ TitleOK(i, f) /\ g = f
    BY <2>1, <2>2, PlacesInLog, Asked
  <2>4. InCheckBeginning(g, o + 1)
    BY <1>0, <1>3, <2>2, <2>3 DEF InCheckBeginning
  <2>. QED
    BY <2>2, <2>3, <2>4
<1>. QED
  BY <1>0, <1>1, <1>2, <1>3

\* The tests of a check that do not begin with the creations differ in the path.
LEMMA CheckStep ==
    ASSUME NEW s, NEW p, NEW k, Place(p, k),
           s[1] = Ins("cp_log100_log", <<>>, Untimed), s[2] = Ins("check", p, Titled(Full, k)),
           s[3] = Ins("is_modified", p, Titled(Full, k)),
           NEW f, Shaped(f), f.log100 = Hello(Full), NEW o \in 0 .. 2, InCheck(f, o),
           NEW i, i = s[o + 1], NEW g, g = Run(i, f)
    PROVE  /\ i.do \notin Copies /\ TitleOK(i, f)
           /\ InCheck(g, o + 1) /\ g.pending = FlatOf(Full)
<1>1. CASE o = 0
  <2>1. i = Ins("cp_log100_log", <<>>, Untimed)
    BY <1>1
  <2>2. f.pending = FlatOf(Full)
    BY <1>1 DEF InCheck
  <2>3. i.do \notin Copies /\ TitleOK(i, f) /\ g.log = Hello(Full) /\ g.pending = f.pending
    BY <2>1, Restored
  <2>. QED
    BY <1>1, <2>2, <2>3 DEF InCheck
<1>2. CASE o \in {1, 2}
  <2>1. i \in {Ins("check", p, Titled(Full, k)), Ins("is_modified", p, Titled(Full, k))}
    BY <1>2
  <2>2. f.log = Hello(Full) /\ f.pending = FlatOf(Full)
    BY <1>2 DEF InCheck
  <2>3. i.do \notin Copies /\ TitleOK(i, f) /\ g = f
    BY <2>1, <2>2, Asked
  <2>. QED
    BY <1>2, <2>2, <2>3 DEF InCheck
<1>. QED
  BY <1>1, <1>2

LEMMA CheckNotInLogStep ==
    ASSUME NEW f, Shaped(f), f.log100 = Hello(Full), NEW o \in 0 .. 4, InCheck(f, o),
           NEW i, i = TestCheckNotInLog[o + 1], NEW g, g = Run(i, f)
    PROVE  /\ i.do \notin Copies /\ TitleOK(i, f)
           /\ o < 4 => InCheck(g, o + 1)
           /\ o = 4 => InRemoveBeginning(g, 0)
<1>1. CASE o \in 0 .. 2
  <2>1. i.do \notin Copies /\ TitleOK(i, f) /\ InCheck(g, o + 1)
    BY <1>1, PlacesInLog, TestCheckNotInLogIs, CheckStep
  <2>. QED
    BY <1>1, <2>1
<1>2. CASE o = 3
  <2>1. i = Ins("init_single", <<>>, Untimed)
    BY <1>2, TestCheckNotInLogIs
  <2>2. i.do \notin Copies /\ TitleOK(i, f) /\ g.log = <<>>
    BY <2>1, Reset
  <2>. QED
    BY <1>2, <2>2 DEF InCheck
<1>3. CASE o = 4
  <2>1. i = Ins("init_multi", <<>>, Untimed)
    BY <1>3, TestCheckNotInLogIs
  <2>2. i.do \notin Copies /\ TitleOK(i, f) /\ g.pending = {}
    BY <2>1, Reset
  <2>3. FlatOf(0) = {} /\ Full \in Nat /\ Full > 0
    <3>1. 0 \in 0 .. Full /\ Full \in Nat /\ Full > 0
      BY BenchConstants
    <3>. QED
      BY <3>1, FlatFiles
  <2>4. InRemoveBeginning(g, 0)
    BY <2>2, <2>3 DEF InRemoveBeginning
  <2>. QED
    BY <1>3, <2>2, <2>4
<1>. QED
  BY <1>1, <1>2, <1>3

LEMMA RemoveBeginningStep ==
    ASSUME NEW f, Shaped(f), f.log100 = Hello(Full), NEW o \in 0 .. Full + 2, InRemoveBeginning(f, o),
           NEW i, i = TestRemoveBeginning[o + 1], NEW g, g = Run(i, f)
    PROVE  /\ i.do \notin Copies /\ TitleOK(i, f)
           /\ o < Full + 2 => InRemoveBeginning(g, o + 1)
           /\ o = Full + 2 => InRemove(Left1, g, 0)
<1>0. Full \in Nat
  BY BenchConstants
<1>1. CASE o < Full
  <2>. DEFINE c == o + 1
  <2>1. c \in 1 .. Full /\ c - 1 = o /\ o \in 0 .. Full - 1 /\ o <= Full /\ o + 1 <= Full
    BY <1>0, <1>1
  <2>. HIDE DEF c
  <2>2. TestRemoveBeginning[c] = Ins("create", Name(c - 1), Untimed)
    BY <2>1, TestRemoveBeginningIs
  <2>3. i = Ins("create", Name(o), Untimed)
    BY <2>1, <2>2 DEF c
  <2>4. f.pending = FlatOf(o)
    BY <2>1 DEF InRemoveBeginning
  <2>5. i.do \notin Copies /\ TitleOK(i, f) /\ g.pending = FlatOf(o + 1)
    BY <2>1, <2>3, <2>4, Created
  <2>6. InRemoveBeginning(g, o + 1)
    BY <1>0, <2>1, <2>5 DEF InRemoveBeginning
  <2>. QED
    BY <1>0, <1>1, <2>5, <2>6
<1>2. CASE o = Full
  <2>1. i = Ins("cp_log100_log", <<>>, Untimed)
    BY <1>2, TestRemoveBeginningIs
  <2>2. f.pending = FlatOf(Full)
    BY <1>0, <1>2 DEF InRemoveBeginning
  <2>3. i.do \notin Copies /\ TitleOK(i, f) /\ g.log = Hello(Full) /\ g.pending = f.pending
    BY <2>1, Restored
  <2>4. InRemoveBeginning(g, o + 1)
    BY <1>0, <1>2, <2>2, <2>3 DEF InRemoveBeginning
  <2>. QED
    BY <1>0, <1>2, <2>3, <2>4
<1>3. CASE o = Full + 1
  <2>1. i = Ins("close", Name(0), Titled(Full, 1))
    <3>1. o + 1 = Full + 2
      BY <1>0, <1>3
    <3>. QED
      BY <3>1, TestRemoveBeginningIs
  <2>2. f.log = Hello(Full) /\ f.pending = FlatOf(Full)
    BY <1>0, <1>3 DEF InRemoveBeginning
  <2>3. i.do \notin Copies /\ TitleOK(i, f) /\ g.pending = f.pending
    BY <2>1, <2>2, PlacesInLog, Closed
  <2>4. InRemoveBeginning(g, o + 1)
    BY <1>0, <1>3, <2>2, <2>3 DEF InRemoveBeginning
  <2>. QED
    BY <1>0, <1>3, <2>3, <2>4
<1>4. CASE o = Full + 2
  <2>1. i = Ins("rm", Name(0), Titled(Full, 1))
    <3>1. o + 1 = Full + 3
      BY <1>0, <1>4
    <3>. QED
      BY <3>1, TestRemoveBeginningIs
  <2>2. f.pending = FlatOf(Full)
    BY <1>0, <1>4 DEF InRemoveBeginning
  <2>3. FlatName(Name(0)) \in f.pending
    BY <2>2, Removals DEF Flat
  <2>4. i.do \notin Copies /\ TitleOK(i, f) /\ g.pending = f.pending \ {FlatName(Name(0))}
    <3>1. (FlatName(Name(0)) \in f.pending <=> 1 > 0) /\ 1 \in Int
      BY <2>3
    <3>. QED
      BY <2>1, <2>3, <3>1, Removed
  <2>5. InRemove(Left1, g, 0)
    BY <2>2, <2>4 DEF InRemove, Left1, Flat
  <2>. QED
    BY <1>0, <1>4, <2>4, <2>5
<1>. QED
  BY <1>0, <1>1, <1>2, <1>3, <1>4

\* The tests of a removal from the middle and from the end differ in the path.
LEMMA RemoveStep ==
    ASSUME NEW s, NEW p, NEW k, Place(p, k), k > 0, NEW left, FlatName(p) \in left,
           s[1] = Ins("cp_log100_log", <<>>, Untimed), s[2] = Ins("close", p, Titled(Full, k)),
           s[3] = Ins("rm", p, Titled(Full, k)),
           NEW f, Shaped(f), f.log100 = Hello(Full), NEW o \in 0 .. 2, InRemove(left, f, o),
           NEW i, i = s[o + 1], NEW g, g = Run(i, f)
    PROVE  /\ i.do \notin Copies /\ TitleOK(i, f)
           /\ o < 2 => InRemove(left, g, o + 1)
           /\ o = 2 => InRemove(left \ {FlatName(p)}, g, 0)
<1>1. CASE o = 0
  <2>1. i = Ins("cp_log100_log", <<>>, Untimed)
    BY <1>1
  <2>2. f.pending = left
    BY <1>1 DEF InRemove
  <2>3. i.do \notin Copies /\ TitleOK(i, f) /\ g.log = Hello(Full) /\ g.pending = f.pending
    BY <2>1, Restored
  <2>. QED
    BY <1>1, <2>2, <2>3 DEF InRemove
<1>2. CASE o = 1
  <2>1. i = Ins("close", p, Titled(Full, k))
    BY <1>2
  <2>2. f.log = Hello(Full) /\ f.pending = left
    BY <1>2 DEF InRemove
  <2>3. i.do \notin Copies /\ TitleOK(i, f) /\ g.pending = f.pending
    BY <2>1, <2>2, Closed
  <2>. QED
    BY <1>2, <2>2, <2>3 DEF InRemove
<1>3. CASE o = 2
  <2>1. i = Ins("rm", p, Titled(Full, k))
    BY <1>3
  <2>2. f.pending = left
    BY <1>3 DEF InRemove
  <2>3. i.do \notin Copies /\ TitleOK(i, f) /\ g.pending = f.pending \ {FlatName(p)}
    <3>1. k \in Int
      BY BenchConstants DEF Place
    <3>2. FlatName(p) \in f.pending <=> k > 0
      BY <2>2
    <3>. QED
      BY <2>1, <3>1, <3>2, Removed
  <2>. QED
    BY <1>3, <2>2, <2>3 DEF InRemove
<1>. QED
  BY <1>1, <1>2, <1>3

LEMMA RemoveNotInLogStep ==
    ASSUME NEW f, Shaped(f), f.log100 = Hello(Full), NEW o \in 0 .. 4, InRemove(Left3, f, o),
           NEW i, i = TestRemoveNotInLog[o + 1], NEW g, g = Run(i, f)
    PROVE  /\ i.do \notin Copies /\ TitleOK(i, f)
           /\ o < 4 => InRemove(Left3, g, o + 1)
           /\ o = 4 => g.log = <<>> /\ g.pending = {}
<1>1. CASE o = 0
  <2>1. i = Ins("cp_log100_log", <<>>, Untimed)
    BY <1>1, TestRemoveNotInLogIs
  <2>2. f.pending = Left3
    BY <1>1 DEF InRemove
  <2>3. i.do \notin Copies /\ TitleOK(i, f) /\ g.log = Hello(Full) /\ g.pending = f.pending
    BY <2>1, Restored
  <2>. QED
    BY <1>1, <2>2, <2>3 DEF InRemove
<1>2. CASE o = 1
  <2>1. i = Ins("close", Other("not_in_lot.txt"), Titled(Full, 0))
    BY <1>2, TestRemoveNotInLogIs
  <2>2. f.log = Hello(Full) /\ f.pending = Left3
    BY <1>2 DEF InRemove
  <2>3. i.do \notin Copies /\ TitleOK(i, f) /\ g.pending = f.pending
    BY <2>1, <2>2, PlacesInLog, Closed
  <2>. QED
    BY <1>2, <2>2, <2>3 DEF InRemove
<1>3. CASE o = 2
  <2>1. i = Ins("rm", Other("not_in_log.txt"), Titled(Full, 0))
    BY <1>3, TestRemoveNotInLogIs
  <2>2. f.pending = Left3
    BY <1>3 DEF InRemove
  <2>3. i.do \notin Copies /\ TitleOK(i, f)
    <3>1. FlatName(Other("not_in_log.txt")) \notin FlatOf(Full)
      BY PlacesInLog DEF Place
    <3>3. (FlatName(Other("not_in_log.txt")) \in f.pending <=> 0 > 0) /\ 0 \in Int
      BY <2>2, <3>1, Removals
    <3>. QED
      BY <2>1, <3>3, Removed
  <2>. QED
    BY <1>3, <2>3 DEF InRemove
<1>4. CASE o = 3
  <2>1. i = Ins("init_single", <<>>, Untimed)
    BY <1>4, TestRemoveNotInLogIs
  <2>2. i.do \notin Copies /\ TitleOK(i, f) /\ g.log = <<>>
    BY <2>1, Reset
  <2>. QED
    BY <1>4, <2>2 DEF InRemove
<1>5. CASE o = 4
  <2>1. i = Ins("init_multi", <<>>, Untimed)
    BY <1>5, TestRemoveNotInLogIs
  <2>2. i.do \notin Copies /\ TitleOK(i, f) /\ g.log = f.log /\ g.pending = {}
    BY <2>1, Reset
  <2>3. f.log = <<>>
    BY <1>5 DEF InRemove
  <2>. QED
    BY <1>5, <2>2, <2>3
<1>. QED
  BY <1>1, <1>2, <1>3, <1>4, <1>5

\* What an instruction of section k makes of the files.
LEMMA Boundaries ==
    /\ \A f : f.log = <<>> /\ f.pending = {} =>
         /\ InSetUp(f, 0) /\ InTestWrite(Full, f, 0) /\ InCheckBeginning(f, 0)
    /\ \A f : f.pending = FlatOf(Full) => InCheck(f, 0)
<1>1. Half \in Nat /\ Full \in Nat /\ 0 \in 0 .. Full /\ Full > 0 /\ Half > 0
  BY BenchConstants
<1>2. FlatOf(0) = {} /\ Hello(0) = <<>>
  BY <1>1, FlatFiles, FullLog
<1>3. ASSUME NEW f, f.log = <<>>, f.pending = {}
      PROVE  InSetUp(f, 0) /\ InTestWrite(Full, f, 0) /\ InCheckBeginning(f, 0)
  <2>1. InSetUp(f, 0)
    BY <1>1, <1>2, <1>3 DEF InSetUp
  <2>2. InTestWrite(Full, f, 0)
    BY <1>1, <1>2, <1>3 DEF InTestWrite
  <2>3. InCheckBeginning(f, 0)
    BY <1>1, <1>2, <1>3 DEF InCheckBeginning
  <2>. QED
    BY <2>1, <2>2, <2>3
<1>4. ASSUME NEW f, f.pending = FlatOf(Full) PROVE InCheck(f, 0)
  BY <1>4 DEF InCheck
<1>. QED
  BY <1>3, <1>4

\* One instruction of any section, the last one leading to the next section.
LEMMA SectionStep ==
    ASSUME NEW k \in 1 .. 13, NEW o \in 0 .. Length(k) - 1, NEW f, Holds(k, f, o),
           NEW i, i = Section(k)[o + 1], NEW g, g = Run(i, f)
    PROVE  /\ TitleOK(i, f)
           /\ o + 1 < Length(k) => Holds(k, g, o + 1)
           /\ o + 1 = Length(k) => Holds(k + 1, g, 0)
<1>1. Shaped(f) /\ Shaped(g) /\ Half \in Nat /\ Full \in Nat
  <2>1. Shaped(f)
    BY DEF Holds
  <2>. QED
    BY <2>1, RunFacts, BenchConstants
<1>2. ASSUME k > 1, i.do \notin Copies
      PROVE  g.log50 = Hello(Half) /\ g.log100 = Hello(Full)
  <2>1. f.log50 = Hello(Half) /\ f.log100 = Hello(Full)
    BY <1>2 DEF Holds
  <2>2. g.log50 = f.log50 /\ g.log100 = f.log100
    BY <1>1, <1>2, RunFacts
  <2>. QED
    BY <2>1, <2>2
<1>3. CASE k = 1
  <2>1. Length(k) = Full + 2 /\ i = SetUp[o + 1]
    BY <1>3 DEF Length, Section
  <2>2. o \in 0 .. Full + 1
    BY <1>1, <2>1
  <2>3. InSetUp(f, o)
    BY <1>3 DEF Holds
  <2>4. /\ TitleOK(i, f)
        /\ o < Full + 1 => InSetUp(g, o + 1)
        /\ o = Full + 1 => g.log50 = Hello(Half) /\ g.log100 = Hello(Full) /\ InTestInit(g, 0)
    BY <1>1, <2>1, <2>2, <2>3, SetUpStep
  <2>5. o + 1 < Length(k) => Holds(k, g, o + 1)
    <3>1. o + 1 < Length(k) => o < Full + 1
      BY <1>1, <2>1, <2>2
    <3>. QED
      BY <1>1, <1>3, <2>4, <3>1 DEF Holds
  <2>6. o + 1 = Length(k) => Holds(k + 1, g, 0)
    <3>1. o + 1 = Length(k) => o = Full + 1
      BY <1>1, <2>1, <2>2
    <3>. QED
      BY <1>1, <1>3, <2>4, <3>1 DEF Holds
  <2>. QED
    BY <2>4, <2>5, <2>6
<1>4. CASE k = 2
  <2>1. Length(k) = Full + Full + 2 /\ i = TestInit[o + 1]
    BY <1>4 DEF Length, Section
  <2>2. o \in 0 .. Full + Full + 1
    BY <1>1, <2>1
  <2>3. InTestInit(f, o) /\ f.log50 = Hello(Half) /\ f.log100 = Hello(Full)
    BY <1>4 DEF Holds
  <2>4. /\ i.do \notin Copies /\ TitleOK(i, f)
        /\ o < Full + Full + 1 => InTestInit(g, o + 1)
        /\ o = Full + Full + 1 => InTestWrite0(g, 0)
    BY <1>1, <2>1, <2>2, <2>3, TestInitStep
  <2>5. g.log50 = Hello(Half) /\ g.log100 = Hello(Full)
    BY <1>2, <1>4, <2>4
  <2>6. o + 1 < Length(k) => Holds(k, g, o + 1)
    <3>1. o + 1 < Length(k) => o < Full + Full + 1
      BY <1>1, <2>1, <2>2
    <3>. QED
      BY <1>1, <1>4, <2>4, <2>5, <3>1 DEF Holds
  <2>7. o + 1 = Length(k) => Holds(k + 1, g, 0)
    <3>1. o + 1 = Length(k) => o = Full + Full + 1
      BY <1>1, <2>1, <2>2
    <3>. QED
      BY <1>1, <1>4, <2>4, <2>5, <3>1 DEF Holds
  <2>. QED
    BY <2>4, <2>6, <2>7
<1>5. CASE k = 3
  <2>1. Length(k) = 4 /\ i = TestWrite0[o + 1]
    BY <1>5 DEF Length, Section
  <2>2. o \in 0 .. 3
    BY <1>1, <2>1
  <2>3. InTestWrite0(f, o) /\ f.log50 = Hello(Half) /\ f.log100 = Hello(Full)
    BY <1>5 DEF Holds
  <2>4. /\ i.do \notin Copies /\ TitleOK(i, f)
        /\ o < 3 => InTestWrite0(g, o + 1)
        /\ o = 3 => InTestWrite(Half, g, 0)
    BY <1>1, <2>1, <2>2, <2>3, TestWrite0Step
  <2>5. g.log50 = Hello(Half) /\ g.log100 = Hello(Full)
    BY <1>2, <1>5, <2>4
  <2>6. o + 1 < Length(k) => Holds(k, g, o + 1)
    <3>1. o + 1 < Length(k) => o < 3
      BY <1>1, <2>1, <2>2
    <3>. QED
      BY <1>1, <1>5, <2>4, <2>5, <3>1 DEF Holds
  <2>7. o + 1 = Length(k) => Holds(k + 1, g, 0)
    <3>1. o + 1 = Length(k) => o = 3
      BY <1>1, <2>1, <2>2
    <3>. QED
      BY <1>1, <1>5, <2>4, <2>5, <3>1 DEF Holds
  <2>. QED
    BY <2>4, <2>6, <2>7
<1>6. CASE k = 4
  <2>1. Length(k) = Half + 5 /\ i = TestWrite50[o + 1]
    BY <1>6 DEF Length, Section
  <2>2. o \in 0 .. Half + 4
    BY <1>1, <2>1
  <2>3. InTestWrite(Half, f, o) /\ f.log50 = Hello(Half) /\ f.log100 = Hello(Full)
    BY <1>6 DEF Holds
  <2>4. /\ i.do \notin Copies /\ TitleOK(i, f)
        /\ o < Half + 4 => InTestWrite(Half, g, o + 1)
        /\ o = Half + 4 => g.log = <<>> /\ g.pending = {}
    BY <1>1, <2>1, <2>2, <2>3, TestWrite50Step
  <2>5. g.log50 = Hello(Half) /\ g.log100 = Hello(Full)
    BY <1>2, <1>6, <2>4
  <2>6. o + 1 < Length(k) => Holds(k, g, o + 1)
    <3>1. o + 1 < Length(k) => o < Half + 4
      BY <1>1, <2>1, <2>2
    <3>. QED
      BY <1>1, <1>6, <2>4, <2>5, <3>1 DEF Holds
  <2>7. o + 1 = Length(k) => Holds(k + 1, g, 0)
    <3>1. o + 1 = Length(k) => o = Half + 4
      BY <1>1, <2>1, <2>2
    <3>2. o + 1 = Length(k) => InTestWrite(Full, g, 0)
      BY <2>4, <3>1, Boundaries
    <3>. QED
      BY <1>1, <1>6, <2>5, <3>2 DEF Holds
  <2>. QED
    BY <2>4, <2>6, <2>7
<1>7. CASE k = 5
  <2>1. Length(k) = Full + 5 /\ i = TestWrite100[o + 1]
    BY <1>7 DEF Length, Section
  <2>2. o \in 0 .. Full + 4
    BY <1>1, <2>1
  <2>3. InTestWrite(Full, f, o) /\ f.log50 = Hello(Half) /\ f.log100 = Hello(Full)
    BY <1>7 DEF Holds
  <2>4. /\ i.do \notin Copies /\ TitleOK(i, f)
        /\ o < Full + 4 => InTestWrite(Full, g, o + 1)
        /\ o = Full + 4 => g.log = <<>> /\ g.pending = {}
    BY <1>1, <2>1, <2>2, <2>3, TestWrite100Step
  <2>5. g.log50 = Hello(Half) /\ g.log100 = Hello(Full)
    BY <1>2, <1>7, <2>4
  <2>6. o + 1 < Length(k) => Holds(k, g, o + 1)
    <3>1. o + 1 < Length(k) => o < Full + 4
      BY <1>1, <2>1, <2>2
    <3>. QED
      BY <1>1, <1>7, <2>4, <2>5, <3>1 DEF Holds
  <2>7. o + 1 = Length(k) => Holds(k + 1, g, 0)
    <3>1. o + 1 = Length(k) => o = Full + 4
      BY <1>1, <2>1, <2>2
    <3>2. o + 1 = Length(k) => InCheckBeginning(g, 0)
      BY <2>4, <3>1, Boundaries
    <3>. QED
      BY <1>1, <1>7, <2>5, <3>2 DEF Holds
  <2>. QED
    BY <2>4, <2>6, <2>7
<1>8. CASE k = 6
  <2>1. Length(k) = Full + 3 /\ i = TestCheckBeginning[o + 1]
    BY <1>8 DEF Length, Section
  <2>2. o \in 0 .. Full + 2
    BY <1>1, <2>1
  <2>3. InCheckBeginning(f, o) /\ f.log50 = Hello(Half) /\ f.log100 = Hello(Full)
    BY <1>8 DEF Holds
  <2>4. /\ i.do \notin Copies /\ TitleOK(i, f)
        /\ o < Full + 2 => InCheckBeginning(g, o + 1)
        /\ o = Full + 2 => g.pending = FlatOf(Full)
    BY <1>1, <2>1, <2>2, <2>3, CheckBeginningStep
  <2>5. g.log50 = Hello(Half) /\ g.log100 = Hello(Full)
    BY <1>2, <1>8, <2>4
  <2>6. o + 1 < Length(k) => Holds(k, g, o + 1)
    <3>1. o + 1 < Length(k) => o < Full + 2
      BY <1>1, <2>1, <2>2
    <3>. QED
      BY <1>1, <1>8, <2>4, <2>5, <3>1 DEF Holds
  <2>7. o + 1 = Length(k) => Holds(k + 1, g, 0)
    <3>1. o + 1 = Length(k) => o = Full + 2
      BY <1>1, <2>1, <2>2
    <3>2. o + 1 = Length(k) => InCheck(g, 0)
      BY <2>4, <3>1, Boundaries
    <3>. QED
      BY <1>1, <1>8, <2>5, <3>2 DEF Holds
  <2>. QED
    BY <2>4, <2>6, <2>7
<1>9. CASE k = 7
  <2>1. Length(k) = 3 /\ i = TestCheckMiddle[o + 1]
    BY <1>9 DEF Length, Section
  <2>2. o \in 0 .. 2
    BY <1>1, <2>1
  <2>3. InCheck(f, o) /\ f.log50 = Hello(Half) /\ f.log100 = Hello(Full)
    BY <1>9 DEF Holds
  <2>4. /\ i.do \notin Copies /\ TitleOK(i, f)
        /\ o < 2 => InCheck(g, o + 1)
        /\ o = 2 => g.pending = FlatOf(Full)
    <3>1. /\ TestCheckMiddle[1] = Ins("cp_log100_log", <<>>, Untimed) /\ TestCheckMiddle[2] = Ins("check", Name(Half - 1), Titled(Full, Half))
          /\ TestCheckMiddle[3] = Ins("is_modified", Name(Half - 1), Titled(Full, Half))
      BY TestCheckMiddleIs, Zenon
    <3>2. Place(Name(Half - 1), Half)
      BY PlacesInLog
    <3>3. i.do \notin Copies /\ TitleOK(i, f) /\ InCheck(g, o + 1) /\ g.pending = FlatOf(Full)
      BY <1>1, <2>1, <2>2, <2>3, <3>1, <3>2, CheckStep
    <3>. QED
      BY <3>3
  <2>5. g.log50 = Hello(Half) /\ g.log100 = Hello(Full)
    BY <1>2, <1>9, <2>4
  <2>6. o + 1 < Length(k) => Holds(k, g, o + 1)
    <3>1. o + 1 < Length(k) => o < 2
      BY <1>1, <2>1, <2>2
    <3>. QED
      BY <1>1, <1>9, <2>4, <2>5, <3>1 DEF Holds
  <2>7. o + 1 = Length(k) => Holds(k + 1, g, 0)
    <3>1. o + 1 = Length(k) => o = 2
      BY <1>1, <2>1, <2>2
    <3>2. o + 1 = Length(k) => InCheck(g, 0)
      BY <2>4, <3>1, Boundaries
    <3>. QED
      BY <1>1, <1>9, <2>5, <3>2 DEF Holds
  <2>. QED
    BY <2>4, <2>6, <2>7
<1>10. CASE k = 8
  <2>1. Length(k) = 3 /\ i = TestCheckEnd[o + 1]
    BY <1>10 DEF Length, Section
  <2>2. o \in 0 .. 2
    BY <1>1, <2>1
  <2>3. InCheck(f, o) /\ f.log50 = Hello(Half) /\ f.log100 = Hello(Full)
    BY <1>10 DEF Holds
  <2>4. /\ i.do \notin Copies /\ TitleOK(i, f)
        /\ o < 2 => InCheck(g, o + 1)
        /\ o = 2 => g.pending = FlatOf(Full)
    <3>1. /\ TestCheckEnd[1] = Ins("cp_log100_log", <<>>, Untimed) /\ TestCheckEnd[2] = Ins("check", Name(Full - 1), Titled(Full, Full))
          /\ TestCheckEnd[3] = Ins("is_modified", Name(Full - 1), Titled(Full, Full))
      BY TestCheckEndIs, Zenon
    <3>2. Place(Name(Full - 1), Full)
      BY PlacesInLog
    <3>3. i.do \notin Copies /\ TitleOK(i, f) /\ InCheck(g, o + 1) /\ g.pending = FlatOf(Full)
      BY <1>1, <2>1, <2>2, <2>3, <3>1, <3>2, CheckStep
    <3>. QED
      BY <3>3
  <2>5. g.log50 = Hello(Half) /\ g.log100 = Hello(Full)
    BY <1>2, <1>10, <2>4
  <2>6. o + 1 < Length(k) => Holds(k, g, o + 1)
    <3>1. o + 1 < Length(k) => o < 2
      BY <1>1, <2>1, <2>2
    <3>. QED
      BY <1>1, <1>10, <2>4, <2>5, <3>1 DEF Holds
  <2>7. o + 1 = Length(k) => Holds(k + 1, g, 0)
    <3>1. o + 1 = Length(k) => o = 2
      BY <1>1, <2>1, <2>2
    <3>2. o + 1 = Length(k) => InCheck(g, 0)
      BY <2>4, <3>1, Boundaries
    <3>. QED
      BY <1>1, <1>10, <2>5, <3>2 DEF Holds
  <2>. QED
    BY <2>4, <2>6, <2>7
<1>11. CASE k = 9
  <2>1. Length(k) = 5 /\ i = TestCheckNotInLog[o + 1]
    BY <1>11 DEF Length, Section
  <2>2. o \in 0 .. 4
    BY <1>1, <2>1
  <2>3. InCheck(f, o) /\ f.log50 = Hello(Half) /\ f.log100 = Hello(Full)
    BY <1>11 DEF Holds
  <2>4. /\ i.do \notin Copies /\ TitleOK(i, f)
        /\ o < 4 => InCheck(g, o + 1)
        /\ o = 4 => InRemoveBeginning(g, 0)
    BY <1>1, <2>1, <2>2, <2>3, CheckNotInLogStep
  <2>5. g.log50 = Hello(Half) /\ g.log100 = Hello(Full)
    BY <1>2, <1>11, <2>4
  <2>6. o + 1 < Length(k) => Holds(k, g, o + 1)
    <3>1. o + 1 < Length(k) => o < 4
      BY <1>1, <2>1, <2>2
    <3>. QED
      BY <1>1, <1>11, <2>4, <2>5, <3>1 DEF Holds
  <2>7. o + 1 = Length(k) => Holds(k + 1, g, 0)
    <3>1. o + 1 = Length(k) => o = 4
      BY <1>1, <2>1, <2>2
    <3>. QED
      BY <1>1, <1>11, <2>4, <2>5, <3>1 DEF Holds
  <2>. QED
    BY <2>4, <2>6, <2>7
<1>12. CASE k = 10
  <2>1. Length(k) = Full + 3 /\ i = TestRemoveBeginning[o + 1]
    BY <1>12 DEF Length, Section
  <2>2. o \in 0 .. Full + 2
    BY <1>1, <2>1
  <2>3. InRemoveBeginning(f, o) /\ f.log50 = Hello(Half) /\ f.log100 = Hello(Full)
    BY <1>12 DEF Holds
  <2>4. /\ i.do \notin Copies /\ TitleOK(i, f)
        /\ o < Full + 2 => InRemoveBeginning(g, o + 1)
        /\ o = Full + 2 => InRemove(Left1, g, 0)
    BY <1>1, <2>1, <2>2, <2>3, RemoveBeginningStep
  <2>5. g.log50 = Hello(Half) /\ g.log100 = Hello(Full)
    BY <1>2, <1>12, <2>4
  <2>6. o + 1 < Length(k) => Holds(k, g, o + 1)
    <3>1. o + 1 < Length(k) => o < Full + 2
      BY <1>1, <2>1, <2>2
    <3>. QED
      BY <1>1, <1>12, <2>4, <2>5, <3>1 DEF Holds
  <2>7. o + 1 = Length(k) => Holds(k + 1, g, 0)
    <3>1. o + 1 = Length(k) => o = Full + 2
      BY <1>1, <2>1, <2>2
    <3>. QED
      BY <1>1, <1>12, <2>4, <2>5, <3>1 DEF Holds
  <2>. QED
    BY <2>4, <2>6, <2>7
<1>13. CASE k = 11
  <2>1. Length(k) = 3 /\ i = TestRemoveMiddle[o + 1]
    BY <1>13 DEF Length, Section
  <2>2. o \in 0 .. 2
    BY <1>1, <2>1
  <2>3. InRemove(Left1, f, o) /\ f.log50 = Hello(Half) /\ f.log100 = Hello(Full)
    BY <1>13 DEF Holds
  <2>4. /\ i.do \notin Copies /\ TitleOK(i, f)
        /\ o < 2 => InRemove(Left1, g, o + 1)
        /\ o = 2 => InRemove(Left2, g, 0)
    <3>1. /\ TestRemoveMiddle[1] = Ins("cp_log100_log", <<>>, Untimed) /\ TestRemoveMiddle[2] = Ins("close", Name(Half - 1), Titled(Full, Half))
          /\ TestRemoveMiddle[3] = Ins("rm", Name(Half - 1), Titled(Full, Half))
      BY TestRemoveMiddleIs, Zenon
    <3>2. Place(Name(Half - 1), Half) /\ Half > 0
      BY PlacesInLog, BenchConstants
    <3>3. FlatName(Name(Half - 1)) \in Left1
      BY Removals DEF Flat
    <3>4. Left2 = Left1 \ {FlatName(Name(Half - 1))}
      BY DEF Left2, Flat
    <3>5. /\ i.do \notin Copies /\ TitleOK(i, f)
          /\ o < 2 => InRemove(Left1, g, o + 1)
          /\ o = 2 => InRemove(Left1 \ {FlatName(Name(Half - 1))}, g, 0)
      BY <1>1, <2>1, <2>2, <2>3, <3>1, <3>2, <3>3, RemoveStep
    <3>. QED
      BY <3>4, <3>5
  <2>5. g.log50 = Hello(Half) /\ g.log100 = Hello(Full)
    BY <1>2, <1>13, <2>4
  <2>6. o + 1 < Length(k) => Holds(k, g, o + 1)
    <3>1. o + 1 < Length(k) => o < 2
      BY <1>1, <2>1, <2>2
    <3>. QED
      BY <1>1, <1>13, <2>4, <2>5, <3>1 DEF Holds
  <2>7. o + 1 = Length(k) => Holds(k + 1, g, 0)
    <3>1. o + 1 = Length(k) => o = 2
      BY <1>1, <2>1, <2>2
    <3>. QED
      BY <1>1, <1>13, <2>4, <2>5, <3>1 DEF Holds
  <2>. QED
    BY <2>4, <2>6, <2>7
<1>14. CASE k = 12
  <2>1. Length(k) = 3 /\ i = TestRemoveEnd[o + 1]
    BY <1>14 DEF Length, Section
  <2>2. o \in 0 .. 2
    BY <1>1, <2>1
  <2>3. InRemove(Left2, f, o) /\ f.log50 = Hello(Half) /\ f.log100 = Hello(Full)
    BY <1>14 DEF Holds
  <2>4. /\ i.do \notin Copies /\ TitleOK(i, f)
        /\ o < 2 => InRemove(Left2, g, o + 1)
        /\ o = 2 => InRemove(Left3, g, 0)
    <3>1. /\ TestRemoveEnd[1] = Ins("cp_log100_log", <<>>, Untimed) /\ TestRemoveEnd[2] = Ins("close", Name(Full - 1), Titled(Full, Full))
          /\ TestRemoveEnd[3] = Ins("rm", Name(Full - 1), Titled(Full, Full))
      BY TestRemoveEndIs, Zenon
    <3>2. Place(Name(Full - 1), Full) /\ Full > 0
      BY PlacesInLog, BenchConstants
    <3>3. FlatName(Name(Full - 1)) \in Left2
      BY Removals DEF Flat
    <3>4. Left3 = Left2 \ {FlatName(Name(Full - 1))}
      BY DEF Left3, Flat
    <3>5. /\ i.do \notin Copies /\ TitleOK(i, f)
          /\ o < 2 => InRemove(Left2, g, o + 1)
          /\ o = 2 => InRemove(Left2 \ {FlatName(Name(Full - 1))}, g, 0)
      BY <1>1, <2>1, <2>2, <2>3, <3>1, <3>2, <3>3, RemoveStep
    <3>. QED
      BY <3>4, <3>5
  <2>5. g.log50 = Hello(Half) /\ g.log100 = Hello(Full)
    BY <1>2, <1>14, <2>4
  <2>6. o + 1 < Length(k) => Holds(k, g, o + 1)
    <3>1. o + 1 < Length(k) => o < 2
      BY <1>1, <2>1, <2>2
    <3>. QED
      BY <1>1, <1>14, <2>4, <2>5, <3>1 DEF Holds
  <2>7. o + 1 = Length(k) => Holds(k + 1, g, 0)
    <3>1. o + 1 = Length(k) => o = 2
      BY <1>1, <2>1, <2>2
    <3>. QED
      BY <1>1, <1>14, <2>4, <2>5, <3>1 DEF Holds
  <2>. QED
    BY <2>4, <2>6, <2>7
<1>15. CASE k = 13
  <2>1. Length(k) = 5 /\ i = TestRemoveNotInLog[o + 1]
    BY <1>15 DEF Length, Section
  <2>2. o \in 0 .. 4
    BY <1>1, <2>1
  <2>3. InRemove(Left3, f, o) /\ f.log50 = Hello(Half) /\ f.log100 = Hello(Full)
    BY <1>15 DEF Holds
  <2>4. /\ i.do \notin Copies /\ TitleOK(i, f)
        /\ o < 4 => InRemove(Left3, g, o + 1)
        /\ o = 4 => g.log = <<>> /\ g.pending = {}
    BY <1>1, <2>1, <2>2, <2>3, RemoveNotInLogStep
  <2>5. g.log50 = Hello(Half) /\ g.log100 = Hello(Full)
    BY <1>2, <1>15, <2>4
  <2>6. o + 1 < Length(k) => Holds(k, g, o + 1)
    <3>1. o + 1 < Length(k) => o < 4
      BY <1>1, <2>1, <2>2
    <3>. QED
      BY <1>1, <1>15, <2>4, <2>5, <3>1 DEF Holds
  <2>7. o + 1 = Length(k) => Holds(k + 1, g, 0)
    <3>1. o + 1 = Length(k) => o = 4
      BY <1>1, <2>1, <2>2
    <3>. QED
      BY <1>1, <1>15, <2>4, <2>5, <3>1 DEF Holds
  <2>. QED
    BY <2>4, <2>6, <2>7
<1>. QED
  <2>1. k \in {1, 2, 3, 4, 5, 6, 7, 8, 9, 10, 11, 12, 13}
    OBVIOUS
  <2>. QED
    BY <2>1, <1>3, <1>4, <1>5, <1>6, <1>7, <1>8, <1>9, <1>10, <1>11, <1>12, <1>13, <1>14, <1>15

\* No section ends after the program.
LEMMA Ends == \A k \in 1 .. 13 : Start(k) + Length(k) <= Len(Program)
<1>1. /\ Start(1) \in Nat /\ Length(1) \in Nat /\ Start(2) = Start(1) + Length(1)
      /\ Start(2) \in Nat /\ Length(2) \in Nat /\ Start(3) = Start(2) + Length(2)
      /\ Start(3) \in Nat /\ Length(3) \in Nat /\ Start(4) = Start(3) + Length(3)
      /\ Start(4) \in Nat /\ Length(4) \in Nat /\ Start(5) = Start(4) + Length(4)
      /\ Start(5) \in Nat /\ Length(5) \in Nat /\ Start(6) = Start(5) + Length(5)
      /\ Start(6) \in Nat /\ Length(6) \in Nat /\ Start(7) = Start(6) + Length(6)
      /\ Start(7) \in Nat /\ Length(7) \in Nat /\ Start(8) = Start(7) + Length(7)
      /\ Start(8) \in Nat /\ Length(8) \in Nat /\ Start(9) = Start(8) + Length(8)
      /\ Start(9) \in Nat /\ Length(9) \in Nat /\ Start(10) = Start(9) + Length(9)
      /\ Start(10) \in Nat /\ Length(10) \in Nat /\ Start(11) = Start(10) + Length(10)
      /\ Start(11) \in Nat /\ Length(11) \in Nat /\ Start(12) = Start(11) + Length(11)
      /\ Start(12) \in Nat /\ Length(12) \in Nat /\ Start(13) = Start(12) + Length(12)
      /\ Start(13) \in Nat /\ Length(13) \in Nat /\ Start(14) = Start(13) + Length(13)
  <2>1. \A k \in 1 .. 13 : Start(k) \in Nat /\ Length(k) \in Nat /\ Start(k + 1) = Start(k) + Length(k)
    BY Layout, Lengths
  <2>. QED
    BY <2>1
<1>2. \A k \in {1, 2, 3, 4, 5, 6, 7, 8, 9, 10, 11, 12, 13} : Start(k) + Length(k) <= Start(14)
  BY <1>1
<1>3. \A k \in 1 .. 13 : k \in {1, 2, 3, 4, 5, 6, 7, 8, 9, 10, 11, 12, 13}
  OBVIOUS
<1>. QED
  BY <1>2, <1>3, Layout

\* The next instruction, while there is one.
LEMMA Next1 ==
    ASSUME BenchInv, at <= Len(Program)
    PROVE  \E k \in 1 .. 13 : \E o \in 0 .. Length(k) - 1 :
             /\ at = Start(k) + (o + 1) /\ Holds(k, files, o)
             /\ Program[at] = Section(k)[o + 1] /\ TitleOK(Program[at], files)
<1>1. Len(Program) \in Nat
  <2>1. 13 \in 1 .. 13 /\ 13 + 1 = 14
    OBVIOUS
  <2>2. Start(13) \in Nat /\ Start(14) = Start(13) + Length(13) /\ Length(13) \in Nat
    BY <2>1, Layout, Lengths
  <2>. QED
    BY <2>2, Layout
<1>5. PICK k \in 1 .. 13 : \E o \in 0 .. Length(k) - 1 : at = Start(k) + (o + 1) /\ Holds(k, files, o)
  BY <1>1 DEF BenchInv
<1>2. PICK o \in 0 .. Length(k) - 1 : at = Start(k) + (o + 1) /\ Holds(k, files, o)
  BY <1>5
<1>3. Program[at] = Section(k)[o + 1]
  <2>1. o + 1 \in 1 .. Length(k)
    <3>1. Length(k) \in Nat
      BY Lengths
    <3>. QED
      BY <3>1
  <2>2. HasAfter(Start(k), k)
    BY Layout
  <2>. QED
    BY <1>2, <2>1, <2>2 DEF HasAfter
<1>4. TitleOK(Program[at], files)
  BY <1>2, <1>3, SectionStep
<1>. QED
  BY <1>2, <1>3, <1>4

\* The invariant holds at the start ...
LEMMA BenchStart == BenchInit => BenchInv
<1>. SUFFICES ASSUME BenchInit PROVE BenchInv
  OBVIOUS
<1>1. Shaped(files) /\ files.log = <<>> /\ files.pending = {} /\ at = 1
  BY DEF BenchInit, Shaped
<1>2. InSetUp(files, 0)
  BY <1>1, Boundaries
<1>3. Holds(1, files, 0)
  BY <1>1, <1>2 DEF Holds
<1>4. 1 \in 1 .. 13 /\ 0 \in 0 .. Length(1) - 1 /\ at = Start(1) + (0 + 1)
  <2>1. 1 \in 1 .. 13
    OBVIOUS
  <2>2. Length(1) \in Nat \ {0} /\ Start(1) = 0
    BY <2>1, Lengths, Layout
  <2>. QED
    BY <1>1, <2>1, <2>2
<1>. QED
  BY <1>3, <1>4 DEF BenchInv

\* ... and after every step.
LEMMA BenchSteps == BenchInv /\ [BenchNext]_benchVars => BenchInv'
<1>. SUFFICES ASSUME BenchInv, [BenchNext]_benchVars PROVE BenchInv'
  OBVIOUS
<1>1. CASE Instruction
  <2>0. PICK k \in 1 .. 13 : \E o \in 0 .. Length(k) - 1 :
          /\ at = Start(k) + (o + 1) /\ Holds(k, files, o)
          /\ Program[at] = Section(k)[o + 1] /\ TitleOK(Program[at], files)
    BY <1>1, Next1 DEF Instruction
  <2>1. PICK o \in 0 .. Length(k) - 1 :
          /\ at = Start(k) + (o + 1) /\ Holds(k, files, o)
          /\ Program[at] = Section(k)[o + 1] /\ TitleOK(Program[at], files)
    BY <2>0
  <2>2. files' = Run(Program[at], files) /\ at' = at + 1
    BY <1>1 DEF Instruction
  <2>3. /\ o + 1 < Length(k) => Holds(k, files', o + 1)
        /\ o + 1 = Length(k) => Holds(k + 1, files', 0)
    BY <2>1, <2>2, SectionStep
  <2>4. Length(k) \in Nat \ {0} /\ Start(k) \in Nat /\ Start(k + 1) = Start(k) + Length(k)
    BY Lengths, Layout
  <2>5. CASE o + 1 < Length(k)
    <3>1. o + 1 \in 0 .. Length(k) - 1 /\ at' = Start(k) + ((o + 1) + 1)
      BY <2>1, <2>2, <2>4, <2>5
    <3>. QED
      BY <2>3, <2>5, <3>1 DEF BenchInv
  <2>6. CASE o + 1 = Length(k)
    <3>1. at' = Start(k + 1) + (0 + 1) /\ Holds(k + 1, files', 0)
      BY <2>1, <2>2, <2>3, <2>4, <2>6
    <3>2. CASE k = 13
      <4>1. k + 1 = 14 /\ Len(Program) = Start(14)
        BY <3>2, Layout
      <4>2. at' = Len(Program) + 1 /\ Holds(14, files', 0)
        BY <3>1, <4>1
      <4>. QED
        BY <4>2 DEF BenchInv
    <3>3. CASE k # 13
      <4>1. k + 1 \in 1 .. 13
        BY <3>3
      <4>2. 0 \in 0 .. Length(k + 1) - 1
        <5>1. Length(k + 1) \in Nat \ {0}
          BY <4>1, Lengths
        <5>. QED
          BY <5>1
      <4>. QED
        BY <3>1, <4>1, <4>2 DEF BenchInv
    <3>. QED
      BY <3>2, <3>3
  <2>. QED
    BY <2>4, <2>5, <2>6
<1>2. CASE NextIteration
  <2>1. at > Len(Program) /\ at' = 1 /\ files' = files
    BY <1>2 DEF NextIteration
  <2>2. Holds(14, files, 0)
    <3>1. ASSUME NEW k \in 1 .. 13, NEW o \in 0 .. Length(k) - 1, at = Start(k) + (o + 1) PROVE FALSE
      <4>1. Start(k) + Length(k) <= Len(Program) /\ Start(k) \in Nat /\ Length(k) \in Nat
        BY Ends, Layout, Lengths
      <4>2. Len(Program) \in Nat
        <5>1. 13 \in 1 .. 13 /\ 13 + 1 = 14
          OBVIOUS
        <5>2. Start(13) \in Nat /\ Start(14) = Start(13) + Length(13) /\ Length(13) \in Nat
          BY <5>1, Layout, Lengths
        <5>. QED
          BY <5>2, Layout
      <4>. QED
        BY <2>1, <3>1, <4>1, <4>2
    <3>. QED
      BY <3>1 DEF BenchInv
  <2>3. Shaped(files) /\ files.log = <<>> /\ files.pending = {}
    BY <2>2 DEF Holds
  <2>4. Holds(1, files, 0)
    <3>1. InSetUp(files, 0)
      BY <2>3, Boundaries
    <3>. QED
      BY <2>3, <3>1 DEF Holds
  <2>5. 1 \in 1 .. 13 /\ 0 \in 0 .. Length(1) - 1 /\ at' = Start(1) + (0 + 1)
    <3>1. 1 \in 1 .. 13
      OBVIOUS
    <3>2. Length(1) \in Nat \ {0} /\ Start(1) = 0
      BY <3>1, Lengths, Layout
    <3>. QED
      BY <2>1, <3>1, <3>2
  <2>. QED
    BY <2>1, <2>4, <2>5 DEF BenchInv
<1>3. CASE UNCHANGED benchVars
  BY <1>3 DEF BenchInv, benchVars
<1>. QED
  BY <1>1, <1>2, <1>3 DEF BenchNext, Finished

\* In every iteration, every operation is timed on a log of the titled size with its file at
\* the titled place, for every size of the middle log and whatever names to_string makes.
THEOREM TitlesAreTrue == BenchSpec => []LogsAsTitled
<1>1. BenchInv => LogsAsTitled
  <2>. SUFFICES ASSUME BenchInv, at <= Len(Program)
                PROVE  LogsAsTitled
    BY DEF LogsAsTitled, Timed
  <2>1. TitleOK(Program[at], files)
    BY Next1
  <2>. QED
    BY <2>1 DEF TitleOK, LogsAsTitled, Timed
<1>. QED
  BY <1>1, BenchStart, BenchSteps, PTL DEF BenchSpec
====
