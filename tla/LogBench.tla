---- MODULE LogBench ----
(***************************************************************************)
(* The benchmark of the two dirty logs (P2/src/logtester.cc): main prepares   *)
(* logs and pending files of known sizes and times one operation at a time.   *)
(* The program is a sequence of instructions, one definition for each section *)
(* of main, run once per iteration on the files in /tmp/afs.                  *)
(*                                                                         *)
(* An instruction that is timed has a title: the place of its file in the log, *)
(* as main prints it ("beginning", "middle", "end", "not in log"), and the     *)
(* number of entries, which main prints for the writes ("0", "50", "100") and  *)
(* P2/src/report.pdf (page 5) gives as 100 for the others.                     *)
(***************************************************************************)
EXTENDS Integers, Sequences, FiniteSets

CONSTANTS
    Half,        \* 50: the entries of the middle log
    Iterations,  \* 100
    Numeral      \* Numeral[i]: what to_string(i) returns

Full == 2 * Half

\* Of fewer files the first would be the middle one too.
ASSUME BenchAssumption ==
    /\ Half \in Nat \ {0, 1} /\ Iterations \in Nat \ {0}
    /\ Numeral \in [0 .. Full - 1 -> STRING]
    /\ \A i, j \in 0 .. Full - 1 : Numeral[i] = Numeral[j] => i = j
    /\ \A i \in 0 .. Full - 1 : Numeral[i] # "/"

VARIABLES
    files,       \* the files log, log50 and log100, and the pending files
    at,          \* the next instruction
    iteration

benchVars == <<files, at, iteration>>

Name(i)  == <<"hello.txt", Numeral[i]>>
Slash(p) == <<"/">> \o p
Other(s) == <<s>>
----
(***************************************************************************)
(* The operations, as functions of the files f and a path                  *)
(***************************************************************************)
\* fs_relative_path drops the first character, which should be the slash.
WriteSingleLog(f, p)   == [f EXCEPT !.log = Append(@, Tail(p))]
FlatName(p)            == [i \in DOMAIN p |-> IF p[i] = "/" THEN "%" ELSE p[i]] \o <<".tmp">>
CreatePending(f, p)    == [f EXCEPT !.pending = @ \union {FlatName(p)}]
RemovePending(f, p)    == [f EXCEPT !.pending = @ \ {FlatName(p)}]
CloseEntry(f, p)       == [f EXCEPT !.log = SelectSeq(@, LAMBDA line : line # p)]
InSingleLog(f, p)      == \E i \in DOMAIN f.log : f.log[i] = p
IsFileModified(f, p)   == FlatName(p) \in f.pending
InitSingleLog(f)       == [f EXCEPT !.log = <<>>]

InitMultiLog(f)        == [f EXCEPT !.pending = {}]

\* What the instruction i makes of the files f.
Run(i, f) ==
    CASE i.do = "write"       -> WriteSingleLog(f, i.path)
      [] i.do = "create"      -> CreatePending(f, i.path)
      [] i.do = "close"       -> CloseEntry(f, i.path)
      [] i.do = "rm"          -> RemovePending(f, i.path)
      [] i.do = "init_single" -> InitSingleLog(f)
      [] i.do = "init_multi"  -> InitMultiLog(f)
      [] i.do = "cp_log_log50"  -> [f EXCEPT !.log50 = f.log]
      [] i.do = "cp_log_log100" -> [f EXCEPT !.log100 = f.log]
      [] i.do = "cp_log50_log"  -> [f EXCEPT !.log = f.log50]
      [] i.do = "cp_log100_log" -> [f EXCEPT !.log = f.log100]
      [] OTHER                -> f      \* check and is_modified
----
(***************************************************************************)
(* The sections of main                                                    *)
(***************************************************************************)
Untimed == [size |-> -1, place |-> -1]
Titled(n, k) == [size |-> n, place |-> k]      \* place 0: not in the log

Do(op, p)       == <<[do |-> op, path |-> p, title |-> Untimed]>>
Simply(op)      == Do(op, <<>>)
Time(op, p, t)  == <<[do |-> op, path |-> p, title |-> t]>>
Inits           == Simply("init_single") \o Simply("init_multi")

\* The loop over i from a to b - 1 around one instruction.
Loop(op, prefix, a, b) ==
    [i \in 1 .. b - a |-> [do |-> op, path |-> prefix \o Name(a + i - 1), title |-> Untimed]]

WriteLoop(a, b)  == Loop("write", <<"/">>, a, b)
CreateLoop(a, b) == Loop("create", <<>>, a, b)

SetUp ==
    WriteLoop(0, Half) \o Simply("cp_log_log50")
      \o WriteLoop(Half, Full) \o Simply("cp_log_log100")

\* The loop writes and creates in turn; the log and the pending files do not meet.
TestInit ==
    WriteLoop(0, Full) \o CreateLoop(0, Full)
      \o Time("init_single", <<>>, Titled(Full, -1))
      \o Time("init_multi", <<>>, Titled(Full, -1))

TestWrite0 ==
    Time("write", Slash(Other("write_test_0")), Titled(0, 0))
      \o Time("create", Other("write_test_0"), Titled(0, 0)) \o Inits

TestWrite50 ==
    CreateLoop(0, Half) \o Simply("cp_log50_log")
      \o Time("write", Other("w") \o Other("rite_test_50"), Titled(Half, 0))
      \o Time("create", Slash(Other("write_test_50")), Titled(Half, 0)) \o Inits

TestWrite100 ==
    CreateLoop(0, Full) \o Simply("cp_log100_log")
      \o Time("write", Slash(Other("write_test_100")), Titled(Full, 0))
      \o Time("create", Other("write_test_100"), Titled(Full, 0)) \o Inits

\* Both logs are asked for the same file; each test restores the single log only.
Ask(p, k) == Simply("cp_log100_log") \o Time("check", p, Titled(Full, k))
               \o Time("is_modified", p, Titled(Full, k))

TestCheckBeginning == CreateLoop(0, Full) \o Ask(Name(0), 1)
TestCheckMiddle    == Ask(Name(Half - 1), Half)
TestCheckEnd       == Ask(Name(Full - 1), Full)
TestCheckNotInLog  == Ask(Other("not_in_log.txt"), 0) \o Inits

TestRemoveBeginning ==
    CreateLoop(0, Full) \o Simply("cp_log100_log")
      \o Time("close", Name(0), Titled(Full, 1))
      \o Time("rm", Name(0), Titled(Full, 1))

\* Mutant: the log is not restored after the removal before.
TestRemoveMiddleStale ==
    Time("close", Name(Half - 1), Titled(Full, Half))
      \o Time("rm", Name(Half - 1), Titled(Full, Half))

\* The pending file removed before is not created again.
TestRemoveMiddle ==
    Simply("cp_log100_log") \o Time("close", Name(Half - 1), Titled(Full, Half))
      \o Time("rm", Name(Half - 1), Titled(Full, Half))

TestRemoveEnd ==
    Simply("cp_log100_log") \o Time("close", Name(Full - 1), Titled(Full, Full))
      \o Time("rm", Name(Full - 1), Titled(Full, Full))

\* The two logs are asked for files of different names, neither of them there.
TestRemoveNotInLog ==
    Simply("cp_log100_log") \o Time("close", Other("not_in_lot.txt"), Titled(Full, 0))
      \o Time("rm", Other("not_in_log.txt"), Titled(Full, 0)) \o Inits

Program ==
    SetUp \o TestInit \o TestWrite0 \o TestWrite50 \o TestWrite100
      \o TestCheckBeginning \o TestCheckMiddle \o TestCheckEnd \o TestCheckNotInLog
      \o TestRemoveBeginning \o TestRemoveMiddle \o TestRemoveEnd \o TestRemoveNotInLog
----
BenchInit ==
    /\ files = [log |-> <<>>, log50 |-> <<>>, log100 |-> <<>>, pending |-> {}]
    /\ at = 1
    /\ iteration = 1

Instruction ==
    /\ at <= Len(Program)
    /\ files' = Run(Program[at], files)
    /\ at' = at + 1
    /\ UNCHANGED iteration

NextIteration ==
    /\ at > Len(Program)
    /\ iteration < Iterations
    /\ iteration' = iteration + 1
    /\ at' = 1
    /\ UNCHANGED files

Finished == at > Len(Program) /\ iteration = Iterations /\ UNCHANGED benchVars

BenchNext == Instruction \/ NextIteration \/ Finished

BenchSpec == BenchInit /\ [][BenchNext]_benchVars
----
(***************************************************************************)
(* Properties                                                              *)
(***************************************************************************)
Timed(ops) == at <= Len(Program) /\ Program[at].do \in ops /\ Program[at].title # Untimed

OnMultiLog == {"init_multi", "create", "is_modified", "rm"}

\* In every iteration, whenever an operation is timed, the log has as many entries
\* as its title says and its file is at the titled place, though the tests use the
\* same files one after another and each restores only what it remembers to: for
\* the operations on the single log except its first init, and on the pending
\* files except the size at the removals: those are timed on logs of other sizes.
LogsAsTitled ==
    /\ Timed({"write", "check", "close"}) =>
         LET i == Program[at]
         IN  /\ Len(files.log) = i.title.size
             /\ i.do \in {"check", "close"} =>
                  IF i.title.place = 0 THEN ~InSingleLog(files, i.path)
                  ELSE /\ files.log[i.title.place] = i.path
                       /\ InSingleLog(files, i.path)
    /\ Timed({"init_multi", "create", "is_modified"}) =>
         Cardinality(files.pending) = Program[at].title.size
    /\ Timed(OnMultiLog) =>
         (IsFileModified(files, Program[at].path) <=> Program[at].title.place > 0)
====
