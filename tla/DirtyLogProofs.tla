---- MODULE DirtyLogProofs ----
(***************************************************************************)
(* Proofs about the log of modified files (DirtyLog): a file with a write    *)
(* that no store has read has its entry, and a file that was stored has none,  *)
(* with the exceptions DirtyLog names, in both builds.                         *)
(***************************************************************************)
EXTENDS DirtyLog, SequenceTheorems, FiniteSetTheorems, FunctionTheorems, TLAPS

Log    == inode["log"]
NewLog == inode["newlog"]

\* A step has the path and the files open that it is about to use.
Doings ==
    {Idle} \union [step : {"append"}, path : DirtyNames, from : {0}, to : Inodes]
           \union [step : {"write", "read", "store", "clear"}, path : DirtyNames, from : {0}, to : {0}]
           \union [step : {"copy", "remove", "rename"}, path : DirtyNames, from : Inodes, to : Inodes]

LogTypes ==
    /\ single \in BOOLEAN /\ dangling \in BOOLEAN
    /\ inode \in [{"log", "newlog"} -> {0} \union Inodes]
    /\ lines \in [Inodes -> Seq(DirtyNames)]
    /\ doing \in [Writers -> Doings]
    /\ pending \subseteq DirtyNames /\ disturbed \subseteq DirtyNames

\* The two names are of two files, and no callback appends to newlog.
FilesApart ==
    /\ Log # 0 => Log # NewLog
    /\ \A t \in Writers : doing[t].step = "append" => doing[t].to # NewLog

\* A callback appends to the file the log is, unless a closeEntry ran at the same time.
AppendsToLog ==
    /\ Closers # {} => Appending \subseteq disturbed
    /\ \A t \in Writers : doing[t].step = "append" => doing[t].path \in disturbed \/ doing[t].to = Log

\* No two closeEntrys have overlapped since the client started.
Calm == ~(DirtyNames \subseteq disturbed)

\* A closeEntry that is alone has the files open that the names refer to, until it removes
\* the log.
OneCloser ==
    /\ \A t, u \in Closers : t = u
    /\ \A t \in Closers : doing[t].to = NewLog /\ (doing[t].step # "rename" => doing[t].from = Log)

\* The lines of the file i among the files f, none for no file.
LinesIn(f, i) == IF i = 0 THEN {} ELSE {f[i][k] : k \in 1 .. Len(f[i])}

\* The files that must be in the log are in it, or, once they have been copied, in
\* newlog; the file closed is none of them.
KeepsDirty ==
    /\ Closers = {} => Kept \subseteq LinesIn(lines, Log)
    /\ \A t \in Closers :
         /\ doing[t].step \in {"copy", "remove"} => Kept \subseteq LinesIn(lines, Log)
         /\ doing[t].step = "copy" => doing[t].path \notin Kept
         /\ doing[t].step \in {"remove", "rename"} => Kept \subseteq LinesIn(lines, NewLog)

\* The log, or the newlog that will be the log, has no file that was stored.
DropsStored ==
    /\ Closers = {} => LinesIn(lines, Log) \subseteq Known
    /\ \A t \in Closers :
         /\ doing[t].step = "copy" =>
              LinesIn(lines, Log) \subseteq Known \union {doing[t].path} /\ LinesIn(lines, NewLog) = {}
         /\ doing[t].step \in {"remove", "rename"} => LinesIn(lines, NewLog) \subseteq Known

LogInv ==
    /\ LogTypes
    /\ single => /\ FilesApart
                 /\ AppendsToLog
                 /\ (Calm => OneCloser /\ KeepsDirty)
                 /\ (Calm /\ ~dangling => DropsStored)

\* The other build has the pending files that must be there, and no other than may be.
FlatInv ==
    ~single => /\ \A p \in Kept : ToFlatFile(p) \in flats
               /\ flats \subseteq {ToFlatFile(p) : p \in Known}
               /\ \A t \in Writers : doing[t].step \in {"none", "write", "read", "store", "clear"}

----
(***************************************************************************)
(* Lemmas about files and lines                                            *)
(***************************************************************************)
\* There are as many files as the callbacks and the two names can need, and one more.
LEMMA RoomForAFile ==
  ASSUME LogTypes, 0 \in {Log, NewLog}
  PROVE  /\ NewInode \in Inodes /\ NewInode \notin {Log, NewLog}
         /\ \A t \in Writers : NewInode \notin {doing[t].from, doing[t].to}
<1>. DEFINE W     == Cardinality(Writers)
            froms == {doing[t].from : t \in Writers}
            tos   == {doing[t].to : t \in Writers}
            used  == ({Log} \union {NewLog}) \union (froms \union tos)
<1>1. W \in Nat /\ IsFiniteSet(Writers)
  BY DirtyNamesAssumption, FS_CardinalityType
<1>2. IsFiniteSet(froms) /\ Cardinality(froms) <= W /\ Cardinality(froms) \in Nat
  <2>. DEFINE f == [t \in Writers |-> doing[t].from]
  <2>1. f \in Surjection(Writers, froms)
    BY DEF Surjection
  <2>. QED
    BY <1>1, <2>1, FS_Surjection, FS_CardinalityType
<1>3. IsFiniteSet(tos) /\ Cardinality(tos) <= W /\ Cardinality(tos) \in Nat
  <2>. DEFINE f == [t \in Writers |-> doing[t].to]
  <2>1. f \in Surjection(Writers, tos)
    BY DEF Surjection
  <2>. QED
    BY <1>1, <2>1, FS_Surjection, FS_CardinalityType
<1>. HIDE DEF W, froms, tos
<1>4. IsFiniteSet(froms \union tos) /\ Cardinality(froms \union tos) <= W + W
      /\ Cardinality(froms \union tos) \in Nat
  <2>1. IsFiniteSet(froms \intersect tos)
    BY <1>2, FS_Subset
  <2>2. Cardinality(froms \intersect tos) \in Nat
    BY <2>1, FS_CardinalityType
  <2>3. /\ IsFiniteSet(froms \union tos)
        /\ Cardinality(froms \union tos)
             = Cardinality(froms) + Cardinality(tos) - Cardinality(froms \intersect tos)
    BY <1>2, <1>3, FS_Union
  <2>. QED
    BY <1>1, <1>2, <1>3, <2>2, <2>3, FS_CardinalityType
<1>5. /\ IsFiniteSet({Log} \union {NewLog}) /\ Cardinality({Log} \union {NewLog}) <= 2
      /\ Cardinality({Log} \union {NewLog}) \in Nat
  <2>1. IsFiniteSet({Log}) /\ Cardinality({Log}) = 1
    BY FS_Singleton
  <2>2. /\ IsFiniteSet({Log} \union {NewLog})
        /\ Cardinality({Log} \union {NewLog}) = IF NewLog \in {Log} THEN 1 ELSE 2
    BY <2>1, FS_AddElement
  <2>. QED
    BY <2>2
<1>6. IsFiniteSet(used) /\ Cardinality(used) <= 2 + (W + W) /\ Cardinality(used) \in Nat
  <2>. DEFINE A == {Log} \union {NewLog}
              B == froms \union tos
  <2>. HIDE DEF A, B
  <2>0. /\ IsFiniteSet(A) /\ Cardinality(A) <= 2 /\ Cardinality(A) \in Nat
        /\ IsFiniteSet(B) /\ Cardinality(B) <= W + W /\ Cardinality(B) \in Nat
    BY <1>4, <1>5 DEF A, B
  <2>1. IsFiniteSet(A \intersect B)
    BY <2>0, FS_Subset
  <2>2. Cardinality(A \intersect B) \in Nat
    BY <2>1, FS_CardinalityType
  <2>3. /\ IsFiniteSet(A \union B)
        /\ Cardinality(A \union B) = Cardinality(A) + Cardinality(B) - Cardinality(A \intersect B)
    BY <2>0, FS_Union
  <2>4. Cardinality(A \union B) <= 2 + (W + W) /\ Cardinality(A \union B) \in Nat
    BY <1>1, <2>0, <2>2, <2>3, FS_CardinalityType
  <2>5. used = A \union B
    BY DEF A, B
  <2>. QED
    BY <2>3, <2>4, <2>5
<1>7. 0 \in used
  OBVIOUS
<1>. HIDE DEF used
<1>8. Inodes \ used # {}
  <2>. SUFFICES ASSUME Inodes \subseteq used PROVE FALSE
    OBVIOUS
  <2>1. 0 .. 2 + 2 * W \subseteq used
    BY <1>1, <1>7 DEF Inodes, W
  <2>2. Cardinality(0 .. 2 + 2 * W) = 3 + 2 * W
    <3>1. 2 + 2 * W \in Int /\ ~(0 > 2 + 2 * W)
      BY <1>1
    <3>2. Cardinality(0 .. 2 + 2 * W) = (2 + 2 * W) - 0 + 1
      BY <3>1, FS_Interval
    <3>. QED
      BY <1>1, <3>2
  <2>3. Cardinality(0 .. 2 + 2 * W) <= Cardinality(used)
    BY <1>6, <2>1, FS_Subset
  <2>. QED
    BY <1>1, <1>6, <2>2, <2>3
<1>9. \E i \in Inodes : i \notin {Log, NewLog} /\ \A t \in Writers : i \notin {doing[t].from, doing[t].to}
  BY <1>8 DEF used, froms, tos
<1>. QED
  BY <1>9 DEF NewInode, Log, NewLog

\* OtherLines has every line that is not p, and no other.
LEMMA OtherLinesFacts ==
  ASSUME NEW S, NEW s \in Seq(S), NEW p
  PROVE  /\ OtherLines(s, p) \in Seq(S)
         /\ \A k \in 1 .. Len(s) : s[k] # p =>
              \E n \in 1 .. Len(OtherLines(s, p)) : OtherLines(s, p)[n] = s[k]
         /\ \A n \in 1 .. Len(OtherLines(s, p)) :
              OtherLines(s, p)[n] # p /\ \E k \in 1 .. Len(s) : OtherLines(s, p)[n] = s[k]
<1>. DEFINE others  == {k \in 1 .. Len(s) : s[k] # p}
            upto(k) == {j \in others : j <= k}
            rank    == [k \in others |-> Cardinality(upto(k))]
            c       == Cardinality(others)
            nth(n)  == CHOOSE k \in others : rank[k] = n
<1>1. IsFiniteSet(others) /\ others \subseteq Nat
  BY FS_Interval, FS_Subset
<1>2. c \in Nat
  BY <1>1, FS_CardinalityType
<1>3. \A k \in others : IsFiniteSet(upto(k)) /\ Cardinality(upto(k)) \in 1 .. c
  <2>. SUFFICES ASSUME NEW k \in others PROVE IsFiniteSet(upto(k)) /\ Cardinality(upto(k)) \in 1 .. c
    OBVIOUS
  <2>1. upto(k) \in SUBSET others /\ k \in upto(k)
    BY <1>1
  <2>. HIDE DEF upto, others
  <2>2. IsFiniteSet(upto(k)) /\ Cardinality(upto(k)) <= c
    BY <1>1, <2>1, FS_Subset
  <2>3. Cardinality(upto(k)) \in Nat /\ Cardinality(upto(k)) # 0
    BY <2>1, <2>2, FS_EmptySet, FS_CardinalityType
  <2>. QED
    BY <1>2, <2>2, <2>3
<1>4. \A j, k \in others : j < k => Cardinality(upto(j)) # Cardinality(upto(k))
  <2>. SUFFICES ASSUME NEW j \in others, NEW k \in others, j < k
       PROVE Cardinality(upto(j)) # Cardinality(upto(k))
    OBVIOUS
  <2>1. upto(j) \in SUBSET upto(k) /\ k \in upto(k) /\ k \notin upto(j)
    BY <1>1
  <2>. HIDE DEF upto, others
  <2>. QED
    BY <1>3, <2>1, FS_Subset
<1>5. rank \in Surjection(others, 1 .. c)
  <2>. HIDE DEF upto, others
  <2>1. rank \in [others -> 1 .. c]
    BY <1>3
  <2>2. \A j, k \in others : j # k => rank[j] # rank[k]
    BY <1>1, <1>4
  <2>3. rank \in Injection(others, 1 .. c)
    <3>. HIDE DEF rank, c
    <3>. QED
      BY <2>1, <2>2 DEF Injection, IsInjective
  <2>4. IsFiniteSet(1 .. c) /\ Cardinality(1 .. c) = c
    BY <1>2, FS_Interval
  <2>. QED
    BY <2>3, <2>4, FS_Injection
<1>6. \A n \in 1 .. c : nth(n) \in others /\ rank[nth(n)] = n
  <2>. HIDE DEF rank, others, c
  <2>. QED
    BY <1>5 DEF Surjection
<1>7. \A k \in others : rank[k] \in 1 .. c /\ nth(rank[k]) = k
  <2>. HIDE DEF upto, others, c
  <2>1. \A j, k \in others : j # k => rank[j] # rank[k]
    BY <1>1, <1>4
  <2>2. \A k \in others : rank[k] \in 1 .. c
    BY <1>3
  <2>. HIDE DEF rank
  <2>. QED
    BY <1>6, <2>1, <2>2
<1>8. OtherLines(s, p) = [n \in 1 .. c |-> s[nth(n)]]
  <2>1. ASSUME NEW n \in 1 .. c
        PROVE nth(n) = CHOOSE k \in others : Cardinality({j \in others : j <= k}) = n
    <3>. HIDE DEF others
    <3>. QED
      OBVIOUS
  <2>2. OtherLines(s, p) = [n \in 1 .. c |-> s[CHOOSE k \in others : Cardinality({j \in others : j <= k}) = n]]
    BY Zenon DEF OtherLines
  <2>. HIDE DEF others, c, nth
  <2>. QED
    BY <2>1, <2>2
<1>. HIDE DEF c, rank, nth
<1>9. OtherLines(s, p) \in Seq(S) /\ Len(OtherLines(s, p)) = c
  <2>1. \A n \in 1 .. c : s[nth(n)] \in S
    BY <1>6
  <2>. QED
    BY <1>2, <1>8, <2>1
<1>10. \A n \in 1 .. c : OtherLines(s, p)[n] = s[nth(n)]
  BY <1>8
<1>11. ASSUME NEW k \in 1 .. Len(s), s[k] # p
       PROVE  \E n \in 1 .. Len(OtherLines(s, p)) : OtherLines(s, p)[n] = s[k]
  <2>1. k \in others
    BY <1>11
  <2>. HIDE DEF others
  <2>2. rank[k] \in 1 .. c /\ OtherLines(s, p)[rank[k]] = s[k]
    BY <1>7, <1>10, <2>1
  <2>. QED
    BY <1>9, <2>2
<1>12. ASSUME NEW n \in 1 .. Len(OtherLines(s, p))
       PROVE  OtherLines(s, p)[n] # p /\ \E k \in 1 .. Len(s) : OtherLines(s, p)[n] = s[k]
  <2>1. nth(n) \in others /\ OtherLines(s, p)[n] = s[nth(n)]
    BY <1>6, <1>9, <1>10, <1>12
  <2>. QED
    BY <2>1
<1>. QED
  BY <1>9, <1>11, <1>12

\* What closeEntry leaves in the file it copies to: the other lines, and then what was there.
Copied(from, to, p) ==
    LET kept == OtherLines(from, p) IN kept \o SubSeq(to, Len(kept) + 1, Len(to))

\* It has every line copied, and what it has is one of those or was there.
LEMMA CopiedLines ==
  ASSUME NEW S, NEW from \in Seq(S), NEW to \in Seq(S), NEW p
  PROVE  /\ Copied(from, to, p) \in Seq(S)
         /\ \A k \in 1 .. Len(from) : from[k] # p =>
              \E n \in 1 .. Len(Copied(from, to, p)) : Copied(from, to, p)[n] = from[k]
         /\ \A n \in 1 .. Len(Copied(from, to, p)) :
              \/ Copied(from, to, p)[n] # p /\ \E k \in 1 .. Len(from) : Copied(from, to, p)[n] = from[k]
              \/ \E k \in 1 .. Len(to) : Copied(from, to, p)[n] = to[k]
<1>. DEFINE kept == OtherLines(from, p)
            over == SubSeq(to, Len(kept) + 1, Len(to))
<1>1. /\ kept \in Seq(S) /\ Len(kept) \in Nat
      /\ \A k \in 1 .. Len(from) : from[k] # p => \E n \in 1 .. Len(kept) : kept[n] = from[k]
      /\ \A n \in 1 .. Len(kept) : kept[n] # p /\ \E k \in 1 .. Len(from) : kept[n] = from[k]
  <2>1. kept \in Seq(S)
    BY OtherLinesFacts, Zenon
  <2>2. \A k \in 1 .. Len(from) : from[k] # p => \E n \in 1 .. Len(kept) : kept[n] = from[k]
    BY OtherLinesFacts
  <2>3. \A n \in 1 .. Len(kept) : kept[n] # p /\ \E k \in 1 .. Len(from) : kept[n] = from[k]
    BY OtherLinesFacts
  <2>. HIDE DEF kept
  <2>. QED
    BY <2>1, <2>2, <2>3
<1>. HIDE DEF kept
<1>2. /\ over \in Seq(S) /\ Len(over) \in Nat
      /\ \A n \in 1 .. Len(over) : \E k \in 1 .. Len(to) : over[n] = to[k]
  <2>. DEFINE a == Len(kept) + 1
              b == Len(to)
  <2>1. a \in Nat \ {0} /\ b \in Nat /\ \A i \in a .. b : i \in 1 .. Len(to) /\ to[i] \in S
    BY <1>1
  <2>. HIDE DEF a, b
  <2>2. /\ SubSeq(to, a, b) \in Seq(S)
        /\ Len(SubSeq(to, a, b)) = IF a <= b THEN b - a + 1 ELSE 0
        /\ \A i \in 1 .. b - a + 1 : SubSeq(to, a, b)[i] = to[a + i - 1]
    BY <2>1, SubSeqProperties
  <2>3. \A i \in 1 .. Len(SubSeq(to, a, b)) : i \in 1 .. b - a + 1 /\ a + i - 1 \in a .. b
    BY <2>1, <2>2
  <2>4. over = SubSeq(to, a, b)
    BY DEF a, b
  <2>. QED
    BY <2>1, <2>2, <2>3, <2>4
<1>. HIDE DEF over
<1>. DEFINE r == kept \o over
<1>3. /\ r \in Seq(S) /\ Len(r) = Len(kept) + Len(over)
      /\ \A i \in 1 .. Len(kept) + Len(over) : r[i] = IF i <= Len(kept) THEN kept[i] ELSE over[i - Len(kept)]
  BY <1>1, <1>2, ConcatProperties
<1>. HIDE DEF r
<1>4. \A k \in 1 .. Len(from) : from[k] # p => \E n \in 1 .. Len(r) : r[n] = from[k]
  <2>1. \A n \in 1 .. Len(kept) : n \in 1 .. Len(r) /\ r[n] = kept[n]
    BY <1>1, <1>2, <1>3
  <2>. QED
    BY <1>1, <2>1
<1>5. \A n \in 1 .. Len(r) : (n \in 1 .. Len(kept) /\ r[n] = kept[n])
                             \/ (n - Len(kept) \in 1 .. Len(over) /\ r[n] = over[n - Len(kept)])
  BY <1>1, <1>2, <1>3
<1>6. \A n \in 1 .. Len(r) : \/ r[n] # p /\ \E k \in 1 .. Len(from) : r[n] = from[k]
                             \/ \E k \in 1 .. Len(to) : r[n] = to[k]
  <2>. SUFFICES ASSUME NEW n \in 1 .. Len(r)
       PROVE \/ r[n] # p /\ \E k \in 1 .. Len(from) : r[n] = from[k]
             \/ \E k \in 1 .. Len(to) : r[n] = to[k]
    OBVIOUS
  <2>1. CASE n \in 1 .. Len(kept) /\ r[n] = kept[n]
    BY <1>1, <2>1
  <2>2. CASE n - Len(kept) \in 1 .. Len(over) /\ r[n] = over[n - Len(kept)]
    BY <1>2, <2>2
  <2>. QED
    BY <1>5, <2>1, <2>2
<1>7. Copied(from, to, p) = r
  BY DEF Copied, r, kept, over
<1>. QED
  BY <1>3, <1>4, <1>6, <1>7

----
(***************************************************************************)
(* The files callbacks are about                                           *)
(***************************************************************************)
\* When one callback goes on, only its own path joins or leaves those at a step.
LEMMA PathsAfter ==
  ASSUME LogTypes, NEW t \in Writers, NEW r, doing' = [doing EXCEPT ![t] = r], NEW s
  PROVE  /\ PathsAt(s)' \subseteq PathsAt(s) \union {r.path}
         /\ PathsAt(s) \subseteq PathsAt(s)' \union {doing[t].path}
         /\ r.step # s => PathsAt(s)' \subseteq PathsAt(s)
         /\ doing[t].step # s => PathsAt(s) \subseteq PathsAt(s)'
         /\ r.step = s => r.path \in PathsAt(s)'
<1>1. \A u \in Writers : doing'[u] = IF u = t THEN r ELSE doing[u]
  BY DEF LogTypes
<1>. QED
  BY <1>1 DEF PathsAt

----
(***************************************************************************)
(* The log                                                                 *)
(***************************************************************************)
\* What a step has at hand.
LEMMA DoingFacts ==
  ASSUME LogTypes, NEW t \in Writers
  PROVE  /\ doing[t] \in Doings
         /\ doing[t].step \in {"none", "write", "append", "read", "store", "clear", "copy", "remove", "rename"}
         /\ doing[t].step = "append" => doing[t].path \in DirtyNames /\ doing[t].to \in Inodes
         /\ doing[t].step \in {"write", "read", "store", "clear"} =>
              doing[t] \in [step : {"write", "read", "store", "clear"}, path : DirtyNames, from : {0}, to : {0}]
         /\ doing[t].step \in {"copy", "remove", "rename"} =>
              /\ doing[t].path \in DirtyNames
              /\ doing[t].from \in Inodes /\ doing[t].to \in Inodes
<1>1. doing[t] \in Doings
  BY DEF LogTypes
<1>. QED
  BY <1>1 DEF Doings, Idle

\* A file that is truncated has none, and a file that stays has its own.
LEMMA LinesInTruncated ==
  ASSUME NEW f, NEW g, NEW i \in {0} \union Inodes
  PROVE  /\ i \in Inodes /\ g[i] = <<>> => LinesIn(g, i) = {}
         /\ i = 0 \/ g[i] = f[i] => LinesIn(g, i) = LinesIn(f, i)
<1>1. 0 \notin Inodes
  BY DEF Inodes
<1>2. ASSUME NEW e, e = <<>> PROVE {e[k] : k \in 1 .. Len(e)} = {}
  BY <1>2
<1>3. i \in Inodes /\ g[i] = <<>> => LinesIn(g, i) = {}
  BY <1>1, <1>2 DEF LinesIn
<1>4. i = 0 \/ g[i] = f[i] => LinesIn(g, i) = LinesIn(f, i)
  BY Zenon DEF LinesIn
<1>. QED
  BY <1>3, <1>4

\* Lines are of paths.
LEMMA LinesArePaths ==
  ASSUME LogTypes, NEW i \in {0} \union Inodes
  PROVE  LinesIn(lines, i) \subseteq DirtyNames
<1>1. i # 0 => lines[i] \in Seq(DirtyNames)
  BY DEF LogTypes
<1>2. i # 0 => \A k \in 1 .. Len(lines[i]) : lines[i][k] \in DirtyNames
  BY <1>1
<1>. QED
  BY <1>2 DEF LinesIn

\* The log is opened to append: a new one is empty.
LEMMA AppendOpenStep ==
  ASSUME LogInv, NEW t \in Writers, AppendOpen(t)
  PROVE  LogInv'
<1>. DEFINE p == doing[t].path
            i == IF Log = 0 THEN NewInode ELSE Log
            r == [doing[t] EXCEPT !.step = "append", !.to = i]
<1>0. LogTypes /\ single /\ FilesApart /\ AppendsToLog
  BY DEF AppendOpen, LogInv
<1>1. /\ doing[t].step = "write" /\ doing' = [doing EXCEPT ![t] = r]
      /\ inode' = [inode EXCEPT !["log"] = i]
      /\ lines' = IF Log = 0 THEN [lines EXCEPT ![i] = <<>>] ELSE lines
      /\ disturbed' = disturbed \union (IF Closers = {} THEN {} ELSE {p})
      /\ UNCHANGED <<single, dangling, pending>>
  BY DEF AppendOpen, build, Log
<1>2. i \in Inodes /\ i # NewLog
  <2>1. CASE Log = 0
    BY <1>0, <2>1, RoomForAFile
  <2>2. CASE Log # 0
    BY <1>0, <2>2 DEF LogTypes, Log, FilesApart
  <2>. QED
    BY <2>1, <2>2
<1>3. r.step = "append" /\ r.path = p /\ r.to = i /\ r \in Doings /\ p \in DirtyNames
  <2>1. doing[t] \in [step : {"write", "read", "store", "clear"}, path : DirtyNames, from : {0}, to : {0}]
    BY <1>0, <1>1, DoingFacts
  <2>2. r \in [step : {"append"}, path : DirtyNames, from : {0}, to : Inodes]
    BY <1>2, <2>1
  <2>3. r.step = "append" /\ r.path = p /\ r.to = i
    BY <2>1
  <2>. QED
    BY <2>1, <2>2, <2>3 DEF Doings
<1>. HIDE DEF i, p, r
<1>4. /\ Log' = i /\ NewLog' = NewLog
      /\ Log \in {0} \union Inodes /\ NewLog \in {0} \union Inodes /\ 0 \notin Inodes
  BY <1>0, <1>1 DEF LogTypes, Log, NewLog, Inodes
<1>5. Log # 0 => i = Log /\ lines' = lines
  BY <1>1 DEF i
<1>6. /\ lines' \in [Inodes -> Seq(DirtyNames)]
      /\ Log = 0 => LinesIn(lines', i) = {}
      /\ LinesIn(lines', NewLog) = LinesIn(lines, NewLog)
  <2>1. CASE Log # 0
    BY <1>0, <1>5, <2>1 DEF LogTypes
  <2>2. CASE Log = 0
    <3>1. lines' = [lines EXCEPT ![i] = <<>>] /\ lines \in [Inodes -> Seq(DirtyNames)]
      BY <1>0, <1>1, <2>2 DEF LogTypes
    <3>2. \A j \in {0} \union Inodes : LinesIn(lines', j) = IF j = i THEN {} ELSE LinesIn(lines, j)
      <4>1. \A j \in Inodes : lines'[j] = IF j = i THEN <<>> ELSE lines[j]
        BY <3>1
      <4>. QED
        <5>. SUFFICES ASSUME NEW j \in {0} \union Inodes
                PROVE LinesIn(lines', j) = IF j = i THEN {} ELSE LinesIn(lines, j)
          OBVIOUS
        <5>1. IF j = i THEN j \in Inodes /\ lines'[j] = <<>> ELSE j = 0 \/ lines'[j] = lines[j]
          BY <1>2, <4>1
        <5>. QED
          BY <5>1, LinesInTruncated
    <3>3. lines' \in [Inodes -> Seq(DirtyNames)]
      BY <1>2, <3>1
    <3>. QED
      BY <1>2, <1>4, <3>2, <3>3
  <2>. QED
    BY <2>1, <2>2
<1>7. \A u \in Writers : doing'[u] = IF u = t THEN r ELSE doing[u]
  BY <1>0, <1>1 DEF LogTypes
<1>8. LogTypes'
  BY <1>0, <1>1, <1>2, <1>3, <1>6 DEF LogTypes
<1>9. Closers' = Closers /\ t \notin Closers
  BY <1>1, <1>3, <1>7 DEF Closers
<1>10. FilesApart'
  BY <1>0, <1>2, <1>3, <1>4, <1>7 DEF FilesApart
<1>11. AppendsToLog'
  <2>1. Appending' \subseteq Appending \union {p}
    BY <1>3, <1>7 DEF Appending, PathsAt
  <2>2. Closers' # {} => Appending' \subseteq disturbed'
    BY <1>0, <1>1, <1>9, <2>1 DEF AppendsToLog
  <2>3. ASSUME NEW u \in Writers, doing'[u].step = "append"
        PROVE  doing'[u].path \in disturbed' \/ doing'[u].to = Log'
    <3>1. CASE u = t
      BY <1>3, <1>4, <1>7, <3>1
    <3>2. CASE u # t
      <4>1. doing'[u] = doing[u] /\ doing[u].to \in Inodes
        BY <1>0, <1>7, <2>3, <3>2, DoingFacts
      <4>2. doing[u].path \in disturbed \/ doing[u].to = Log
        BY <1>0, <2>3, <4>1 DEF AppendsToLog
      <4>. QED
        BY <1>1, <1>4, <1>5, <4>1, <4>2
    <3>. QED
      BY <3>1, <3>2
  <2>. QED
    BY <2>2, <2>3 DEF AppendsToLog
<1>12. ASSUME NEW u \in Closers
       PROVE  /\ u \in Writers /\ doing'[u] = doing[u] /\ doing[u].from # 0
              /\ doing[u].step \in {"copy", "remove", "rename"}
  <2>1. u \in Writers /\ doing[u].step \in {"copy", "remove", "rename"}
    BY DEF Closers
  <2>2. doing[u].from \in Inodes
    BY <1>0, <2>1, DoingFacts
  <2>. QED
    BY <1>4, <1>7, <1>9, <2>1, <2>2
<1>13. Calm' => Calm
  BY <1>1 DEF Calm
<1>14. ASSUME OneCloser PROVE OneCloser'
  BY <1>4, <1>5, <1>9, <1>12, <1>14 DEF OneCloser
<1>15. ASSUME OneCloser, KeepsDirty PROVE KeepsDirty'
  <2>1. Kept' \subseteq Kept
    <3>1. /\ Appending \subseteq Appending' /\ p \in Appending'
          /\ Writing \subseteq Writing' \union {p}
      BY <1>0, <1>1, <1>3, PathsAfter DEF Appending, Writing, p
    <3>. QED
      BY <1>1, <3>1 DEF Kept
  <2>2. CASE Log = 0
    <3>1. LinesIn(lines, Log) = {}
      BY <2>2 DEF LinesIn
    <3>2. \A u \in Closers : doing[u].step = "rename"
      BY <1>12, <1>15, <2>2 DEF OneCloser
    <3>. QED
      BY <1>4, <1>6, <1>9, <1>12, <1>15, <2>1, <3>1, <3>2 DEF KeepsDirty
  <2>3. CASE Log # 0
    <3>1. Log' = Log /\ lines' = lines
      BY <1>4, <1>5, <2>3
    <3>. QED
      BY <1>4, <1>9, <1>12, <1>15, <2>1, <3>1 DEF KeepsDirty
  <2>. QED
    BY <2>2, <2>3
<1>16. ASSUME OneCloser, DropsStored PROVE DropsStored'
  <2>1. Known \subseteq Known'
    <3>1. Clearing \subseteq Clearing'
      BY <1>0, <1>1, PathsAfter DEF Clearing
    <3>. QED
      BY <1>1, <3>1 DEF Known
  <2>2. CASE Log = 0
    <3>2. \A u \in Closers : doing[u].step = "rename"
      BY <1>12, <1>16, <2>2 DEF OneCloser
    <3>. QED
      BY <1>4, <1>6, <1>9, <1>12, <1>16, <2>1, <2>2, <3>2 DEF DropsStored
  <2>3. CASE Log # 0
    <3>1. Log' = Log /\ lines' = lines
      BY <1>4, <1>5, <2>3
    <3>. QED
      BY <1>4, <1>9, <1>12, <1>16, <2>1, <3>1 DEF DropsStored
  <2>. QED
    BY <2>2, <2>3
<1>. QED
  BY <1>0, <1>1, <1>8, <1>10, <1>11, <1>13, <1>14, <1>15, <1>16 DEF LogInv

\* A closeEntry has both files open.
LEMMA CloserFacts ==
  ASSUME LogTypes, NEW t \in Closers
  PROVE  /\ t \in Writers /\ doing[t].step \in {"copy", "remove", "rename"}
         /\ doing[t].path \in DirtyNames /\ doing[t].from \in Inodes /\ doing[t].to \in Inodes
<1>1. t \in Writers /\ doing[t].step \in {"copy", "remove", "rename"}
  BY DEF Closers
<1>. QED
  BY <1>1, DoingFacts

\* A line is written: unless a closeEntry runs, to the file that is the log.
LEMMA AppendWriteStep ==
  ASSUME LogInv, single, NEW t \in Writers, AppendWrite(t)
  PROVE  LogInv'
<1>. DEFINE p == doing[t].path
            i == doing[t].to
<1>0. LogTypes /\ FilesApart /\ AppendsToLog
  BY DEF LogInv
<1>1. /\ doing[t].step = "append" /\ doing' = [doing EXCEPT ![t] = Idle]
      /\ lines' = [lines EXCEPT ![i] = Append(lines[i], p)]
      /\ disturbed' = disturbed \union ({p} \ pending)
      /\ UNCHANGED <<single, dangling, inode, pending>>
  BY DEF AppendWrite, build
<1>2. /\ p \in DirtyNames /\ i \in Inodes /\ i # NewLog
      /\ Log' = Log /\ NewLog' = NewLog
      /\ Log \in {0} \union Inodes /\ NewLog \in {0} \union Inodes
      /\ lines \in [Inodes -> Seq(DirtyNames)]
  BY <1>0, <1>1, DoingFacts DEF FilesApart, Log, NewLog, LogTypes
<1>3. (Closers # {} => p \in disturbed) /\ (p \in disturbed \/ i = Log)
  BY <1>0, <1>1 DEF AppendsToLog, Appending, PathsAt
<1>3a. /\ Appending' \subseteq Appending /\ Appending \subseteq Appending' \union {p}
       /\ Writing \subseteq Writing' /\ Clearing \subseteq Clearing'
  <2>1. Idle.step = "none"
    BY DEF Idle
  <2>. QED
    BY <1>0, <1>1, <2>1, PathsAfter DEF Appending, Writing, Clearing
<1>. HIDE DEF p, i
<1>4. /\ lines' \in [Inodes -> Seq(DirtyNames)]
      /\ \A j \in {0} \union Inodes :
           LinesIn(lines', j) = IF j = i THEN LinesIn(lines, j) \union {p} ELSE LinesIn(lines, j)
  <2>. DEFINE s == Append(lines[i], p)
  <2>1. lines[i] \in Seq(DirtyNames)
    BY <1>2
  <2>2. s \in Seq(DirtyNames) /\ {s[k] : k \in 1 .. Len(s)} = {lines[i][k] : k \in 1 .. Len(lines[i])} \union {p}
    <3>1. /\ s \in Seq(DirtyNames) /\ Len(s) = Len(lines[i]) + 1 /\ Len(lines[i]) \in Nat
          /\ \A k \in 1 .. Len(lines[i]) : s[k] = lines[i][k]
          /\ s[Len(lines[i]) + 1] = p
      BY <1>2, <2>1
    <3>. HIDE DEF s
    <3>2. \A k \in 1 .. Len(s) : k \in 1 .. Len(lines[i]) \/ k = Len(lines[i]) + 1
      BY <3>1
    <3>3. Len(lines[i]) + 1 \in 1 .. Len(s) /\ \A k \in 1 .. Len(lines[i]) : k \in 1 .. Len(s)
      BY <3>1
    <3>. QED
      BY <3>1, <3>2, <3>3
  <2>. HIDE DEF s
  <2>3. lines' = [lines EXCEPT ![i] = s]
    BY <1>1 DEF s, i, p
  <2>4. \A j \in Inodes : lines'[j] = IF j = i THEN s ELSE lines[j]
    BY <1>2, <2>3
  <2>5. \A j \in {0} \union Inodes :
          LinesIn(lines', j) = IF j = i THEN {s[k] : k \in 1 .. Len(s)} ELSE LinesIn(lines, j)
    <3>. SUFFICES ASSUME NEW j \in {0} \union Inodes
         PROVE LinesIn(lines', j) = IF j = i THEN {s[k] : k \in 1 .. Len(s)} ELSE LinesIn(lines, j)
      OBVIOUS
    <3>1. CASE j \in Inodes
      <4>1. j # 0 /\ lines'[j] = IF j = i THEN s ELSE lines[j]
        BY <2>4, <3>1 DEF Inodes
      <4>. QED
        BY <4>1 DEF LinesIn
    <3>2. CASE j = 0 /\ j \notin Inodes
      BY <1>2, <3>2 DEF LinesIn
    <3>. QED
      BY <3>1, <3>2
  <2>6. LinesIn(lines, i) = {lines[i][k] : k \in 1 .. Len(lines[i])}
    BY <1>2 DEF LinesIn, Inodes
  <2>. QED
    BY <1>2, <2>2, <2>3, <2>5, <2>6
<1>5. \A u \in Writers : doing'[u] = IF u = t THEN Idle ELSE doing[u]
  BY <1>0, <1>1 DEF LogTypes
<1>6. LogTypes'
  <2>1. Idle \in Doings
    BY DEF Doings
  <2>. QED
    BY <1>0, <1>1, <1>2, <1>4, <2>1 DEF LogTypes
<1>7. Closers' = Closers /\ t \notin Closers
  BY <1>1, <1>5 DEF Closers, Idle
<1>8. \A u \in Closers : u \in Writers /\ doing'[u] = doing[u] /\ doing[u].step \in {"copy", "remove", "rename"}
  BY <1>5, <1>7 DEF Closers
<1>9. FilesApart'
  BY <1>0, <1>2, <1>5 DEF FilesApart, Idle
<1>10. AppendsToLog'
  <2>1. Appending' \subseteq Appending
    BY <1>5 DEF Appending, PathsAt, Idle
  <2>. QED
    BY <1>0, <1>1, <1>2, <1>5, <1>7, <2>1 DEF AppendsToLog, Idle
<1>11. Calm' => Calm
  BY <1>1 DEF Calm
<1>12. ASSUME OneCloser PROVE OneCloser'
  BY <1>2, <1>7, <1>8, <1>12 DEF OneCloser
<1>13. ASSUME KeepsDirty PROVE KeepsDirty'
  <2>1. Kept' \subseteq Kept \union ({p} \ disturbed)
    BY <1>1, <1>3a DEF Kept
  <2>2. CASE Closers = {}
    BY <1>2, <1>3, <1>4, <1>7, <1>13, <2>1, <2>2 DEF KeepsDirty
  <2>3. CASE Closers # {}
    <3>1. Kept' \subseteq Kept
      BY <1>3, <2>1, <2>3
    <3>. QED
      BY <1>2, <1>4, <1>7, <1>8, <1>13, <2>3, <3>1 DEF KeepsDirty
  <2>. QED
    BY <2>2, <2>3
<1>14. ASSUME DropsStored PROVE DropsStored'
  <2>1. Known \union {p} \subseteq Known'
    BY <1>1, <1>3a DEF Known
  <2>2. LinesIn(lines', Log) \subseteq LinesIn(lines, Log) \union {p}
    BY <1>2, <1>4
  <2>3. LinesIn(lines', NewLog) = LinesIn(lines, NewLog)
    BY <1>2, <1>4
  <2>. QED
    BY <1>2, <1>7, <1>8, <1>14, <2>1, <2>2, <2>3 DEF DropsStored
<1>. QED
  BY <1>0, <1>1, <1>6, <1>9, <1>10, <1>11, <1>12, <1>13, <1>14 DEF LogInv

\* A closeEntry begins: if there is a log, with both files open and newlog empty.
LEMMA CloseOpenStep ==
  ASSUME LogInv, NEW t \in Writers, CloseOpen(t)
  PROVE  LogInv'
<1>. DEFINE p == doing[t].path
            n == IF NewLog = 0 THEN NewInode ELSE NewLog
            r == IF Log = 0 THEN Idle ELSE [doing[t] EXCEPT !.step = "copy", !.from = Log, !.to = n]
<1>0. LogTypes /\ single /\ FilesApart /\ AppendsToLog
  BY DEF CloseOpen, LogInv
<1>1. /\ doing[t].step = "clear" /\ doing' = [doing EXCEPT ![t] = r]
      /\ inode' = [inode EXCEPT !["newlog"] = n]
      /\ lines' = [lines EXCEPT ![n] = <<>>]
      /\ disturbed' = disturbed \union Appending \union (IF Closers = {} THEN {} ELSE DirtyNames)
                      \union (({p} \intersect pending) \ Writing)
      /\ UNCHANGED <<single, dangling, pending>>
  BY DEF CloseOpen, build, Log, NewLog
<1>2. /\ p \in DirtyNames /\ doing[t] \in Doings
      /\ Log \in {0} \union Inodes /\ NewLog \in {0} \union Inodes /\ 0 \notin Inodes
      /\ lines \in [Inodes -> Seq(DirtyNames)]
  BY <1>0, <1>1, DoingFacts DEF Log, NewLog, LogTypes, Inodes
<1>3. n \in Inodes /\ n # Log /\ \A u \in Writers : doing[u].step = "append" => doing[u].to # n
  <2>1. CASE NewLog = 0
    BY <1>0, <2>1, RoomForAFile
  <2>2. CASE NewLog # 0
    BY <1>0, <1>2, <2>2 DEF FilesApart
  <2>. QED
    BY <2>1, <2>2
<1>4. /\ r \in Doings /\ r.step # "append"
      /\ Log = 0 => r.step = "none"
      /\ Log # 0 => r.step = "copy" /\ r.path = p /\ r.from = Log /\ r.to = n
  <2>1. CASE Log = 0
    BY <2>1 DEF Doings, Idle
  <2>2. CASE Log # 0
    <3>1. doing[t] \in [step : {"write", "read", "store", "clear"}, path : DirtyNames, from : {0}, to : {0}]
      BY <1>0, <1>1, DoingFacts
    <3>2. r = [doing[t] EXCEPT !.step = "copy", !.from = Log, !.to = n]
      BY <2>2
    <3>3. r \in [step : {"copy", "remove", "rename"}, path : DirtyNames, from : Inodes, to : Inodes]
      BY <1>2, <1>3, <2>2, <3>1, <3>2
    <3>4. r.step = "copy" /\ r.path = p /\ r.from = Log /\ r.to = n
      BY <3>1, <3>2
    <3>. QED
      BY <2>2, <3>3, <3>4 DEF Doings
  <2>. QED
    BY <2>1, <2>2
<1>4a. /\ Writing \subseteq Writing' /\ Appending \subseteq Appending'
       /\ Clearing \subseteq Clearing' \union {p}
  BY <1>0, <1>1, PathsAfter DEF Writing, Appending, Clearing
<1>. HIDE DEF p, n, r
<1>5. Log' = Log /\ NewLog' = n
  BY <1>0, <1>1 DEF Log, NewLog, LogTypes
<1>6. /\ lines' \in [Inodes -> Seq(DirtyNames)]
      /\ \A j \in {0} \union Inodes : LinesIn(lines', j) = IF j = n THEN {} ELSE LinesIn(lines, j)
  <2>1. \A j \in Inodes : lines'[j] = IF j = n THEN <<>> ELSE lines[j]
    BY <1>1, <1>2
  <2>2. lines' \in [Inodes -> Seq(DirtyNames)]
    <3>1. <<>> \in Seq(DirtyNames)
      OBVIOUS
    <3>. QED
      BY <1>1, <1>2, <1>3, <3>1
  <2>3. \A j \in {0} \union Inodes : LinesIn(lines', j) = IF j = n THEN {} ELSE LinesIn(lines, j)
    <3>. SUFFICES ASSUME NEW j \in {0} \union Inodes
                PROVE LinesIn(lines', j) = IF j = n THEN {} ELSE LinesIn(lines, j)
      OBVIOUS
    <3>1. IF j = n THEN j \in Inodes /\ lines'[j] = <<>> ELSE j = 0 \/ lines'[j] = lines[j]
      BY <1>3, <2>1
    <3>. QED
      BY <3>1, LinesInTruncated
  <2>. QED
    BY <2>2, <2>3
<1>7. \A u \in Writers : doing'[u] = IF u = t THEN r ELSE doing[u]
  BY <1>0, <1>1 DEF LogTypes
<1>8. Appending \subseteq DirtyNames
  BY <1>0, DoingFacts DEF Appending, PathsAt
<1>9. LogTypes'
  <2>1. inode' \in [{"log", "newlog"} -> {0} \union Inodes]
    BY <1>0, <1>1, <1>3 DEF LogTypes
  <2>2. doing' \in [Writers -> Doings]
    BY <1>0, <1>1, <1>4 DEF LogTypes
  <2>3. disturbed' \subseteq DirtyNames /\ pending' \subseteq DirtyNames
    BY <1>0, <1>1, <1>8 DEF LogTypes
  <2>. QED
    BY <1>0, <1>1, <1>6, <2>1, <2>2, <2>3 DEF LogTypes
<1>10. Appending' \subseteq Appending
  BY <1>4, <1>7 DEF Appending, PathsAt
<1>11. FilesApart'
  BY <1>3, <1>4, <1>5, <1>7 DEF FilesApart
<1>12. AppendsToLog'
  BY <1>0, <1>1, <1>4, <1>5, <1>7, <1>10 DEF AppendsToLog
<1>13. ASSUME Calm' PROVE Calm /\ Closers = {}
  BY <1>13, <1>1 DEF Calm
<1>14. ASSUME Closers = {} PROVE \A u \in Closers' : u = t /\ Log # 0
  <2>1. \A u \in Writers : doing[u].step \notin {"copy", "remove", "rename"}
    BY <1>14 DEF Closers
  <2>. QED
    BY <1>4, <1>7, <2>1 DEF Closers
<1>15. ASSUME Closers = {} PROVE OneCloser'
  BY <1>4, <1>5, <1>7, <1>14, <1>15 DEF OneCloser
<1>16. ASSUME Closers = {}, KeepsDirty PROVE KeepsDirty'
  <2>1. Kept' \subseteq Kept \ {p}
    BY <1>1, <1>4a DEF Kept
  <2>2. LinesIn(lines', Log) = LinesIn(lines, Log)
    BY <1>2, <1>3, <1>6
  <2>3. Kept \subseteq LinesIn(lines, Log)
    BY <1>16 DEF KeepsDirty
  <2>. QED
    BY <1>4, <1>5, <1>7, <1>14, <1>16, <2>1, <2>2, <2>3 DEF KeepsDirty
<1>17. ASSUME Closers = {}, DropsStored PROVE DropsStored'
  <2>1. Known \subseteq Known' \union {p}
    BY <1>1, <1>4a DEF Known
  <2>2. LinesIn(lines', Log) = LinesIn(lines, Log) /\ LinesIn(lines', n) = {}
    BY <1>2, <1>3, <1>6
  <2>3. LinesIn(lines, Log) \subseteq Known
    BY <1>17 DEF DropsStored
  <2>4. Closers' = {} => Log = 0
    <3>1. Log # 0 => t \in Closers'
      BY <1>4, <1>7 DEF Closers
    <3>. QED
      BY <3>1
  <2>5. Log = 0 => LinesIn(lines, Log) = {}
    BY DEF LinesIn
  <2>. QED
    BY <1>4, <1>5, <1>7, <1>14, <1>17, <2>1, <2>2, <2>3, <2>4, <2>5 DEF DropsStored
<1>. QED
  BY <1>0, <1>1, <1>9, <1>11, <1>12, <1>13, <1>15, <1>16, <1>17 DEF LogInv

\* The lines of other files are copied: newlog, which nobody else writes, has them and no more.
LEMMA CloseCopyStep ==
  ASSUME LogInv, single, NEW t \in Writers, CloseCopy(t)
  PROVE  LogInv'
<1>. DEFINE p    == doing[t].path
            i    == doing[t].from
            n    == doing[t].to
            s    == Copied(lines[i], lines[n], p)
            r    == [doing[t] EXCEPT !.step = "remove"]
<1>0. LogTypes /\ FilesApart /\ AppendsToLog
  BY DEF LogInv
<1>1. /\ doing[t].step = "copy" /\ doing' = [doing EXCEPT ![t] = r]
      /\ lines' = [lines EXCEPT ![n] = s]
      /\ UNCHANGED <<single, dangling, inode, pending, disturbed>>
  BY DEF CloseCopy, Copied, build
<1>2. /\ p \in DirtyNames /\ i \in Inodes /\ n \in Inodes /\ doing[t] \in Doings /\ t \in Closers
      /\ lines[i] \in Seq(DirtyNames) /\ lines[n] \in Seq(DirtyNames)
  BY <1>0, <1>1, DoingFacts DEF LogTypes, Closers
<1>3. /\ s \in Seq(DirtyNames)
      /\ \A k \in 1 .. Len(lines[i]) : lines[i][k] # p => \E m \in 1 .. Len(s) : s[m] = lines[i][k]
      /\ \A m \in 1 .. Len(s) :
           \/ s[m] # p /\ \E k \in 1 .. Len(lines[i]) : s[m] = lines[i][k]
           \/ \E k \in 1 .. Len(lines[n]) : s[m] = lines[n][k]
  <2>. DEFINE from == lines[i]
              to   == lines[n]
  <2>1. from \in Seq(DirtyNames) /\ to \in Seq(DirtyNames)
    BY <1>2
  <2>. HIDE DEF from, to, p
  <2>2. Copied(from, to, p) \in Seq(DirtyNames)
    BY <2>1, CopiedLines
  <2>3. \A k \in 1 .. Len(from) : from[k] # p =>
          \E m \in 1 .. Len(Copied(from, to, p)) : Copied(from, to, p)[m] = from[k]
    BY <2>1, CopiedLines
  <2>4. \A m \in 1 .. Len(Copied(from, to, p)) :
          \/ Copied(from, to, p)[m] # p /\ \E k \in 1 .. Len(from) : Copied(from, to, p)[m] = from[k]
          \/ \E k \in 1 .. Len(to) : Copied(from, to, p)[m] = to[k]
    BY <2>1, CopiedLines
  <2>. QED
    BY <2>2, <2>3, <2>4 DEF from, to
<1>4. r \in Doings /\ r.step = "remove" /\ r.path = p /\ r.from = i /\ r.to = n
  <2>1. doing[t] \in [step : {"copy", "remove", "rename"}, path : DirtyNames, from : Inodes, to : Inodes]
    BY <1>1, <1>2 DEF Doings, Idle
  <2>2. r \in [step : {"copy", "remove", "rename"}, path : DirtyNames, from : Inodes, to : Inodes]
    BY <2>1
  <2>3. r.step = "remove" /\ r.path = p /\ r.from = i /\ r.to = n
    BY <2>1
  <2>. QED
    BY <2>2, <2>3 DEF Doings
<1>4a. Kept' = Kept /\ Known' = Known
  BY <1>0, <1>1, <1>4, PathsAfter DEF Kept, Known, Writing, Appending, Clearing
<1>. HIDE DEF s, r
<1>5. Log' = Log /\ NewLog' = NewLog /\ \A u \in Writers : doing'[u] = IF u = t THEN r ELSE doing[u]
  BY <1>0, <1>1 DEF LogTypes, Log, NewLog
<1>6. lines' \in [Inodes -> Seq(DirtyNames)] /\ \A j \in Inodes : lines'[j] = IF j = n THEN s ELSE lines[j]
  BY <1>0, <1>1, <1>2, <1>3 DEF LogTypes
<1>7. /\ LinesIn(lines, i) \ {p} \subseteq LinesIn(lines', n)
      /\ LinesIn(lines', n) \subseteq (LinesIn(lines, i) \ {p}) \union LinesIn(lines, n)
      /\ i # n => LinesIn(lines', i) = LinesIn(lines, i)
  <2>1. i # 0 /\ n # 0
    BY <1>2 DEF Inodes
  <2>2. /\ LinesIn(lines, i) = {lines[i][k] : k \in 1 .. Len(lines[i])}
        /\ LinesIn(lines, n) = {lines[n][k] : k \in 1 .. Len(lines[n])}
        /\ LinesIn(lines', n) = {s[k] : k \in 1 .. Len(s)}
    BY <1>2, <1>6, <2>1 DEF LinesIn
  <2>3. i # n => LinesIn(lines', i) = LinesIn(lines, i)
    <3>1. i # n => lines'[i] = lines[i]
      BY <1>2, <1>6
    <3>. QED
      BY <3>1, Zenon DEF LinesIn
  <2>4. LinesIn(lines, i) \ {p} \subseteq LinesIn(lines', n)
    BY <1>3, <2>2
  <2>5. LinesIn(lines', n) \subseteq (LinesIn(lines, i) \ {p}) \union LinesIn(lines, n)
    <3>. SUFFICES ASSUME NEW m \in 1 .. Len(s)
         PROVE s[m] \in (LinesIn(lines, i) \ {p}) \union LinesIn(lines, n)
      BY <2>2
    <3>1. \/ s[m] # p /\ \E k \in 1 .. Len(lines[i]) : s[m] = lines[i][k]
          \/ \E k \in 1 .. Len(lines[n]) : s[m] = lines[n][k]
      BY <1>3
    <3>. QED
      BY <2>2, <3>1
  <2>. QED
    BY <2>3, <2>4, <2>5
<1>. HIDE DEF p, i, n
<1>8. LogTypes'
  BY <1>0, <1>1, <1>4, <1>6 DEF LogTypes
<1>9. Closers' = Closers /\ Appending' = Appending
  BY <1>1, <1>4, <1>5 DEF Closers, Appending, PathsAt
<1>10. FilesApart'
  BY <1>0, <1>4, <1>5 DEF FilesApart
<1>11. AppendsToLog'
  BY <1>0, <1>1, <1>4, <1>5, <1>9 DEF AppendsToLog
<1>12. Calm' => Calm
  BY <1>1 DEF Calm
<1>13. ASSUME OneCloser
       PROVE  Closers = {t} /\ n = NewLog /\ i = Log /\ i # n
  <2>1. Closers = {t}
    BY <1>2, <1>13 DEF OneCloser
  <2>2. n = NewLog /\ i = Log
    BY <1>1, <1>2, <1>13 DEF OneCloser, n, i
  <2>. QED
    BY <1>0, <1>2, <2>1, <2>2 DEF FilesApart, Inodes
<1>14. ASSUME OneCloser PROVE OneCloser'
  BY <1>4, <1>5, <1>9, <1>13, <1>14, CloserFacts, <1>0 DEF OneCloser
<1>15. ASSUME OneCloser, KeepsDirty PROVE KeepsDirty'
  <2>1. Kept \subseteq LinesIn(lines, Log) \ {p}
    BY <1>1, <1>2, <1>13, <1>15 DEF KeepsDirty, p
  <2>2. /\ Kept \subseteq LinesIn(lines', NewLog)
        /\ Kept \subseteq LinesIn(lines', Log)
    BY <1>7, <1>13, <1>15, <2>1
  <2>. QED
    BY <1>1, <1>4, <1>4a, <1>5, <1>9, <1>13, <1>15, <1>2, <2>2 DEF KeepsDirty
<1>16. ASSUME OneCloser, DropsStored PROVE DropsStored'
  <2>1. LinesIn(lines, Log) \ {p} \subseteq Known /\ LinesIn(lines, NewLog) = {}
    BY <1>1, <1>2, <1>13, <1>16 DEF DropsStored, p
  <2>2. LinesIn(lines', NewLog) \subseteq Known
    BY <1>7, <1>13, <1>16, <2>1
  <2>. QED
    BY <1>1, <1>2, <1>4, <1>4a, <1>5, <1>9, <1>13, <1>16, <2>2 DEF DropsStored
<1>. QED
  BY <1>0, <1>1, <1>8, <1>10, <1>11, <1>12, <1>14, <1>15, <1>16 DEF LogInv

\* The log is removed: what is kept is in newlog.
LEMMA RemoveLogStep ==
  ASSUME LogInv, single, NEW t \in Writers, RemoveLog(t)
  PROVE  LogInv'
<1>. DEFINE r == [doing[t] EXCEPT !.step = "rename"]
<1>0. LogTypes /\ FilesApart /\ AppendsToLog
  BY DEF LogInv
<1>1. /\ doing[t].step = "remove" /\ doing' = [doing EXCEPT ![t] = r]
      /\ inode' = [inode EXCEPT !["log"] = 0]
      /\ UNCHANGED <<single, dangling, lines, pending, disturbed>>
  BY DEF RemoveLog, build
<1>2. doing[t] \in Doings /\ t \in Closers
  BY <1>0, <1>1, DoingFacts DEF Closers
<1>3. r \in Doings /\ r.step = "rename" /\ r.path = doing[t].path /\ r.to = doing[t].to
  <2>1. doing[t] \in [step : {"copy", "remove", "rename"}, path : DirtyNames, from : Inodes, to : Inodes]
    BY <1>1, <1>2 DEF Doings, Idle
  <2>2. r \in [step : {"copy", "remove", "rename"}, path : DirtyNames, from : Inodes, to : Inodes]
    BY <2>1
  <2>3. r.step = "rename" /\ r.path = doing[t].path /\ r.to = doing[t].to
    BY <2>1
  <2>. QED
    BY <2>2, <2>3 DEF Doings
<1>3a. Kept' = Kept /\ Known' = Known
  BY <1>0, <1>1, <1>3, PathsAfter DEF Kept, Known, Writing, Appending, Clearing
<1>. HIDE DEF r
<1>4. Log' = 0 /\ NewLog' = NewLog /\ \A u \in Writers : doing'[u] = IF u = t THEN r ELSE doing[u]
  BY <1>0, <1>1 DEF LogTypes, Log, NewLog
<1>5. LogTypes'
  BY <1>0, <1>1, <1>3 DEF LogTypes
<1>6. Closers' = Closers /\ Appending' = Appending
  BY <1>1, <1>3, <1>4 DEF Closers, Appending, PathsAt
<1>7. FilesApart'
  BY <1>0, <1>3, <1>4 DEF FilesApart
<1>8. AppendsToLog'
  <2>1. Appending' \subseteq disturbed'
    BY <1>0, <1>1, <1>2, <1>6 DEF AppendsToLog
  <2>. QED
    BY <2>1 DEF AppendsToLog, Appending, PathsAt
<1>9. Calm' => Calm
  BY <1>1 DEF Calm
<1>10. ASSUME OneCloser PROVE Closers = {t} /\ doing'[t] = r /\ r.to = NewLog
  BY <1>2, <1>3, <1>4, <1>10 DEF OneCloser
<1>11. ASSUME OneCloser PROVE OneCloser'
  BY <1>3, <1>4, <1>6, <1>10, <1>11 DEF OneCloser
<1>12. ASSUME OneCloser, KeepsDirty PROVE KeepsDirty'
  BY <1>1, <1>3, <1>3a, <1>4, <1>6, <1>10, <1>12 DEF KeepsDirty
<1>13. ASSUME OneCloser, DropsStored PROVE DropsStored'
  BY <1>1, <1>3, <1>3a, <1>4, <1>6, <1>10, <1>13 DEF DropsStored
<1>. QED
  BY <1>0, <1>1, <1>5, <1>7, <1>8, <1>9, <1>11, <1>12, <1>13 DEF LogInv

\* Newlog becomes the log.
LEMMA RenameNewLogStep ==
  ASSUME LogInv, single, NEW t \in Writers, RenameNewLog(t)
  PROVE  LogInv'
<1>0. LogTypes /\ FilesApart /\ AppendsToLog
  BY DEF LogInv
<1>1. /\ doing[t].step = "rename" /\ doing' = [doing EXCEPT ![t] = Idle]
      /\ inode' = IF NewLog = 0 THEN inode ELSE [inode EXCEPT !["log"] = NewLog, !["newlog"] = 0]
      /\ UNCHANGED <<single, dangling, lines, pending, disturbed>>
  BY DEF RenameNewLog, build, NewLog
<1>2. t \in Closers /\ doing[t].to \in Inodes /\ 0 \notin Inodes
  BY <1>0, <1>1, DoingFacts DEF Closers, Inodes
<1>3. IF NewLog = 0 THEN Log' = Log /\ NewLog' = NewLog ELSE Log' = NewLog /\ NewLog' = 0
  BY <1>0, <1>1 DEF LogTypes, Log, NewLog
<1>4. \A u \in Writers : doing'[u] = IF u = t THEN Idle ELSE doing[u]
  BY <1>0, <1>1 DEF LogTypes
<1>4a. Kept' = Kept /\ Known' = Known
  <2>1. Idle.step = "none"
    BY DEF Idle
  <2>2. ASSUME NEW s \in {"write", "append", "clear"} PROVE PathsAt(s)' = PathsAt(s)
    <3>1. Idle.step # s /\ doing[t].step # s
      BY <1>1, <2>1
    <3>2. PathsAt(s)' \subseteq PathsAt(s)
      BY <1>0, <1>1, <3>1, PathsAfter
    <3>3. PathsAt(s) \subseteq PathsAt(s)'
      BY <1>0, <1>1, <3>1, PathsAfter
    <3>. QED
      BY <3>2, <3>3
  <2>3. Writing' = Writing /\ Appending' = Appending /\ Clearing' = Clearing
    BY <2>2 DEF Writing, Appending, Clearing
  <2>. QED
    BY <1>1, <2>3 DEF Kept, Known
<1>5. LogTypes'
  <2>1. Idle \in Doings
    BY DEF Doings
  <2>2. inode' \in [{"log", "newlog"} -> {0} \union Inodes]
    BY <1>0, <1>1 DEF LogTypes, NewLog
  <2>. QED
    BY <1>0, <1>1, <2>1, <2>2 DEF LogTypes
<1>6. Closers' = Closers \ {t} /\ Appending' = Appending
  BY <1>1, <1>4 DEF Closers, Appending, PathsAt, Idle
<1>7. FilesApart'
  <2>1. ASSUME NEW u \in Writers, doing'[u].step = "append" PROVE doing'[u].to # NewLog'
    <3>1. doing'[u] = doing[u]
      BY <1>4, <2>1 DEF Idle
    <3>2. doing[u].to \in Inodes /\ doing[u].to # NewLog
      BY <1>0, <2>1, <3>1, DoingFacts DEF FilesApart
    <3>. QED
      BY <1>2, <1>3, <3>1, <3>2
  <2>. QED
    BY <1>0, <1>3, <2>1 DEF FilesApart
<1>8. AppendsToLog'
  <2>1. Appending' \subseteq disturbed'
    BY <1>0, <1>1, <1>2, <1>6 DEF AppendsToLog
  <2>. QED
    BY <2>1 DEF AppendsToLog, Appending, PathsAt
<1>9. Calm' => Calm
  BY <1>1 DEF Calm
<1>10. ASSUME OneCloser PROVE Closers' = {} /\ Log' = NewLog
  <2>1. Closers = {t} /\ doing[t].to = NewLog
    BY <1>2, <1>10 DEF OneCloser
  <2>. QED
    BY <1>2, <1>3, <1>6, <2>1
<1>11. ASSUME OneCloser PROVE OneCloser'
  BY <1>10, <1>11 DEF OneCloser
<1>12. ASSUME OneCloser, KeepsDirty PROVE KeepsDirty'
  BY <1>1, <1>2, <1>4a, <1>10, <1>12 DEF KeepsDirty
<1>13. ASSUME OneCloser, DropsStored PROVE DropsStored'
  BY <1>1, <1>2, <1>4a, <1>10, <1>13 DEF DropsStored
<1>. QED
  BY <1>0, <1>1, <1>5, <1>7, <1>8, <1>9, <1>11, <1>12, <1>13 DEF LogInv

\* A callback that neither has a log open nor opens one leaves the log alone.
LEMMA QuietStep ==
  ASSUME LogInv, NEW t \in Writers, NEW r,
         r \in Doings, r.step \notin {"append", "copy", "remove", "rename"},
         doing[t].step \notin {"append", "copy", "remove", "rename"},
         doing' = [doing EXCEPT ![t] = r], pending' \subseteq DirtyNames,
         UNCHANGED <<single, dangling, inode, lines, disturbed>>,
         Kept' \subseteq Kept, dangling \/ Known \subseteq Known'
  PROVE  LogInv'
<1>0. LogTypes
  BY DEF LogInv
<1>1. Log' = Log /\ NewLog' = NewLog /\ \A u \in Writers : doing'[u] = IF u = t THEN r ELSE doing[u]
  BY <1>0 DEF LogTypes, Log, NewLog
<1>2. LogTypes'
  BY <1>0 DEF LogTypes
<1>3. Closers' = Closers /\ t \notin Closers /\ Appending' = Appending
  BY <1>1 DEF Closers, Appending, PathsAt
<1>4. (FilesApart => FilesApart') /\ (AppendsToLog => AppendsToLog') /\ (Calm' => Calm)
  BY <1>1, <1>3 DEF FilesApart, AppendsToLog, Calm
<1>5. \A u \in Closers : u \in Writers /\ doing'[u] = doing[u]
  BY <1>1, <1>3 DEF Closers
<1>6. OneCloser => OneCloser'
  BY <1>1, <1>3, <1>5 DEF OneCloser
<1>7. KeepsDirty => KeepsDirty'
  BY <1>1, <1>3, <1>5 DEF KeepsDirty
<1>8. ~dangling /\ DropsStored => DropsStored'
  BY <1>1, <1>3, <1>5 DEF DropsStored
<1>. QED
  BY <1>2, <1>4, <1>6, <1>7, <1>8 DEF LogInv

\* A file is written: it is not among those whose entry must be there yet.
LEMMA WriteFileStep ==
  ASSUME LogInv, NEW t \in Writers, NEW p \in DirtyNames, WriteFile(t, p)
  PROVE  LogInv' /\ Kept' \subseteq Kept /\ Known \subseteq Known'
<1>. DEFINE r == [Idle EXCEPT !.step = "write", !.path = p]
<1>0. LogTypes
  BY DEF LogInv
<1>1. /\ doing[t] = Idle /\ doing' = [doing EXCEPT ![t] = r] /\ pending' = pending \union {p}
      /\ UNCHANGED <<single, dangling, lines, inode, disturbed>>
  BY DEF WriteFile, Begin, build
<1>2. r \in Doings /\ r.step = "write" /\ r.path = p /\ doing[t].step = "none"
  <2>1. /\ r \in [step : {"write", "read", "store", "clear"}, path : DirtyNames, from : {0}, to : {0}]
        /\ r.step = "write" /\ r.path = p
    BY DEF Idle
  <2>2. doing[t].step = "none"
    BY <1>1 DEF Idle
  <2>. HIDE DEF r
  <2>. QED
    BY <2>1, <2>2 DEF Doings
<1>. HIDE DEF r
<1>3. p \in Writing' /\ Writing \subseteq Writing' /\ Appending \subseteq Appending' /\ Clearing \subseteq Clearing'
  BY <1>0, <1>1, <1>2, PathsAfter DEF Writing, Appending, Clearing
<1>4. Kept' \subseteq Kept /\ Known \subseteq Known'
  BY <1>1, <1>3 DEF Kept, Known
<1>5. pending' \subseteq DirtyNames
  BY <1>0, <1>1 DEF LogTypes
<1>. QED
  BY <1>1, <1>2, <1>4, <1>5, QuietStep

\* A store takes its steps: once it has succeeded the file is one whose entry may be there.
LEMMA StoreStep ==
  ASSUME LogInv, NEW t \in Writers,
         \/ \E p \in DirtyNames : CheckModified(t, p)
         \/ StoreRead(t) \/ StoreOK(t) \/ StoreFails(t)
  PROVE  LogInv' /\ Kept' \subseteq Kept /\ Known \subseteq Known'
<1>0. LogTypes
  BY DEF LogInv
<1>1. PICK r : /\ doing' = [doing EXCEPT ![t] = r] /\ r \in Doings
               /\ r.step \in {"none", "read", "store", "clear"}
               /\ doing[t].step \in {"none", "read", "store"}
               /\ pending' \subseteq pending /\ pending \subseteq pending' \union {r.path}
               /\ pending' = pending \/ r.step = "clear"
               /\ UNCHANGED <<single, dangling, lines, inode, disturbed>>
  <2>2. CASE \E p \in DirtyNames : CheckModified(t, p)
    <3>1. PICK p \in DirtyNames : CheckModified(t, p)
      BY <2>2
    <3>. DEFINE x == [Idle EXCEPT !.step = "read", !.path = p]
    <3>2. /\ x \in [step : {"write", "read", "store", "clear"}, path : DirtyNames, from : {0}, to : {0}]
          /\ x.step = "read" /\ Idle.step = "none"
      BY DEF Idle
    <3>3. /\ doing' = [doing EXCEPT ![t] = x] /\ doing[t] = Idle
          /\ UNCHANGED <<single, dangling, lines, inode, pending, disturbed>>
      BY <3>1 DEF CheckModified, Begin, build
    <3>. HIDE DEF x
    <3>4. x \in Doings /\ x.step = "read"
      BY <3>2 DEF Doings
    <3>. QED
      BY <3>2, <3>3, <3>4
  <2>3. CASE StoreFails(t)
    BY <2>3 DEF StoreFails, build, Idle, Doings
  <2>4. ASSUME NEW s \in {"store", "clear"}, doing[t].step \in {"read", "store"}
        PROVE  /\ [doing[t] EXCEPT !.step = s] \in Doings
               /\ [doing[t] EXCEPT !.step = s].step = s
               /\ [doing[t] EXCEPT !.step = s].path = doing[t].path
    <3>1. doing[t] \in [step : {"write", "read", "store", "clear"}, path : DirtyNames, from : {0}, to : {0}]
      BY <1>0, <2>4, DoingFacts
    <3>2. [doing[t] EXCEPT !.step = s]
            \in [step : {"write", "read", "store", "clear"}, path : DirtyNames, from : {0}, to : {0}]
      BY <3>1
    <3>3. [doing[t] EXCEPT !.step = s].step = s /\ [doing[t] EXCEPT !.step = s].path = doing[t].path
      BY <3>1
    <3>. QED
      BY <3>2, <3>3 DEF Doings
  <2>5. CASE StoreRead(t)
    BY <2>4, <2>5 DEF StoreRead, build
  <2>6. CASE StoreOK(t)
    BY <2>4, <2>6 DEF StoreOK, build
  <2>. QED
    BY <2>2, <2>3, <2>5, <2>6
<1>2. /\ Writing \subseteq Writing' /\ Appending \subseteq Appending' /\ Clearing \subseteq Clearing'
      /\ r.step = "clear" => r.path \in Clearing'
  BY <1>0, <1>1, PathsAfter DEF Writing, Appending, Clearing
<1>3. Kept' \subseteq Kept /\ Known \subseteq Known'
  BY <1>1, <1>2 DEF Kept, Known
<1>4. pending' \subseteq DirtyNames
  BY <1>0, <1>1 DEF LogTypes
<1>. QED
  BY <1>1, <1>3, <1>4, QuietStep

\* A closeEntry that finds other names than the log's leaves it alone.
LEMMA CloseNothingStep ==
  ASSUME LogInv, NEW t \in Writers, CloseNothing(t)
  PROVE  LogInv'
<1>0. LogTypes
  BY DEF LogInv
<1>1. /\ doing[t].step = "clear" /\ doing' = [doing EXCEPT ![t] = Idle] /\ dangling
      /\ UNCHANGED <<single, dangling, lines, inode, pending, disturbed>>
  BY DEF CloseNothing, build
<1>2. Idle \in Doings /\ Idle.step = "none"
  BY DEF Doings, Idle
<1>3. Writing \subseteq Writing' /\ Appending \subseteq Appending'
  BY <1>0, <1>1, PathsAfter DEF Writing, Appending
<1>4. Kept' \subseteq Kept
  BY <1>1, <1>3 DEF Kept
<1>. QED
  BY <1>0, <1>1, <1>2, <1>4, QuietStep DEF LogTypes

\* The client starts again: the log is empty and no callback is under way.
LEMMA RestartStep == ASSUME LogInv, Restart PROVE LogInv'
<1>0. LogTypes
  BY DEF LogInv
<1>1. /\ doing' = [t \in Writers |-> Idle] /\ pending' = {} /\ disturbed' = {}
      /\ UNCHANGED <<single, dangling>>
  BY DEF Restart, build
<1>2. doing' \in [Writers -> Doings] /\ \A t \in Writers : doing'[t].step = "none"
  BY <1>1 DEF Doings, Idle
<1>3. Closers' = {} /\ Appending' = {}
  BY <1>2 DEF Closers, Appending, PathsAt
<1>4. CASE ~single
  <2>1. UNCHANGED <<inode, lines>>
    BY <1>4 DEF Restart
  <2>2. LogTypes'
    BY <1>0, <1>1, <1>2, <2>1 DEF LogTypes
  <2>. QED
    BY <1>1, <1>4, <2>2 DEF LogInv
<1>5. CASE single
  <2>. DEFINE i == IF Log = 0 THEN CHOOSE j \in Inodes : j # NewLog ELSE Log
  <2>1. inode' = [inode EXCEPT !["log"] = i] /\ lines' = [lines EXCEPT ![i] = <<>>]
    BY <1>5 DEF Restart, Log, NewLog
  <2>2. i \in Inodes /\ i # NewLog
    <3>1. CASE Log = 0
      <4>1. 1 \in Inodes /\ 2 \in Inodes
        BY DirtyNamesAssumption, FS_CardinalityType DEF Inodes
      <4>2. \E j \in Inodes : j # NewLog
        BY <4>1
      <4>. QED
        BY <3>1, <4>2
    <3>2. CASE Log # 0
      BY <1>0, <1>5, <3>2 DEF LogInv, FilesApart, LogTypes, Log
    <3>. QED
      BY <3>1, <3>2
  <2>. HIDE DEF i
  <2>3. Log' = i /\ NewLog' = NewLog
    BY <1>0, <2>1 DEF LogTypes, Log, NewLog
  <2>4. lines' \in [Inodes -> Seq(DirtyNames)] /\ LinesIn(lines', i) = {}
    <3>1. <<>> \in Seq(DirtyNames) /\ lines \in [Inodes -> Seq(DirtyNames)]
      BY <1>0 DEF LogTypes
    <3>2. lines' \in [Inodes -> Seq(DirtyNames)]
      BY <2>1, <2>2, <3>1
    <3>3. \A j \in Inodes : lines'[j] = IF j = i THEN <<>> ELSE lines[j]
      BY <2>1, <2>2, <3>1
    <3>4. LinesIn(lines', i) = {}
      BY <2>2, <3>3, LinesInTruncated
    <3>. QED
      BY <3>2, <3>4
  <2>5. LogTypes'
    BY <1>0, <1>1, <1>2, <2>1, <2>2, <2>4 DEF LogTypes
  <2>6. FilesApart' /\ AppendsToLog'
    BY <1>2, <1>3, <2>2, <2>3 DEF FilesApart, AppendsToLog
  <2>7. OneCloser' /\ KeepsDirty' /\ DropsStored'
    BY <1>1, <1>3, <2>3, <2>4 DEF OneCloser, KeepsDirty, DropsStored, Kept
  <2>. QED
    BY <1>1, <2>5, <2>6, <2>7 DEF LogInv
<1>. QED
  BY <1>0, <1>4, <1>5 DEF LogTypes

\* A step of the build without a log leaves the log alone.
LEMMA OtherBuildStep ==
  ASSUME LogInv, ~single, NEW t \in Writers, CreatePendingFile(t) \/ RemovePendingFile(t)
  PROVE  LogInv'
<1>1. /\ UNCHANGED <<single, dangling, inode, lines, pending>>
      /\ doing' = [doing EXCEPT ![t] = Idle] /\ disturbed' \subseteq disturbed \union pending \union {doing[t].path}
      /\ doing[t].step \in {"write", "clear"}
  BY DEF CreatePendingFile, RemovePendingFile, build
<1>2. LogTypes
  BY DEF LogInv
<1>3. doing[t].path \in DirtyNames
  BY <1>1, <1>2, DoingFacts
<1>4. Idle \in Doings
  BY DEF Doings
<1>. QED
  BY <1>1, <1>2, <1>3, <1>4 DEF LogInv, LogTypes

\* Every step keeps it.
LEMMA LogStep == LogInv /\ FlatInv /\ [LogNext]_logVars => LogInv'
<1>. SUFFICES ASSUME LogInv, FlatInv, [LogNext]_logVars PROVE LogInv'
  OBVIOUS
<1>0. LogTypes
  BY DEF LogInv
<1>1. ASSUME NEW t \in Writers, CreatePendingFile(t) \/ RemovePendingFile(t) PROVE LogInv'
  <2>1. ~single
    BY <1>1 DEF CreatePendingFile, RemovePendingFile
  <2>. QED
    BY <1>1, <2>1, OtherBuildStep
<1>2. ASSUME NEW t \in Writers, AppendWrite(t) \/ CloseCopy(t) \/ RemoveLog(t) \/ RenameNewLog(t)
      PROVE  LogInv'
  <2>1. doing[t].step \in {"append", "copy", "remove", "rename"}
    BY <1>2 DEF AppendWrite, CloseCopy, RemoveLog, RenameNewLog
  <2>2. single
    BY <1>0, <2>1 DEF FlatInv, LogTypes
  <2>. QED
    BY <1>2, <2>2, AppendWriteStep, CloseCopyStep, RemoveLogStep, RenameNewLogStep
<1>3. ASSUME NEW t \in Writers,
             \/ \E p \in DirtyNames : CheckModified(t, p)
             \/ StoreRead(t) \/ StoreOK(t) \/ StoreFails(t)
      PROVE  LogInv'
  BY <1>3, StoreStep
<1>4. CASE LogIdle \/ UNCHANGED logVars
  <2>1. UNCHANGED <<single, dangling, inode, lines, doing, pending, disturbed>>
    BY <1>4 DEF LogIdle, logVars
  <2>2. Log' = Log /\ NewLog' = NewLog /\ Closers' = Closers /\ Appending' = Appending
        /\ Kept' = Kept /\ Known' = Known
    BY <2>1 DEF Log, NewLog, Closers, Appending, Writing, Clearing, PathsAt, Kept, Known
  <2>3. LogTypes' /\ (FilesApart => FilesApart') /\ (AppendsToLog => AppendsToLog') /\ (Calm' => Calm)
    BY <1>0, <2>1, <2>2 DEF LogTypes, FilesApart, AppendsToLog, Calm
  <2>4. (OneCloser => OneCloser') /\ (KeepsDirty => KeepsDirty') /\ (DropsStored => DropsStored')
    BY <2>1, <2>2 DEF OneCloser, KeepsDirty, DropsStored
  <2>. QED
    BY <2>1, <2>3, <2>4 DEF LogInv
<1>. QED
  BY <1>1, <1>2, <1>3, <1>4, WriteFileStep, AppendOpenStep, CloseNothingStep, CloseOpenStep, RestartStep
     DEF LogNext

\* A write gets its pending file, and a closeEntry removes the one it was for.
LEMMA FlatStep == LogInv /\ FlatInv /\ [LogNext]_logVars => FlatInv'
<1>. SUFFICES ASSUME LogInv, FlatInv, [LogNext]_logVars, ~single' PROVE FlatInv'
  BY DEF FlatInv
<1>0. ~single
  BY DEF LogNext, WriteFile, AppendOpen, CreatePendingFile, CheckModified, StoreRead, StoreOK, StoreFails,
         AppendWrite, RemovePendingFile, CloseNothing, CloseOpen, CloseCopy, RemoveLog, RenameNewLog, Restart,
         LogIdle, logVars, build
<1>1. /\ LogTypes
      /\ \A p \in Kept : ToFlatFile(p) \in flats
      /\ flats \subseteq {ToFlatFile(p) : p \in Known}
      /\ \A t \in Writers : doing[t].step \in {"none", "write", "read", "store", "clear"}
  BY <1>0 DEF FlatInv, LogInv
<1>2. ASSUME NEW t \in Writers, NEW r, doing' = [doing EXCEPT ![t] = r],
             r.step \in {"none", "write", "read", "store", "clear"}
      PROVE  \A u \in Writers : doing'[u].step \in {"none", "write", "read", "store", "clear"}
  BY <1>1, <1>2 DEF LogTypes
<1>3. Idle.step = "none"
  BY DEF Idle
<1>4. ASSUME NEW t \in Writers, CreatePendingFile(t) PROVE FlatInv'
  <2>. DEFINE p == doing[t].path
  <2>1. /\ doing[t].step = "write" /\ doing' = [doing EXCEPT ![t] = Idle]
        /\ flats' = flats \union {ToFlatFile(p)} /\ disturbed' = disturbed \union ({p} \ pending)
        /\ pending' = pending
    BY <1>4 DEF CreatePendingFile
  <2>2. Writing \subseteq Writing' \union {p} /\ Appending \subseteq Appending' /\ Clearing \subseteq Clearing'
    BY <1>1, <2>1, PathsAfter DEF Writing, Appending, Clearing
  <2>. HIDE DEF p
  <2>3. Kept' \subseteq Kept \union {p}
    BY <2>1, <2>2 DEF Kept
  <2>4. Known \union {p} \subseteq Known'
    BY <2>1, <2>2 DEF Known
  <2>5. /\ \A q \in Kept' : ToFlatFile(q) \in flats'
        /\ flats' \subseteq {ToFlatFile(q) : q \in Known'}
    BY <1>1, <2>1, <2>3, <2>4
  <2>. QED
    BY <1>2, <1>3, <2>1, <2>5 DEF FlatInv
<1>5. ASSUME NEW t \in Writers, RemovePendingFile(t) PROVE FlatInv'
  <2>. DEFINE p    == doing[t].path
              lost == {q \in pending : ToFlatFile(q) = ToFlatFile(p)} \ Writing
  <2>1. /\ doing[t].step = "clear" /\ doing' = [doing EXCEPT ![t] = Idle]
        /\ flats' = flats \ {ToFlatFile(p)} /\ disturbed' = disturbed \union lost
        /\ pending' = pending
    BY <1>5 DEF RemovePendingFile
  <2>2. Writing \subseteq Writing' /\ Appending \subseteq Appending' /\ Clearing \subseteq Clearing' \union {p}
    BY <1>1, <2>1, PathsAfter DEF Writing, Appending, Clearing
  <2>. HIDE DEF p
  <2>3. Kept' \subseteq Kept /\ \A q \in Kept' : ToFlatFile(q) # ToFlatFile(p)
    BY <2>1, <2>2 DEF Kept
  <2>4. Known \subseteq Known' \union {p}
    BY <2>1, <2>2 DEF Known
  <2>5. /\ \A q \in Kept' : ToFlatFile(q) \in flats'
        /\ flats' \subseteq {ToFlatFile(q) : q \in Known'}
    BY <1>1, <2>1, <2>3, <2>4
  <2>. QED
    BY <1>2, <1>3, <2>1, <2>5 DEF FlatInv
<1>6. ASSUME NEW t \in Writers, NEW p \in DirtyNames, WriteFile(t, p) PROVE FlatInv'
  <2>1. doing' = [doing EXCEPT ![t] = [Idle EXCEPT !.step = "write", !.path = p]] /\ flats' = flats
    BY <1>6 DEF WriteFile, Begin
  <2>2. [Idle EXCEPT !.step = "write", !.path = p].step = "write"
    BY DEF Idle
  <2>3. Kept' \subseteq Kept /\ Known \subseteq Known'
    BY <1>6, WriteFileStep
  <2>4. \A u \in Writers : doing'[u].step \in {"none", "write", "read", "store", "clear"}
    BY <1>2, <2>1, <2>2
  <2>. QED
    BY <1>1, <2>1, <2>3, <2>4 DEF FlatInv
<1>7. ASSUME NEW t \in Writers,
             \/ \E p \in DirtyNames : CheckModified(t, p)
             \/ StoreRead(t) \/ StoreOK(t) \/ StoreFails(t)
      PROVE  FlatInv'
  <2>1. flats' = flats /\ Kept' \subseteq Kept /\ Known \subseteq Known'
    BY <1>7, StoreStep DEF CheckModified, StoreRead, StoreOK, StoreFails
  <2>2. \A u \in Writers : u # t => doing'[u] = doing[u]
    BY <1>1, <1>7 DEF CheckModified, Begin, StoreRead, StoreOK, StoreFails, LogTypes
  <2>3. doing'[t].step \in {"none", "read", "store", "clear"}
    <3>1. CASE \E p \in DirtyNames : CheckModified(t, p)
      BY <1>1, <3>1 DEF CheckModified, Begin, Idle, LogTypes
    <3>2. CASE StoreFails(t)
      BY <1>1, <1>3, <3>2 DEF StoreFails, LogTypes
    <3>3. CASE StoreRead(t) \/ StoreOK(t)
      <4>1. doing[t] \in [step : {"write", "read", "store", "clear"}, path : DirtyNames, from : {0}, to : {0}]
        BY <1>1, <3>3, DoingFacts DEF StoreRead, StoreOK
      <4>. QED
        BY <1>1, <3>3, <4>1 DEF StoreRead, StoreOK, LogTypes
    <3>. QED
      BY <1>7, <3>1, <3>2, <3>3
  <2>4. \A u \in Writers : doing'[u].step \in {"none", "write", "read", "store", "clear"}
    BY <1>1, <2>2, <2>3
  <2>. QED
    BY <1>1, <2>1, <2>4 DEF FlatInv
<1>8. CASE Restart
  <2>1. pending' = {} /\ flats' = {} /\ doing' = [u \in Writers |-> Idle]
    BY <1>0, <1>8 DEF Restart
  <2>2. Kept' = {} /\ \A u \in Writers : doing'[u].step = "none"
    BY <1>3, <2>1 DEF Kept
  <2>. QED
    BY <2>1, <2>2 DEF FlatInv
<1>9. ASSUME NEW t \in Writers,
             \/ AppendOpen(t) \/ AppendWrite(t) \/ CloseNothing(t) \/ CloseOpen(t)
             \/ CloseCopy(t) \/ RemoveLog(t) \/ RenameNewLog(t)
      PROVE  FALSE
  <2>1. doing[t].step \in {"none", "write", "read", "store", "clear"}
    BY <1>1
  <2>. QED
    BY <1>0, <1>9, <2>1 DEF AppendOpen, AppendWrite, CloseNothing, CloseOpen, CloseCopy, RemoveLog, RenameNewLog
<1>10. CASE LogIdle \/ UNCHANGED logVars
  <2>1. UNCHANGED <<flats, doing, pending, disturbed>>
    BY <1>10 DEF LogIdle, logVars
  <2>2. Kept' = Kept /\ Known' = Known
    BY <2>1 DEF Kept, Known, Writing, Appending, Clearing, PathsAt
  <2>. QED
    BY <1>1, <2>1, <2>2 DEF FlatInv
<1>. QED
  BY <1>4, <1>5, <1>6, <1>7, <1>8, <1>9, <1>10 DEF LogNext

\* The client starts with an empty log.
LEMMA LogBegins == LogInit => LogInv /\ FlatInv
<1>. SUFFICES ASSUME LogInit PROVE LogInv /\ FlatInv
  OBVIOUS
<1>1. /\ single \in BOOLEAN /\ dangling \in BOOLEAN /\ Log = 1 /\ NewLog = 0
      /\ inode = [n \in {"log", "newlog"} |-> IF n = "log" THEN 1 ELSE 0]
      /\ lines = [i \in Inodes |-> <<>>] /\ doing = [t \in Writers |-> Idle]
      /\ pending = {} /\ disturbed = {} /\ flats = {}
  BY DEF LogInit, Log, NewLog
<1>2. 1 \in Inodes /\ 0 \notin Inodes
  BY DirtyNamesAssumption, FS_CardinalityType DEF Inodes
<1>3. LogTypes
  <2>1. Idle \in Doings
    BY DEF Doings
  <2>2. lines \in [Inodes -> Seq(DirtyNames)]
    BY <1>1
  <2>. QED
    BY <1>1, <1>2, <2>1, <2>2 DEF LogTypes
<1>4. Closers = {} /\ Appending = {} /\ \A t \in Writers : doing[t].step = "none"
  BY <1>1 DEF Closers, Appending, PathsAt, Idle
<1>5. FilesApart /\ AppendsToLog /\ OneCloser
  BY <1>1, <1>4 DEF FilesApart, AppendsToLog, OneCloser
<1>6. KeepsDirty /\ DropsStored
  <2>1. lines[1] = <<>>
    BY <1>1, <1>2
  <2>2. LinesIn(lines, Log) = {}
    BY <1>1, <2>1 DEF LinesIn
  <2>. QED
    BY <1>1, <1>4, <2>2 DEF KeepsDirty, DropsStored, Kept
<1>7. FlatInv
  <2>1. Kept = {}
    BY <1>1 DEF Kept
  <2>. QED
    BY <1>1, <1>4, <2>1 DEF FlatInv
<1>. QED
  BY <1>1, <1>3, <1>5, <1>6, <1>7 DEF LogInv

\* A file with a write that no store has read is in the log, or in the newlog about to
\* become the log, or has its pending file; but for writes not yet logged and for the
\* entries that DirtyLog says another callback may have spoilt.
THEOREM WritesStayLogged == LogSpec => []DirtyIsLogged
<1>1. LogInv /\ FlatInv => DirtyIsLogged
  <2>. SUFFICES ASSUME LogInv, FlatInv, NEW p \in Kept
       PROVE IF single
             THEN p \in LinesOf(IF \E t \in Writers : doing[t].step = "rename" THEN inode["newlog"] ELSE inode["log"])
             ELSE ToFlatFile(p) \in flats
    BY DEF DirtyIsLogged
  <2>0. CASE ~single
    BY <2>0 DEF FlatInv
  <2>1. CASE single
    <3>1. Calm /\ LogTypes
      BY DEF Calm, LogInv, LogTypes, Kept
    <3>2. OneCloser /\ KeepsDirty
      BY <2>1, <3>1 DEF LogInv
    <3>3. \A i : LinesOf(i) = LinesIn(lines, i)
      BY DEF LinesOf, LinesIn
    <3>4. CASE \E t \in Writers : doing[t].step = "rename"
      <4>1. PICK t \in Writers : doing[t].step = "rename"
        BY <3>4
      <4>2. t \in Closers
        BY <4>1 DEF Closers
      <4>3. p \in LinesIn(lines, NewLog)
        BY <3>2, <4>1, <4>2 DEF KeepsDirty
      <4>. QED
        BY <2>1, <3>3, <3>4, <4>3 DEF NewLog
    <3>5. CASE ~ \E t \in Writers : doing[t].step = "rename"
      <4>1. \A t \in Closers : doing[t].step \in {"copy", "remove"}
        BY <3>5 DEF Closers
      <4>2. p \in LinesIn(lines, Log)
        <5>1. CASE Closers = {}
          BY <3>2, <5>1 DEF KeepsDirty
        <5>2. CASE Closers # {}
          BY <3>2, <4>1, <5>2 DEF KeepsDirty
        <5>. QED
          BY <5>1, <5>2
      <4>. QED
        BY <2>1, <3>3, <3>5, <4>2 DEF Log
    <3>. QED
      BY <3>4, <3>5
  <2>2. single \in BOOLEAN
    BY DEF LogInv, LogTypes
  <2>. QED
    BY <2>0, <2>1, <2>2
<1>. QED
  BY <1>1, LogBegins, LogStep, FlatStep, PTL DEF LogSpec

\* Between rewrites no file that was stored is in the log, if closeEntry finds the log at
\* all, and no pending file is of one.
THEOREM StoresLeaveTheLog == LogSpec => []StoredIsCleared
<1>1. LogInv /\ FlatInv => StoredIsCleared
  <2>. SUFFICES ASSUME LogInv, single, ~dangling, Closers = {}
       PROVE LinesIn(lines, Log) \subseteq Known
    BY DEF StoredIsCleared, LinesOf, LinesIn, Log, FlatInv
  <2>1. LogTypes
    BY DEF LogInv
  <2>2. CASE Calm
    BY <2>2 DEF LogInv, DropsStored
  <2>3. CASE ~Calm
    <3>1. Log \in {0} \union Inodes
      BY <2>1 DEF LogTypes, Log
    <3>2. LinesIn(lines, Log) \subseteq DirtyNames
      BY <2>1, <3>1, LinesArePaths
    <3>. QED
      BY <2>3, <3>2 DEF Calm, Known
  <2>. QED
    BY <2>2, <2>3
<1>. QED
  BY <1>1, LogBegins, LogStep, FlatStep, PTL DEF LogSpec
====
