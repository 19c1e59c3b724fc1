---- MODULE NamespaceProofs ----
(***************************************************************************)
(* Proofs about Namespace: listings and the clients' cache directories, for *)
(* every tree of names and any number of clients and threads.              *)
(***************************************************************************)
EXTENDS Namespace, SequenceTheorems, TLAPS

Kinds    == {"none", "dir", "file"}
Listable == Names \X (Kinds \union {"temp"})
Requests == [op : NsOps, path : Names \union {Root}, from : Clients \union {Nobody}]

\* The calls the kernel can make: the root is only listed.
GoodCall(r) == r \in Requests /\ (r.op # "ReadDir" => r.path \in Names)

TypeOK ==
    /\ tree \in [Names -> Kinds]
    /\ temps \subseteq Names
    /\ pc \in [Threads -> {"idle", "lock", "commit", "list", "done"}]
    /\ req \in [Threads -> Requests \union {Nothing}]
    /\ ans \in [Threads -> {"ok", "errno", "UNKNOWN"}]
    /\ {left, seen, always} \subseteq [Threads -> SUBSET Listable]
    /\ cache \in [Clients -> [Names -> Kinds]]
    /\ at \in [Clients -> Threads \union {NoThread}]
    /\ call \in [Clients -> Requests \union {Nothing}]
    /\ ret \in [Clients -> {"none", "ok", "error", "local"}]
    /\ outside \subseteq Clients

\* A thread works on a call the kernel made, and is where that handler can be; a client
\* that waits for a thread waits for its own call.
Attached ==
    /\ \A t \in Threads :
         /\ pc[t] # "idle" => GoodCall(req[t])
         /\ pc[t] = "commit" => req[t].op = "Store"
         /\ pc[t] = "list" => req[t].op = "ReadDir"
    /\ \A c \in Clients :
         /\ ret[c] = "none" => GoodCall(call[c]) /\ call[c].from = c
         /\ at[c] # NoThread => ret[c] = "none" /\ pc[at[c]] # "idle" /\ req[at[c]] = call[c]

\* What has been there since a listing began is in the reply or still to be looked at.
ListInv ==
    /\ \A t \in Threads : pc[t] = "list" => always[t] \subseteq seen[t] \union left[t]
    /\ ListingIsComplete

\* Every entry is in a directory.
Closed(tr) == \A p \in Names : tr[p] # "none" => \A q \in Above(p) : tr[q] = "dir"

\* A Store between its two steps has its temporary file in the directory, which keeps the
\* directory, and its lock, which keeps the name from becoming a directory and another
\* Store from committing.
TreeInv ==
    /\ Closed(tree)
    /\ \A t \in Threads : pc[t] = "commit" =>
         LET p == req[t].path IN tree[p] # "dir" /\ p \in temps /\ IsDir(tree, Parent(p))
    /\ \A t, u \in Threads :
         t # u /\ pc[t] = "commit" /\ pc[u] = "commit" => req[t].path # req[u].path

\* The directories of a cache and of the server's tree agree.
Mirrors(fs, tr) ==
    \A p \in Names :
      /\ fs[p] = "dir" <=> tr[p] = "dir"
      /\ fs[p] = "file" => tr[p] = "file"

\* The thread that serves c has succeeded: c's cache is about to follow.
Succeeding(c) == at[c] # NoThread /\ pc[at[c]] = "done" /\ ans[at[c]] = "ok"

\* A client nobody has overtaken is the only one that changes the tree, one call at a
\* time, and its cache is in step, or will be when it has got its answer.
Undisturbed(c) ==
    /\ ret[c] = "none" => at[c] # NoThread
    /\ \A d \in Clients \ {c} : ret[d] = "none" => call[d].op \notin Changing
    /\ \A t \in Threads : pc[t] # "idle" /\ req[t].op \in Changing => at[c] = t
    /\ Mirrors(IF Succeeding(c) THEN CacheAfter(c) ELSE cache[c], tree)

MirrorInv == \A c \in Clients \ outside : Undisturbed(c)

----
(***************************************************************************)
(* Names                                                                   *)
(***************************************************************************)
\* The directories above a name are names, shorter than it.
LEMMA AboveIsShorter ==
    ASSUME NEW p \in Names, NEW q \in Above(p)
    PROVE  q \in Names /\ Len(q) \in Nat /\ Len(q) < Len(p) /\ Len(p) \in Nat /\ q # Root /\ q # p
<1>. USE NamesAssumption
<1>1. p \in Seq(Components) /\ Len(p) \in Nat
  BY LenProperties
<1>2. PICK i \in 1 .. Len(p) - 1 : q = SubSeq(p, 1, i)
  BY DEF Above
<1>3. \A j \in 1 .. i : p[j] \in Components
  BY <1>1, <1>2, ElementOfSeq
<1>4. Len(q) = i
  BY <1>1, <1>2, <1>3, SubSeqProperties
<1>5. Len(Root) = 0
  BY DEF Root
<1>. QED
  BY <1>1, <1>2, <1>4, <1>5

\* The directory a name is in is the root or one of those above the name.
LEMMA ParentIsAbove ==
    ASSUME NEW p \in Names
    PROVE  Parent(p) = Root \/ Parent(p) \in Above(p)
<1>1. p \in Seq(Components) /\ Len(p) \in Nat /\ Len(p) > 0
  BY NamesAssumption, LenProperties
<1>2. CASE Len(p) = 1
  BY <1>1, <1>2, SubSeqEmpty DEF Parent, Root
<1>3. CASE Len(p) # 1
  <2>0. \A n \in Nat : n > 0 /\ n # 1 => n - 1 \in 1 .. n - 1
    OBVIOUS
  <2>1. Len(p) - 1 \in 1 .. Len(p) - 1
    BY <1>1, <1>3, <2>0
  <2>. QED
    BY <2>1 DEF Parent, Above
<1>. QED
  BY <1>2, <1>3

\* A directory above a name is the one the name is in or above that.
LEMMA AboveOrParent ==
    ASSUME NEW p \in Names, NEW q \in Above(p), q # Parent(p)
    PROVE  Parent(p) \in Names /\ Parent(p) # Root /\ q \in Above(Parent(p))
<1>. USE NamesAssumption
<1>1. p \in Seq(Components) /\ Len(p) \in Nat /\ Len(p) > 0
  BY LenProperties
<1>2. PICK i \in 1 .. Len(p) - 1 : q = SubSeq(p, 1, i)
  BY DEF Above
<1>3. i < Len(p) - 1
  BY <1>1, <1>2 DEF Parent
<1>4. Len(p) - 1 \in 1 .. Len(p) - 1
  BY <1>1, <1>2
<1>5. Parent(p) \in Above(p)
  BY <1>4 DEF Parent, Above
<1>6. \A j \in 1 .. Len(p) - 1 : p[j] \in Components
  BY <1>1, ElementOfSeq
<1>7. Parent(p) \in Seq(Components) /\ Len(Parent(p)) = Len(p) - 1
  BY <1>1, <1>4, <1>6, SubSeqProperties DEF Parent
<1>8. SubSeq(SubSeq(p, 1, Len(p) - 1), 1, i) = SubSeq(p, 1, i)
  <2>1. /\ 1 \in 1 .. Len(p) /\ Len(p) - 1 \in 1 .. Len(p)
        /\ 1 \in 1 .. (Len(p) - 1) - 1 + 1 /\ i \in 1 .. (Len(p) - 1) - 1 + 1
    BY <1>1, <1>4, <1>3
  <2>2. SubSeq(SubSeq(p, 1, Len(p) - 1), 1, i) = SubSeq(p, 1 + 1 - 1, 1 + i - 1)
    BY <1>1, <2>1, SubSeqOfSubSeq
  <2>. QED
    BY <2>2
<1>9. i \in 1 .. Len(Parent(p)) - 1
  BY <1>1, <1>2, <1>3, <1>7
<1>. QED
  BY <1>2, <1>5, <1>8, <1>9, AboveIsShorter DEF Parent, Above

\* On the way from a directory down to a name is a name in that directory.
LEMMA NextBelow ==
    ASSUME NEW r \in Names, NEW p \in Above(r)
    PROVE  \E q \in Names : Parent(q) = p /\ (q = r \/ q \in Above(r))
<1>. USE NamesAssumption
<1>1. r \in Seq(Components) /\ Len(r) \in Nat /\ Len(r) > 0
  BY LenProperties
<1>2. PICK i \in 1 .. Len(r) - 1 : p = SubSeq(r, 1, i)
  BY DEF Above
<1>. DEFINE q == SubSeq(r, 1, i + 1)
<1>3. q = r \/ q \in Above(r)
  <2>1. CASE i = Len(r) - 1
    BY <1>1, <2>1, SubSeqFull
  <2>2. CASE i # Len(r) - 1
    <3>1. i + 1 \in 1 .. Len(r) - 1
      BY <1>1, <1>2, <2>2
    <3>. QED
      BY <3>1 DEF Above
  <2>. QED
    BY <2>1, <2>2
<1>4. q \in Names
  BY <1>3, AboveIsShorter
<1>5. \A j \in 1 .. i + 1 : r[j] \in Components
  BY <1>1, <1>2, ElementOfSeq
<1>6. Len(q) = i + 1
  BY <1>1, <1>2, <1>5, SubSeqProperties
<1>7. Parent(q) = SubSeq(SubSeq(r, 1, i + 1), 1, i)
  BY <1>2, <1>6 DEF Parent
<1>8. SubSeq(SubSeq(r, 1, i + 1), 1, i) = SubSeq(r, 1, i)
  <2>1. /\ 1 \in 1 .. Len(r) /\ i + 1 \in 1 .. Len(r)
        /\ 1 \in 1 .. (i + 1) - 1 + 1 /\ i \in 1 .. (i + 1) - 1 + 1
    BY <1>1, <1>2
  <2>2. SubSeq(SubSeq(r, 1, i + 1), 1, i) = SubSeq(r, 1 + 1 - 1, 1 + i - 1)
    BY <1>1, <2>1, SubSeqOfSubSeq
  <2>. QED
    BY <2>2, <1>2
<1>. QED
  BY <1>2, <1>3, <1>4, <1>7, <1>8
----
(***************************************************************************)
(* Types, and who works for whom                                           *)
(***************************************************************************)
\* What a directory lists are entries.
LEMMA EntriesAreListable ==
    ASSUME NEW fs \in [Names -> Kinds], NEW tm \in SUBSET Names, NEW p
    PROVE  Entries(fs, tm, p) \subseteq Listable
  BY DEF Entries, Listable, Kinds

\* A change of the tree keeps its type.
LEMMA ChangeType ==
    ASSUME TypeOK, NEW tr \in [Names -> Kinds], NEW tm \in SUBSET Names, Change(tr, tm)
    PROVE  /\ tree' = tr /\ temps' = tm
           /\ always' \in [Threads -> SUBSET Listable]
           /\ \A u \in Threads : always'[u] \subseteq always[u]
  BY DEF TypeOK, Change

\* A handler's step is one of its own: the call, the clients and the other threads' replies
\* stay as they are.
LEMMA HandlerMoves ==
    ASSUME TypeOK, Attached, NEW t \in Threads, Handler(t)
    PROVE  /\ UNCHANGED <<req, client, outside>>
           /\ pc[t] \in {"lock", "commit", "list"}
           /\ pc' = [pc EXCEPT ![t] = pc'[t]]
           /\ pc'[t] \in {"commit", "list", "done"}
           /\ pc'[t] = "commit" => req[t].op = "Store"
           /\ pc'[t] = "list" => req[t].op = "ReadDir"
           /\ GoodCall(req[t])
           /\ \A u \in Threads : u # t => ans'[u] = ans[u] /\ left'[u] = left[u] /\ seen'[u] = seen[u]
<1>. USE DEF TypeOK, Attached
<1>1. CASE MakeDir(t) \/ RemoveDir(t) \/ Remove(t) \/ Mknod(t)
  BY <1>1 DEF MakeDir, RemoveDir, Remove, Mknod, OneCall, Serves, Return
<1>2. CASE Fetch(t)
  BY <1>2 DEF Fetch, Serves, Return
<1>3. CASE StoreWrite(t)
  BY <1>3 DEF StoreWrite, Serves, Return
<1>4. CASE StoreCommit(t)
  BY <1>4 DEF StoreCommit, Return
<1>5. CASE ListOpen(t)
  BY <1>5 DEF ListOpen, Serves, Return
<1>6. CASE ListEntry(t)
  BY <1>6 DEF ListEntry, Return
<1>7. CASE ListEnd(t)
  BY <1>7 DEF ListEnd, Return
<1>. QED
  BY <1>1, <1>2, <1>3, <1>4, <1>5, <1>6, <1>7 DEF Handler

\* A handler's step keeps the types.
LEMMA HandlerType ==
    ASSUME TypeOK, Attached, NEW t \in Threads, Handler(t)
    PROVE  TypeOK'
<1>. DEFINE p == req[t].path
<1>. USE DEF TypeOK
<1>0. /\ UNCHANGED <<req, client, outside>> /\ pc' = [pc EXCEPT ![t] = pc'[t]]
      /\ pc'[t] \in {"commit", "list", "done"} /\ GoodCall(req[t])
  BY HandlerMoves
<1>a. pc' \in [Threads -> {"idle", "lock", "commit", "list", "done"}]
  BY <1>0
<1>b. /\ UNCHANGED <<req, cache, at, call, ret, outside>>
  BY <1>0 DEF client
<1>. SUFFICES /\ tree' \in [Names -> Kinds] /\ temps' \subseteq Names
              /\ ans' \in [Threads -> {"ok", "errno", "UNKNOWN"}]
              /\ left' \in [Threads -> SUBSET Listable]
              /\ seen' \in [Threads -> SUBSET Listable]
              /\ always' \in [Threads -> SUBSET Listable]
  BY <1>a, <1>b
<1>c. req[t].op # "ReadDir" => p \in Names
  BY <1>0 DEF GoodCall
<1>1. ASSUME NEW op, NEW succeeds, NEW kind \in Kinds, OneCall(t, op, succeeds, kind), p \in Names
      PROVE  /\ tree' \in [Names -> Kinds] /\ temps' \subseteq Names
             /\ ans' \in [Threads -> {"ok", "errno", "UNKNOWN"}]
             /\ left' \in [Threads -> SUBSET Listable]
             /\ seen' \in [Threads -> SUBSET Listable]
             /\ always' \in [Threads -> SUBSET Listable]
  <2>1. UNCHANGED <<left, seen>> /\ ans' \in [Threads -> {"ok", "errno", "UNKNOWN"}]
    BY <1>1 DEF OneCall, Return
  <2>2. CASE SetName(p, kind)
    <3>1. [tree EXCEPT ![p] = kind] \in [Names -> Kinds]
      OBVIOUS
    <3>. QED
      BY <1>1, <2>1, <2>2, <3>1, ChangeType DEF SetName
  <2>3. CASE Untouched
    BY <2>1, <2>3 DEF Untouched, server
  <2>. QED
    BY <1>1, <2>2, <2>3 DEF OneCall
<1>2. CASE MakeDir(t)
  BY <1>1, <1>2, <1>c DEF MakeDir, OneCall, Serves, Kinds
<1>3. CASE RemoveDir(t)
  BY <1>1, <1>3, <1>c DEF RemoveDir, OneCall, Serves, Kinds
<1>4. CASE Remove(t)
  BY <1>1, <1>4, <1>c DEF Remove, OneCall, Serves, Kinds
<1>5. CASE Mknod(t)
  BY <1>1, <1>5, <1>c DEF Mknod, OneCall, Serves, Kinds
<1>6. CASE Fetch(t)
  BY <1>6 DEF Fetch, Return, server
<1>7. CASE StoreWrite(t)
  <2>1. p \in Names /\ temps \union {p} \in SUBSET Names
    BY <1>7, <1>c DEF StoreWrite, Serves
  <2>2. UNCHANGED <<left, seen>>
    BY <1>7 DEF StoreWrite
  <2>3. CASE Change(tree, temps \union {p}) /\ UNCHANGED ans
    BY <2>1, <2>2, <2>3, ChangeType
  <2>4. CASE Untouched /\ Return(t, "errno")
    BY <2>2, <2>4 DEF Untouched, Return, server
  <2>. QED
    BY <1>7, <2>3, <2>4 DEF StoreWrite
<1>8. CASE StoreCommit(t)
  <2>1. p \in Names /\ temps \ {p} \in SUBSET Names
    BY <1>8, <1>c DEF StoreCommit, Attached
  <2>2. UNCHANGED <<left, seen>> /\ Return(t, "ok")
        /\ Change([tree EXCEPT ![p] = "file"], temps \ {p})
    BY <1>8 DEF StoreCommit
  <2>3. [tree EXCEPT ![p] = "file"] \in [Names -> Kinds]
    BY DEF Kinds
  <2>. QED
    BY <2>1, <2>2, <2>3, ChangeType DEF Return
<1>9. CASE ListOpen(t)
  <2>1. Entries(tree, temps, p) \in SUBSET Listable
    BY EntriesAreListable
  <2>. QED
    BY <1>9, <2>1 DEF ListOpen, Return, server
<1>10. CASE ListEntry(t)
  <2>1. PICK e \in left[t] :
          /\ left' = [left EXCEPT ![t] = @ \ {e}]
          /\ IF Sizable(e)
             THEN seen' = [seen EXCEPT ![t] = @ \union {e}] /\ UNCHANGED <<pc, ans>>
             ELSE Return(t, "UNKNOWN") /\ UNCHANGED seen
    BY <1>10 DEF ListEntry
  <2>2. e \in Listable /\ UNCHANGED <<server, always>>
    BY <1>10 DEF ListEntry
  <2>. QED
    BY <2>1, <2>2 DEF Return, server
<1>11. CASE ListEnd(t)
  BY <1>11 DEF ListEnd, Return, server
<1>. QED
  BY <1>2, <1>3, <1>4, <1>5, <1>6, <1>7, <1>8, <1>9, <1>10, <1>11 DEF Handler

\* What a handler works on stays, and so does who waits for it.
LEMMA HandlerAttached ==
    ASSUME TypeOK, Attached, NEW t \in Threads, Handler(t)
    PROVE  Attached'
<1>1. /\ UNCHANGED <<req, at, call, ret>>
      /\ \A u \in Threads : u # t => pc'[u] = pc[u]
      /\ pc'[t] \in {"commit", "list", "done"}
      /\ pc'[t] = "commit" => req[t].op = "Store"
      /\ pc'[t] = "list" => req[t].op = "ReadDir"
      /\ GoodCall(req[t])
  BY HandlerMoves DEF client, TypeOK
<1>2. \A c \in Clients : at[c] # NoThread => at[c] \in Threads
  BY DEF TypeOK
<1>. QED
  BY <1>1, <1>2 DEF Attached, GoodCall, Requests

\* A thread that is done with its call forgets it; nobody waits for it any more.
LEMMA Forgetting ==
    ASSUME TypeOK, NEW t \in Threads, Forget(t)
    PROVE  /\ pc' = [pc EXCEPT ![t] = "idle"] /\ req' = [req EXCEPT ![t] = Nothing]
           /\ pc' \in [Threads -> {"idle", "lock", "commit", "list", "done"}]
           /\ req' \in [Threads -> Requests \union {Nothing}]
           /\ ans' \in [Threads -> {"ok", "errno", "UNKNOWN"}]
           /\ {left', seen', always'} \subseteq [Threads -> SUBSET Listable]
           /\ \A u \in Threads : u # t =>
                /\ pc'[u] = pc[u] /\ req'[u] = req[u] /\ ans'[u] = ans[u]
                /\ left'[u] = left[u] /\ seen'[u] = seen[u] /\ always'[u] = always[u]
  BY DEF Forget, TypeOK

\* Two clients wait for two threads.
LEMMA OneEach ==
    ASSUME Attached, NEW c \in Clients, NEW d \in Clients, at[c] # NoThread, at[c] = at[d]
    PROVE  c = d
  BY DEF Attached

\* The callback of the kernel begins with an idle thread.
LEMMA CallbackOK ==
    ASSUME TypeOK, Attached, NEW c \in Clients, NEW op \in NsOps, NEW p \in Names \union {Root},
           Callback(c, op, p)
    PROVE  TypeOK' /\ Attached'
<1>. DEFINE r == [op |-> op, path |-> p, from |-> c]
<1>1. r \in Requests /\ GoodCall(r) /\ r.from = c
  BY DEF Callback, Requests, GoodCall
<1>2. PICK t \in Threads : /\ pc[t] = "idle"
                           /\ pc' = [pc EXCEPT ![t] = "lock"]
                           /\ req' = [req EXCEPT ![t] = r]
                           /\ at' = [at EXCEPT ![c] = t]
  BY DEF Callback, Attempt
<1>3. /\ ret[c] # "none" /\ ret' = [ret EXCEPT ![c] = "none"]
      /\ call' = [call EXCEPT ![c] = r]
      /\ UNCHANGED <<ans, left, seen, tree, temps, always, cache>>
      /\ outside' \subseteq Clients
  BY DEF Callback, server, TypeOK
<1>. HIDE DEF r
<1>4. TypeOK'
  BY <1>1, <1>2, <1>3 DEF TypeOK
<1>5. Attached'
  BY <1>1, <1>2, <1>3 DEF TypeOK, Attached
<1>. QED
  BY <1>4, <1>5

\* So does the next attempt.
LEMMA RetryOK ==
    ASSUME TypeOK, Attached, NEW c \in Clients, Retry(c)
    PROVE  TypeOK' /\ Attached'
<1>1. PICK t \in Threads : /\ pc[t] = "idle"
                           /\ pc' = [pc EXCEPT ![t] = "lock"]
                           /\ req' = [req EXCEPT ![t] = call[c]]
                           /\ at' = [at EXCEPT ![c] = t]
  BY DEF Retry, Attempt
<1>2. /\ ret[c] = "none" /\ at[c] = NoThread
      /\ UNCHANGED <<ans, left, seen, tree, temps, always, cache, call, ret, outside>>
  BY DEF Retry, server
<1>3. GoodCall(call[c]) /\ call[c] \in Requests /\ call[c].from = c
  BY <1>2 DEF Attached, GoodCall
<1>4. TypeOK'
  BY <1>1, <1>2, <1>3 DEF TypeOK
<1>5. Attached'
  BY <1>1, <1>2, <1>3 DEF TypeOK, Attached
<1>. QED
  BY <1>4, <1>5

\* What the callbacks do to the cache leaves names in it.
LEMMA CacheAfterType ==
    ASSUME TypeOK, NEW c \in Clients
    PROVE  CacheAfter(c) \in [Names -> Kinds]
<1>1. \A fs \in [Names -> Kinds] : \A q, k : k \in Kinds => [fs EXCEPT ![q] = k] \in [Names -> Kinds]
  OBVIOUS
<1>2. \A ds : \A fs \in [Names -> Kinds] : CreatePath(fs, ds) \in [Names -> Kinds]
  BY DEF CreatePath, Kinds
<1>3. cache[c] \in [Names -> Kinds] /\ OpenDirs(c) \in [Names -> Kinds]
  BY <1>2 DEF TypeOK, OpenDirs
<1>. QED
  BY <1>1, <1>2, <1>3 DEF CacheAfter, Kinds

\* The answer ends the callback.
LEMMA AnswerOK ==
    ASSUME TypeOK, Attached, NEW c \in Clients, Answer(c)
    PROVE  TypeOK' /\ Attached'
<1>1. at[c] \in Threads /\ at[c] # NoThread /\ ret[c] = "none" /\ Forget(at[c])
  BY DEF Answer, TypeOK, Attached
<1>2. /\ at' = [at EXCEPT ![c] = NoThread]
      /\ UNCHANGED <<tree, temps, outside>>
      /\ cache' = [cache EXCEPT ![c] = IF ans[at[c]] = "ok" THEN CacheAfter(c) ELSE @]
  BY DEF Answer, server
<1>3. \E local \in BOOLEAN :
        /\ local => call[c].op = "Fetch"
        /\ call' = [call EXCEPT ![c] = IF local THEN @ ELSE Nothing]
        /\ ret' = [ret EXCEPT ![c] = IF local THEN "local"
                                     ELSE IF ans[at[c]] = "ok" THEN "ok" ELSE "error"]
  BY DEF Answer
<1>4. TypeOK'
  BY <1>1, <1>2, <1>3, Forgetting, CacheAfterType DEF TypeOK
<1>5. \A d \in Clients : d # c => at[d] # at[c] /\ at'[d] = at[d] /\ ret'[d] = ret[d] /\ call'[d] = call[d]
  BY <1>1, <1>2, <1>3, OneEach DEF TypeOK
<1>6. at'[c] = NoThread /\ ret'[c] # "none" /\ (ret'[c] = "local" => call'[c].path \in Names)
  BY <1>1, <1>2, <1>3 DEF TypeOK, Attached, GoodCall
<1>7. \A u \in Threads : u # at[c] => pc'[u] = pc[u] /\ req'[u] = req[u]
  BY <1>1, Forgetting
<1>8. pc'[at[c]] = "idle"
  BY <1>1, Forgetting DEF TypeOK
<1>9. \A d \in Clients : at[d] # NoThread => at[d] \in Threads
  BY DEF TypeOK
<1>10. Attached'
  BY <1>5, <1>6, <1>7, <1>8, <1>9 DEF Attached
<1>. QED
  BY <1>4, <1>10

\* What Unavailable leaves of the clients.
LEMMA UnavailableOK ==
    ASSUME TypeOK, Attached, NEW cs \in SUBSET Clients, Unavailable(cs), UNCHANGED cache
    PROVE  /\ at' \in [Clients -> Threads \union {NoThread}]
           /\ call' \in [Clients -> Requests \union {Nothing}]
           /\ ret' \in [Clients -> {"none", "ok", "error", "local"}]
           /\ outside' = outside \union cs
           /\ \A d \in Clients : at'[d] = IF d \in cs THEN NoThread ELSE at[d]
           /\ \A d \in Clients : \/ ret'[d] = ret[d] /\ call'[d] = call[d]
                                 \/ d \in cs /\ ret'[d] = "error" /\ call'[d] = Nothing
<1>. DEFINE last == {c \in cs : tries[c] = MAX_RETRY}
<1>1. /\ at' = [c \in Clients |-> IF c \in cs THEN NoThread ELSE at[c]]
      /\ ret' = [c \in Clients |-> IF c \in last THEN "error" ELSE ret[c]]
      /\ call' = [c \in Clients |-> IF c \in last THEN Nothing ELSE call[c]]
      /\ outside' = outside \union cs
  BY DEF Unavailable
<1>2. last \subseteq cs
  OBVIOUS
<1>. HIDE DEF last
<1>3. at' \in [Clients -> Threads \union {NoThread}]
  BY <1>1 DEF TypeOK
<1>4. call' \in [Clients -> Requests \union {Nothing}]
  BY <1>1 DEF TypeOK
<1>5. ret' \in [Clients -> {"none", "ok", "error", "local"}]
  BY <1>1 DEF TypeOK
<1>6. \A d \in Clients : \/ ret'[d] = ret[d] /\ call'[d] = call[d]
                         \/ d \in cs /\ ret'[d] = "error" /\ call'[d] = Nothing
  BY <1>1, <1>2
<1>. QED
  BY <1>1, <1>3, <1>4, <1>5, <1>6

\* A connection breaks: the handler is gone, or works for nobody.
LEMMA BreakOK ==
    ASSUME TypeOK, Attached, NEW c \in Clients, Break(c)
    PROVE  TypeOK' /\ Attached'
<1>. DEFINE t == at[c]
<1>1. t \in Threads /\ t # NoThread /\ Unavailable({c}) /\ UNCHANGED <<tree, temps, cache>>
  BY DEF Break, TypeOK, server
<1>2. \A d \in Clients : d # c /\ at[d] # NoThread => at[d] # t /\ at[d] \in Threads
  BY <1>1, OneEach DEF TypeOK
<1>u. /\ at' \in [Clients -> Threads \union {NoThread}]
      /\ call' \in [Clients -> Requests \union {Nothing}]
      /\ ret' \in [Clients -> {"none", "ok", "error", "local"}]
      /\ outside' = outside \union {c}
      /\ \A d \in Clients : at'[d] = IF d \in {c} THEN NoThread ELSE at[d]
      /\ \A d \in Clients : \/ ret'[d] = ret[d] /\ call'[d] = call[d]
                            \/ d \in {c} /\ ret'[d] = "error" /\ call'[d] = Nothing
  BY <1>1, UnavailableOK
<1>3. CASE Forget(t)
  <2>1. TypeOK'
    BY <1>1, <1>u, <1>3, Forgetting DEF TypeOK
  <2>2. pc'[t] = "idle" /\ \A u \in Threads : u # t => pc'[u] = pc[u] /\ req'[u] = req[u]
    BY <1>1, <1>3, Forgetting DEF TypeOK
  <2>3. Attached'
    BY <1>1, <1>2, <2>2, <1>u DEF Attached
  <2>. QED
    BY <2>1, <2>3
<1>4. CASE /\ req' = [req EXCEPT ![t].from = Nobody]
           /\ UNCHANGED <<pc, ans, left, seen, always>>
  <2>. DEFINE r == [req[t] EXCEPT !.from = Nobody]
  <2>1. GoodCall(req[t])
    BY <1>1 DEF Attached
  <2>2. r \in Requests /\ GoodCall(r) /\ r.op = req[t].op /\ r.path = req[t].path
    BY <2>1 DEF GoodCall, Requests
  <2>3. req' = [req EXCEPT ![t] = r]
    BY <1>4
  <2>. HIDE DEF r
  <2>4. TypeOK'
    <3>1. req' \in [Threads -> Requests \union {Nothing}]
      BY <1>1, <2>2, <2>3 DEF TypeOK
    <3>2. UNCHANGED <<pc, ans, left, seen, always, tree, temps, cache>>
      BY <1>1, <1>4
    <3>. QED
      BY <3>1, <3>2, <1>u DEF TypeOK
  <2>5. req'[t] = r /\ \A u \in Threads : u # t => req'[u] = req[u]
    BY <1>1, <2>3 DEF TypeOK
  <2>6. Attached'
    <3>1. UNCHANGED pc
      BY <1>4
    <3>. QED
      BY <1>1, <1>2, <2>2, <2>5, <3>1, <1>u DEF Attached
  <2>. QED
    BY <2>4, <2>6
<1>. QED
  BY <1>1, <1>3, <1>4 DEF Break

\* Types and who works for whom are invariant.
LEMMA StepAttached == TypeOK /\ Attached /\ [Next]_vars => TypeOK' /\ Attached'
<1>. SUFFICES ASSUME TypeOK, Attached, [Next]_vars PROVE TypeOK' /\ Attached'
  OBVIOUS
<1>1. ASSUME NEW t \in Threads, Handler(t) PROVE TypeOK' /\ Attached'
  BY <1>1, HandlerType, HandlerAttached
<1>2. ASSUME NEW t \in Threads, Drop(t) PROVE TypeOK' /\ Attached'
  <2>1. /\ UNCHANGED <<tree, temps, cache, at, call, ret, outside>> /\ Forget(t)
        /\ pc[t] = "done" /\ req[t].from = Nobody
    BY <1>2 DEF Drop, server, client
  <2>2. \A d \in Clients : at[d] # NoThread => at[d] # t /\ at[d] \in Threads
    BY <2>1, NamesAssumption DEF TypeOK, Attached
  <2>3. TypeOK'
    BY <2>1, Forgetting DEF TypeOK
  <2>4. pc'[t] = "idle" /\ \A u \in Threads : u # t => pc'[u] = pc[u] /\ req'[u] = req[u]
    BY <2>1, Forgetting DEF TypeOK
  <2>5. Attached'
    BY <2>1, <2>2, <2>4 DEF Attached
  <2>. QED
    BY <2>3, <2>5
<1>3. ASSUME NEW c \in Clients, Close(c) PROVE TypeOK' /\ Attached'
  BY <1>3 DEF Close, TypeOK, Attached, server, worker
<1>4. CASE Crash
  <2>1. /\ Unavailable({c \in Clients : at[c] # NoThread}) /\ UNCHANGED <<tree, temps, cache>>
        /\ pc' = [t \in Threads |-> "idle"] /\ req' = [t \in Threads |-> Nothing]
        /\ ans' = [t \in Threads |-> "ok"]
        /\ {left', seen', always'} \subseteq {[t \in Threads |-> {}]}
    BY <1>4 DEF Crash, server
  <2>2. TypeOK'
    BY <2>1, UnavailableOK DEF TypeOK
  <2>3. Attached'
    BY <2>1, UnavailableOK DEF Attached
  <2>. QED
    BY <2>2, <2>3
<1>5. CASE UNCHANGED vars
  BY <1>5 DEF vars, server, worker, client, TypeOK, Attached
<1>. QED
  BY <1>1, <1>2, <1>3, <1>4, <1>5, CallbackOK, RetryOK, AnswerOK, BreakOK DEF Next, Quiescent
----
(***************************************************************************)
(* Listings                                                                *)
(***************************************************************************)
\* Other threads' listings have as much to account for as before, or less.
LEMMA AlwaysShrinks ==
    ASSUME TypeOK, NEW t \in Threads, Handler(t), NEW u \in Threads, u # t
    PROVE  always'[u] \subseteq always[u]
<1>1. \A tr, tm : Change(tr, tm) => always'[u] \subseteq always[u]
  BY DEF Change
<1>2. CASE MakeDir(t) \/ RemoveDir(t) \/ Remove(t) \/ Mknod(t)
  <2>1. (\E q, kind : SetName(q, kind)) \/ Untouched
    BY <1>2 DEF MakeDir, RemoveDir, Remove, Mknod, OneCall
  <2>. QED
    BY <1>1, <2>1 DEF SetName, Untouched
<1>3. CASE Fetch(t) \/ ListEntry(t) \/ ListEnd(t)
  BY <1>3 DEF Fetch, ListEntry, ListEnd
<1>4. CASE StoreWrite(t)
  BY <1>1, <1>4 DEF StoreWrite, Untouched
<1>5. CASE StoreCommit(t)
  BY <1>1, <1>5 DEF StoreCommit
<1>6. CASE ListOpen(t)
  BY <1>6 DEF ListOpen, TypeOK
<1>. QED
  BY <1>2, <1>3, <1>4, <1>5, <1>6 DEF Handler

\* ReadDir's own steps: the entries to account for are those it still has to look at and
\* those it has put into the reply; an entry that has gone is no longer among them, or
\* the call fails.
LEMMA HandlerLists ==
    ASSUME TypeOK, Attached, ListInv, NEW t \in Threads, Handler(t)
    PROVE  ListInv'
<1>0. /\ UNCHANGED req
      /\ \A u \in Threads : u # t => /\ pc'[u] = pc[u] /\ ans'[u] = ans[u] /\ left'[u] = left[u]
                                     /\ seen'[u] = seen[u] /\ always'[u] \subseteq always[u]
      /\ pc'[t] = "list" => req[t].op = "ReadDir"
  BY HandlerMoves, AlwaysShrinks DEF TypeOK
<1>. SUFFICES /\ pc'[t] = "list" => always'[t] \subseteq seen'[t] \union left'[t]
              /\ pc'[t] = "done" /\ req[t].op = "ReadDir" /\ ans'[t] = "ok" => always'[t] \subseteq seen'[t]
  BY <1>0 DEF ListInv, ListingIsComplete
<1>1. CASE MakeDir(t) \/ RemoveDir(t) \/ Remove(t) \/ Mknod(t) \/ Fetch(t) \/ StoreWrite(t)
  <2>1. req[t].op # "ReadDir"
    BY <1>1 DEF MakeDir, RemoveDir, Remove, Mknod, OneCall, Fetch, StoreWrite, Serves
  <2>. QED
    BY <1>0, <2>1
<1>2. CASE StoreCommit(t)
  BY <1>0, <1>2 DEF StoreCommit, Attached
<1>3. CASE ListOpen(t)
  BY <1>3 DEF ListOpen, Return, TypeOK
<1>4. CASE ListEntry(t)
  <2>1. pc[t] = "list" /\ UNCHANGED always
    BY <1>4 DEF ListEntry
  <2>2. PICK e \in left[t] :
          /\ left' = [left EXCEPT ![t] = @ \ {e}]
          /\ IF Sizable(e)
             THEN seen' = [seen EXCEPT ![t] = @ \union {e}] /\ UNCHANGED <<pc, ans>>
             ELSE Return(t, "UNKNOWN") /\ UNCHANGED seen
    BY <1>4 DEF ListEntry
  <2>3. CASE Sizable(e)
    BY <2>1, <2>2, <2>3 DEF ListInv, TypeOK
  <2>4. CASE ~Sizable(e)
    BY <2>1, <2>2, <2>4 DEF Return, TypeOK
  <2>. QED
    BY <2>3, <2>4
<1>5. CASE ListEnd(t)
  BY <1>5 DEF ListEnd, Return, ListInv, TypeOK
<1>. QED
  BY <1>1, <1>2, <1>3, <1>4, <1>5 DEF Handler

\* The invariant of listings.
LEMMA StepLists == TypeOK /\ Attached /\ ListInv /\ [Next]_vars => ListInv'
<1>. SUFFICES ASSUME TypeOK, Attached, ListInv, [Next]_vars PROVE ListInv'
  OBVIOUS
<1>. USE DEF ListInv, ListingIsComplete
<1>1. ASSUME NEW t \in Threads, Handler(t) PROVE ListInv'
  BY <1>1, HandlerLists
<1>2. ASSUME NEW t \in Threads, Forget(t) PROVE ListInv'
  <2>1. pc'[t] = "idle"
    BY <1>2 DEF Forget, TypeOK
  <2>. QED
    BY <1>2, <2>1, Forgetting
<1>3. ASSUME NEW c \in Clients, NEW r, Attempt(c, r), UNCHANGED <<ans, left, seen, always>>
      PROVE  ListInv'
  <2>1. PICK t \in Threads : pc' = [pc EXCEPT ![t] = "lock"] /\ req' = [req EXCEPT ![t] = r]
    BY <1>3 DEF Attempt
  <2>. QED
    BY <1>3, <2>1 DEF TypeOK
<1>4. ASSUME NEW c \in Clients, NEW op \in NsOps, NEW p \in Names \union {Root}, Callback(c, op, p)
      PROVE ListInv'
  BY <1>3, <1>4 DEF Callback
<1>5. ASSUME NEW c \in Clients, Break(c) PROVE ListInv'
  <2>1. at[c] \in Threads
    BY <1>5 DEF Break, TypeOK
  <2>2. CASE /\ req' = [req EXCEPT ![at[c]].from = Nobody]
             /\ UNCHANGED <<pc, ans, left, seen, always>>
    <3>1. \A u \in Threads : req'[u].op = req[u].op
      <4>1. req[at[c]] \in Requests
        BY <1>5, <2>1 DEF Break, Attached, GoodCall
      <4>. QED
        BY <2>2, <4>1 DEF TypeOK, Requests
    <3>. QED
      BY <2>2, <3>1
  <2>. QED
    BY <1>2, <1>5, <2>1, <2>2 DEF Break
<1>6. ASSUME NEW c \in Clients, Close(c) \/ Answer(c) \/ Retry(c) PROVE ListInv'
  BY <1>2, <1>3, <1>6 DEF Close, Answer, Retry, worker, TypeOK
<1>7. ASSUME NEW t \in Threads, Drop(t) PROVE ListInv'
  BY <1>2, <1>7 DEF Drop
<1>8. CASE Crash
  BY <1>8 DEF Crash
<1>9. CASE UNCHANGED vars
  BY <1>9 DEF vars, worker
<1>. QED
  BY <1>1, <1>4, <1>5, <1>6, <1>7, <1>8, <1>9 DEF Next, Quiescent

\* Nothing goes on at first.
LEMMA InitAttached == Init => TypeOK /\ Attached /\ ListInv
<1>. SUFFICES ASSUME Init PROVE TypeOK /\ Attached /\ ListInv
  OBVIOUS
<1>1. TypeOK
  BY DEF Init, TypeOK, Kinds, Listable
<1>2. Attached
  BY DEF Init, Attached, Root
<1>3. ListInv
  BY DEF Init, ListInv, ListingIsComplete
<1>. QED
  BY <1>1, <1>2, <1>3

\* ReadDir answers with every entry that was there while it ran, whatever handlers and
\* crashes do to the directory and whoever waits for the answer.
THEOREM ListingsAreComplete == Spec => []ListingIsComplete
<1>1. TypeOK /\ Attached /\ ListInv /\ [Next]_vars => (TypeOK /\ Attached /\ ListInv)'
  BY StepAttached, StepLists
<1>2. ListInv => ListingIsComplete
  BY DEF ListInv
<1>. QED
  BY <1>1, <1>2, InitAttached, PTL DEF Spec
----
(***************************************************************************)
(* The cache of a client after an answer                                   *)
(***************************************************************************)
Opened(fs, p) == IF fs[p] = "none" /\ IsDir(fs, Parent(p)) THEN [fs EXCEPT ![p] = "file"] ELSE fs

\* What a callback does to the cache, operation by operation.
LEMMA CacheAfterOf ==
    ASSUME NEW c \in Clients
    PROVE  LET p  == call[c].path
               fs == cache[c]
           IN  /\ call[c].op = "MakeDir" => CacheAfter(c) = CreatePath(fs, Above(p) \union {p})
               /\ call[c].op = "RemoveDir" => CacheAfter(c) = IF CanRmdir(fs, p)
                                                              THEN [fs EXCEPT ![p] = "none"] ELSE fs
               /\ call[c].op = "Mknod" => CacheAfter(c) = Opened(fs, p)
               /\ call[c].op = "Remove" => CacheAfter(c) = IF fs[p] = "file"
                                                           THEN [fs EXCEPT ![p] = "none"] ELSE fs
               /\ call[c].op = "Fetch" => CacheAfter(c) = Opened(OpenDirs(c), p)
               /\ call[c].op \in {"Store", "ReadDir"} => CacheAfter(c) = fs
  BY DEF CacheAfter, Opened
----
(***************************************************************************)
(* The tree                                                                *)
(***************************************************************************)
\* Whatever becomes of a name that is no directory and is in one, the tree stays closed.
LEMMA PutName ==
    ASSUME NEW tr \in [Names -> Kinds], Closed(tr), NEW p \in Names, NEW kind \in Kinds,
           tr[p] # "dir", IsDir(tr, Parent(p))
    PROVE  Closed([tr EXCEPT ![p] = kind])
<1>1. ASSUME NEW q \in Above(p) PROVE q \in Names /\ q # p /\ tr[q] = "dir"
  <2>1. q \in Names /\ q # p /\ q # Root
    BY AboveIsShorter
  <2>2. CASE q = Parent(p)
    BY <2>1, <2>2 DEF IsDir
  <2>3. CASE q # Parent(p)
    <3>1. Parent(p) \in Names /\ Parent(p) # Root /\ q \in Above(Parent(p))
      BY <2>3, AboveOrParent
    <3>2. tr[Parent(p)] # "none"
      BY <3>1 DEF IsDir
    <3>. QED
      BY <2>1, <3>1, <3>2 DEF Closed
  <2>. QED
    BY <2>2, <2>3
<1>2. ASSUME NEW r \in Names, r # p, tr[r] # "none", NEW q \in Above(r)
      PROVE  q \in Names /\ q # p /\ tr[q] = "dir"
  <2>1. q \in Names /\ tr[q] = "dir"
    BY <1>2, AboveIsShorter DEF Closed
  <2>. QED
    BY <2>1
<1>. QED
  BY <1>1, <1>2 DEF Closed

\* A name with nothing in it can go.
LEMMA DropName ==
    ASSUME NEW tr \in [Names -> Kinds], Closed(tr), NEW p \in Names,
           \A q \in Names : Parent(q) = p => tr[q] = "none"
    PROVE  Closed([tr EXCEPT ![p] = "none"])
<1>1. ASSUME NEW r \in Names, r # p, tr[r] # "none", NEW q \in Above(r)
      PROVE  q \in Names /\ q # p /\ tr[q] = "dir"
  <2>1. q \in Names /\ tr[q] = "dir"
    BY <1>1, AboveIsShorter DEF Closed
  <2>2. CASE q = p
    <3>1. PICK n \in Names : Parent(n) = p /\ (n = r \/ n \in Above(r))
      BY <1>1, <2>2, NextBelow
    <3>2. tr[n] # "none"
      BY <1>1, <3>1 DEF Closed
    <3>. QED
      BY <3>1, <3>2
  <2>. QED
    BY <2>1, <2>2
<1>. QED
  BY <1>1 DEF Closed

\* Only a directory has anything in it.
LEMMA FilesAreLeaves ==
    ASSUME NEW tr \in [Names -> Kinds], Closed(tr), NEW p \in Names, tr[p] # "dir",
           NEW q \in Names, Parent(q) = p
    PROVE  tr[q] = "none"
<1>1. p # Root
  BY NamesAssumption, EmptySeq DEF Root
<1>. QED
  BY <1>1, ParentIsAbove DEF Closed

\* What a handler that changes the tree does to it, by operation, and that the others leave it.
LEMMA TreeMoves ==
    ASSUME TypeOK, Attached, NEW t \in Threads, Handler(t)
    PROVE  LET p == req[t].path
           IN  \/ UNCHANGED tree /\ temps \subseteq temps'
                  /\ (pc'[t] = "done" /\ ans'[t] = "ok" => req[t].op \in {"ReadDir", "Fetch", "Mknod"})
                  /\ (pc'[t] = "done" /\ ans'[t] = "ok" /\ req[t].op = "Fetch" => tree[p] = "file")
                  /\ (pc'[t] = "done" /\ ans'[t] = "ok" /\ req[t].op = "Mknod" => ~CanMake(tree, p))
                  /\ (pc'[t] = "commit" => /\ pc[t] = "lock" /\ ExclusiveFree(p) /\ p \in temps'
                                           /\ tree[p] # "dir" /\ IsDir(tree, Parent(p)))
               \/ /\ pc[t] = "lock" /\ ExclusiveFree(p) /\ UNCHANGED temps
                  /\ pc'[t] = "done" /\ ans'[t] = "ok"
                  /\ \/ req[t].op = "MakeDir" /\ CanMake(tree, p) /\ tree' = [tree EXCEPT ![p] = "dir"]
                     \/ /\ req[t].op = "RemoveDir" /\ CanRmdir(tree, p)
                        /\ \A q \in temps : Parent(q) # p
                        /\ tree' = [tree EXCEPT ![p] = "none"]
                     \/ req[t].op = "Mknod" /\ CanMake(tree, p) /\ tree' = [tree EXCEPT ![p] = "file"]
                     \/ req[t].op = "Remove" /\ tree[p] = "file" /\ tree' = [tree EXCEPT ![p] = "none"]
               \/ /\ pc[t] = "commit" /\ req[t].op = "Store" /\ pc'[t] = "done" /\ ans'[t] = "ok"
                  /\ tree' = [tree EXCEPT ![p] = "file"] /\ temps' = temps \ {p}
<1>. USE DEF TypeOK, Attached
<1>1. CASE MakeDir(t)
  BY <1>1 DEF MakeDir, OneCall, Serves, Return, SetName, Change, Untouched, server
<1>2. CASE RemoveDir(t)
  BY <1>2 DEF RemoveDir, OneCall, Serves, Return, SetName, Change, Untouched, server
<1>3. CASE Remove(t)
  BY <1>3 DEF Remove, OneCall, Serves, Return, SetName, Change, Untouched, server
<1>4. CASE Mknod(t)
  BY <1>4 DEF Mknod, OneCall, Serves, Return, SetName, Change, Untouched, server
<1>5. CASE Fetch(t)
  BY <1>5 DEF Fetch, Serves, Return, server
<1>6. CASE StoreWrite(t)
  BY <1>6 DEF StoreWrite, Serves, Return, Change, Untouched, server
<1>7. CASE StoreCommit(t)
  BY <1>7 DEF StoreCommit, Return, Change
<1>8. CASE ListOpen(t)
  BY <1>8 DEF ListOpen, Serves, Return, server
<1>9. CASE ListEntry(t)
  BY <1>9 DEF ListEntry, Return, server
<1>10. CASE ListEnd(t)
  BY <1>10 DEF ListEnd, Return, server
<1>. QED
  BY <1>1, <1>2, <1>3, <1>4, <1>5, <1>6, <1>7, <1>8, <1>9, <1>10 DEF Handler

\* A handler's step keeps the tree in order.
LEMMA HandlerTree ==
    ASSUME TypeOK, Attached, TreeInv, NEW t \in Threads, Handler(t)
    PROVE  TreeInv'
<1>. DEFINE p == req[t].path
<1>0. /\ UNCHANGED req
      /\ \A u \in Threads : u # t => pc'[u] = pc[u]
      /\ tree \in [Names -> Kinds] /\ Closed(tree)
      /\ \A u \in Threads : pc[u] = "commit" => req[u].path \in Names
      /\ GoodCall(req[t])
  BY HandlerMoves DEF TypeOK, TreeInv, Attached, GoodCall
<1>n. \A q \in Names : q # Root
  BY NamesAssumption, EmptySeq DEF Root
<1>. SUFFICES /\ Closed(tree')
              /\ \A u \in Threads : pc'[u] = "commit" =>
                   tree'[req[u].path] # "dir" /\ req[u].path \in temps'
                     /\ IsDir(tree', Parent(req[u].path))
              /\ \A u \in Threads : u # t /\ pc'[t] = "commit" /\ pc[u] = "commit" =>
                   req[t].path # req[u].path
  BY <1>0 DEF TreeInv, Closed, IsDir
<1>1. \A u \in Threads : pc[u] = "commit" =>
        tree[req[u].path] # "dir" /\ req[u].path \in temps /\ IsDir(tree, Parent(req[u].path))
  BY DEF TreeInv
<1>2. CASE /\ UNCHANGED tree /\ temps \subseteq temps'
           /\ (pc'[t] = "commit" => /\ pc[t] = "lock" /\ ExclusiveFree(p) /\ p \in temps'
                                    /\ tree[p] # "dir" /\ IsDir(tree, Parent(p)))
  BY <1>0, <1>1, <1>2 DEF ExclusiveFree
<1>3. CASE /\ pc[t] = "lock" /\ ExclusiveFree(p) /\ UNCHANGED temps /\ pc'[t] = "done"
           /\ req[t].op \in Changing
           /\ \/ CanMake(tree, p) /\ tree' = [tree EXCEPT ![p] = "dir"]
              \/ /\ CanRmdir(tree, p)
                 /\ \A q \in temps : Parent(q) # p
                 /\ tree' = [tree EXCEPT ![p] = "none"]
              \/ CanMake(tree, p) /\ tree' = [tree EXCEPT ![p] = "file"]
              \/ tree[p] = "file" /\ tree' = [tree EXCEPT ![p] = "none"]
  <2>0. p \in Names
    BY <1>0, <1>3 DEF GoodCall, Changing
  <2>1. \A u \in Threads : pc[u] = "commit" => u # t /\ req[u].path # p
    BY <1>3 DEF ExclusiveFree
  <2>2. Closed(tree')
    <3>1. CASE CanMake(tree, p)
      BY <1>0, <1>3, <2>0, <3>1, PutName DEF CanMake, CanRmdir, Kinds
    <3>2. CASE CanRmdir(tree, p) /\ tree' = [tree EXCEPT ![p] = "none"]
      BY <1>0, <2>0, <3>2, DropName DEF CanRmdir
    <3>3. CASE tree[p] = "file" /\ tree' = [tree EXCEPT ![p] = "none"]
      BY <1>0, <2>0, <3>3, DropName, FilesAreLeaves
    <3>. QED
      BY <1>3, <3>1, <3>2, <3>3
  <2>3. ASSUME NEW u \in Threads, pc[u] = "commit"
        PROVE  tree'[req[u].path] # "dir" /\ IsDir(tree', Parent(req[u].path))
    <3>. DEFINE q == req[u].path
    <3>1. q \in Names /\ q # p /\ tree[q] # "dir" /\ q \in temps /\ IsDir(tree, Parent(q))
      BY <1>0, <1>1, <2>1, <2>3
    <3>2. tree'[q] = tree[q]
      BY <1>0, <1>3, <2>0, <3>1
    <3>3. CASE Parent(q) = Root
      BY <3>1, <3>2, <3>3 DEF IsDir
    <3>4. CASE Parent(q) # Root
      <4>1. tree[Parent(q)] = "dir" /\ Parent(q) \in Names
        BY <3>1, <3>4, ParentIsAbove, AboveIsShorter DEF IsDir
      <4>2. tree'[Parent(q)] = "dir"
        BY <1>0, <1>3, <2>0, <3>1, <4>1 DEF CanMake
      <4>. QED
        BY <3>1, <3>2, <4>2 DEF IsDir
    <3>. QED
      BY <3>3, <3>4
  <2>. QED
    BY <1>0, <1>1, <1>3, <2>1, <2>2, <2>3
<1>4. CASE /\ pc[t] = "commit" /\ pc'[t] = "done"
           /\ tree' = [tree EXCEPT ![p] = "file"] /\ temps' = temps \ {p}
  <2>1. p \in Names /\ tree[p] # "dir" /\ IsDir(tree, Parent(p))
    BY <1>0, <1>1, <1>4
  <2>2. Closed(tree')
    BY <1>0, <1>4, <2>1, PutName DEF Kinds
  <2>3. ASSUME NEW u \in Threads, pc'[u] = "commit"
        PROVE  /\ tree'[req[u].path] # "dir" /\ req[u].path \in temps'
               /\ IsDir(tree', Parent(req[u].path))
    <3>. DEFINE q == req[u].path
    <3>1. u # t /\ pc[u] = "commit" /\ q # p
      BY <1>0, <1>4, <2>3 DEF TreeInv
    <3>2. q \in Names /\ tree[q] # "dir" /\ q \in temps /\ IsDir(tree, Parent(q))
      BY <1>0, <1>1, <3>1
    <3>3. Parent(q) # p
      BY <1>n, <2>1, <3>2 DEF IsDir
    <3>4. Parent(q) = Root \/ Parent(q) \in Names
      BY <3>2, ParentIsAbove, AboveIsShorter
    <3>. QED
      BY <1>0, <1>4, <2>1, <3>1, <3>2, <3>3, <3>4 DEF IsDir
  <2>. QED
    BY <1>4, <2>2, <2>3
<1>. QED
  BY <1>2, <1>3, <1>4, TreeMoves DEF Changing

\* The tree is in order: entries are in directories, and Stores can rename.
LEMMA StepTree == TypeOK /\ Attached /\ TreeInv /\ [Next]_vars => TreeInv'
<1>. SUFFICES ASSUME TypeOK, Attached, TreeInv, [Next]_vars PROVE TreeInv'
  OBVIOUS
<1>1. ASSUME NEW t \in Threads, Handler(t) PROVE TreeInv'
  BY <1>1, HandlerTree
<1>2. ASSUME UNCHANGED <<tree, temps>>,
             \A u \in Threads : pc'[u] = "commit" => pc[u] = "commit" /\ req'[u].path = req[u].path
      PROVE  TreeInv'
  BY <1>2 DEF TreeInv, Closed, IsDir
<1>3. ASSUME NEW t \in Threads, Forget(t), UNCHANGED server PROVE TreeInv'
  <2>1. pc'[t] = "idle"
    BY <1>3, Forgetting DEF TypeOK
  <2>. QED
    BY <1>2, <1>3, <2>1, Forgetting DEF server
<1>4. ASSUME NEW c \in Clients, NEW r, Attempt(c, r), UNCHANGED server PROVE TreeInv'
  <2>1. PICK t \in Threads : pc' = [pc EXCEPT ![t] = "lock"] /\ req' = [req EXCEPT ![t] = r]
    BY <1>4 DEF Attempt
  <2>2. \A u \in Threads : pc'[u] = "commit" => pc[u] = "commit" /\ req'[u].path = req[u].path
    BY <2>1 DEF TypeOK
  <2>. QED
    BY <1>2, <1>4, <2>2 DEF server
<1>5. ASSUME NEW c \in Clients, NEW op \in NsOps, NEW p \in Names \union {Root}, Callback(c, op, p)
      PROVE TreeInv'
  BY <1>4, <1>5 DEF Callback
<1>6. ASSUME NEW c \in Clients, Break(c) PROVE TreeInv'
  <2>1. at[c] \in Threads /\ UNCHANGED server
    BY <1>6 DEF Break, TypeOK
  <2>2. CASE req' = [req EXCEPT ![at[c]].from = Nobody] /\ UNCHANGED pc
    <3>1. req[at[c]] \in Requests
      BY <1>6, <2>1 DEF Break, Attached, GoodCall
    <3>2. \A u \in Threads : req'[u].path = req[u].path
      BY <2>2, <3>1 DEF TypeOK, Requests
    <3>. QED
      BY <1>2, <2>1, <2>2, <3>2 DEF server
  <2>. QED
    BY <1>3, <1>6, <2>1, <2>2 DEF Break
<1>7. ASSUME NEW c \in Clients, Close(c) \/ Answer(c) \/ Retry(c) PROVE TreeInv'
  BY <1>2, <1>3, <1>4, <1>7 DEF Close, Answer, Retry, worker, server, TypeOK
<1>8. ASSUME NEW t \in Threads, Drop(t) PROVE TreeInv'
  BY <1>3, <1>8 DEF Drop
<1>9. CASE Crash
  BY <1>2, <1>9 DEF Crash, server
<1>10. CASE UNCHANGED vars
  BY <1>2, <1>10 DEF vars, worker, server
<1>. QED
  BY <1>1, <1>5, <1>6, <1>7, <1>8, <1>9, <1>10 DEF Next, Quiescent
----
(***************************************************************************)
(* The cache                                                               *)
(***************************************************************************)
\* A cache in step with a tree in which p can be, or is, has all the directories above p.
LEMMA MirrorAbove ==
    ASSUME NEW fs \in [Names -> Kinds], NEW tr \in [Names -> Kinds], Closed(tr), Mirrors(fs, tr),
           NEW p \in Names, IsDir(tr, Parent(p)) \/ tr[p] # "none"
    PROVE  /\ \A q \in Above(p) : q \in Names /\ q # p /\ fs[q] = "dir" /\ tr[q] = "dir"
           /\ IsDir(tr, Parent(p)) /\ IsDir(fs, Parent(p))
           /\ CreatePath(fs, Above(p)) = fs
<1>1. ASSUME NEW q \in Above(p) PROVE q \in Names /\ q # p /\ fs[q] = "dir" /\ tr[q] = "dir"
  <2>1. q \in Names /\ q # p /\ q # Root
    BY AboveIsShorter
  <2>2. tr[q] = "dir"
    <3>1. CASE tr[p] # "none" \/ q = Parent(p)
      BY <2>1, <3>1 DEF Closed, IsDir
    <3>2. CASE tr[p] = "none" /\ q # Parent(p)
      <4>1. Parent(p) \in Names /\ Parent(p) # Root /\ q \in Above(Parent(p))
        BY <3>2, AboveOrParent
      <4>2. tr[Parent(p)] # "none"
        BY <3>2, <4>1 DEF IsDir
      <4>. QED
        BY <4>1, <4>2 DEF Closed
    <3>. QED
      BY <3>1, <3>2
  <2>. QED
    BY <2>1, <2>2 DEF Mirrors
<1>2. IsDir(tr, Parent(p)) /\ IsDir(fs, Parent(p))
  BY <1>1, ParentIsAbove DEF IsDir
<1>3. CreatePath(fs, Above(p)) = fs
  <2>1. CreatePath(fs, Above(p)) =
          [q \in Names |-> IF q \in Above(p) /\ ~Blocked(fs, Above(p), q) THEN "dir" ELSE fs[q]]
    BY DEF CreatePath
  <2>2. \A q \in Names : (IF q \in Above(p) /\ ~Blocked(fs, Above(p), q) THEN "dir" ELSE fs[q]) = fs[q]
    BY <1>1
  <2>. QED
    BY <2>1, <2>2
<1>. QED
  BY <1>1, <1>2, <1>3

\* MakeDir and create_path.
LEMMA MirrorMakeDir ==
    ASSUME NEW fs \in [Names -> Kinds], NEW tr \in [Names -> Kinds], Closed(tr), Mirrors(fs, tr),
           NEW p \in Names, CanMake(tr, p)
    PROVE  Mirrors(CreatePath(fs, Above(p) \union {p}), [tr EXCEPT ![p] = "dir"])
<1>1. /\ \A q \in Above(p) : q \in Names /\ q # p /\ fs[q] = "dir" /\ tr[q] = "dir"
  BY MirrorAbove DEF CanMake
<1>2. fs[p] = "none"
  BY DEF CanMake, Mirrors, Kinds
<1>3. \A q \in Names : ~Blocked(fs, Above(p) \union {p}, q)
  BY <1>1, <1>2 DEF Blocked
<1>4. \A q \in Names : CreatePath(fs, Above(p) \union {p})[q] = IF q = p THEN "dir" ELSE fs[q]
  BY <1>1, <1>3 DEF CreatePath
<1>. QED
  BY <1>4 DEF Mirrors

\* RemoveDir and rmdir.
LEMMA MirrorRemoveDir ==
    ASSUME NEW fs \in [Names -> Kinds], NEW tr \in [Names -> Kinds], Mirrors(fs, tr),
           NEW p \in Names, CanRmdir(tr, p)
    PROVE  CanRmdir(fs, p) /\ Mirrors([fs EXCEPT ![p] = "none"], [tr EXCEPT ![p] = "none"])
<1>1. \A q \in Names : tr[q] = "none" => fs[q] = "none"
  BY DEF Mirrors, Kinds
<1>. QED
  BY <1>1 DEF CanRmdir, Mirrors

\* Mknod and mknod; and OpenFile, which creates the file it has fetched.
LEMMA MirrorMknod ==
    ASSUME NEW fs \in [Names -> Kinds], NEW tr \in [Names -> Kinds], Closed(tr), Mirrors(fs, tr),
           NEW p \in Names
    PROVE  /\ CanMake(tr, p) => Mirrors(Opened(fs, p), [tr EXCEPT ![p] = "file"])
           /\ ~CanMake(tr, p) => Mirrors(Opened(fs, p), tr)
<1>1. tr[p] = "none" => fs[p] = "none"
  BY DEF Mirrors, Kinds
<1>2. CASE CanMake(tr, p)
  <2>1. IsDir(fs, Parent(p)) /\ fs[p] = "none"
    BY <1>1, <1>2, MirrorAbove DEF CanMake
  <2>2. Opened(fs, p) = [fs EXCEPT ![p] = "file"]
    BY <2>1 DEF Opened
  <2>. QED
    BY <1>2, <2>2 DEF Mirrors
<1>3. CASE ~CanMake(tr, p)
  <2>1. CASE tr[p] = "file"
    BY <1>3, <2>1 DEF Opened, Mirrors
  <2>2. CASE tr[p] # "file"
    <3>1. Opened(fs, p) = fs
      <4>1. CASE tr[p] = "dir"
        BY <4>1 DEF Mirrors, Opened
      <4>2. CASE tr[p] = "none"
        <5>1. ~IsDir(tr, Parent(p)) /\ Parent(p) # Root
          BY <1>3, <4>2 DEF CanMake, IsDir
        <5>2. Parent(p) \in Names
          BY <5>1, ParentIsAbove, AboveIsShorter
        <5>3. ~IsDir(fs, Parent(p))
          BY <5>1, <5>2 DEF IsDir, Mirrors
        <5>. QED
          BY <5>3 DEF Opened
      <4>. QED
        BY <2>2, <4>1, <4>2 DEF Kinds
    <3>. QED
      BY <1>3, <3>1
  <2>. QED
    BY <2>1, <2>2
<1>. QED
  BY <1>2, <1>3

\* Remove and unlink.
LEMMA MirrorRemove ==
    ASSUME NEW fs \in [Names -> Kinds], NEW tr \in [Names -> Kinds], Mirrors(fs, tr),
           NEW p \in Names, tr[p] = "file"
    PROVE  Mirrors(IF fs[p] = "file" THEN [fs EXCEPT ![p] = "none"] ELSE fs, [tr EXCEPT ![p] = "none"])
<1>1. fs[p] = "file" \/ fs[p] = "none"
  BY DEF Mirrors, Kinds
<1>2. CASE fs[p] = "file"
  BY <1>2 DEF Mirrors
<1>3. CASE fs[p] = "none"
  BY <1>3 DEF Mirrors
<1>. QED
  BY <1>1, <1>2, <1>3

\* Store; the cache has the file already, or does not need it.
LEMMA MirrorStore ==
    ASSUME NEW fs \in [Names -> Kinds], NEW tr \in [Names -> Kinds], Mirrors(fs, tr),
           NEW p \in Names, tr[p] # "dir"
    PROVE  Mirrors(fs, [tr EXCEPT ![p] = "file"])
  BY DEF Mirrors

\* A handler that works for a client leaves the tree in step with the client's cache, or
\* with what the client is about to make of it.
LEMMA HandlerMirrors ==
    ASSUME TypeOK, Attached, TreeInv, NEW t \in Threads, Handler(t),
           NEW c \in Clients, req[t] = call[c], Mirrors(cache[c], tree)
    PROVE  Mirrors(IF pc'[t] = "done" /\ ans'[t] = "ok" THEN CacheAfter(c) ELSE cache[c], tree')
<1>. DEFINE p  == call[c].path
            fs == cache[c]
            op == call[c].op
<1>0. /\ GoodCall(call[c]) /\ op \in NsOps /\ (op # "ReadDir" => p \in Names)
      /\ fs \in [Names -> Kinds] /\ tree \in [Names -> Kinds] /\ Closed(tree)
      /\ tree' \in [Names -> Kinds]
  BY HandlerMoves, HandlerType DEF TypeOK, TreeInv, GoodCall, Requests
<1>1. /\ op = "MakeDir" => CacheAfter(c) = CreatePath(fs, Above(p) \union {p})
      /\ op = "RemoveDir" => CacheAfter(c) = IF CanRmdir(fs, p) THEN [fs EXCEPT ![p] = "none"] ELSE fs
      /\ op = "Mknod" => CacheAfter(c) = Opened(fs, p)
      /\ op = "Remove" => CacheAfter(c) = IF fs[p] = "file" THEN [fs EXCEPT ![p] = "none"] ELSE fs
      /\ op = "Fetch" => CacheAfter(c) = Opened(OpenDirs(c), p)
      /\ op \in {"Store", "ReadDir"} => CacheAfter(c) = fs
  BY CacheAfterOf
<1>2. CASE /\ UNCHANGED tree
           /\ (pc'[t] = "done" /\ ans'[t] = "ok" => op \in {"ReadDir", "Fetch", "Mknod"})
           /\ (pc'[t] = "done" /\ ans'[t] = "ok" /\ op = "Fetch" => tree[p] = "file")
           /\ (pc'[t] = "done" /\ ans'[t] = "ok" /\ op = "Mknod" => ~CanMake(tree, p))
  <2>1. CASE ~(pc'[t] = "done" /\ ans'[t] = "ok") \/ op = "ReadDir"
    BY <1>1, <1>2, <2>1
  <2>2. CASE pc'[t] = "done" /\ ans'[t] = "ok" /\ op = "Mknod"
    <3>1. CacheAfter(c) = Opened(fs, p) /\ p \in Names /\ ~CanMake(tree, p)
      BY <1>0, <1>1, <1>2, <2>2
    <3>2. Mirrors(Opened(fs, p), tree)
      BY <1>0, <3>1, MirrorMknod
    <3>. QED
      BY <1>2, <2>2, <3>1, <3>2
  <2>3. CASE pc'[t] = "done" /\ ans'[t] = "ok" /\ op = "Fetch"
    <3>1. tree[p] = "file" /\ ~CanMake(tree, p) /\ p \in Names
      BY <1>0, <1>2, <2>3 DEF CanMake
    <3>2. OpenDirs(c) = fs
      BY <1>0, <3>1, MirrorAbove DEF OpenDirs
    <3>3. Mirrors(Opened(fs, p), tree)
      BY <1>0, <3>1, MirrorMknod
    <3>. QED
      BY <1>1, <1>2, <2>3, <3>2, <3>3
  <2>. QED
    BY <1>2, <2>1, <2>2, <2>3
<1>3. CASE /\ pc'[t] = "done" /\ ans'[t] = "ok" /\ p \in Names
           /\ \/ op = "MakeDir" /\ CanMake(tree, p) /\ tree' = [tree EXCEPT ![p] = "dir"]
              \/ op = "RemoveDir" /\ CanRmdir(tree, p) /\ tree' = [tree EXCEPT ![p] = "none"]
              \/ op = "Mknod" /\ CanMake(tree, p) /\ tree' = [tree EXCEPT ![p] = "file"]
              \/ op = "Remove" /\ tree[p] = "file" /\ tree' = [tree EXCEPT ![p] = "none"]
              \/ op = "Store" /\ tree[p] # "dir" /\ tree' = [tree EXCEPT ![p] = "file"]
  <2>1. Mirrors(CacheAfter(c), tree')
    <3>1. CASE op = "MakeDir"
      BY <1>0, <1>1, <1>3, <3>1, MirrorMakeDir
    <3>2. CASE op = "RemoveDir"
      <4>1. CanRmdir(tree, p) /\ tree' = [tree EXCEPT ![p] = "none"]
        BY <1>3, <3>2
      <4>2. CanRmdir(fs, p) /\ Mirrors([fs EXCEPT ![p] = "none"], [tree EXCEPT ![p] = "none"])
        BY <1>0, <1>3, <4>1, MirrorRemoveDir
      <4>3. CacheAfter(c) = [fs EXCEPT ![p] = "none"]
        BY <1>1, <3>2, <4>2
      <4>. QED
        BY <4>1, <4>2, <4>3
    <3>3. CASE op = "Mknod"
      BY <1>0, <1>1, <1>3, <3>3, MirrorMknod
    <3>4. CASE op = "Remove"
      <4>1. tree[p] = "file" /\ tree' = [tree EXCEPT ![p] = "none"]
        BY <1>3, <3>4
      <4>2. Mirrors(IF fs[p] = "file" THEN [fs EXCEPT ![p] = "none"] ELSE fs,
                    [tree EXCEPT ![p] = "none"])
        BY <1>0, <1>3, <4>1, MirrorRemove
      <4>3. CacheAfter(c) = IF fs[p] = "file" THEN [fs EXCEPT ![p] = "none"] ELSE fs
        BY <1>1, <3>4
      <4>. QED
        BY <4>1, <4>2, <4>3
    <3>5. CASE op = "Store"
      BY <1>0, <1>1, <1>3, <3>5, MirrorStore
    <3>. QED
      BY <1>3, <3>1, <3>2, <3>3, <3>4, <3>5
  <2>. QED
    BY <1>3, <2>1
<1>4. req[t].path = p /\ req[t].op = op
  OBVIOUS
<1>5. pc[t] = "commit" => tree[p] # "dir"
  BY DEF TreeInv
<1>6. \A o \in NsOps : o \in {"MakeDir", "RemoveDir", "Mknod", "Remove", "Store"} => o # "ReadDir"
  OBVIOUS
<1>. HIDE DEF p, op, fs
<1>. QED
  BY <1>0, <1>2, <1>3, <1>4, <1>5, <1>6, TreeMoves

\* The caches are in step: handlers.
LEMMA HandlerKeepsMirrors ==
    ASSUME TypeOK, Attached, TreeInv, MirrorInv, NEW t \in Threads, Handler(t),
           NEW c \in Clients, c \notin outside
    PROVE  Undisturbed(c)'
<1>0. /\ UNCHANGED <<req, cache, at, call, ret>>
      /\ \A u \in Threads : u # t => pc'[u] = pc[u] /\ ans'[u] = ans[u]
      /\ pc[t] \in {"lock", "commit", "list"} /\ GoodCall(req[t])
  BY HandlerMoves DEF client, TypeOK
<1>1. /\ ret[c] = "none" => at[c] # NoThread
      /\ \A d \in Clients \ {c} : ret[d] = "none" => call[d].op \notin Changing
      /\ \A u \in Threads : pc[u] # "idle" /\ req[u].op \in Changing => at[c] = u
      /\ Mirrors(IF Succeeding(c) THEN CacheAfter(c) ELSE cache[c], tree)
  BY DEF MirrorInv, Undisturbed
<1>2. CacheAfter(c)' = CacheAfter(c)
  BY <1>0 DEF CacheAfter, OpenDirs
<1>3. at[c] # NoThread => at[c] \in Threads
  BY DEF TypeOK
<1>4. Mirrors(IF Succeeding(c)' THEN CacheAfter(c) ELSE cache[c], tree')
  <2>1. CASE at[c] = t
    <3>1. ~Succeeding(c) /\ req[t] = call[c]
      BY <1>0, <2>1, NamesAssumption DEF Succeeding, Attached
    <3>2. Succeeding(c)' <=> pc'[t] = "done" /\ ans'[t] = "ok"
      BY <1>0, <2>1, NamesAssumption DEF Succeeding
    <3>3. Mirrors(cache[c], tree)
      BY <1>1, <3>1
    <3>. QED
      BY <3>1, <3>2, <3>3, HandlerMirrors
  <2>2. CASE at[c] # t
    <3>1. req[t].op \notin Changing
      BY <1>0, <1>1, <2>2
    <3>2. UNCHANGED tree
      BY <1>0, <3>1, TreeMoves DEF Changing, GoodCall
    <3>3. Succeeding(c)' <=> Succeeding(c)
      BY <1>0, <1>3, <2>2 DEF Succeeding
    <3>. QED
      BY <1>1, <3>2, <3>3
  <2>. QED
    BY <2>1, <2>2
<1>5. \A u \in Threads : pc'[u] # "idle" => pc[u] # "idle"
  BY <1>0
<1>. QED
  BY <1>0, <1>1, <1>2, <1>4, <1>5 DEF Undisturbed, Mirrors

\* What keeps an undisturbed client so: a step that leaves the tree, its cache, call and
\* thread alone, starts no changing call and lets no other client have one.
LEMMA StillUndisturbed ==
    ASSUME TypeOK, NEW c \in Clients, Undisturbed(c),
           UNCHANGED <<tree, cache>>, at'[c] = at[c], ret'[c] = ret[c], call'[c] = call[c],
           at[c] # NoThread => pc'[at[c]] = pc[at[c]] /\ ans'[at[c]] = ans[at[c]],
           \A d \in Clients \ {c} : ret'[d] = "none" /\ call'[d].op \in Changing =>
                                    ret[d] = "none" /\ call[d].op \in Changing,
           \A u \in Threads : pc'[u] # "idle" /\ req'[u].op \in Changing =>
                              pc[u] # "idle" /\ req[u].op \in Changing
    PROVE  Undisturbed(c)'
<1>1. CacheAfter(c)' = CacheAfter(c)
  BY DEF CacheAfter, OpenDirs
<1>2. Succeeding(c)' <=> Succeeding(c)
  BY DEF Succeeding
<1>. QED
  BY <1>1, <1>2 DEF Undisturbed, Mirrors

\* A client that is not in a call is in step, and no call changes the tree.
LEMMA BetweenCalls ==
    ASSUME TypeOK, Attached, NEW c \in Clients, Undisturbed(c), at[c] = NoThread
    PROVE  /\ Mirrors(cache[c], tree)
           /\ \A u \in Threads : ~(pc[u] # "idle" /\ req[u].op \in Changing)
  BY NamesAssumption DEF Undisturbed, Succeeding

\* The caches are in step: a thread forgets the call of somebody else.
LEMMA ForgettingKeepsMirrors ==
    ASSUME TypeOK, Attached, NEW t \in Threads, Forget(t), UNCHANGED <<tree, cache>>,
           NEW c \in Clients, Undisturbed(c), at[c] # t,
           at'[c] = at[c], ret'[c] = ret[c], call'[c] = call[c],
           \A d \in Clients \ {c} : ret'[d] = "none" => ret[d] = "none" /\ call'[d] = call[d]
    PROVE  Undisturbed(c)'
<1>1. at[c] # NoThread => at[c] \in Threads
  BY DEF TypeOK
<1>2. pc'[t] = "idle" /\ \A u \in Threads : u # t => /\ pc'[u] = pc[u] /\ ans'[u] = ans[u]
                                                    /\ req'[u] = req[u]
  BY Forgetting DEF TypeOK
<1>. QED
  BY <1>1, <1>2, StillUndisturbed

\* The caches are in step: callbacks and attempts.
LEMMA AskingKeepsMirrors ==
    ASSUME TypeOK, Attached, MirrorInv, NEW d \in Clients,
           NEW r \in Requests, NEW t \in Threads, pc[t] = "idle",
           pc' = [pc EXCEPT ![t] = "lock"], req' = [req EXCEPT ![t] = r],
           at' = [at EXCEPT ![d] = t], ret' = [ret EXCEPT ![d] = "none"],
           call' = [call EXCEPT ![d] = r], UNCHANGED <<tree, cache, ans>>,
           at[d] = NoThread, ret[d] = "none" => call[d] = r,
           NEW c \in Clients, c \notin outside,
           c = d => ret[d] # "none",
           ret[d] # "none" /\ r.op \in Changing => c = d
    PROVE  Undisturbed(c)'
<1>0. Undisturbed(c) /\ (at[c] # NoThread => at[c] \in Threads /\ pc[at[c]] # "idle")
  BY DEF MirrorInv, TypeOK, Attached
<1>t. t # NoThread
  BY NamesAssumption
<1>1. CASE c = d
  <2>1. /\ Mirrors(cache[c], tree)
        /\ \A u \in Threads : ~(pc[u] # "idle" /\ req[u].op \in Changing)
    BY <1>0, <1>1, BetweenCalls
  <2>2. at'[c] = t /\ pc'[t] = "lock"
    BY <1>1 DEF TypeOK
  <2>3. ~Succeeding(c)'
    BY <2>2 DEF Succeeding
  <2>4. \A u \in Threads : pc'[u] # "idle" /\ req'[u].op \in Changing => at'[c] = u
    BY <2>1, <2>2 DEF TypeOK
  <2>5. \A e \in Clients \ {c} : ret'[e] = "none" => call'[e].op \notin Changing
    BY <1>0, <1>1 DEF Undisturbed, TypeOK
  <2>. QED
    BY <1>t, <2>1, <2>2, <2>3, <2>4, <2>5 DEF Undisturbed, Mirrors
<1>2. CASE c # d
  <2>1. r.op \notin Changing
    BY <1>0, <1>2 DEF Undisturbed
  <2>2. at'[c] = at[c] /\ ret'[c] = ret[c] /\ call'[c] = call[c] /\ UNCHANGED <<tree, cache>>
    BY <1>2 DEF TypeOK
  <2>3. at[c] # NoThread => pc'[at[c]] = pc[at[c]] /\ ans'[at[c]] = ans[at[c]]
    BY <1>0 DEF TypeOK
  <2>4. \A e \in Clients \ {c} : ret'[e] = "none" /\ call'[e].op \in Changing =>
                                 ret[e] = "none" /\ call[e].op \in Changing
    BY <2>1 DEF TypeOK
  <2>5. \A u \in Threads : pc'[u] # "idle" /\ req'[u].op \in Changing =>
                           pc[u] # "idle" /\ req[u].op \in Changing
    BY <2>1 DEF TypeOK
  <2>. QED
    BY <1>0, <2>2, <2>3, <2>4, <2>5, StillUndisturbed
<1>. QED
  BY <1>1, <1>2

\* The caches are in step: an answer; the one of the client itself brings its cache up to
\* the tree.
LEMMA AnswerKeepsMirrors ==
    ASSUME TypeOK, Attached, MirrorInv, NEW d \in Clients, Answer(d),
           NEW c \in Clients, c \notin outside
    PROVE  Undisturbed(c)'
<1>0. /\ Undisturbed(c) /\ at[d] \in Threads /\ at[d] # NoThread /\ pc[at[d]] = "done"
      /\ Forget(at[d]) /\ UNCHANGED tree /\ ret[d] = "none"
      /\ at' = [at EXCEPT ![d] = NoThread]
      /\ cache' = [cache EXCEPT ![d] = IF ans[at[d]] = "ok" THEN CacheAfter(d) ELSE @]
  BY DEF Answer, MirrorInv, TypeOK, server, Attached
<1>1. /\ ret'[d] # "none"
      /\ \A e \in Clients : e # d => ret'[e] = ret[e] /\ call'[e] = call[e]
  BY DEF Answer, TypeOK
<1>2. CASE c = d
  <2>1. /\ at'[c] = NoThread /\ cache'[c] = IF Succeeding(c) THEN CacheAfter(c) ELSE cache[c]
    BY <1>0, <1>2 DEF TypeOK, Succeeding
  <2>2. Mirrors(cache'[c], tree')
    BY <1>0, <2>1 DEF Undisturbed, Mirrors
  <2>3. ~Succeeding(c)'
    BY <2>1 DEF Succeeding
  <2>4. pc'[at[c]] = "idle" /\ \A u \in Threads : u # at[c] => pc'[u] = pc[u] /\ req'[u] = req[u]
    BY <1>0, <1>2, Forgetting DEF TypeOK
  <2>5. \A u \in Threads : ~(pc'[u] # "idle" /\ req'[u].op \in Changing)
    BY <1>0, <2>4 DEF Undisturbed
  <2>6. \A e \in Clients \ {c} : ret'[e] = "none" => call'[e].op \notin Changing
    BY <1>0, <1>1, <1>2 DEF Undisturbed
  <2>. QED
    BY <1>1, <1>2, <2>2, <2>3, <2>5, <2>6 DEF Undisturbed, Mirrors
<1>3. CASE c # d
  <2>1. at[c] # at[d]
    BY <1>0, <1>3, OneEach
  <2>2. at'[c] = at[c] /\ ret'[c] = ret[c] /\ call'[c] = call[c]
    BY <1>0, <1>1, <1>3 DEF TypeOK
  <2>3. cache'[c] = cache[c]
    BY <1>0, <1>3 DEF TypeOK
  <2>4. pc'[at[d]] = "idle" /\ \A u \in Threads : u # at[d] => /\ pc'[u] = pc[u] /\ ans'[u] = ans[u]
                                                               /\ req'[u] = req[u]
    BY <1>0, Forgetting DEF TypeOK
  <2>5. CacheAfter(c)' = CacheAfter(c)
    BY <2>2, <2>3 DEF CacheAfter, OpenDirs
  <2>6. Succeeding(c)' <=> Succeeding(c)
    BY <2>1, <2>2, <2>4 DEF Succeeding, TypeOK
  <2>7. Mirrors(IF Succeeding(c) THEN CacheAfter(c) ELSE cache[c], tree)
    BY <1>0 DEF Undisturbed
  <2>8. Mirrors(IF Succeeding(c)' THEN CacheAfter(c)' ELSE cache'[c], tree')
    BY <1>0, <2>3, <2>5, <2>6, <2>7
  <2>9. \A e \in Clients \ {c} : ret'[e] = "none" => call'[e].op \notin Changing
    BY <1>0, <1>1 DEF Undisturbed
  <2>10. \A u \in Threads : pc'[u] # "idle" /\ req'[u].op \in Changing => at'[c] = u
    BY <1>0, <2>2, <2>4 DEF Undisturbed
  <2>11. ret'[c] = "none" => at'[c] # NoThread
    BY <1>0, <2>2 DEF Undisturbed
  <2>. QED
    BY <2>8, <2>9, <2>10, <2>11 DEF Undisturbed, Mirrors
<1>. QED
  BY <1>2, <1>3

\* The caches are in step: a connection breaks, which puts its client outside.
LEMMA BreakKeepsMirrors ==
    ASSUME TypeOK, Attached, MirrorInv, NEW d \in Clients, Break(d),
           NEW c \in Clients, c \notin outside'
    PROVE  Undisturbed(c)'
<1>. DEFINE t == at[d]
<1>1. t \in Threads /\ t # NoThread /\ Unavailable({d}) /\ UNCHANGED <<tree, temps, cache>>
  BY DEF Break, TypeOK, server
<1>2. /\ outside' = outside \union {d}
      /\ \A e \in Clients : at'[e] = IF e \in {d} THEN NoThread ELSE at[e]
      /\ \A e \in Clients : \/ ret'[e] = ret[e] /\ call'[e] = call[e]
                            \/ e \in {d} /\ ret'[e] = "error" /\ call'[e] = Nothing
  BY <1>1, UnavailableOK
<1>3. c # d /\ c \notin outside /\ Undisturbed(c) /\ at'[c] = at[c]
  BY <1>2 DEF MirrorInv
<1>4. ret'[c] = ret[c] /\ call'[c] = call[c] /\ at[c] # t
  BY <1>1, <1>2, <1>3, OneEach
<1>5. \A e \in Clients : ret'[e] = "none" => ret[e] = "none" /\ call'[e] = call[e]
  BY <1>2
<1>6. CASE Forget(t)
  BY <1>1, <1>3, <1>4, <1>5, <1>6, ForgettingKeepsMirrors
<1>7. CASE req' = [req EXCEPT ![t].from = Nobody] /\ UNCHANGED <<pc, ans>>
  <2>1. req[t] \in Requests
    BY <1>1 DEF Attached, GoodCall
  <2>2. \A u \in Threads : req'[u].op = req[u].op
    BY <1>1, <1>7, <2>1 DEF TypeOK, Requests
  <2>. QED
    BY <1>1, <1>3, <1>4, <1>5, <1>7, <2>2, StillUndisturbed
<1>. QED
  BY <1>6, <1>7 DEF Break

\* The caches of undisturbed clients are in step.
LEMMA StepMirrors == TypeOK /\ Attached /\ TreeInv /\ MirrorInv /\ [Next]_vars => MirrorInv'
<1>. SUFFICES ASSUME TypeOK, Attached, TreeInv, MirrorInv, [Next]_vars,
                     NEW c \in Clients, c \notin outside'
              PROVE  Undisturbed(c)'
  BY DEF MirrorInv
<1>1. ASSUME NEW t \in Threads, Handler(t) PROVE Undisturbed(c)'
  BY <1>1, HandlerMoves, HandlerKeepsMirrors
<1>2. ASSUME NEW t \in Threads, Drop(t) PROVE Undisturbed(c)'
  <2>1. /\ UNCHANGED <<tree, cache, at, call, ret, outside>> /\ Forget(t)
        /\ pc[t] = "done" /\ req[t].from = Nobody
    BY <1>2 DEF Drop, server, client
  <2>2. at[c] # t /\ Undisturbed(c)
    BY <2>1, NamesAssumption DEF Attached, MirrorInv
  <2>. QED
    BY <2>1, <2>2, ForgettingKeepsMirrors
<1>3. ASSUME NEW d \in Clients, NEW op \in NsOps, NEW p \in Names \union {Root}, Callback(d, op, p)
      PROVE  Undisturbed(c)'
  <2>. DEFINE r == [op |-> op, path |-> p, from |-> d]
  <2>1. r \in Requests /\ r.op = op
    BY DEF Requests
  <2>2. /\ ret[d] # "none" /\ Attempt(d, r) /\ ret' = [ret EXCEPT ![d] = "none"]
        /\ call' = [call EXCEPT ![d] = r]
        /\ outside' = outside \union (IF op \in Changing THEN Clients \ {d} ELSE {})
        /\ UNCHANGED <<tree, cache, ans>>
    BY <1>3 DEF Callback, server
  <2>. HIDE DEF r
  <2>3. PICK t \in Threads : /\ pc[t] = "idle" /\ pc' = [pc EXCEPT ![t] = "lock"]
                             /\ req' = [req EXCEPT ![t] = r] /\ at' = [at EXCEPT ![d] = t]
    BY <2>2 DEF Attempt
  <2>4. at[d] = NoThread /\ c \notin outside /\ (r.op \in Changing => c = d)
    BY <2>1, <2>2 DEF Attached
  <2>. QED
    BY <2>1, <2>2, <2>3, <2>4, AskingKeepsMirrors
<1>4. ASSUME NEW d \in Clients, Retry(d) PROVE Undisturbed(c)'
  <2>1. /\ ret[d] = "none" /\ at[d] = NoThread /\ Attempt(d, call[d])
        /\ UNCHANGED <<tree, cache, ans, ret, call, outside>>
    BY <1>4 DEF Retry, server
  <2>2. call[d] \in Requests
    BY <2>1 DEF Attached, GoodCall
  <2>3. PICK t \in Threads : /\ pc[t] = "idle" /\ pc' = [pc EXCEPT ![t] = "lock"]
                             /\ req' = [req EXCEPT ![t] = call[d]] /\ at' = [at EXCEPT ![d] = t]
    BY <2>1 DEF Attempt
  <2>4. ret' = [ret EXCEPT ![d] = "none"] /\ call' = [call EXCEPT ![d] = call[d]]
    BY <2>1 DEF TypeOK
  <2>5. c \notin outside /\ c # d
    BY <2>1 DEF MirrorInv, Undisturbed
  <2>. QED
    BY <2>1, <2>2, <2>3, <2>4, <2>5, AskingKeepsMirrors
<1>5. ASSUME NEW d \in Clients, Close(d) PROVE Undisturbed(c)'
  <2>1. UNCHANGED <<tree, pc, req, ans, cache, at, call, ret, outside>>
    BY <1>5 DEF Close, server, worker
  <2>2. Undisturbed(c)
    BY <2>1 DEF MirrorInv
  <2>. QED
    BY <2>1, <2>2, StillUndisturbed
<1>6. ASSUME NEW d \in Clients, Answer(d) PROVE Undisturbed(c)'
  BY <1>6, AnswerKeepsMirrors DEF Answer
<1>7. ASSUME NEW d \in Clients, Break(d) PROVE Undisturbed(c)'
  BY <1>7, BreakKeepsMirrors
<1>8. CASE Crash
  <2>. DEFINE cs == {d \in Clients : at[d] # NoThread}
  <2>1. Unavailable(cs) /\ UNCHANGED <<tree, cache>> /\ pc' = [t \in Threads |-> "idle"]
    BY <1>8 DEF Crash, server
  <2>2. /\ outside' = outside \union cs
        /\ \A e \in Clients : at'[e] = IF e \in cs THEN NoThread ELSE at[e]
        /\ \A e \in Clients : \/ ret'[e] = ret[e] /\ call'[e] = call[e]
                              \/ e \in cs /\ ret'[e] = "error" /\ call'[e] = Nothing
    BY <2>1, UnavailableOK
  <2>3. c \notin outside /\ Undisturbed(c) /\ at[c] = NoThread /\ at'[c] = NoThread /\ ret'[c] = ret[c]
    BY <2>2 DEF MirrorInv
  <2>4. Mirrors(cache[c], tree) /\ ret[c] # "none"
    BY <2>3, BetweenCalls DEF Undisturbed
  <2>5. \A d \in Clients \ {c} : ret'[d] = "none" => call'[d].op \notin Changing
    BY <2>2, <2>3 DEF Undisturbed
  <2>6. ~Succeeding(c)'
    BY <2>3 DEF Succeeding
  <2>. QED
    BY <2>1, <2>3, <2>4, <2>5, <2>6 DEF Undisturbed, Mirrors
<1>9. CASE UNCHANGED vars
  <2>1. UNCHANGED <<tree, pc, req, ans, cache, at, call, ret, outside>>
    BY <1>9 DEF vars, server, worker, client
  <2>2. Undisturbed(c)
    BY <2>1 DEF MirrorInv
  <2>. QED
    BY <2>1, <2>2, StillUndisturbed
<1>. QED
  BY <1>1, <1>2, <1>3, <1>4, <1>5, <1>6, <1>7, <1>8, <1>9 DEF Next, Quiescent

\* An empty tree, and caches as empty.
LEMMA InitMirrors == Init => TreeInv /\ MirrorInv
<1>. SUFFICES ASSUME Init PROVE TreeInv /\ MirrorInv
  OBVIOUS
<1>1. TreeInv
  BY DEF Init, TreeInv, Closed
<1>2. MirrorInv
  BY DEF Init, MirrorInv, Undisturbed, Mirrors, Succeeding
<1>. QED
  BY <1>1, <1>2

\* As long as no other client changes the tree and no connection breaks, a client's cache
\* directory is in step with the server's tree between callbacks, though the client
\* ignores what its own system calls return.
THEOREM CachesMirrorTheTree == Spec => []CacheMirrorsTree
<1>. DEFINE IInv == TypeOK /\ Attached /\ TreeInv /\ MirrorInv
<1>1. IInv /\ [Next]_vars => IInv'
  BY StepAttached, StepTree, StepMirrors
<1>2. IInv => CacheMirrorsTree
  <2>. SUFFICES ASSUME IInv, NEW c \in Clients, c \notin outside, ret[c] # "none"
                PROVE  Mirrors(cache[c], tree)
    BY DEF CacheMirrorsTree, Mirrors
  <2>1. at[c] = NoThread /\ Undisturbed(c)
    BY DEF Attached, MirrorInv
  <2>. QED
    BY <2>1, BetweenCalls
<1>3. Init => IInv
  BY InitAttached, InitMirrors
<1>. QED
  BY <1>1, <1>2, <1>3, PTL DEF Spec
====
