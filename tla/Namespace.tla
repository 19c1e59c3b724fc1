---- MODULE Namespace ----
(***************************************************************************)
(* Directories: the server's handlers MakeDir, RemoveDir and ReadDir        *)
(* (P2/src/server.cc) with the file handlers as far as they make, move or    *)
(* remove names, and the cache directory each client keeps in step with the *)
(* server's tree (P2/src/afs_client.h): create_path, mknod, rmdir and unlink *)
(* after the server has answered.                                           *)
(*                                                                         *)
(* A name is a sequence of components and is nothing, a directory or a       *)
(* file; what files contain is FileServer's and AfsClient's subject.  A       *)
(* handler holds the lock of its path from its first step to its last; one   *)
(* with a single system call is a single step.                               *)
(***************************************************************************)
EXTENDS Naturals, Sequences, FiniteSets

CONSTANTS
    Names,       \* the names below the root, closed under parents
    Clients,
    Streaming,   \* the clients built with PERFORMANCE: OpenFileWithStream
    Threads,     \* the threads of the gRPC server
    NoThread,
    Nobody,      \* the client of a handler whose client has gone
    MAX_RETRY,   \* the attempts of a call
    MaxCalls,    \* bound: the callbacks that change or read the tree
    MaxBreaks,   \* bound: the calls whose connection breaks
    MaxCrashes   \* bound: the crashes of the server process

Root      == <<>>
Parent(p) == SubSeq(p, 1, Len(p) - 1)
\* The directories a path leads through, the root aside.
Above(p)  == {SubSeq(p, 1, i) : i \in 1 .. Len(p) - 1}

Components == UNION {{p[i] : i \in 1 .. Len(p)} : p \in Names}

ASSUME NamesAssumption ==
    /\ Names \subseteq Seq(Components)
    /\ \A p \in Names : Len(p) > 0 /\ Above(p) \subseteq Names
    /\ Streaming \subseteq Clients
    /\ NoThread \notin Threads
    /\ Nobody \notin Clients
    /\ MAX_RETRY \in Nat \ {0}

VARIABLES
    tree,     \* tree[p]: "none", "dir" or "file", below the storage root
    temps,    \* the p whose temporary file p.afs_tmp exists
    pc,       \* pc[t]: "idle", "lock", "commit", "list" or "done"
    req,      \* req[t]: the request t serves
    ans,      \* ans[t]: "ok", "errno" or "UNKNOWN"
    left,     \* left[t]: the directory entries ReadDir has still to look at
    seen,     \* seen[t]: those it has put into the reply
    always,   \* history: always[t]: the entries there since t began to list
    cache,    \* cache[c][p]: what the client's cache directory holds
    at,       \* at[c]: the thread that serves the attempt c waits for
    call,     \* call[c]: the callback c is in, or the one that failed locally
    tries,    \* tries[c]: its attempts so far
    ret,      \* ret[c]: "none" in a callback; what the last one returned: "ok",
              \* "error", or "local" for an error after the server's success
    open,     \* open[c]: the file c holds open, the root for none
    outside,  \* history: the clients whom another's call or a break has overtaken
    count     \* the callbacks, breaks and crashes so far

server == <<tree, temps>>
worker == <<pc, req, ans, left, seen>>
client == <<cache, at, call, tries, ret, open>>
vars   == <<server, worker, always, client, outside, count>>

Changing == {"MakeDir", "RemoveDir", "Mknod", "Remove", "Store"}
NsOps    == Changing \union {"ReadDir", "Fetch"}
Nothing  == [op |-> "none", path |-> Root, from |-> Nobody]
----
(***************************************************************************)
(* The file system under a directory                                       *)
(***************************************************************************)
IsDir(fs, p) == p = Root \/ fs[p] = "dir"

\* mkdir(2) and mknod(2) find the parent and no entry.
CanMake(fs, p) == IsDir(fs, Parent(p)) /\ fs[p] = "none"

\* rmdir(2) finds an empty directory.
CanRmdir(fs, p) == fs[p] = "dir" /\ \A q \in Names : Parent(q) = p => fs[q] = "none"

\* Directory entries: a name or its temporary file, with the type readdir gives.
Entries(fs, tmp, p) ==
    {<<q, fs[q]>> : q \in {n \in Names : Parent(n) = p /\ fs[n] # "none"}}
      \union {<<q, "temp">> : q \in {n \in tmp : Parent(n) = p}}

\* create_path: makes the directories of ds from the top down and stops at the
\* first that is a file, as stat("file/") is ENOTDIR.
Blocked(fs, ds, p)  == \E q \in ds : fs[q] = "file" /\ Len(q) <= Len(p)
CreatePath(fs, ds)  ==
    [p \in Names |-> IF p \in ds /\ ~Blocked(fs, ds, p) THEN "dir" ELSE fs[p]]
CreatePathOK(fs, ds) == \A q \in ds : fs[q] # "file"
----
(***************************************************************************)
(* The handlers of the server                                              *)
(***************************************************************************)
\* What a thread that has started and not returned holds: ReadDir's shared
\* lock, or Store's exclusive one.
SharedFree(p)    == \A t \in Threads : ~(pc[t] = "commit" /\ req[t].path = p)
ExclusiveFree(p) == \A t \in Threads : ~(pc[t] \in {"commit", "list"} /\ req[t].path = p)

Serves(t, op) == pc[t] = "lock" /\ req[t].op = op

Return(t, r) ==
    /\ pc' = [pc EXCEPT ![t] = "done"]
    /\ ans' = [ans EXCEPT ![t] = r]

\* The tree becomes tr and the temporary files tm; every listing in progress
\* has lost the entries that went.
Change(tr, tm) ==
    /\ tree' = tr
    /\ temps' = tm
    /\ always' = [t \in Threads |-> always[t] \intersect Entries(tr, tm, req[t].path)]

SetName(p, kind) == Change([tree EXCEPT ![p] = kind], temps)
Untouched        == UNCHANGED <<server, always>>

\* One system call: kind is what p is afterwards, if it succeeds.
OneCall(t, op, succeeds, kind) ==
    /\ Serves(t, op)
    /\ ExclusiveFree(req[t].path)
    /\ IF succeeds THEN SetName(req[t].path, kind) ELSE Untouched
    /\ Return(t, IF succeeds \/ op = "Mknod" THEN "ok" ELSE "errno")
    /\ UNCHANGED <<req, left, seen, client, outside, count>>

MakeDir(t)   == OneCall(t, "MakeDir", CanMake(tree, req[t].path), "dir")
RemoveDir(t) ==
    OneCall(t, "RemoveDir",
            CanRmdir(tree, req[t].path) /\ \A q \in temps : Parent(q) # req[t].path, "none")
Remove(t)    == OneCall(t, "Remove", tree[req[t].path] = "file", "none")

\* Mknod does not look at the result of mknod(2).
Mknod(t)     == OneCall(t, "Mknod", CanMake(tree, req[t].path), "file")

\* Fetch reads a regular file.
Fetch(t) ==
    /\ Serves(t, "Fetch")
    /\ SharedFree(req[t].path)
    /\ Return(t, IF tree[req[t].path] = "file" THEN "ok" ELSE "errno")
    /\ UNCHANGED <<req, left, seen, server, always, client, outside, count>>

\* Store checks the destination and writes the temporary file ...
StoreWrite(t) ==
    /\ Serves(t, "Store")
    /\ ExclusiveFree(req[t].path)
    /\ LET p == req[t].path
       IN  IF tree[p] # "dir" /\ IsDir(tree, Parent(p))
           THEN Change(tree, temps \union {p}) /\ pc' = [pc EXCEPT ![t] = "commit"]
                  /\ UNCHANGED ans
           ELSE Untouched /\ Return(t, "errno")
    /\ UNCHANGED <<req, left, seen, client, outside, count>>

\* ... and renames it.
StoreCommit(t) ==
    /\ pc[t] = "commit"
    /\ Change([tree EXCEPT ![req[t].path] = "file"], temps \ {req[t].path})
    /\ Return(t, "ok")
    /\ UNCHANGED <<req, left, seen, client, outside, count>>

\* ReadDir reads the entries; the type of each comes with it.  A path that is no
\* directory makes directory_iterator throw.
ListOpen(t) ==
    /\ Serves(t, "ReadDir")
    /\ SharedFree(req[t].path)
    /\ LET p == req[t].path
           es == Entries(tree, temps, p)
       IN  IF IsDir(tree, p)
           THEN /\ pc' = [pc EXCEPT ![t] = "list"]
                /\ left' = [left EXCEPT ![t] = es]
                /\ always' = [always EXCEPT ![t] = es]
                /\ UNCHANGED ans
           ELSE Return(t, "UNKNOWN") /\ UNCHANGED <<left, always>>
    /\ UNCHANGED <<req, seen, server, client, outside, count>>

\* file_size() looks at the file again, and throws when it has gone.
Sizable(e) ==
    \/ e[2] = "dir"
    \/ e[2] = "file" /\ tree[e[1]] = "file"
    \/ e[2] = "temp" /\ e[1] \in temps

\* Mutant: the loop ends quietly at an entry that has gone.
ListEntryStops(t) ==
    /\ pc[t] = "list"
    /\ \E e \in left[t] :
         /\ left' = [left EXCEPT ![t] = @ \ {e}]
         /\ IF Sizable(e)
            THEN seen' = [seen EXCEPT ![t] = @ \union {e}] /\ UNCHANGED <<pc, ans>>
            ELSE Return(t, "ok") /\ UNCHANGED seen
    /\ UNCHANGED <<req, server, always, client, outside, count>>

ListEntry(t) ==
    /\ pc[t] = "list"
    /\ \E e \in left[t] :
         /\ left' = [left EXCEPT ![t] = @ \ {e}]
         /\ IF Sizable(e)
            THEN seen' = [seen EXCEPT ![t] = @ \union {e}] /\ UNCHANGED <<pc, ans>>
            ELSE Return(t, "UNKNOWN") /\ UNCHANGED seen
    /\ UNCHANGED <<req, server, always, client, outside, count>>

ListEnd(t) ==
    /\ pc[t] = "list"
    /\ left[t] = {}
    /\ Return(t, "ok")
    /\ UNCHANGED <<req, left, seen, server, always, client, outside, count>>

Handler(t) ==
    \/ MakeDir(t) \/ RemoveDir(t) \/ Mknod(t) \/ Remove(t) \/ Fetch(t)
    \/ StoreWrite(t) \/ StoreCommit(t)
    \/ ListOpen(t) \/ ListEntry(t) \/ ListEnd(t)
----
(***************************************************************************)
(* The clients                                                             *)
(***************************************************************************)
\* An attempt: the request reaches a thread of the server.
Attempt(c, r) ==
    \E t \in Threads :
      /\ pc[t] = "idle"
      /\ pc' = [pc EXCEPT ![t] = "lock"]
      /\ req' = [req EXCEPT ![t] = r]
      /\ at' = [at EXCEPT ![c] = t]

\* The kernel makes a callback: fs_mkdir, fs_rmdir, fs_mknod, fs_unlink,
\* fs_readdir, fs_open, or fs_release of a modified file.
Callback(c, op, p) ==
    /\ ret[c] # "none"
    /\ count.calls < MaxCalls
    /\ p = Root => op = "ReadDir"
    /\ op = "Store" => open[c] = p
    /\ op = "Fetch" => open[c] = Root
    /\ op = "Remove" => open[c] # p      \* libfuse keeps an open file
    /\ Attempt(c, [op |-> op, path |-> p, from |-> c])
    /\ call' = [call EXCEPT ![c] = [op |-> op, path |-> p, from |-> c]]
    /\ tries' = [tries EXCEPT ![c] = 1]
    /\ ret' = [ret EXCEPT ![c] = "none"]
    /\ outside' = outside \union (IF op \in Changing THEN Clients \ {c} ELSE {})
    /\ count' = [count EXCEPT !.calls = @ + 1]
    /\ UNCHANGED <<ans, left, seen, server, always, cache, open>>

\* fs_release of a file that was not modified.
Close(c) ==
    /\ ret[c] # "none"
    /\ open[c] # Root
    /\ open' = [open EXCEPT ![c] = Root]
    /\ UNCHANGED <<server, worker, always, cache, at, call, tries, ret, outside, count>>

\* The thread t is done with its call and the memory of it.
Forget(t) ==
    /\ pc' = [pc EXCEPT ![t] = "idle"]
    /\ req' = [req EXCEPT ![t] = Nothing]
    /\ left' = [left EXCEPT ![t] = {}]
    /\ seen' = [seen EXCEPT ![t] = {}]
    /\ always' = [always EXCEPT ![t] = {}]
    /\ ans' = [ans EXCEPT ![t] = "ok"]

\* OpenFile makes the directories above the file in the cache, OpenFileWithStream
\* does not.
OpenDirs(c) ==
    IF c \in Streaming THEN cache[c] ELSE CreatePath(cache[c], Above(call[c].path))

\* Mutant: the directory stays in the cache when the server has removed it.
CacheAfterKeeps(c) ==
    LET p  == call[c].path
        fs == cache[c]
    IN  CASE call[c].op = "MakeDir"   -> CreatePath(fs, Above(p) \union {p})
          [] call[c].op = "Remove"    -> IF fs[p] = "file" THEN [fs EXCEPT ![p] = "none"]
                                                           ELSE fs
          [] OTHER                    -> fs

\* What a callback does to the cache after an answer without error, and whether
\* it then succeeds.
CacheAfter(c) ==
    LET p  == call[c].path
        fs == cache[c]
        opened(dirs) == IF dirs[p] = "none" /\ IsDir(dirs, Parent(p))
                        THEN [dirs EXCEPT ![p] = "file"] ELSE dirs
    IN  CASE call[c].op = "MakeDir"   -> CreatePath(fs, Above(p) \union {p})
          [] call[c].op = "RemoveDir" -> IF CanRmdir(fs, p) THEN [fs EXCEPT ![p] = "none"]
                                                            ELSE fs
          [] call[c].op = "Mknod"     -> opened(fs)
          [] call[c].op = "Remove"    -> IF fs[p] = "file" THEN [fs EXCEPT ![p] = "none"]
                                                           ELSE fs
          [] call[c].op = "Fetch"     -> opened(OpenDirs(c))
          [] OTHER                    -> fs

OpenWorks(c) ==
    /\ c \in Streaming \/ CreatePathOK(cache[c], Above(call[c].path))
    /\ CacheAfter(c)[call[c].path] = "file"

\* The answer arrives; the callback does its part in the cache and returns.
Answer(c) ==
    /\ at[c] # NoThread
    /\ pc[at[c]] = "done"
    /\ LET ok    == ans[at[c]] = "ok"
           fetch == call[c].op = "Fetch"
           local == ok /\ fetch /\ ~OpenWorks(c)
       IN  /\ cache' = [cache EXCEPT ![c] = IF ok THEN CacheAfter(c) ELSE @]
           /\ ret' = [ret EXCEPT ![c] = IF local THEN "local" ELSE IF ok THEN "ok" ELSE "error"]
           /\ open' = [open EXCEPT ![c] =
                         IF fetch /\ ok /\ ~local THEN call[c].path
                         ELSE IF call[c].op = "Store" THEN Root ELSE @]
           /\ call' = [call EXCEPT ![c] = IF local THEN @ ELSE Nothing]
    /\ Forget(at[c])
    /\ at' = [at EXCEPT ![c] = NoThread]
    /\ tries' = [tries EXCEPT ![c] = 0]
    /\ UNCHANGED <<server, outside, count>>

\* The attempts of the clients cs end with UNAVAILABLE; after the last one the
\* callback returns ETIMEDOUT.
Unavailable(cs) ==
    LET last == {c \in cs : tries[c] = MAX_RETRY}
    IN  /\ at'    = [c \in Clients |-> IF c \in cs THEN NoThread ELSE at[c]]
        /\ ret'   = [c \in Clients |-> IF c \in last THEN "error" ELSE ret[c]]
        /\ call'  = [c \in Clients |-> IF c \in last THEN Nothing ELSE call[c]]
        /\ tries' = [c \in Clients |-> IF c \in last THEN 0 ELSE tries[c]]
        /\ open'  = [c \in Clients |-> IF c \in last /\ call[c].op = "Store" THEN Root
                                                                             ELSE open[c]]
        /\ outside' = outside \union cs

\* The connection breaks: the request is lost, or its handler runs on and its
\* answer is lost.  The client sees UNAVAILABLE.
Break(c) ==
    /\ at[c] # NoThread
    /\ count.breaks < MaxBreaks
    /\ \/ pc[at[c]] = "lock" /\ Forget(at[c])
       \/ pc[at[c]] = "done" /\ Forget(at[c])
       \/ /\ pc[at[c]] \in {"lock", "commit", "list"}
          /\ req' = [req EXCEPT ![at[c]].from = Nobody]
          /\ UNCHANGED <<pc, ans, left, seen, always>>
    /\ Unavailable({c})
    /\ count' = [count EXCEPT !.breaks = @ + 1]
    /\ UNCHANGED <<server, cache>>

\* The next attempt of a call that saw UNAVAILABLE.
Retry(c) ==
    /\ ret[c] = "none"
    /\ at[c] = NoThread
    /\ Attempt(c, call[c])
    /\ tries' = [tries EXCEPT ![c] = @ + 1]
    /\ UNCHANGED <<ans, left, seen, server, always, cache, call, ret, open, outside, count>>

\* A handler whose client has gone returns to nobody.
Drop(t) ==
    /\ pc[t] = "done"
    /\ req[t].from = Nobody
    /\ Forget(t)
    /\ UNCHANGED <<server, client, outside, count>>

\* The server process dies and is started again: files stay, temporary ones too.
Crash ==
    /\ count.crashes < MaxCrashes
    /\ count' = [count EXCEPT !.crashes = @ + 1]
    /\ pc' = [t \in Threads |-> "idle"]
    /\ req' = [t \in Threads |-> Nothing]
    /\ ans' = [t \in Threads |-> "ok"]
    /\ left' = [t \in Threads |-> {}]
    /\ seen' = [t \in Threads |-> {}]
    /\ always' = [t \in Threads |-> {}]
    /\ Unavailable({c \in Clients : at[c] # NoThread})
    /\ UNCHANGED <<server, cache>>

\* Nobody calls any more.
Quiescent ==
    /\ \A c \in Clients : ret[c] # "none"
    /\ \A t \in Threads : pc[t] = "idle"
    /\ UNCHANGED vars

Init ==
    /\ tree = [p \in Names |-> "none"]
    /\ temps = {}
    /\ pc = [t \in Threads |-> "idle"]
    /\ req = [t \in Threads |-> Nothing]
    /\ ans = [t \in Threads |-> "ok"]
    /\ left = [t \in Threads |-> {}]
    /\ seen = [t \in Threads |-> {}]
    /\ always = [t \in Threads |-> {}]
    /\ cache = [c \in Clients |-> [p \in Names |-> "none"]]
    /\ at = [c \in Clients |-> NoThread]
    /\ call = [c \in Clients |-> Nothing]
    /\ tries = [c \in Clients |-> 0]
    /\ ret = [c \in Clients |-> "ok"]
    /\ open = [c \in Clients |-> Root]
    /\ outside = {}
    /\ count = [calls |-> 0, breaks |-> 0, crashes |-> 0]

Next ==
    \/ \E t \in Threads : Handler(t) \/ Drop(t)
    \/ \E c \in Clients :
         \/ \E op \in NsOps, p \in Names \union {Root} : Callback(c, op, p)
         \/ Close(c) \/ Answer(c) \/ Break(c) \/ Retry(c)
    \/ Crash
    \/ Quiescent

Spec == Init /\ [][Next]_vars
----
(***************************************************************************)
(* Properties                                                              *)
(***************************************************************************)
\* A listing that succeeds holds every entry that was there all the time it
\* took, though children come and go under it: ReadDir takes no lock of theirs.
ListingIsComplete ==
    \A t \in Threads :
      pc[t] = "done" /\ req[t].op = "ReadDir" /\ ans[t] = "ok" => always[t] \subseteq seen[t]

\* As long as no other client changes the tree and no connection breaks, a
\* client between callbacks has in its cache exactly the server's directories,
\* and files only where the server has files, though the results of create_path,
\* mknod, rmdir and unlink are ignored.
CacheMirrorsTree ==
    \A c \in Clients \ outside : ret[c] # "none" =>
      \A p \in Names :
        /\ cache[c][p] = "dir" <=> tree[p] = "dir"
        /\ cache[c][p] = "file" => tree[p] = "file"
====
