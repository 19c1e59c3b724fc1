---- MODULE AfsClient ----
(***************************************************************************)
(* The clients of the file service (P2/src/afs_fuse.cc, afs_client.h).     *)
(*                                                                         *)
(* A client machine keeps a directory of cached files and a log of those   *)
(* it wrote to.  Its user processes work through FUSE, whose callbacks run *)
(* on threads of their own: open validates or fetches the cached file,     *)
(* read and write go to it, release stores it if the log names it.  A      *)
(* call to the server may lose its connection, before, during or after     *)
(* the server acts on it; most calls are then made again, up to MAX_RETRY  *)
(* times.                                                                  *)
(*                                                                         *)
(* The server takes each request at once, as AtomicFiles promises, but for *)
(* Fetch, which reads the file and stats it later.                         *)
(***************************************************************************)
EXTENDS FileTypes, FiniteSets

CONSTANTS
    Clients,      \* the client machines
    Procs,        \* the user processes, one callback each at a time
    Host,         \* Host[u]: the machine of process u
    Writers,      \* the processes that write
    Streaming,    \* USE_STREAMING
    SingleLog,    \* SINGLE_LOG
    Breaks,       \* the RPCs that may lose their connection
    MaxRetry,     \* MAX_RETRY
    Hole,         \* the chunk of zeros a write beyond the end leaves behind
    Local,        \* a modify time given by the client's kernel, no server's
    NoPath,       \* no path
    MaxOps,       \* bound: the opens, creations and removals
    MaxWrites,    \* bound: the writes
    MaxBreaks,    \* bound: the lost connections
    MaxCrashes,   \* bound: the crashes of clients
    Unbounded     \* what is not bounded: {"breaks"} or nothing

ASSUME ClientAssumption ==
    /\ Host \in [Procs -> Clients]
    /\ Writers \subseteq Procs
    /\ {Streaming, SingleLog} \subseteq BOOLEAN
    /\ MaxRetry \in Nat \ {0}
    /\ Hole \in Data
    /\ Local \notin Nat
    /\ NoFile \notin [data : Contents, mtime : {Local}]
    /\ NoPath \notin Paths
    /\ {MaxOps, MaxWrites, MaxBreaks, MaxCrashes} \subseteq Nat
    /\ Unbounded \subseteq {"breaks"}

VARIABLES
    file,     \* the server: file[p], NoFile if there is none
    hist,     \* history: every version of p
    clock,    \* its clock, which stamps files
    late,     \* the requests of broken calls it has still to execute
    cache,    \* cache[c][p]: the cached file, NoFile if there is none
    dirty,    \* dirty[c]: the files c's log names
    pc,       \* pc[u]: the next step of u; "idle", or "open" between callbacks
    path,     \* path[u]: the file u works on
    req,      \* req[u]: the request of the RPC u is in
    reply,    \* reply[u]: what the client received for it
    read,     \* read[u]: the version the server's Fetch read for it, or NoFile
    tries,    \* retryCount
    count,    \* count[u]: the messages fetched, or totalChunks of a store
    spoilt,   \* history: spoilt[c]: the copies whose fetch broke, or was overtaken
    wrote,    \* history: the chunks u wrote since it opened the file
    seen,     \* history: what the server had for path[u] since the callback began
    bounds    \* how often each bounded thing happened

serverVars == <<file, hist, clock, late>>
diskVars   == <<cache, spoilt, dirty>>
rpcVars    == <<req, reply, read, tries>>
ghostVars  == <<wrote, seen>>
vars == <<serverVars, diskVars, pc, path, rpcVars, count, ghostVars, bounds>>

NoReply == [status |-> "none"]
Broken  == [Blank EXCEPT !.status = "UNAVAILABLE"]

Longer(m, n) == IF m > n THEN m ELSE n

\* Content s after t is written into it from its first chunk on.
Overlay(s, t) ==
    [i \in 1 .. Longer(Len(s), Len(t)) |-> IF i <= Len(t) THEN t[i] ELSE s[i]]

\* Content s after the chunk d is written at place i.
Put(s, i, d) ==
    [j \in 1 .. Longer(Len(s), i) |->
        IF j = i THEN d ELSE IF j <= Len(s) THEN s[j] ELSE Hole]

Spend(what, max) ==
    \/ /\ what \in Unbounded
       /\ UNCHANGED bounds
    \/ /\ what \notin Unbounded
       /\ bounds[what] < max
       /\ bounds' = [bounds EXCEPT ![what] = @ + 1]
----
(***************************************************************************)
(* The server                                                              *)
(***************************************************************************)

\* The processes in a callback on p see its new state v.
Watch(p, v) ==
    seen' = [u \in Procs |->
               IF path[u] = p /\ seen[u] # {} THEN seen[u] \union {v} ELSE seen[u]]

Replace(p, content) ==
    LET v == [data |-> content, mtime |-> clock + 1] IN
    /\ clock' = clock + 1
    /\ file' = [file EXCEPT ![p] = v]
    /\ hist' = [hist EXCEPT ![p] = @ \union {v}]
    /\ Watch(p, v)

\* StoreWithStream of no message fails and leaves the file alone.
Stores(r) == r.op = "Store" \/ (r.op = "StoreWithStream" /\ r.data # <<>>)

Effect(r) ==
    \/ /\ Stores(r)
       /\ Replace(r.path, r.data)
    \/ /\ r.op = "Mknod" /\ file[r.path] = NoFile
       /\ Replace(r.path, <<>>)
    \/ /\ r.op = "Remove"
       /\ file' = [file EXCEPT ![r.path] = NoFile]
       /\ Watch(r.path, NoFile)
       /\ UNCHANGED <<hist, clock>>
    \/ /\ ~Stores(r) /\ r.op # "Remove"
       /\ r.op = "Mknod" => file[r.path] # NoFile
       /\ UNCHANGED <<file, hist, clock, seen>>

Missing(r) ==
    IF r.op = "FetchWithStream" THEN [Blank EXCEPT !.status = "UNKNOWN"]
                                ELSE [Blank EXCEPT !.errno = "ENOENT"]

\* The answer to r, where x is what a Fetch has read.
AnswerTo(r, x) ==
    LET f == file[r.path] IN
    CASE r.op \in {"FetchWithStream", "GetFileStat"} ->
            IF f = NoFile THEN Missing(r)
                          ELSE [Blank EXCEPT !.data = f.data, !.mtime = f.mtime]
      [] r.op = "Fetch" ->
            IF f = NoFile THEN Missing(r)
                          ELSE [Blank EXCEPT !.data = x.data, !.mtime = f.mtime]
      [] r.op = "TestAuth" ->
            [Blank EXCEPT !.changed = f = NoFile \/ f.mtime # r.time]
      [] r.op \in StoreOps ->
            IF Stores(r) THEN [Blank EXCEPT !.mtime = clock + 1]
                         ELSE [Blank EXCEPT !.status = "CANCELLED"]
      [] r.op = "Mknod" -> Blank
      [] r.op = "Remove" -> IF f = NoFile THEN Missing(r) ELSE Blank

\* Fetch reads the file and gives its lock back ...
FetchRead(u) ==
    /\ reply[u] = NoReply
    /\ req[u] # NoRequest /\ req[u].op = "Fetch"
    /\ read[u] = NoFile
    /\ file[req[u].path] # NoFile
    /\ read' = [read EXCEPT ![u] = file[req[u].path]]
    /\ UNCHANGED <<serverVars, diskVars, pc, path, req, reply, tries, count, ghostVars, bounds>>

\* ... and answers with the modify time the file has then, if there still is one.  All
\* else that the server executes, it executes and answers at once.
Serve(u) ==
    /\ req[u] # NoRequest
    /\ reply[u] = NoReply
    /\ req[u].op = "StoreWithStream" => pc[u] = "stored"
    /\ req[u].op = "Fetch" => read[u] # NoFile \/ file[req[u].path] = NoFile
    /\ Effect(req[u])
    /\ reply' = [reply EXCEPT ![u] = AnswerTo(req[u], read[u])]
    /\ UNCHANGED <<late, diskVars, pc, path, req, read, tries, count, wrote, bounds>>

\* What the server may make of the request of u once its connection is gone: of a
\* stream, the messages that had arrived.
Remains(u) ==
    IF req[u] = NoRequest \/ reply[u] # NoReply THEN {}
    ELSE IF req[u].op = "StoreWithStream"
           THEN {[req[u] EXCEPT !.data = SubSeq(@, 1, n)] : n \in 1 .. Len(req[u].data)}
           ELSE {r \in {req[u]} : r.op \in {"Store", "Mknod", "Remove"}}

\* The thread of u waits for the server, or is in the middle of a stream.
Waits(u) ==
    \/ pc[u] \in {"lookup", "auth", "fetched", "recv", "send", "stored", "mknod", "unlink"}
    \/ pc[u] = "trunc" /\ Streaming

\* The connection of u breaks.  The server may or may not have seen the request.
Break(u) ==
    /\ Waits(u)
    /\ req[u].op \in Breaks
    /\ reply[u].status # "UNAVAILABLE"
    /\ Spend("breaks", MaxBreaks)
    /\ \/ UNCHANGED late
       \/ \E r \in Remains(u) : late' = late \union {r}
    /\ reply' = [reply EXCEPT ![u] =
                   IF reply[u] = NoReply THEN Broken ELSE [@ EXCEPT !.status = "UNAVAILABLE"]]
    /\ UNCHANGED <<file, hist, clock, diskVars, pc, path, req, read, tries, count, ghostVars>>

\* A handler whose client is gone completes.
ServeLate(r) ==
    /\ r \in late
    /\ late' = late \ {r}
    /\ Effect(r)
    /\ UNCHANGED <<diskVars, pc, path, rpcVars, count, wrote, bounds>>
----
(***************************************************************************)
(* Steps every callback is made of                                         *)
(***************************************************************************)
Goto(u, label) == pc' = [pc EXCEPT ![u] = label]

\* stub_->Op(...), one round of its retry loop
Call(u, r) ==
    /\ req' = [req EXCEPT ![u] = r]
    /\ reply' = [reply EXCEPT ![u] = NoReply]
    /\ read' = [read EXCEPT ![u] = NoFile]
    /\ tries' = [tries EXCEPT ![u] = @ + 1]

MayRetry(u) == reply[u].status = "UNAVAILABLE" /\ tries[u] < MaxRetry

\* Mutant: any failure is retried, without a limit.
RetryForever(u) ==
    /\ reply[u] # NoReply /\ (reply[u].status # "OK" \/ reply[u].errno # "0")
    /\ req[u].op \notin {"FetchWithStream", "StoreWithStream"}
    /\ reply' = [reply EXCEPT ![u] = NoReply]
    /\ read' = [read EXCEPT ![u] = NoFile]
    /\ UNCHANGED <<serverVars, diskVars, pc, path, req, tries, count, ghostVars, bounds>>

\* while (retryCount < MAX_RETRY && status.error_code() == UNAVAILABLE)
Retry(u) ==
    /\ MayRetry(u)
    /\ req[u].op \notin {"FetchWithStream", "StoreWithStream"}
    /\ Call(u, req[u])
    /\ UNCHANGED <<serverVars, diskVars, pc, path, count, ghostVars, bounds>>

\* The RPC of u is over, with a reply that means success.
Over(u)      == reply[u] # NoReply /\ ~MayRetry(u)
Succeeded(u) == reply[u].status = "OK" /\ reply[u].errno = "0"

\* The locals of the RPC go.
EndCall(u) ==
    /\ req' = [req EXCEPT ![u] = NoRequest]
    /\ reply' = [reply EXCEPT ![u] = NoReply]
    /\ read' = [read EXCEPT ![u] = NoFile]
    /\ tries' = [tries EXCEPT ![u] = 0]

\* The callback returns and u no longer has the file open.
Leave(u) ==
    /\ EndCall(u)
    /\ Goto(u, "idle")
    /\ path' = [path EXCEPT ![u] = NoPath]
    /\ wrote' = [wrote EXCEPT ![u] = {}]
    /\ seen' = [seen EXCEPT ![u] = {}]

Cached(u)  == cache[Host[u]][path[u]]
Content(u) == IF Cached(u) = NoFile THEN <<>> ELSE Cached(u).data

SetCache(u, v) == cache' = [cache EXCEPT ![Host[u]][path[u]] = v]

\* The cached file gets content s, and the local time.
WriteCache(u, s) == SetCache(u, [data |-> s, mtime |-> Local])

\* set_timings
StampCache(u, time) ==
    IF Cached(u) = NoFile THEN UNCHANGED cache
                          ELSE SetCache(u, [Cached(u) EXCEPT !.mtime = time])

Neighbours(u) == {w \in Procs \ {u} : Host[w] = Host[u]}
----
(***************************************************************************)
(* open                                                                    *)
(***************************************************************************)

\* The kernel looks the name up (fs_getattr) before it opens the file.
Open(u, p) ==
    /\ pc[u] = "idle"
    /\ \A w \in Neighbours(u) : path[w] = p => pc[w] \notin {"mknod", "unlink"}
    /\ Spend("ops", MaxOps)
    /\ path' = [path EXCEPT ![u] = p]
    /\ Call(u, [op |-> "GetFileStat", path |-> p])
    /\ Goto(u, "lookup")
    /\ UNCHANGED <<serverVars, diskVars, count, ghostVars>>

GetFileStat(u) ==
    /\ pc[u] = "lookup"
    /\ Over(u)
    /\ IF Succeeded(u)
         THEN /\ EndCall(u)
              /\ seen' = [seen EXCEPT ![u] = {file[path[u]]}]
              /\ Goto(u, "open_test")
              /\ UNCHANGED <<path, wrote>>
         ELSE Leave(u)
    /\ UNCHANGED <<serverVars, diskVars, count, bounds>>

\* TestAuth asks the server about a copy it has; without one the file has changed.
TestAuth(u) ==
    /\ pc[u] = "open_test"
    /\ \/ /\ Cached(u) = NoFile
          /\ Goto(u, "fetch")
          /\ UNCHANGED rpcVars
       \/ /\ Cached(u) # NoFile
          /\ Call(u, [op |-> "TestAuth", path |-> path[u], time |-> Cached(u).mtime])
          /\ Goto(u, "auth")
    /\ UNCHANGED <<serverVars, diskVars, path, count, ghostVars, bounds>>

\* Mutant: a copy the server could not be asked about is good enough.
AuthReplyTrusting(u) ==
    /\ pc[u] = "auth"
    /\ Over(u)
    /\ Goto(u, IF reply[u].changed THEN "fetch" ELSE "opened")
    /\ EndCall(u)
    /\ UNCHANGED <<serverVars, diskVars, path, count, ghostVars, bounds>>

AuthReply(u) ==
    /\ pc[u] = "auth"
    /\ Over(u)
    /\ Goto(u, IF reply[u].status # "OK" \/ reply[u].changed THEN "fetch" ELSE "opened")
    /\ EndCall(u)
    /\ UNCHANGED <<serverVars, diskVars, path, count, ghostVars, bounds>>

FetchCall(u) ==
    /\ pc[u] = "fetch"
    /\ Call(u, [op |-> IF Streaming THEN "FetchWithStream" ELSE "Fetch", path |-> path[u]])
    /\ Goto(u, IF Streaming THEN "trunc" ELSE "fetched")
    /\ UNCHANGED <<serverVars, diskVars, path, count, ghostVars, bounds>>

\* OpenFile: the response is there.
FetchReply(u) ==
    /\ pc[u] = "fetched"
    /\ Over(u)
    /\ IF Succeeded(u)
         THEN Goto(u, "trunc") /\ UNCHANGED <<path, rpcVars, ghostVars>>
         ELSE Leave(u)
    /\ UNCHANGED <<serverVars, diskVars, count, bounds>>

\* Mutant: the cached file is written over, not from scratch.
TruncNot(u) ==
    /\ pc[u] = "trunc"
    /\ WriteCache(u, Content(u))
    /\ Goto(u, IF Streaming THEN "recv" ELSE "write")
    /\ UNCHANGED <<serverVars, spoilt, dirty, path, rpcVars, count, ghostVars, bounds>>

\* The cached file is opened with O_TRUNC | O_CREAT, ...
Trunc(u) ==
    /\ pc[u] = "trunc"
    /\ WriteCache(u, <<>>)
    /\ Goto(u, IF Streaming THEN "recv" ELSE "write")
    /\ UNCHANGED <<serverVars, spoilt, dirty, path, rpcVars, count, ghostVars, bounds>>

\* ... and receives the response (OpenFile) ...
FetchWrite(u) ==
    /\ pc[u] = "write"
    /\ WriteCache(u, Overlay(Content(u), reply[u].data))
    /\ Goto(u, "stamp")
    /\ UNCHANGED <<serverVars, spoilt, dirty, path, rpcVars, count, ghostVars, bounds>>

\* ... or the messages of the stream, one by one (OpenFileWithStream), ...
FetchChunk(u) ==
    /\ pc[u] = "recv"
    /\ reply[u] # NoReply
    /\ count[u] < Len(reply[u].data)
    /\ WriteCache(u, Put(Content(u), count[u] + 1, reply[u].data[count[u] + 1]))
    /\ count' = [count EXCEPT ![u] = @ + 1]
    /\ UNCHANGED <<serverVars, spoilt, dirty, pc, path, rpcVars, ghostVars, bounds>>

\* ... until the stream ends or breaks.  The loop tests a status that Finish() never
\* sets, one of the same name being declared within: the call has succeeded.
FetchEnd(u) ==
    /\ pc[u] = "recv"
    /\ reply[u] # NoReply
    /\ reply[u].status = "OK" => count[u] = Len(reply[u].data)
    /\ Goto(u, "stamp")
    /\ UNCHANGED <<serverVars, diskVars, path, rpcVars, count, ghostVars, bounds>>

\* What was fetched is not a version: the stream broke before its end, or another
\* version had come when Fetch looked at the time.
Torn(u) ==
    IF Streaming
      THEN reply[u].status = "UNAVAILABLE" /\ (count[u] = 0 \/ count[u] < Len(reply[u].data))
      ELSE read[u].mtime # reply[u].mtime

Spoil(u, paths) == spoilt' = [spoilt EXCEPT ![Host[u]] = paths]

\* The copy gets the modify time of the last message, 0 if there was none.
Stamp(u) ==
    /\ pc[u] = "stamp"
    /\ Spoil(u, IF Torn(u) THEN spoilt[Host[u]] \union {path[u]}
                          ELSE spoilt[Host[u]] \ {path[u]})
    /\ StampCache(u, IF Streaming /\ count[u] = 0 THEN 0 ELSE reply[u].mtime)
    /\ count' = [count EXCEPT ![u] = 0]
    /\ EndCall(u)
    /\ Goto(u, "opened")
    /\ UNCHANGED <<serverVars, dirty, path, ghostVars, bounds>>

\* open(cache_path, O_RDWR | O_CREAT), and fs_open returns.
Opened(u) ==
    /\ pc[u] = "opened"
    /\ IF Cached(u) = NoFile THEN WriteCache(u, <<>>) ELSE UNCHANGED cache
    /\ seen' = [seen EXCEPT ![u] = {}]
    /\ Goto(u, "open")
    /\ UNCHANGED <<serverVars, spoilt, dirty, path, rpcVars, count, wrote, bounds>>
----
(***************************************************************************)
(* write                                                                   *)
(***************************************************************************)

\* pwrite(fd, ...)
Write(u, i, d) ==
    /\ pc[u] = "open"
    /\ u \in Writers
    /\ Spend("writes", MaxWrites)
    /\ WriteCache(u, Put(Content(u), i, d))
    /\ wrote' = [wrote EXCEPT ![u] = {w \in @ : w[1] # i} \union {<<i, d>>}]
    /\ Goto(u, "log")
    /\ UNCHANGED <<serverVars, spoilt, dirty, path, rpcVars, count, seen>>

\* write_single_log, createPendingFile
Log(u) ==
    /\ pc[u] = "log"
    /\ dirty' = [dirty EXCEPT ![Host[u]] = @ \union {path[u]}]
    /\ Goto(u, "open")
    /\ UNCHANGED <<serverVars, cache, spoilt, path, rpcVars, count, ghostVars, bounds>>
----
(***************************************************************************)
(* release                                                                 *)
(***************************************************************************)
Close(u) ==
    /\ pc[u] = "open"
    /\ seen' = [seen EXCEPT ![u] = {file[path[u]]}]
    /\ Goto(u, "close")
    /\ UNCHANGED <<serverVars, diskVars, path, rpcVars, count, wrote, bounds>>

\* checkModified_single_log, isFileModifiedv2
CheckModified(u) ==
    /\ pc[u] = "close"
    /\ Goto(u, IF path[u] \in dirty[Host[u]] THEN "store" ELSE "closed")
    /\ UNCHANGED <<serverVars, diskVars, path, rpcVars, count, ghostVars, bounds>>

\* CloseFile: the whole file in one request
StoreCall(u) ==
    /\ pc[u] = "store"
    /\ ~Streaming
    /\ Call(u, [op |-> "Store", path |-> path[u], data |-> Content(u)])
    /\ Goto(u, "stored")
    /\ UNCHANGED <<serverVars, diskVars, path, count, ghostVars, bounds>>

\* CloseFileWithStream: the file's size gives the number of messages to send ...
StreamCall(u) ==
    /\ pc[u] = "store"
    /\ Streaming
    /\ Call(u, [op |-> "StoreWithStream", path |-> path[u], data |-> <<>>])
    /\ count' = [count EXCEPT ![u] = Len(Content(u))]
    /\ Goto(u, "send")
    /\ UNCHANGED <<serverVars, diskVars, path, ghostVars, bounds>>

\* The place of the next message of the stream of u.
Next1(u) == Len(req[u].data) + 1

\* ... which are read from the file by its name, one at a time, ...
SendChunk(u) ==
    /\ pc[u] = "send"
    /\ reply[u] = NoReply
    /\ Next1(u) <= count[u]
    /\ Next1(u) <= Len(Content(u))
    /\ req' = [req EXCEPT ![u].data = Append(@, Content(u)[Next1(u)])]
    /\ UNCHANGED <<serverVars, diskVars, pc, path, reply, read, tries, count, ghostVars, bounds>>

\* ... until all were, the file proves shorter, or the stream breaks: WritesDone().
SendEnd(u) ==
    /\ pc[u] = "send"
    /\ \/ reply[u] # NoReply
       \/ Next1(u) > count[u]
       \/ Next1(u) > Len(Content(u))
    /\ count' = [count EXCEPT ![u] = 0]
    /\ Goto(u, "stored")
    /\ UNCHANGED <<serverVars, diskVars, path, rpcVars, ghostVars, bounds>>

\* The stream broke: the file is read and sent once more.
StreamAgain(u) ==
    /\ pc[u] = "stored"
    /\ MayRetry(u)
    /\ req[u].op = "StoreWithStream"
    /\ req' = [req EXCEPT ![u] = NoRequest]
    /\ reply' = [reply EXCEPT ![u] = NoReply]
    /\ Goto(u, "store")
    /\ UNCHANGED <<serverVars, diskVars, path, read, tries, count, ghostVars, bounds>>

\* Mutant: a store that timed out is taken for one that succeeded.
StoreReplyUnchecked(u) ==
    /\ pc[u] = "stored"
    /\ Over(u)
    /\ Goto(u, IF Streaming THEN "restamp" ELSE "clear")
    /\ UNCHANGED <<serverVars, diskVars, path, rpcVars, count, ghostVars, bounds>>

StoreReply(u) ==
    /\ pc[u] = "stored"
    /\ Over(u)
    /\ IF Succeeded(u)
         THEN /\ Goto(u, IF Streaming THEN "restamp" ELSE "clear")
              /\ UNCHANGED <<path, rpcVars, ghostVars>>
         ELSE Leave(u)
    /\ UNCHANGED <<serverVars, diskVars, count, bounds>>

\* CloseFile takes the file out of the log: removePendingFile its .tmp file;
\* closeEntry_single_log works with the names of the old and the new log after
\* the strings that held them are gone, and may find neither.
ClearLog(u) ==
    /\ pc[u] = "clear"
    /\ \/ dirty' = [dirty EXCEPT ![Host[u]] = @ \ {path[u]}]
       \/ SingleLog /\ UNCHANGED dirty
    /\ Goto(u, "restamp")
    /\ UNCHANGED <<serverVars, cache, spoilt, path, rpcVars, count, ghostVars, bounds>>

\* Mutant: the cached file is given no time older than its own.
RestampFresh(u) ==
    /\ pc[u] = "restamp"
    /\ Spoil(u, spoilt[Host[u]] \ {path[u]})
    /\ StampCache(u, clock)
    /\ EndCall(u)
    /\ Goto(u, "closed")
    /\ UNCHANGED <<serverVars, dirty, path, count, ghostVars, bounds>>

\* The copy gets the modify time the server answered with.
Restamp(u) ==
    /\ pc[u] = "restamp"
    /\ Spoil(u, spoilt[Host[u]] \ {path[u]})
    /\ StampCache(u, reply[u].mtime)
    /\ EndCall(u)
    /\ Goto(u, "closed")
    /\ UNCHANGED <<serverVars, dirty, path, count, ghostVars, bounds>>

\* fs_release returns 0.
Closed(u) ==
    /\ pc[u] = "closed"
    /\ Leave(u)
    /\ UNCHANGED <<serverVars, diskVars, count, bounds>>
----
(***************************************************************************)
(* mknod and unlink                                                        *)
(***************************************************************************)

\* The kernel and libfuse make no node and remove none that is in use: a file
\* that is open would be renamed, and rename is not among fsops.
Unused(u, p) == \A w \in Neighbours(u) : path[w] # p

Create(u, p) ==
    /\ pc[u] = "idle"
    /\ Unused(u, p)
    /\ Spend("ops", MaxOps)
    /\ path' = [path EXCEPT ![u] = p]
    /\ Call(u, [op |-> "Mknod", path |-> p])
    /\ Goto(u, "mknod")
    /\ UNCHANGED <<serverVars, diskVars, count, ghostVars>>

CreateFile(u) ==
    /\ pc[u] = "mknod"
    /\ Over(u)
    /\ IF Succeeded(u) /\ Cached(u) = NoFile THEN WriteCache(u, <<>>) ELSE UNCHANGED cache
    /\ Leave(u)
    /\ UNCHANGED <<serverVars, spoilt, dirty, count, bounds>>

Delete(u, p) ==
    /\ pc[u] = "idle"
    /\ Unused(u, p)
    /\ Spend("ops", MaxOps)
    /\ path' = [path EXCEPT ![u] = p]
    /\ Call(u, [op |-> "Remove", path |-> p])
    /\ Goto(u, "unlink")
    /\ UNCHANGED <<serverVars, diskVars, count, ghostVars>>

DeleteFile(u) ==
    /\ pc[u] = "unlink"
    /\ Over(u)
    /\ IF Succeeded(u)
         THEN SetCache(u, NoFile) /\ Spoil(u, spoilt[Host[u]] \ {path[u]})
         ELSE UNCHANGED <<cache, spoilt>>
    /\ Leave(u)
    /\ UNCHANGED <<serverVars, dirty, count, bounds>>
----
(***************************************************************************)
(* The client machine c dies and is started again: open files and calls are *)
(* gone, the cache directory is not, and fs_init empties the log.           *)
(***************************************************************************)
Crash(c) ==
    LET users == {u \in Procs : Host[u] = c}
        Kept(f, none) == [u \in Procs |-> IF u \in users THEN none ELSE f[u]]
    IN
    /\ Spend("crashes", MaxCrashes)
    /\ \E rest \in SUBSET UNION {Remains(u) : u \in users} :
         /\ \A u \in users : Cardinality(rest \intersect Remains(u)) <= 1
         /\ late' = late \union rest
    /\ dirty' = [dirty EXCEPT ![c] = {}]
    /\ pc' = Kept(pc, "idle")
    /\ path' = Kept(path, NoPath)
    /\ req' = Kept(req, NoRequest)
    /\ reply' = Kept(reply, NoReply)
    /\ read' = Kept(read, NoFile)
    /\ tries' = Kept(tries, 0)
    /\ count' = Kept(count, 0)
    /\ wrote' = Kept(wrote, {})
    /\ seen' = Kept(seen, {})
    /\ UNCHANGED <<file, hist, clock, cache, spoilt>>

\* The users are done, and every file is closed.
Quiescent ==
    /\ bounds["ops"] = MaxOps
    /\ \A u \in Procs : pc[u] = "idle"
    /\ UNCHANGED vars

Init ==
    /\ file \in [Paths -> {NoFile, [data |-> Whole(Hole), mtime |-> 1]}]
    /\ hist = [p \in Paths |-> {file[p]} \ {NoFile}]
    /\ clock = 1
    /\ late = {}
    /\ cache = [c \in Clients |-> [p \in Paths |-> NoFile]]
    /\ spoilt = [c \in Clients |-> {}]
    /\ dirty = [c \in Clients |-> {}]
    /\ pc = [u \in Procs |-> "idle"]
    /\ path = [u \in Procs |-> NoPath]
    /\ req = [u \in Procs |-> NoRequest]
    /\ reply = [u \in Procs |-> NoReply]
    /\ read = [u \in Procs |-> NoFile]
    /\ tries = [u \in Procs |-> 0]
    /\ count = [u \in Procs |-> 0]
    /\ wrote = [u \in Procs |-> {}]
    /\ seen = [u \in Procs |-> {}]
    /\ bounds = [what \in {"ops", "writes", "breaks", "crashes"} |-> 0]

\* What a user process asks for.
Ask(u) ==
    \/ \E p \in Paths : Open(u, p) \/ Create(u, p) \/ Delete(u, p)
    \/ \E i \in 1 .. Chunks, d \in Data \ {Hole} : Write(u, i, d)
    \/ Close(u)

\* What the thread of a callback does.
Step(u) ==
    \/ Retry(u)
    \/ GetFileStat(u) \/ TestAuth(u) \/ AuthReply(u)
    \/ FetchCall(u) \/ FetchReply(u) \/ Trunc(u) \/ FetchWrite(u)
    \/ FetchChunk(u) \/ FetchEnd(u) \/ Stamp(u) \/ Opened(u)
    \/ Log(u)
    \/ CheckModified(u) \/ StoreCall(u) \/ StreamCall(u) \/ SendChunk(u) \/ SendEnd(u)
    \/ StreamAgain(u) \/ StoreReply(u) \/ ClearLog(u) \/ Restamp(u) \/ Closed(u)
    \/ CreateFile(u) \/ DeleteFile(u)

\* What the server does about the request of u.
Server(u) == FetchRead(u) \/ Serve(u)

Next ==
    \/ \E u \in Procs : Ask(u) \/ Step(u) \/ Server(u) \/ Break(u)
    \/ \E r \in late : ServeLate(r)
    \/ \E c \in Clients : Crash(c)
    \/ Quiescent

Spec == Init /\ [][Next]_vars

\* Every thread of a client runs, and no connection is silent for ever: the server acts
\* on a request, or the connection breaks.
FairSpec ==
    /\ Spec
    /\ \A u \in Procs : WF_vars(Step(u))
    /\ \A u \in Procs : WF_vars(Server(u) \/ Break(u))
----
(***************************************************************************)
(* Properties                                                              *)
(***************************************************************************)
Labels ==
    {"idle", "lookup", "open_test", "auth", "fetch", "fetched", "trunc", "write", "recv",
     "stamp", "opened", "open", "log", "close", "store", "send", "stored", "clear",
     "restamp", "closed", "mknod", "unlink"}

Copies == [data : Contents, mtime : Nat \union {Local}]

\* The type of every variable; no call is made more often than MAX_RETRY times.
ClientTypeOK ==
    /\ file \in [Paths -> Files]
    /\ hist \in [Paths -> SUBSET Versions]
    /\ cache \in [Clients -> [Paths -> Copies \union {NoFile}]]
    /\ spoilt \in [Clients -> SUBSET Paths]
    /\ dirty \in [Clients -> SUBSET Paths]
    /\ pc \in [Procs -> Labels]
    /\ path \in [Procs -> Paths \union {NoPath}]
    /\ tries \in [Procs -> 0 .. MaxRetry]
    /\ count \in [Procs -> 0 .. Chunks]
    /\ \A u \in Procs : (path[u] = NoPath) <=> (pc[u] = "idle")
    /\ \A u \in Procs : reply[u] # NoReply => req[u] # NoRequest

\* Content s is how content t begins.
Begins(s, t) == Len(s) <= Len(t) /\ \A i \in 1 .. Len(s) : s[i] = t[i]

\* A cached file that TestAuth could find valid is, whole and unmixed, the version of
\* that modify time, whatever answers were lost, however late a store came and wherever
\* the client died.  If its fetch was spoilt, it still is how one version began, or all
\* of one, that is no newer than the time it bears (afs_client.h:952-980, 889-893).
CachedCopyIsAVersion ==
    \A c \in Clients, p \in Paths :
        LET f == cache[c][p] IN
        f # NoFile /\ f.mtime \notin {0, Local} =>
            \/ f \in hist[p]
            \/ /\ p \in spoilt[c]
               /\ \E v \in hist[p] : v.mtime <= f.mtime /\ Begins(f.data, v.data)

\* The same without the exception: what a copy would be if OpenFileWithStream looked at
\* the status its stream ends with (afs_client.h:957), which it does not.
EveryCopyIsAVersion ==
    \A c \in Clients, p \in Paths :
        LET f == cache[c][p] IN
        f # NoFile /\ f.mtime \notin {0, Local} => f \in hist[p]

\* A process that gets a file open has in its cache what the server had at some
\* moment of the call, nothing if the server had no file, unless what it last fetched of
\* that file was spoilt (afs_client.h:912-1008).
OpenIsFresh ==
    \A u \in Procs : pc[u] = "opened" /\ path[u] \notin spoilt[Host[u]] =>
        \E v \in seen[u] : Content(u) = IF v = NoFile THEN <<>> ELSE v.data

\* Version v has all that u wrote.
HasWrites(v, u) == \A w \in wrote[u] : w[1] <= Len(v.data) /\ v.data[w[1]] = w[2]

\* When a close succeeds, the server has had, at some moment of the call, a version
\* with everything the process wrote (afs_client.h:767-909).
CloseCommits ==
    \A u \in Procs : pc[u] = "closed" /\ wrote[u] # {} =>
        \E v \in seen[u] \ {NoFile} : HasWrites(v, u)

\* Every callback returns, however often connections break (afs_client.h:20).
EveryCallbackReturns ==
    \A u \in Procs : pc[u] \notin {"idle", "open"} ~> pc[u] \in {"idle", "open"}
====
