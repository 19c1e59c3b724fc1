---- MODULE FileServer ----
(***************************************************************************)
(* The file handlers of the server (P2/src/server.cc, the build the        *)
(* repository ships: PERFORMANCE_MEM_MAP == 0).  gRPC's synchronous server  *)
(* runs each call on a thread of its own; a thread takes its handler's      *)
(* steps one at a time and everything the threads share is the directory    *)
(* on disk and the per-path locks.  A step is a system call, the taking or  *)
(* releasing of a lock, or one message of a stream.                         *)
(*                                                                         *)
(* The paths are files of one existing directory, so every path passes      *)
(* to_storage_path and check_valid_write_destination.                       *)
(***************************************************************************)
EXTENDS FileTypes

CONSTANTS
    Threads,      \* the threads of the gRPC server
    Ops,          \* the RPCs clients issue
    RenamePairs,  \* the <<source, destination>> pairs of the Rename calls
    FineClock,    \* TRUE: the kernel stamps every write with a new time
    DiskFails,    \* TRUE: opening, writing or renaming a temporary file may fail
    ClientDies,   \* TRUE: a client may die, or cancel, in the middle of a stream
    MaxReqs,      \* bound: the calls issued
    MaxCrashes    \* bound: the crashes of the server process

ASSUME OpsAssumption == Ops \subseteq ReadOps \union WriteOps
ASSUME RenameAssumption ==
    /\ RenamePairs \subseteq Paths \X Paths
    /\ \A pair \in RenamePairs : pair[1] # pair[2]
ASSUME BoundAssumption ==
    /\ MaxReqs \in Nat
    /\ MaxCrashes \in Nat
    /\ {FineClock, DiskFails, ClientDies} \subseteq BOOLEAN

VARIABLES
    readers,  \* the lock map: see RWLock
    writers,
    disk,     \* disk[p]: the file the name p refers to, NoFile if none
    temp,     \* temp[p]: the file p.afs_tmp
    clock,    \* the kernel's file timestamp clock
    hist,     \* history: every version the name p has ever referred to
    pc,       \* pc[t]: the next step of thread t
    req,      \* req[t]: the request t serves
    reply,    \* reply[t]: the response t builds
    iter,     \* iter[t]: the messages StoreWithStream has read
    fin,      \* fin[t]: the content of the inode FetchWithStream has open
    nreq,     \* the calls issued, at most MaxReqs
    ncrash    \* the crashes, at most MaxCrashes

INSTANCE RWLock

lockVars   == <<readers, writers>>
fsVars     == <<disk, temp, clock, hist>>
threadVars == <<pc, req, reply, iter, fin>>
vars == <<lockVars, fsVars, threadVars, nreq, ncrash>>
----
(***************************************************************************)
(* The file system under the storage root                                  *)
(***************************************************************************)
Exists(p)  == disk[p] # NoFile
Content(p) == IF Exists(p) THEN disk[p].data ELSE <<>>

\* The times the kernel may stamp a write with.  Timestamps come from a clock
\* that ticks every few milliseconds: two writes may get the same one.
StampTimes == {clock + 1} \union (IF FineClock THEN {} ELSE {clock})

\* The name p now refers to version v.
SetFile(p, v) ==
    /\ disk' = [disk EXCEPT ![p] = v]
    /\ hist' = [hist EXCEPT ![p] = @ \union {v}]

\* rename(temppath, filepath)
CommitTemp(p) ==
    /\ SetFile(p, temp[p])
    /\ temp' = [temp EXCEPT ![p] = NoFile]
----
(***************************************************************************)
(* Steps every handler is made of                                          *)
(***************************************************************************)
Goto(t, label) == pc' = [pc EXCEPT ![t] = label]

\* The handler returns with response r.
Return(t, r) ==
    /\ reply' = [reply EXCEPT ![t] = r]
    /\ Goto(t, "done")

\* ... and the destructor of its std::shared_lock or std::unique_lock runs.
ReturnRead(t, r)  == Return(t, r) /\ UnlockShared(t, req[t].path)
ReturnWrite(t, r) == Return(t, r) /\ UnlockUnique(t, req[t].path)

AfterLock ==
    [op \in ReadOps \union WriteOps |->
        CASE op = "Fetch"           -> "read"
          [] op = "FetchWithStream" -> "time"
          [] op = "TestAuth"        -> "auth"
          [] op = "GetFileStat"     -> "stat"
          [] op \in StoreOps        -> "open"
          [] op = "Remove"          -> "unlink"
          [] op = "Mknod"           -> "mknod"
          [] op = "Rename"          -> "lock2"]

\* The requests a client may issue now.
Incoming ==
    [op : Ops \intersect (ReadOps \ {"TestAuth"}), path : Paths]
      \union [op : Ops \intersect {"TestAuth"}, path : Paths, time : 0 .. clock]
      \union [op : Ops \intersect StoreOps, path : Paths, data : Data]
      \union [op : Ops \intersect {"Remove", "Mknod"}, path : Paths]
      \union {[op |-> "Rename", path |-> pair[1], dst |-> pair[2]] :
                pair \in IF "Rename" \in Ops THEN RenamePairs ELSE {}}

\* A call arrives and gRPC hands it to thread t.
Start(t, r) ==
    /\ pc[t] = "idle"
    /\ nreq < MaxReqs
    /\ nreq' = nreq + 1
    /\ req' = [req EXCEPT ![t] = r]
    /\ Goto(t, IF r.op = "StoreWithStream" THEN "first" ELSE "lock")
    /\ UNCHANGED <<reply, iter, fin, fsVars, lockVars, ncrash>>

\* The response leaves the server; the thread is free for another call.
Deliver(t) ==
    /\ pc[t] = "done"
    /\ Goto(t, "idle")
    /\ req' = [req EXCEPT ![t] = NoRequest]
    /\ reply' = [reply EXCEPT ![t] = Blank]
    /\ iter' = [iter EXCEPT ![t] = 0]
    /\ fin' = [fin EXCEPT ![t] = <<>>]
    /\ UNCHANGED <<fsVars, lockVars, nreq, ncrash>>

GetReadLock(t) ==
    /\ pc[t] = "lock"
    /\ req[t].op \in ReadOps
    /\ LockShared(t, req[t].path)
    /\ Goto(t, AfterLock[req[t].op])
    /\ UNCHANGED <<req, reply, iter, fin, fsVars, nreq, ncrash>>

GetWriteLock(t) ==
    /\ pc[t] = "lock"
    /\ req[t].op \in WriteOps
    /\ LockUnique(t, req[t].path)
    /\ Goto(t, AfterLock[req[t].op])
    /\ UNCHANGED <<req, reply, iter, fin, fsVars, nreq, ncrash>>
----
(***************************************************************************)
(* Handlers that read.  req[t].path is p below.                            *)
(***************************************************************************)
\* Fetch reads the file and then calls lock.unlock(): ...
FetchRead(t) ==
    LET p == req[t].path IN
    /\ pc[t] = "read"
    /\ IF Exists(p)
         THEN /\ reply' = [reply EXCEPT ![t].data = disk[p].data]
              /\ Goto(t, "mtime")
         ELSE Return(t, [Blank EXCEPT !.errno = "ENOENT"])
    /\ UnlockShared(t, p)
    /\ UNCHANGED <<req, iter, fin, fsVars, nreq, ncrash>>

\* ... the modify time of the response is read without the lock.
FetchStat(t) ==
    LET p == req[t].path IN
    /\ pc[t] = "mtime"
    /\ IF Exists(p)
         THEN Return(t, [reply[t] EXCEPT !.mtime = disk[p].mtime])
         ELSE Return(t, [reply[t] EXCEPT !.errno = "ENOENT"])
    /\ UNCHANGED <<req, iter, fin, fsVars, lockVars, nreq, ncrash>>

\* Mutant: FetchWithStream unlocks before it has read the content.
StreamTimeUnlocks(t) ==
    LET p == req[t].path IN
    /\ pc[t] = "time"
    /\ IF Exists(p)
         THEN /\ reply' = [reply EXCEPT ![t].mtime = disk[p].mtime]
              /\ Goto(t, "fopen")
         ELSE Return(t, [Blank EXCEPT !.status = "UNKNOWN"])
    /\ UnlockShared(t, p)
    /\ UNCHANGED <<req, iter, fin, fsVars, nreq, ncrash>>

\* FetchWithStream reads the modify time first; a FileSystemException is not
\* caught as one, so a missing file is reported as UNKNOWN.
StreamTime(t) ==
    LET p == req[t].path IN
    /\ pc[t] = "time"
    /\ IF Exists(p)
         THEN /\ reply' = [reply EXCEPT ![t].mtime = disk[p].mtime]
              /\ Goto(t, "fopen")
              /\ UNCHANGED lockVars
         ELSE ReturnRead(t, [Blank EXCEPT !.status = "UNKNOWN"])
    /\ UNCHANGED <<req, iter, fin, fsVars, nreq, ncrash>>

\* It opens the file, which pins the inode, and takes its size.
StreamOpen(t) ==
    /\ pc[t] = "fopen"
    /\ fin' = [fin EXCEPT ![t] = Content(req[t].path)]
    /\ Goto(t, "send")
    /\ UNCHANGED <<req, reply, iter, fsVars, lockVars, nreq, ncrash>>

\* Mutant: the loop over the chunks does not advance.
StreamChunkStuck(t) ==
    /\ pc[t] = "send"
    /\ Len(reply[t].data) < Len(fin[t])
    /\ UNCHANGED vars

\* writer->Write(reply), once per chunk.  reply[t].data is what was streamed.
StreamChunk(t) ==
    /\ pc[t] = "send"
    /\ Len(reply[t].data) < Len(fin[t])
    /\ reply' = [reply EXCEPT ![t].data =
                   Append(@, fin[t][Len(reply[t].data) + 1])]
    /\ UNCHANGED <<pc, req, iter, fin, fsVars, lockVars, nreq, ncrash>>

\* The end of the loop.  An empty file was no message: not even a modify time.
StreamSent(t) ==
    /\ pc[t] = "send"
    /\ Len(reply[t].data) = Len(fin[t])
    /\ ReturnRead(t, IF fin[t] = <<>> THEN Blank ELSE reply[t])
    /\ UNCHANGED <<req, iter, fin, fsVars, nreq, ncrash>>

\* TestAuth compares modify times; a missing file counts as changed.
TestAuth(t) ==
    LET p == req[t].path IN
    /\ pc[t] = "auth"
    /\ ReturnRead(t, [Blank EXCEPT !.changed =
                        ~Exists(p) \/ disk[p].mtime # req[t].time])
    /\ UNCHANGED <<req, iter, fin, fsVars, nreq, ncrash>>

\* GetFileStat returns one stat(2): the size is that of data.
GetFileStat(t) ==
    LET p == req[t].path IN
    /\ pc[t] = "stat"
    /\ ReturnRead(t, IF Exists(p)
                       THEN [Blank EXCEPT !.data = disk[p].data,
                                          !.mtime = disk[p].mtime]
                       ELSE [Blank EXCEPT !.errno = "ENOENT"])
    /\ UNCHANGED <<req, iter, fin, fsVars, nreq, ncrash>>
----
(***************************************************************************)
(* Store and StoreWithStream                                               *)
(***************************************************************************)
\* StoreWithStream reads its first message before it takes the lock.
StoreFirst(t) ==
    /\ pc[t] = "first"
    /\ \/ /\ iter' = [iter EXCEPT ![t] = 1]
          /\ Goto(t, "lock")
          /\ UNCHANGED reply
       \/ /\ ClientDies
          /\ Return(t, [Blank EXCEPT !.status = "CANCELLED"])
          /\ UNCHANGED iter
    /\ UNCHANGED <<req, fin, fsVars, lockVars, nreq, ncrash>>

\* Mutant: a store goes on where the one that left the temporary file was.
StoreOpenResumes(t) ==
    LET p    == req[t].path
        kept == IF temp[p] = NoFile \/ temp[p].data = <<>>
                  THEN <<>> ELSE <<temp[p].data[1]>>
    IN
    /\ pc[t] = "open"
    /\ temp' = [temp EXCEPT ![p] = [data |-> kept, mtime |-> clock]]
    /\ iter' = [iter EXCEPT ![t] = Len(kept) + 1]
    /\ Goto(t, IF req[t].op = "Store" THEN "fill" ELSE "write")
    /\ UNCHANGED <<disk, clock, hist, req, reply, fin, lockVars, nreq, ncrash>>

\* Mutant: the destination is truncated and then replaced.
StoreOpenInPlace(t) ==
    LET p == req[t].path IN
    /\ pc[t] = "open"
    /\ temp' = [temp EXCEPT ![p] = [data |-> <<>>, mtime |-> clock]]
    /\ disk' = [disk EXCEPT ![p] = [data |-> <<>>, mtime |-> clock]]
    /\ Goto(t, IF req[t].op = "Store" THEN "fill" ELSE "write")
    /\ UNCHANGED <<clock, hist, req, reply, iter, fin, lockVars, nreq, ncrash>>

\* file.open(temppath) creates or truncates the temporary file.
StoreOpen(t) ==
    /\ pc[t] = "open"
    /\ temp' = [temp EXCEPT ![req[t].path] = [data |-> <<>>, mtime |-> clock]]
    /\ Goto(t, IF req[t].op = "Store" THEN "fill" ELSE "write")
    /\ UNCHANGED <<disk, clock, hist, req, reply, iter, fin, lockVars, nreq,
                   ncrash>>

\* ... or fails, which write_file sees by file.fail().  StoreWithStream does
\* not look: it reads its messages, writes none and goes on to rename(2), where
\* a temporary file an earlier store left may be.
StoreOpenFails(t) ==
    /\ pc[t] = "open"
    /\ DiskFails
    /\ IF req[t].op = "Store"
         THEN ReturnWrite(t, [Blank EXCEPT !.status = "UNKNOWN"])
         ELSE Goto(t, "commit") /\ UNCHANGED <<reply, lockVars>>
    /\ UNCHANGED <<req, iter, fin, fsVars, nreq, ncrash>>

\* Store: file << content and file.close().
StoreFill(t) ==
    /\ pc[t] = "fill"
    /\ \E m \in StampTimes :
         /\ clock' = m
         /\ temp' = [temp EXCEPT ![req[t].path] =
                       [data |-> Whole(req[t].data), mtime |-> m]]
    /\ Goto(t, "commit")
    /\ UNCHANGED <<disk, hist, req, reply, iter, fin, lockVars, nreq, ncrash>>

\* Mutant: file.fail() is not looked at.
StoreFillFailsUnseen(t) ==
    /\ pc[t] = "fill"
    /\ DiskFails
    /\ \E n \in 0 .. Chunks - 1 :
         temp' = [temp EXCEPT ![req[t].path].data =
                    SubSeq(Whole(req[t].data), 1, n)]
    /\ Goto(t, "commit")
    /\ UNCHANGED <<disk, clock, hist, req, reply, iter, fin, lockVars, nreq,
                   ncrash>>

\* ... or the write fails: the temporary file stays, holding a part of it.
StoreFillFails(t) ==
    /\ pc[t] = "fill"
    /\ DiskFails
    /\ \E n \in 0 .. Chunks - 1 :
         temp' = [temp EXCEPT ![req[t].path].data =
                    SubSeq(Whole(req[t].data), 1, n)]
    /\ ReturnWrite(t, [Blank EXCEPT !.status = "UNKNOWN"])
    /\ UNCHANGED <<disk, clock, hist, req, iter, fin, nreq, ncrash>>

\* StoreWithStream: file << chunk.  Nothing looks at the stream's state, so
\* after a failure the handler goes on and no later chunk is written.
StoreChunk(t) ==
    LET p == req[t].path IN
    /\ pc[t] = "write"
    /\ \/ /\ Len(temp[p].data) = iter[t] - 1
          /\ temp' = [temp EXCEPT ![p].data = Append(@, req[t].data)]
       \/ /\ DiskFails \/ Len(temp[p].data) < iter[t] - 1
          /\ UNCHANGED temp
    /\ Goto(t, "next")
    /\ UNCHANGED <<disk, clock, hist, req, reply, iter, fin, lockVars, nreq,
                   ncrash>>

\* Mutant: one message too many is expected.
StoreNextPastEnd(t) ==
    /\ pc[t] = "next"
    /\ iter[t] <= Chunks
    /\ iter' = [iter EXCEPT ![t] = @ + 1]
    /\ Goto(t, "write")
    /\ UNCHANGED <<req, reply, fin, fsVars, lockVars, nreq, ncrash>>

\* reader->Read(&request) yields the client's next message ...
StoreNext(t) ==
    /\ pc[t] = "next"
    /\ iter[t] < Chunks
    /\ iter' = [iter EXCEPT ![t] = @ + 1]
    /\ Goto(t, "write")
    /\ UNCHANGED <<req, reply, fin, fsVars, lockVars, nreq, ncrash>>

\* ... or returns false, at the end of the stream and equally when the call
\* is broken before its end; then file.close().
StoreLast(t) ==
    /\ pc[t] = "next"
    /\ iter[t] = Chunks \/ ClientDies
    /\ \E m \in StampTimes :
         /\ clock' = m
         /\ temp' = [temp EXCEPT ![req[t].path].mtime = m]
    /\ Goto(t, "commit")
    /\ UNCHANGED <<disk, hist, req, reply, iter, fin, lockVars, nreq, ncrash>>

\* Mutant: the write lock is released before the modify time is read back.
StoreCommitUnlocks(t) ==
    /\ pc[t] = "commit"
    /\ CommitTemp(req[t].path)
    /\ Goto(t, "stamp")
    /\ UnlockUnique(t, req[t].path)
    /\ UNCHANGED <<clock, req, reply, iter, fin, nreq, ncrash>>

\* Mutant: the temporary file is copied and not renamed.
StoreCommitCopies(t) ==
    /\ pc[t] = "commit"
    /\ SetFile(req[t].path, temp[req[t].path])
    /\ Goto(t, "stamp")
    /\ UNCHANGED <<temp, clock, req, reply, iter, fin, lockVars, nreq, ncrash>>

\* rename(temppath, filepath)
StoreCommit(t) ==
    /\ pc[t] = "commit"
    /\ temp[req[t].path] # NoFile
    /\ CommitTemp(req[t].path)
    /\ Goto(t, "stamp")
    /\ UNCHANGED <<clock, req, reply, iter, fin, lockVars, nreq, ncrash>>

\* ... or rename(2) fails, and the temporary file stays.
StoreCommitFails(t) ==
    /\ pc[t] = "commit"
    /\ DiskFails \/ temp[req[t].path] = NoFile
    /\ ReturnWrite(t, [Blank EXCEPT !.status = "UNKNOWN"])
    /\ UNCHANGED <<req, iter, fin, fsVars, nreq, ncrash>>

\* The response carries the modify time read back under the lock.
StoreStat(t) ==
    LET p == req[t].path IN
    /\ pc[t] = "stamp"
    /\ ReturnWrite(t, IF Exists(p)
                        THEN [Blank EXCEPT !.mtime = disk[p].mtime]
                        ELSE [Blank EXCEPT !.errno = "ENOENT"])
    /\ UNCHANGED <<req, iter, fin, fsVars, nreq, ncrash>>
----
(***************************************************************************)
(* Handlers that change the name space                                     *)
(***************************************************************************)
Remove(t) ==
    LET p == req[t].path IN
    /\ pc[t] = "unlink"
    /\ disk' = [disk EXCEPT ![p] = NoFile]
    /\ ReturnWrite(t, IF Exists(p) THEN Blank
                                   ELSE [Blank EXCEPT !.errno = "ENOENT"])
    /\ UNCHANGED <<temp, clock, hist, req, iter, fin, nreq, ncrash>>

\* The result of mknod(2) is not looked at: the response is always OK.
Mknod(t) ==
    LET p == req[t].path IN
    /\ pc[t] = "mknod"
    /\ IF Exists(p)
         THEN UNCHANGED <<disk, hist, clock>>
         ELSE \E m \in StampTimes :
                /\ clock' = m
                /\ SetFile(p, [data |-> <<>>, mtime |-> m])
    /\ ReturnWrite(t, Blank)
    /\ UNCHANGED <<temp, req, iter, fin, nreq, ncrash>>

\* Mutant: the lock of the destination is not taken.
RenameLockForgets(t) ==
    /\ pc[t] = "lock2"
    /\ Goto(t, "move")
    /\ UNCHANGED <<req, reply, iter, fin, fsVars, lockVars, nreq, ncrash>>

\* Rename takes the lock of the source first and of the destination second,
\* whatever their order.
RenameLock(t) ==
    /\ pc[t] = "lock2"
    /\ LockUnique(t, req[t].dst)
    /\ Goto(t, "move")
    /\ UNCHANGED <<req, reply, iter, fin, fsVars, nreq, ncrash>>

\* Rename's return with errno e, and the release of both locks.
ReturnRename(t, e) ==
    /\ Return(t, [Blank EXCEPT !.errno = e])
    /\ writers' = [writers EXCEPT ![req[t].path] = @ \ {t},
                                  ![req[t].dst] = @ \ {t}]
    /\ UNCHANGED readers

\* Mutant: the destination may exist.
RenameCheckSkips(t) ==
    /\ pc[t] = "move"
    /\ Goto(t, "moveto")
    /\ UNCHANGED <<req, reply, iter, fin, fsVars, lockVars, nreq, ncrash>>

\* move_file: a destination that exists is refused, ...
RenameCheck(t) ==
    /\ pc[t] = "move"
    /\ IF Exists(req[t].dst)
         THEN ReturnRename(t, "EEXIST")
         ELSE Goto(t, "moveto") /\ UNCHANGED <<reply, lockVars>>
    /\ UNCHANGED <<req, iter, fin, fsVars, nreq, ncrash>>

\* ... and rename(2), which would replace one, comes later.
RenameMove(t) ==
    LET p == req[t].path
        q == req[t].dst
    IN
    /\ pc[t] = "moveto"
    /\ IF Exists(p)
         THEN /\ disk' = [disk EXCEPT ![p] = NoFile, ![q] = disk[p]]
              /\ hist' = [hist EXCEPT ![q] = @ \union {disk[p]}]
              /\ ReturnRename(t, "0")
         ELSE UNCHANGED <<disk, hist>> /\ ReturnRename(t, "ENOENT")
    /\ UNCHANGED <<temp, clock, req, iter, fin, nreq, ncrash>>
----
(***************************************************************************)
(* The server process dies and is started again: its threads and locks are *)
(* gone, the directory stays as it was.                                    *)
(***************************************************************************)
Crash ==
    /\ ncrash < MaxCrashes
    /\ ncrash' = ncrash + 1
    /\ readers' = [p \in Paths |-> {}]
    /\ writers' = [p \in Paths |-> {}]
    /\ pc' = [t \in Threads |-> "idle"]
    /\ req' = [t \in Threads |-> NoRequest]
    /\ reply' = [t \in Threads |-> Blank]
    /\ iter' = [t \in Threads |-> 0]
    /\ fin' = [t \in Threads |-> <<>>]
    /\ UNCHANGED <<fsVars, nreq>>

\* Every call issued has been answered and no more will come.
Quiescent ==
    /\ nreq = MaxReqs
    /\ \A t \in Threads : pc[t] = "idle"
    /\ UNCHANGED vars

Init ==
    /\ LockInit
    /\ clock = 1
    /\ disk \in [Paths -> {NoFile} \union
                            {[data |-> Whole(d), mtime |-> 1] : d \in Data}]
    /\ hist = [p \in Paths |-> {disk[p]} \ {NoFile}]
    /\ temp = [p \in Paths |-> NoFile]
    /\ pc = [t \in Threads |-> "idle"]
    /\ req = [t \in Threads |-> NoRequest]
    /\ reply = [t \in Threads |-> Blank]
    /\ iter = [t \in Threads |-> 0]
    /\ fin = [t \in Threads |-> <<>>]
    /\ nreq = 0
    /\ ncrash = 0

\* A step of the handler thread t runs, or of the client it serves.
Step(t) ==
    \/ GetReadLock(t) \/ GetWriteLock(t)
    \/ FetchRead(t) \/ FetchStat(t)
    \/ StreamTime(t) \/ StreamOpen(t) \/ StreamChunk(t) \/ StreamSent(t)
    \/ TestAuth(t) \/ GetFileStat(t)
    \/ StoreFirst(t) \/ StoreOpen(t) \/ StoreOpenFails(t)
    \/ StoreFill(t) \/ StoreFillFails(t)
    \/ StoreChunk(t) \/ StoreNext(t) \/ StoreLast(t)
    \/ StoreCommit(t) \/ StoreCommitFails(t) \/ StoreStat(t)
    \/ Remove(t) \/ Mknod(t)
    \/ RenameLock(t) \/ RenameCheck(t) \/ RenameMove(t)
    \/ Deliver(t)

Next ==
    \/ \E t \in Threads : Step(t) \/ \E r \in Incoming : Start(t, r)
    \/ Crash
    \/ Quiescent

Spec == Init /\ [][Next]_vars

\* The operating system runs every thread that can run.  Nothing is assumed of
\* who gets a contended lock: std::shared_mutex promises no order.
FairSpec == Spec /\ \A t \in Threads : WF_vars(Step(t))
----
(***************************************************************************)
(* Properties                                                              *)
(***************************************************************************)
Labels ==
    {"idle", "first", "lock", "lock2", "read", "mtime", "time", "fopen", "send",
     "auth", "stat", "open", "fill", "write", "next", "commit", "stamp",
     "unlink", "mknod", "move", "moveto", "done"}

\* The type invariant.
TypeOK ==
    /\ LockTypeOK
    /\ disk \in [Paths -> Files]
    /\ temp \in [Paths -> Files]
    /\ clock \in Nat
    /\ hist \in [Paths -> SUBSET Versions]
    /\ pc \in [Threads -> Labels]
    /\ req \in [Threads -> Request \union {NoRequest}]
    /\ reply \in [Threads -> Reply]
    /\ iter \in [Threads -> 0 .. Chunks]
    /\ fin \in [Threads -> Contents]
    /\ nreq \in 0 .. MaxReqs
    /\ ncrash \in 0 .. MaxCrashes

Succeeded(t, ops) ==
    pc[t] = "done" /\ req[t].op \in ops /\ reply[t].status = "OK"
                   /\ reply[t].errno = "0"

\* A successful FetchWithStream or GetFileStat (server.cc:908, :672) returns
\* the content of one version of the file together with that version's modify
\* time, however many stores ran while it did: TestAuth will answer for the
\* content the client cached.
ReadsOneVersion ==
    \A t \in Threads :
        Succeeded(t, {"FetchWithStream", "GetFileStat"}) =>
            \E v \in hist[req[t].path] :
                [data |-> reply[t].data, mtime |-> reply[t].mtime]
                    = Delivered(req[t].op, v)

\* A successful Store or StoreWithStream (server.cc:570, :838) committed the
\* whole content it was sent, and the modify time it returns is that of the
\* version it committed and not of a store that came after it.
StoreReplyNamesItsFile ==
    \A t \in Threads :
        Succeeded(t, StoreOps) =>
            [data |-> Whole(req[t].data), mtime |-> reply[t].mtime]
                \in hist[req[t].path]

\* A file on the server is empty (mknod) or what one store sent, whole; no
\* crash, failed write or broken stream leaves a part of it (write_file,
\* server.cc:225).
NoPartialFile ==
    \A p \in Paths : \A v \in hist[p] :
        v.data = <<>> \/ \E d \in Data : v.data = Whole(d)

\* Even where a file is cut short it holds the chunks of one store only: two
\* stores never meet in the temporary file they share (server.cc:139).
OneWriterPerFile ==
    \A p \in Paths : \A v \in hist[p] :
        \A i, j \in 1 .. Len(v.data) : v.data[i] = v.data[j]

\* Without crashes and failed writes a temporary file is in the hands of the
\* thread that holds its path's write lock, and gone when that is released.
TempIsInUse ==
    \A p \in Paths : temp[p] # NoFile => writers[p] # {}

\* A path never changes under a thread that reads it (locks.h, the report's
\* "prevent ... reading ... while a write operation is ongoing").
StableWhileRead ==
    [][\A p \in Paths : readers[p] # {} => disk'[p] = disk[p]]_vars

\* Replacing a file never takes its modify time back.
MtimeNeverGoesBack ==
    [][\A p \in Paths :
         Exists(p) /\ disk'[p] # NoFile => disk'[p].mtime >= disk[p].mtime]_vars

\* Every call the server accepts is answered, unless the process dies, if
\* calls stop arriving (MaxReqs): no lock is left held, no handler waits for
\* ever.
EveryCallAnswered ==
    \A t \in Threads : pc[t] # "idle" ~> pc[t] = "idle"
----
(***************************************************************************)
(* FileServer implements AtomicFiles.  A call takes effect when its handler *)
(* returns, a store when rename(2) does.                                    *)
(***************************************************************************)
Phase(t) ==
    CASE pc[t] = "idle" -> "idle"
      [] pc[t] \in {"stamp", "done"} -> "answered"
      [] OTHER -> "called"

AnswerOf(t) ==
    CASE pc[t] = "stamp" -> [Blank EXCEPT !.mtime = disk[req[t].path].mtime]
      [] pc[t] = "done"  -> reply[t]
      [] OTHER -> Blank

Atomic == INSTANCE AtomicFiles WITH
    file  <- disk,
    phase <- [t \in Threads |-> Phase(t)],
    reply <- [t \in Threads |-> AnswerOf(t)]

\* Every behaviour of the handlers is one of AtomicFiles: calls that overlap,
\* with a crash anywhere, look to their clients as if each had run alone at one
\* moment between its invocation and its answer.
ImplementsAtomicFiles == Atomic!Spec
====
