---- MODULE FileServerProofs ----
(***************************************************************************)
(* What TLAPS proves of FileServer, for every number of threads, paths,    *)
(* chunks and calls, with crashes, failing disks and dying clients; the    *)
(* refinement of AtomicFiles comes last.                                   *)
(***************************************************************************)
EXTENDS FileServer, SequenceTheorems, TLAPS

ReadLabels   == {"read", "time", "fopen", "send", "auth", "stat"}
StreamLabels == {"time", "fopen", "send"}
FillLabels   == {"open", "fill", "write", "next", "commit", "stamp"}
WriteLabels  == FillLabels \union {"unlink", "mknod", "lock2", "move", "moveto"}

\* A request a handler works on is one the client could send, ...
GoodRequest(r) ==
    /\ r.op \in ReadOps \union WriteOps
    /\ r.path \in Paths
    /\ r.op \in StoreOps => r.data \in Data
    /\ r.op = "Rename" => r.dst \in Paths /\ r.dst # r.path

\* ... and each step is taken on behalf of the RPC it belongs to.
OpAtLabel(t) ==
    /\ pc[t] \in {"read", "mtime"} => req[t].op = "Fetch"
    /\ pc[t] \in StreamLabels => req[t].op = "FetchWithStream"
    /\ pc[t] = "auth" => req[t].op = "TestAuth"
    /\ pc[t] = "stat" => req[t].op = "GetFileStat"
    /\ pc[t] \in FillLabels => req[t].op \in StoreOps
    /\ pc[t] = "fill" => req[t].op = "Store"
    /\ pc[t] \in {"first", "write", "next"} => req[t].op = "StoreWithStream"
    /\ pc[t] = "unlink" => req[t].op = "Remove"
    /\ pc[t] = "mknod" => req[t].op = "Mknod"
    /\ pc[t] \in {"lock2", "move", "moveto"} => req[t].op = "Rename"

Requests ==
    \A t \in Threads : pc[t] # "idle" => GoodRequest(req[t]) /\ OpAtLabel(t)

\* The locks are held from the step that takes them to the handler's return
\* (Fetch: to its unlock), and by nobody else.
HoldsShared(t, p) == pc[t] \in ReadLabels /\ req[t].path = p
HoldsUnique(t, p) ==
    \/ pc[t] \in WriteLabels /\ req[t].path = p
    \/ pc[t] \in {"move", "moveto"} /\ req[t].dst = p

LocksHeld ==
    \A t \in Threads, p \in Paths :
        /\ t \in readers[p] <=> HoldsShared(t, p)
        /\ t \in writers[p] <=> HoldsUnique(t, p)

ControlTypeOK ==
    /\ LockTypeOK
    /\ pc \in [Threads -> Labels]
    /\ req \in [Threads -> Request \union {NoRequest}]
    /\ clock \in Nat
    /\ disk = [p \in Paths |-> disk[p]]
    /\ temp = [p \in Paths |-> temp[p]]

ControlInv == ControlTypeOK /\ Requests /\ LocksHeld /\ Exclusive
----
\* The requests clients issue (filesystemcomm.proto) are requests the handlers can
\* serve: for one, a Rename names two paths.
LEMMA IncomingGood ==
    ASSUME clock \in Nat, NEW r \in Incoming
    PROVE  r \in Request /\ GoodRequest(r)
<1>2. CASE r \in [op : Ops \intersect (ReadOps \ {"TestAuth"}), path : Paths]
  BY <1>2 DEF Request, GoodRequest, ReadOps, WriteOps, StoreOps
<1>3. CASE r \in [op : Ops \intersect {"TestAuth"}, path : Paths, time : 0 .. clock]
  BY <1>3 DEF Request, GoodRequest, ReadOps, WriteOps, StoreOps
<1>4. CASE r \in [op : Ops \intersect StoreOps, path : Paths, data : Data]
  BY <1>4 DEF Request, GoodRequest, ReadOps, WriteOps, StoreOps
<1>5. CASE r \in [op : Ops \intersect {"Remove", "Mknod"}, path : Paths]
  BY <1>5 DEF Request, GoodRequest, ReadOps, WriteOps, StoreOps
<1>6. CASE r \in {[op |-> "Rename", path |-> pair[1], dst |-> pair[2]] :
                    pair \in IF "Rename" \in Ops THEN RenamePairs ELSE {}}
  <2>1. PICK pair \in RenamePairs :
          r = [op |-> "Rename", path |-> pair[1], dst |-> pair[2]]
    BY <1>6
  <2>2. pair[1] \in Paths /\ pair[2] \in Paths /\ pair[1] # pair[2]
    BY RenameAssumption
  <2>. QED
    BY <2>1, <2>2 DEF Request, GoodRequest, ReadOps, WriteOps, StoreOps
<1>. QED
  BY <1>2, <1>3, <1>4, <1>5, <1>6 DEF Incoming

\* What a client stores is a file content.
LEMMA WholeType == \A d \in Data : Whole(d) \in Contents
BY ChunksAssumption DEF Whole, Contents

\* A file that exists is a version: it has a content and a modify time.
LEMMA FileType ==
    ASSUME NEW f \in Files, f # NoFile
    PROVE  f \in Versions /\ f.data \in Contents /\ f.mtime \in Nat
BY DEF Files, Versions

\* A content and a modify time make a file, as write_file leaves it.
LEMMA VersionType ==
    ASSUME NEW c \in Contents, NEW m \in Nat
    PROVE  /\ [data |-> c, mtime |-> m] \in Files
           /\ [data |-> c, mtime |-> m] \in Versions
BY DEF Files, Versions

\* Writing to the temporary file or stamping it leaves it a file.
LEMMA VersionUpdate ==
    ASSUME NEW v \in Versions, NEW c \in Contents, NEW m \in Nat
    PROVE  [v EXCEPT !.data = c] \in Files /\ [v EXCEPT !.mtime = m] \in Files
BY DEF Files, Versions

\* The content of a file mknod made is a content.
LEMMA EmptyType == <<>> \in Contents
BY DEF Contents

\* The response a handler starts from is a response.
LEMMA BlankType == Blank \in Reply
BY EmptyType DEF Blank, Reply

\* Setting a field of a response leaves it a response.
LEMMA ReplyUpdate ==
    ASSUME NEW r \in Reply
    PROVE  /\ \A s \in {"OK", "UNKNOWN", "CANCELLED"} : [r EXCEPT !.status = s] \in Reply
           /\ \A e \in {"0", "ENOENT", "EEXIST"} : [r EXCEPT !.errno = e] \in Reply
           /\ \A c \in Contents : [r EXCEPT !.data = c] \in Reply
           /\ \A m \in Nat : [r EXCEPT !.mtime = m] \in Reply
           /\ \A b \in BOOLEAN : [r EXCEPT !.changed = b] \in Reply
BY DEF Reply

\* The kernel's file timestamps are times.
LEMMA StampType == ASSUME clock \in Nat PROVE StampTimes \subseteq Nat
BY DEF StampTimes

\* When the server starts nobody holds a lock and no handler runs.
LEMMA ControlInit == Init => ControlInv
BY DEF Init, ControlInv, ControlTypeOK, LockInit, LockTypeOK, Labels, Requests,
       LocksHeld, HoldsShared, HoldsUnique, ReadLabels, WriteLabels, FillLabels,
       Exclusive

\* Where the lock leaves a handler: at a step that is its RPC's.
LEMMA AfterLockLabel ==
    ASSUME NEW t \in Threads, GoodRequest(req[t]),
           pc \in [Threads -> Labels], pc[t] = "lock", req' = req,
           pc' = [pc EXCEPT ![t] = AfterLock[req[t].op]]
    PROVE  /\ GoodRequest(req'[t]) /\ OpAtLabel(t)'
           /\ req[t].op \in ReadOps => pc'[t] \in ReadLabels
           /\ req[t].op \in WriteOps => pc'[t] \in WriteLabels \ {"move", "moveto"}
           /\ pc'[t] \in Labels \ {"idle", "first", "mtime", "send", "moveto"}
<1>1. AfterLock[req[t].op] =
        CASE req[t].op = "Fetch"           -> "read"
          [] req[t].op = "FetchWithStream" -> "time"
          [] req[t].op = "TestAuth"        -> "auth"
          [] req[t].op = "GetFileStat"     -> "stat"
          [] req[t].op \in StoreOps        -> "open"
          [] req[t].op = "Remove"          -> "unlink"
          [] req[t].op = "Mknod"           -> "mknod"
          [] req[t].op = "Rename"          -> "lock2"
  BY DEF AfterLock, GoodRequest
<1>2. \/ req[t].op \in StoreOps
      \/ req[t].op \in {"Fetch", "FetchWithStream", "TestAuth", "GetFileStat",
                        "Remove", "Mknod", "Rename"}
  BY DEF GoodRequest, ReadOps, WriteOps
<1>3. CASE req[t].op \in StoreOps
  BY <1>1, <1>3 DEF OpAtLabel, ReadLabels, StreamLabels, WriteLabels, FillLabels,
     ReadOps, StoreOps, Labels
<1>4. CASE req[t].op \notin StoreOps
  BY <1>1, <1>2, <1>4 DEF OpAtLabel, ReadLabels, StreamLabels, WriteLabels,
     FillLabels, ReadOps, WriteOps, StoreOps, Labels
<1>. QED
  BY <1>3, <1>4

\* No step of a handler, of the server's loop or of a crash disturbs who holds what:
\* each handler keeps the locks its label stands for, and writers exclude all others.
LEMMA ControlStep == ControlInv /\ [Next]_vars => ControlInv'
<1>. SUFFICES ASSUME ControlInv, [Next]_vars PROVE ControlInv'
  OBVIOUS
<1>. USE DEF ControlInv, ControlTypeOK
<1>1. ASSUME NEW t \in Threads, NEW r \in Incoming, Start(t, r)
      PROVE  ControlInv'
  <2>1. ControlTypeOK'
    BY <1>1, IncomingGood DEF Start, Goto, Labels, LockTypeOK, fsVars, lockVars
  <2>2. Requests'
    BY <1>1, IncomingGood
       DEF Start, Goto, Labels, OpAtLabel, StreamLabels, FillLabels, Requests
  <2>3. LocksHeld' /\ Exclusive'
    BY <1>1 DEF Start, Goto, lockVars, LocksHeld, Exclusive, HoldsShared,
                HoldsUnique, ReadLabels, WriteLabels, FillLabels
  <2>. QED
    BY <2>1, <2>2, <2>3
<1>2. ASSUME NEW t \in Threads, GetReadLock(t) PROVE ControlInv'
  <2>1. /\ GoodRequest(req'[t]) /\ OpAtLabel(t)' /\ pc'[t] \in ReadLabels
        /\ pc'[t] \in Labels \ {"idle", "move", "moveto"} /\ req' = req
        /\ \A u \in Threads \ {t} : pc'[u] = pc[u]
        /\ pc' \in [Threads -> Labels]
    BY <1>2, AfterLockLabel
       DEF GetReadLock, Goto, Requests, ReadLabels, WriteLabels, FillLabels
  <2>2. ControlTypeOK'
    BY <1>2, <2>1 DEF GetReadLock, LockShared, fsVars, LockTypeOK
  <2>3. Requests'
    BY <2>1 DEF Requests, GoodRequest, OpAtLabel
  <2>4. LocksHeld'
    BY <1>2, <2>1 DEF GetReadLock, LockShared, LocksHeld, HoldsShared, HoldsUnique,
       ReadLabels, WriteLabels, FillLabels, LockTypeOK, Requests, GoodRequest
  <2>5. Exclusive'
    BY <1>2 DEF GetReadLock, LockShared, Exclusive, LockTypeOK, Requests, GoodRequest
  <2>. QED
    BY <2>2, <2>3, <2>4, <2>5
<1>3. ASSUME NEW t \in Threads, GetWriteLock(t) PROVE ControlInv'
  <2>1. /\ GoodRequest(req'[t]) /\ OpAtLabel(t)' /\ pc'[t] \in WriteLabels
        /\ pc'[t] \in Labels \ {"idle", "move", "moveto"} /\ req' = req
        /\ \A u \in Threads \ {t} : pc'[u] = pc[u]
        /\ pc' \in [Threads -> Labels]
    BY <1>3, AfterLockLabel
       DEF GetWriteLock, Goto, Requests, ReadLabels, WriteLabels, FillLabels
  <2>2. ControlTypeOK'
    BY <1>3, <2>1 DEF GetWriteLock, LockUnique, fsVars, LockTypeOK
  <2>3. Requests'
    BY <2>1 DEF Requests, GoodRequest, OpAtLabel
  <2>4. LocksHeld'
    BY <1>3, <2>1 DEF GetWriteLock, LockUnique, LocksHeld, HoldsShared, HoldsUnique,
       ReadLabels, WriteLabels, FillLabels, LockTypeOK, Requests, GoodRequest
  <2>5. Exclusive'
    BY <1>3 DEF GetWriteLock, LockUnique, Exclusive, LockTypeOK, Requests, GoodRequest
  <2>. QED
    BY <2>2, <2>3, <2>4, <2>5
<1>4. ASSUME NEW t \in Threads, FetchRead(t) PROVE ControlInv'
  <2>1. ControlTypeOK'
    BY <1>4 DEF FetchRead, Goto, Return, UnlockShared, fsVars, Labels,
       LockTypeOK
  <2>2. Requests'
    BY <1>4 DEF FetchRead, Goto, Return, Requests, GoodRequest, OpAtLabel,
       StreamLabels, FillLabels, StoreOps
  <2>3. LocksHeld'
    BY <1>4 DEF FetchRead, Goto, Return, UnlockShared, LocksHeld, HoldsShared,
       HoldsUnique, ReadLabels, WriteLabels, FillLabels, LockTypeOK, Requests,
       GoodRequest, OpAtLabel, StoreOps
  <2>4. Exclusive'
    BY <1>4 DEF FetchRead, UnlockShared, Exclusive, LockTypeOK, Requests,
       GoodRequest, OpAtLabel
  <2>. QED
    BY <2>1, <2>2, <2>3, <2>4
<1>5. ASSUME NEW t \in Threads, FetchStat(t) PROVE ControlInv'
  <2>1. ControlTypeOK'
    BY <1>5 DEF FetchStat, Goto, Return, fsVars, lockVars, Labels, LockTypeOK
  <2>2. Requests'
    BY <1>5 DEF FetchStat, Goto, Return, Requests, GoodRequest, OpAtLabel,
       StreamLabels, FillLabels, StoreOps
  <2>3. LocksHeld'
    BY <1>5 DEF FetchStat, Goto, Return, lockVars, LocksHeld, HoldsShared,
       HoldsUnique, ReadLabels, WriteLabels, FillLabels
  <2>4. Exclusive'
    BY <1>5 DEF FetchStat, lockVars, Exclusive
  <2>. QED
    BY <2>1, <2>2, <2>3, <2>4
<1>6. ASSUME NEW t \in Threads, StreamTime(t) PROVE ControlInv'
  <2>1. ControlTypeOK'
    BY <1>6 DEF StreamTime, Goto, Return, ReturnRead, UnlockShared, fsVars,
       lockVars, Labels, LockTypeOK
  <2>2. Requests'
    BY <1>6 DEF StreamTime, Goto, Return, ReturnRead, Requests, GoodRequest,
       OpAtLabel, StreamLabels, FillLabels, StoreOps
  <2>3. LocksHeld'
    BY <1>6 DEF StreamTime, Goto, Return, ReturnRead, UnlockShared, lockVars,
       LocksHeld, HoldsShared, HoldsUnique, ReadLabels, WriteLabels,
       FillLabels, LockTypeOK, Requests, GoodRequest, OpAtLabel, StoreOps
  <2>4. Exclusive'
    BY <1>6 DEF StreamTime, ReturnRead, UnlockShared, lockVars, Exclusive,
       LockTypeOK, Requests, GoodRequest, OpAtLabel
  <2>. QED
    BY <2>1, <2>2, <2>3, <2>4
<1>7. ASSUME NEW t \in Threads, StreamOpen(t) PROVE ControlInv'
  <2>1. ControlTypeOK'
    BY <1>7 DEF StreamOpen, Goto, fsVars, lockVars, Labels, LockTypeOK
  <2>2. Requests'
    BY <1>7 DEF StreamOpen, Goto, Requests, GoodRequest, OpAtLabel,
       StreamLabels, FillLabels, StoreOps
  <2>3. LocksHeld'
    BY <1>7 DEF StreamOpen, Goto, lockVars, LocksHeld, HoldsShared,
       HoldsUnique, ReadLabels, WriteLabels, FillLabels
  <2>4. Exclusive'
    BY <1>7 DEF StreamOpen, lockVars, Exclusive
  <2>. QED
    BY <2>1, <2>2, <2>3, <2>4
<1>8. ASSUME NEW t \in Threads, StreamChunk(t) PROVE ControlInv'
  <2>1. ControlTypeOK'
    BY <1>8 DEF StreamChunk, fsVars, lockVars, Labels, LockTypeOK
  <2>2. Requests'
    BY <1>8 DEF StreamChunk, Requests, GoodRequest, OpAtLabel, StreamLabels,
       FillLabels, StoreOps
  <2>3. LocksHeld'
    BY <1>8 DEF StreamChunk, lockVars, LocksHeld, HoldsShared, HoldsUnique,
       ReadLabels, WriteLabels, FillLabels
  <2>4. Exclusive'
    BY <1>8 DEF StreamChunk, lockVars, Exclusive
  <2>. QED
    BY <2>1, <2>2, <2>3, <2>4
<1>9. ASSUME NEW t \in Threads, StreamSent(t) PROVE ControlInv'
  <2>1. ControlTypeOK'
    BY <1>9 DEF StreamSent, Goto, Return, ReturnRead, UnlockShared, fsVars,
       Labels, LockTypeOK
  <2>2. Requests'
    BY <1>9 DEF StreamSent, Goto, Return, ReturnRead, Requests, GoodRequest,
       OpAtLabel, StreamLabels, FillLabels, StoreOps
  <2>3. LocksHeld'
    BY <1>9 DEF StreamSent, Goto, Return, ReturnRead, UnlockShared, LocksHeld,
       HoldsShared, HoldsUnique, ReadLabels, WriteLabels, FillLabels,
       LockTypeOK, Requests, GoodRequest, OpAtLabel, StoreOps
  <2>4. Exclusive'
    BY <1>9 DEF StreamSent, ReturnRead, UnlockShared, Exclusive, LockTypeOK,
       Requests, GoodRequest, OpAtLabel
  <2>. QED
    BY <2>1, <2>2, <2>3, <2>4
<1>10. ASSUME NEW t \in Threads, TestAuth(t) PROVE ControlInv'
  <2>1. ControlTypeOK'
    BY <1>10 DEF TestAuth, Goto, Return, ReturnRead, UnlockShared, fsVars,
       Labels, LockTypeOK
  <2>2. Requests'
    BY <1>10 DEF TestAuth, Goto, Return, ReturnRead, Requests, GoodRequest,
       OpAtLabel, StreamLabels, FillLabels, StoreOps
  <2>3. LocksHeld'
    BY <1>10 DEF TestAuth, Goto, Return, ReturnRead, UnlockShared, LocksHeld,
       HoldsShared, HoldsUnique, ReadLabels, WriteLabels, FillLabels,
       LockTypeOK, Requests, GoodRequest, OpAtLabel, StoreOps
  <2>4. Exclusive'
    BY <1>10 DEF TestAuth, ReturnRead, UnlockShared, Exclusive, LockTypeOK,
       Requests, GoodRequest, OpAtLabel
  <2>. QED
    BY <2>1, <2>2, <2>3, <2>4
<1>11. ASSUME NEW t \in Threads, GetFileStat(t) PROVE ControlInv'
  <2>1. ControlTypeOK'
    BY <1>11 DEF GetFileStat, Goto, Return, ReturnRead, UnlockShared, fsVars,
       Labels, LockTypeOK
  <2>2. Requests'
    BY <1>11 DEF GetFileStat, Goto, Return, ReturnRead, Requests, GoodRequest,
       OpAtLabel, StreamLabels, FillLabels, StoreOps
  <2>3. LocksHeld'
    BY <1>11 DEF GetFileStat, Goto, Return, ReturnRead, UnlockShared,
       LocksHeld, HoldsShared, HoldsUnique, ReadLabels, WriteLabels,
       FillLabels, LockTypeOK, Requests, GoodRequest, OpAtLabel, StoreOps
  <2>4. Exclusive'
    BY <1>11 DEF GetFileStat, ReturnRead, UnlockShared, Exclusive, LockTypeOK,
       Requests, GoodRequest, OpAtLabel
  <2>. QED
    BY <2>1, <2>2, <2>3, <2>4
<1>12. ASSUME NEW t \in Threads, StoreFirst(t) PROVE ControlInv'
  <2>1. ControlTypeOK'
    BY <1>12 DEF StoreFirst, Goto, Return, fsVars, lockVars, Labels,
       LockTypeOK
  <2>2. Requests'
    BY <1>12 DEF StoreFirst, Goto, Return, Requests, GoodRequest, OpAtLabel,
       StreamLabels, FillLabels, StoreOps
  <2>3. LocksHeld'
    BY <1>12 DEF StoreFirst, Goto, Return, lockVars, LocksHeld, HoldsShared,
       HoldsUnique, ReadLabels, WriteLabels, FillLabels
  <2>4. Exclusive'
    BY <1>12 DEF StoreFirst, lockVars, Exclusive
  <2>. QED
    BY <2>1, <2>2, <2>3, <2>4
<1>13. ASSUME NEW t \in Threads, StoreOpen(t) PROVE ControlInv'
  <2>1. ControlTypeOK'
    BY <1>13 DEF StoreOpen, Goto, lockVars, Labels, LockTypeOK
  <2>2. Requests'
    BY <1>13 DEF StoreOpen, Goto, Requests, GoodRequest, OpAtLabel,
       StreamLabels, FillLabels, StoreOps
  <2>3. LocksHeld'
    BY <1>13 DEF StoreOpen, Goto, lockVars, LocksHeld, HoldsShared,
       HoldsUnique, ReadLabels, WriteLabels, FillLabels
  <2>4. Exclusive'
    BY <1>13 DEF StoreOpen, lockVars, Exclusive
  <2>. QED
    BY <2>1, <2>2, <2>3, <2>4
<1>14. ASSUME NEW t \in Threads, StoreFill(t) PROVE ControlInv'
  <2>1. ControlTypeOK'
    BY <1>14, StampType DEF StoreFill, Goto, lockVars, Labels, LockTypeOK
  <2>2. Requests'
    BY <1>14 DEF StoreFill, Goto, Requests, GoodRequest, OpAtLabel,
       StreamLabels, FillLabels, StoreOps
  <2>3. LocksHeld'
    BY <1>14 DEF StoreFill, Goto, lockVars, LocksHeld, HoldsShared,
       HoldsUnique, ReadLabels, WriteLabels, FillLabels
  <2>4. Exclusive'
    BY <1>14 DEF StoreFill, lockVars, Exclusive
  <2>. QED
    BY <2>1, <2>2, <2>3, <2>4
<1>15. ASSUME NEW t \in Threads, StoreFillFails(t) PROVE ControlInv'
  <2>1. ControlTypeOK'
    BY <1>15 DEF StoreFillFails, Goto, Return, ReturnWrite, UnlockUnique,
       Labels, LockTypeOK
  <2>2. Requests'
    BY <1>15 DEF StoreFillFails, Goto, Return, ReturnWrite, Requests,
       GoodRequest, OpAtLabel, StreamLabels, FillLabels, StoreOps
  <2>3. LocksHeld'
    BY <1>15 DEF StoreFillFails, Goto, Return, ReturnWrite, UnlockUnique,
       LocksHeld, HoldsShared, HoldsUnique, ReadLabels, WriteLabels,
       FillLabels, LockTypeOK, Requests, GoodRequest, OpAtLabel, StoreOps
  <2>4. Exclusive'
    BY <1>15 DEF StoreFillFails, ReturnWrite, UnlockUnique, Exclusive,
       LockTypeOK, Requests, GoodRequest, OpAtLabel
  <2>. QED
    BY <2>1, <2>2, <2>3, <2>4
<1>16. ASSUME NEW t \in Threads, StoreChunk(t) PROVE ControlInv'
  <2>1. ControlTypeOK'
    BY <1>16 DEF StoreChunk, Goto, lockVars, Labels, LockTypeOK
  <2>2. Requests'
    BY <1>16 DEF StoreChunk, Goto, Requests, GoodRequest, OpAtLabel,
       StreamLabels, FillLabels, StoreOps
  <2>3. LocksHeld'
    BY <1>16 DEF StoreChunk, Goto, lockVars, LocksHeld, HoldsShared,
       HoldsUnique, ReadLabels, WriteLabels, FillLabels
  <2>4. Exclusive'
    BY <1>16 DEF StoreChunk, lockVars, Exclusive
  <2>. QED
    BY <2>1, <2>2, <2>3, <2>4
<1>17. ASSUME NEW t \in Threads, StoreNext(t) PROVE ControlInv'
  <2>1. ControlTypeOK'
    BY <1>17 DEF StoreNext, Goto, fsVars, lockVars, Labels, LockTypeOK
  <2>2. Requests'
    BY <1>17 DEF StoreNext, Goto, Requests, GoodRequest, OpAtLabel,
       StreamLabels, FillLabels, StoreOps
  <2>3. LocksHeld'
    BY <1>17 DEF StoreNext, Goto, lockVars, LocksHeld, HoldsShared,
       HoldsUnique, ReadLabels, WriteLabels, FillLabels
  <2>4. Exclusive'
    BY <1>17 DEF StoreNext, lockVars, Exclusive
  <2>. QED
    BY <2>1, <2>2, <2>3, <2>4
<1>18. ASSUME NEW t \in Threads, StoreLast(t) PROVE ControlInv'
  <2>1. ControlTypeOK'
    BY <1>18, StampType DEF StoreLast, Goto, lockVars, Labels, LockTypeOK
  <2>2. Requests'
    BY <1>18 DEF StoreLast, Goto, Requests, GoodRequest, OpAtLabel,
       StreamLabels, FillLabels, StoreOps
  <2>3. LocksHeld'
    BY <1>18 DEF StoreLast, Goto, lockVars, LocksHeld, HoldsShared,
       HoldsUnique, ReadLabels, WriteLabels, FillLabels
  <2>4. Exclusive'
    BY <1>18 DEF StoreLast, lockVars, Exclusive
  <2>. QED
    BY <2>1, <2>2, <2>3, <2>4
<1>19. ASSUME NEW t \in Threads, StoreCommit(t) PROVE ControlInv'
  <2>1. ControlTypeOK'
    BY <1>19 DEF StoreCommit, Goto, SetFile, CommitTemp, lockVars, Labels,
       LockTypeOK
  <2>2. Requests'
    BY <1>19 DEF StoreCommit, Goto, Requests, GoodRequest, OpAtLabel,
       StreamLabels, FillLabels, StoreOps
  <2>3. LocksHeld'
    BY <1>19 DEF StoreCommit, Goto, lockVars, LocksHeld, HoldsShared,
       HoldsUnique, ReadLabels, WriteLabels, FillLabels
  <2>4. Exclusive'
    BY <1>19 DEF StoreCommit, lockVars, Exclusive
  <2>. QED
    BY <2>1, <2>2, <2>3, <2>4
<1>20. ASSUME NEW t \in Threads, StoreStat(t) PROVE ControlInv'
  <2>1. ControlTypeOK'
    BY <1>20 DEF StoreStat, Goto, Return, ReturnWrite, UnlockUnique, fsVars,
       Labels, LockTypeOK
  <2>2. Requests'
    BY <1>20 DEF StoreStat, Goto, Return, ReturnWrite, Requests, GoodRequest,
       OpAtLabel, StreamLabels, FillLabels, StoreOps
  <2>3. LocksHeld'
    BY <1>20 DEF StoreStat, Goto, Return, ReturnWrite, UnlockUnique,
       LocksHeld, HoldsShared, HoldsUnique, ReadLabels, WriteLabels,
       FillLabels, LockTypeOK, Requests, GoodRequest, OpAtLabel, StoreOps
  <2>4. Exclusive'
    BY <1>20 DEF StoreStat, ReturnWrite, UnlockUnique, Exclusive, LockTypeOK,
       Requests, GoodRequest, OpAtLabel
  <2>. QED
    BY <2>1, <2>2, <2>3, <2>4
<1>21. ASSUME NEW t \in Threads, Remove(t) PROVE ControlInv'
  <2>1. ControlTypeOK'
    BY <1>21 DEF Remove, Goto, Return, ReturnWrite, UnlockUnique, Labels,
       LockTypeOK
  <2>2. Requests'
    BY <1>21 DEF Remove, Goto, Return, ReturnWrite, Requests, GoodRequest,
       OpAtLabel, StreamLabels, FillLabels, StoreOps
  <2>3. LocksHeld'
    BY <1>21 DEF Remove, Goto, Return, ReturnWrite, UnlockUnique, LocksHeld,
       HoldsShared, HoldsUnique, ReadLabels, WriteLabels, FillLabels,
       LockTypeOK, Requests, GoodRequest, OpAtLabel, StoreOps
  <2>4. Exclusive'
    BY <1>21 DEF Remove, ReturnWrite, UnlockUnique, Exclusive, LockTypeOK,
       Requests, GoodRequest, OpAtLabel
  <2>. QED
    BY <2>1, <2>2, <2>3, <2>4
<1>22. ASSUME NEW t \in Threads, Mknod(t) PROVE ControlInv'
  <2>1. ControlTypeOK'
    BY <1>22, StampType DEF Mknod, Goto, Return, ReturnWrite, SetFile,
       UnlockUnique, Labels, LockTypeOK
  <2>2. Requests'
    BY <1>22 DEF Mknod, Goto, Return, ReturnWrite, Requests, GoodRequest,
       OpAtLabel, StreamLabels, FillLabels, StoreOps
  <2>3. LocksHeld'
    BY <1>22 DEF Mknod, Goto, Return, ReturnWrite, UnlockUnique, LocksHeld,
       HoldsShared, HoldsUnique, ReadLabels, WriteLabels, FillLabels,
       LockTypeOK, Requests, GoodRequest, OpAtLabel, StoreOps
  <2>4. Exclusive'
    BY <1>22 DEF Mknod, ReturnWrite, UnlockUnique, Exclusive, LockTypeOK,
       Requests, GoodRequest, OpAtLabel
  <2>. QED
    BY <2>1, <2>2, <2>3, <2>4
<1>23. ASSUME NEW t \in Threads, RenameLock(t) PROVE ControlInv'
  <2>1. ControlTypeOK'
    BY <1>23 DEF RenameLock, RenameCheck, Goto, LockUnique, fsVars, Labels, LockTypeOK
  <2>2. Requests'
    BY <1>23 DEF RenameLock, RenameCheck, Goto, Requests, GoodRequest, OpAtLabel,
       StreamLabels, FillLabels, StoreOps
  <2>3. LocksHeld'
    BY <1>23 DEF RenameLock, RenameCheck, Goto, LockUnique, LocksHeld, HoldsShared,
       HoldsUnique, ReadLabels, WriteLabels, FillLabels, LockTypeOK, Requests,
       GoodRequest, OpAtLabel, StoreOps
  <2>4. Exclusive'
    BY <1>23 DEF RenameLock, RenameCheck, LockUnique, Exclusive, LockTypeOK, Requests,
       GoodRequest, OpAtLabel
  <2>. QED
    BY <2>1, <2>2, <2>3, <2>4
<1>24. ASSUME NEW t \in Threads, RenameMove(t) PROVE ControlInv'
  <2>1. ControlTypeOK'
    BY <1>24 DEF RenameMove, Goto, Return, ReturnRename, fsVars, lockVars, Labels,
       LockTypeOK
  <2>2. Requests'
    BY <1>24 DEF RenameMove, Goto, Return, ReturnRename, fsVars, lockVars, Requests,
       GoodRequest, OpAtLabel,
       StreamLabels, FillLabels, StoreOps
  <2>3. LocksHeld'
    BY <1>24 DEF RenameMove, Goto, Return, ReturnRename, fsVars, lockVars, LocksHeld,
       HoldsShared, HoldsUnique, ReadLabels,
       WriteLabels, FillLabels, LockTypeOK, Requests, GoodRequest, OpAtLabel, StoreOps
  <2>4. Exclusive'
    BY <1>24 DEF RenameMove, Goto, Return, ReturnRename, fsVars, lockVars, Exclusive,
       LockTypeOK, Requests, GoodRequest, OpAtLabel
  <2>. QED
    BY <2>1, <2>2, <2>3, <2>4
<1>25. ASSUME NEW t \in Threads, Deliver(t) PROVE ControlInv'
  <2>1. ControlTypeOK'
    BY <1>25 DEF Deliver, Goto, fsVars, lockVars, Labels, LockTypeOK
  <2>2. Requests'
    BY <1>25 DEF Deliver, Goto, Requests, GoodRequest, OpAtLabel,
       StreamLabels, FillLabels, StoreOps
  <2>3. LocksHeld'
    BY <1>25 DEF Deliver, Goto, lockVars, LocksHeld, HoldsShared, HoldsUnique,
       ReadLabels, WriteLabels, FillLabels
  <2>4. Exclusive'
    BY <1>25 DEF Deliver, lockVars, Exclusive
  <2>. QED
    BY <2>1, <2>2, <2>3, <2>4
<1>28. ASSUME NEW t \in Threads, StoreOpenFails(t) PROVE ControlInv'
  <2>1. ControlTypeOK'
    BY <1>28 DEF StoreOpenFails, Goto, Return, ReturnWrite, UnlockUnique, fsVars,
       lockVars, Labels, LockTypeOK
  <2>2. Requests'
    BY <1>28 DEF StoreOpenFails, Goto, Return, ReturnWrite, UnlockUnique, fsVars,
       lockVars, Requests, GoodRequest, OpAtLabel,
       StreamLabels, FillLabels, StoreOps
  <2>3. LocksHeld'
    BY <1>28 DEF StoreOpenFails, Goto, Return, ReturnWrite, UnlockUnique, fsVars,
       lockVars, LocksHeld, HoldsShared, HoldsUnique, ReadLabels,
       WriteLabels, FillLabels, LockTypeOK, Requests, GoodRequest, OpAtLabel, StoreOps
  <2>4. Exclusive'
    BY <1>28 DEF StoreOpenFails, Goto, Return, ReturnWrite, UnlockUnique, fsVars,
       lockVars, Exclusive, LockTypeOK, Requests, GoodRequest, OpAtLabel
  <2>. QED
    BY <2>1, <2>2, <2>3, <2>4
<1>29. ASSUME NEW t \in Threads, StoreCommitFails(t) PROVE ControlInv'
  <2>1. ControlTypeOK'
    BY <1>29 DEF StoreCommitFails, Goto, Return, ReturnWrite, UnlockUnique, fsVars,
       lockVars, Labels, LockTypeOK
  <2>2. Requests'
    BY <1>29 DEF StoreCommitFails, Goto, Return, ReturnWrite, UnlockUnique, fsVars,
       lockVars, Requests, GoodRequest, OpAtLabel,
       StreamLabels, FillLabels, StoreOps
  <2>3. LocksHeld'
    BY <1>29 DEF StoreCommitFails, Goto, Return, ReturnWrite, UnlockUnique, fsVars,
       lockVars, LocksHeld, HoldsShared, HoldsUnique, ReadLabels,
       WriteLabels, FillLabels, LockTypeOK, Requests, GoodRequest, OpAtLabel, StoreOps
  <2>4. Exclusive'
    BY <1>29 DEF StoreCommitFails, Goto, Return, ReturnWrite, UnlockUnique, fsVars,
       lockVars, Exclusive, LockTypeOK, Requests, GoodRequest, OpAtLabel
  <2>. QED
    BY <2>1, <2>2, <2>3, <2>4
<1>30. ASSUME NEW t \in Threads, RenameCheck(t) PROVE ControlInv'
  <2>1. ControlTypeOK'
    BY <1>30 DEF RenameCheck, Goto, Return, ReturnRename, fsVars, lockVars, Labels,
       LockTypeOK
  <2>2. Requests'
    BY <1>30 DEF RenameCheck, Goto, Return, ReturnRename, fsVars, lockVars, Requests,
       GoodRequest, OpAtLabel,
       StreamLabels, FillLabels, StoreOps
  <2>3. LocksHeld'
    BY <1>30 DEF RenameCheck, Goto, Return, ReturnRename, fsVars, lockVars,
       LocksHeld, HoldsShared, HoldsUnique, ReadLabels,
       WriteLabels, FillLabels, LockTypeOK, Requests, GoodRequest, OpAtLabel, StoreOps
  <2>4. Exclusive'
    BY <1>30 DEF RenameCheck, Goto, Return, ReturnRename, fsVars, lockVars,
       Exclusive, LockTypeOK, Requests, GoodRequest, OpAtLabel
  <2>. QED
    BY <2>1, <2>2, <2>3, <2>4
<1>26. ASSUME Crash PROVE ControlInv'
  BY <1>26 DEF Crash, Labels, LockTypeOK, Requests, LocksHeld, HoldsShared,
              HoldsUnique, ReadLabels, WriteLabels, FillLabels, Exclusive, fsVars
<1>27. CASE UNCHANGED vars
  BY <1>27 DEF vars, LockTypeOK, Requests, GoodRequest, OpAtLabel, LocksHeld,
              HoldsShared, HoldsUnique, Exclusive, fsVars, lockVars, threadVars
<1>. QED
  BY <1>1, <1>2, <1>3, <1>4, <1>5, <1>6, <1>7, <1>8, <1>9, <1>10, <1>11,
     <1>12, <1>13, <1>14, <1>15, <1>16, <1>17, <1>18, <1>19, <1>20, <1>21,
     <1>22, <1>23, <1>24, <1>25, <1>26, <1>27, <1>28, <1>29, <1>30
     DEF Next, Step, Quiescent
----
(***************************************************************************)
(* What the handlers know of the files while they hold a lock              *)
(***************************************************************************)
\* The stores that cannot have been cut short.
Exact(t) == req[t].op = "Store" \/ (~DiskFails /\ ~ClientDies)

\* FetchWithStream: the version being streamed is still the file's.
StreamingAt(t) ==
    LET p == req[t].path IN
    /\ pc[t] \in {"fopen", "send"} =>
         /\ disk[p] # NoFile
         /\ reply[t].mtime = disk[p].mtime
    /\ pc[t] = "fopen" => reply[t].data = <<>>
    /\ pc[t] = "send" =>
         /\ fin[t] = disk[p].data
         /\ Len(reply[t].data) <= Len(fin[t])
         /\ \A i \in 1 .. Len(reply[t].data) : reply[t].data[i] = fin[t][i]

\* The stores: the temporary file holds chunks of this request only, and unless
\* the disk or the client failed all those read so far.
StoringAt(t) ==
    LET p == req[t].path
        d == req[t].data
    IN
    /\ pc[t] \in {"lock", "open"} /\ req[t].op = "StoreWithStream" => iter[t] = 1
    /\ pc[t] \in {"write", "next"} => iter[t] >= 1
    /\ pc[t] \in {"fill", "write", "next"} => temp[p] # NoFile
    /\ pc[t] \in {"write", "next"} =>
         \A i \in 1 .. Len(temp[p].data) : temp[p].data[i] = d
    /\ pc[t] = "write" /\ Exact(t) => Len(temp[p].data) = iter[t] - 1
    /\ pc[t] = "next" /\ Exact(t) => Len(temp[p].data) = iter[t]
    /\ pc[t] = "commit" /\ Exact(t) => temp[p] # NoFile /\ temp[p].data = Whole(d)
    /\ pc[t] = "stamp" =>
         /\ disk[p] # NoFile
         /\ Exact(t) => disk[p].data = Whole(d)

\* The answers given so far name versions the path has had.
AnsweredAt(t) ==
    LET p == req[t].path IN
    /\ pc[t] \notin {"mtime", "fopen", "send", "done"} => reply[t] = Blank
    /\ Succeeded(t, {"FetchWithStream", "GetFileStat"}) =>
         \E v \in hist[p] :
            [data |-> reply[t].data, mtime |-> reply[t].mtime]
              = Delivered(req[t].op, v)
    /\ Succeeded(t, StoreOps) /\ Exact(t) =>
         [data |-> Whole(req[t].data), mtime |-> reply[t].mtime] \in hist[p]

\* Rename: the destination it found free still is.
MovingAt(t) == pc[t] = "moveto" => disk[req[t].dst] = NoFile

DataAt(t) == StreamingAt(t) /\ StoringAt(t) /\ AnsweredAt(t) /\ MovingAt(t)

FilesTypeOK ==
    /\ disk \in [Paths -> Files]
    /\ temp \in [Paths -> Files]
    /\ hist \in [Paths -> SUBSET Versions]
    /\ reply \in [Threads -> Reply]
    /\ iter \in [Threads -> 0 .. Chunks]
    /\ fin \in [Threads -> Contents]
    /\ nreq \in 0 .. MaxReqs
    /\ ncrash \in 0 .. MaxCrashes

\* A temporary file, one a store left behind too, holds chunks of one store.
TempsAreUniform ==
    \A p \in Paths : temp[p] # NoFile =>
        \A i, j \in 1 .. Len(temp[p].data) : temp[p].data[i] = temp[p].data[j]

InHistory == \A p \in Paths : disk[p] # NoFile => disk[p] \in hist[p]

DataInv ==
    /\ FilesTypeOK
    /\ InHistory
    /\ OneWriterPerFile
    /\ TempsAreUniform
    /\ \A t \in Threads : DataAt(t)

IInv == ControlInv /\ DataInv
----
\* A thread changes the file and the temporary file of a path only while it
\* holds the path in unique mode ...
LEMMA OnlyWriters ==
    ASSUME ControlInv, NEW t \in Threads, Step(t),
           NEW p \in Paths, t \notin writers[p]
    PROVE  disk'[p] = disk[p] /\ temp'[p] = temp[p]
<1>. USE DEF ControlInv, ControlTypeOK, LocksHeld, HoldsUnique, WriteLabels,
         FillLabels, fsVars
<1>1. ASSUME NEW q \in Paths, t \in writers[q] PROVE q # p
  BY <1>1
<1>2. CASE StoreOpen(t) \/ StoreFill(t) \/ StoreFillFails(t)
  <2>1. p # req[t].path
    BY <1>2 DEF StoreOpen, StoreFill, StoreFillFails
  <2>2. CASE StoreOpen(t)
    BY <2>1, <2>2 DEF StoreOpen
  <2>3. CASE StoreFill(t)
    BY <2>1, <2>3 DEF StoreFill
  <2>4. CASE StoreFillFails(t)
    BY <2>1, <2>4 DEF StoreFillFails
  <2>. QED
    BY <1>2, <2>2, <2>3, <2>4
<1>7. CASE StoreChunk(t) \/ StoreLast(t)
  <2>1. p # req[t].path
    BY <1>7 DEF StoreChunk, StoreLast
  <2>2. CASE StoreChunk(t)
    BY <2>1, <2>2 DEF StoreChunk
  <2>3. CASE StoreLast(t)
    BY <2>1, <2>3 DEF StoreLast
  <2>. QED
    BY <1>7, <2>2, <2>3
<1>3. CASE StoreCommit(t)
  BY <1>3 DEF StoreCommit, CommitTemp, SetFile
<1>4. CASE Remove(t) \/ Mknod(t)
  <2>1. p # req[t].path
    BY <1>4 DEF Remove, Mknod
  <2>2. CASE Remove(t)
    BY <2>1, <2>2 DEF Remove, SetFile
  <2>3. CASE Mknod(t)
    <3>1. temp' = temp
      BY <2>3 DEF Mknod
    <3>2. CASE Exists(req[t].path)
      BY <2>3, <3>1, <3>2 DEF Mknod
    <3>3. CASE ~Exists(req[t].path)
      <4>1. PICK v : disk' = [disk EXCEPT ![req[t].path] = v]
        BY <2>3, <3>3 DEF Mknod, SetFile
      <4>. QED
        BY <2>1, <3>1, <4>1
    <3>. QED
      BY <3>2, <3>3
  <2>. QED
    BY <1>4, <2>2, <2>3
<1>5. CASE RenameMove(t)
  BY <1>5 DEF RenameMove, ReturnRename
<1>6. CASE UNCHANGED <<disk, temp>>
  BY <1>6
<1>. QED
  BY <1>2, <1>3, <1>4, <1>5, <1>6, <1>7 DEF Step, GetReadLock, GetWriteLock,
     FetchRead, FetchStat, StreamTime, StreamOpen, StreamChunk, StreamSent,
     TestAuth, GetFileStat, StoreFirst, StoreOpenFails, StoreNext,
     StoreCommitFails, StoreStat, RenameLock, RenameCheck,
     Deliver

\* ... so a path held by one thread is not changed by another.
LEMMA HeldIsStable ==
    ASSUME ControlInv, NEW t \in Threads, Step(t),
           NEW u \in Threads, NEW p \in Paths
    PROVE  /\ u \in readers[p] => disk'[p] = disk[p]
           /\ u \in writers[p] /\ u # t => disk'[p] = disk[p] /\ temp'[p] = temp[p]
<1>1. u \in readers[p] => t \notin writers[p]
  BY DEF ControlInv, Exclusive
<1>2. u \in writers[p] /\ u # t => t \notin writers[p]
  BY DEF ControlInv, Exclusive
<1>. QED
  BY <1>1, <1>2, OnlyWriters

\* A step of one thread leaves the locals of the others alone.
LEMMA LocalsAreLocal ==
    ASSUME ControlInv, FilesTypeOK, NEW t \in Threads, Step(t), NEW u \in Threads, u # t
    PROVE  /\ pc'[u] = pc[u] /\ req'[u] = req[u] /\ reply'[u] = reply[u]
           /\ iter'[u] = iter[u] /\ fin'[u] = fin[u]
<1>. USE DEF ControlInv, ControlTypeOK, FilesTypeOK, Goto, Return, ReturnRead,
         ReturnWrite, ReturnRename
<1>1. CASE GetReadLock(t) \/ GetWriteLock(t) \/ RenameLock(t) \/ RenameCheck(t) \/ Deliver(t)
  BY <1>1 DEF GetReadLock, GetWriteLock, RenameLock, RenameCheck, Deliver
<1>2. CASE FetchRead(t) \/ FetchStat(t) \/ TestAuth(t) \/ GetFileStat(t)
  BY <1>2 DEF FetchRead, FetchStat, TestAuth, GetFileStat
<1>3. CASE StreamTime(t) \/ StreamOpen(t) \/ StreamChunk(t) \/ StreamSent(t)
  BY <1>3 DEF StreamTime, StreamOpen, StreamChunk, StreamSent
<1>4. CASE \/ StoreFirst(t) \/ StoreOpen(t) \/ StoreOpenFails(t)
          \/ StoreFill(t) \/ StoreFillFails(t) \/ StoreCommitFails(t)
  BY <1>4 DEF StoreFirst, StoreOpen, StoreOpenFails, StoreFill, StoreFillFails,
     StoreCommitFails
<1>5. CASE StoreChunk(t) \/ StoreNext(t) \/ StoreLast(t) \/ StoreCommit(t) \/ StoreStat(t)
  BY <1>5 DEF StoreChunk, StoreNext, StoreLast, StoreCommit, StoreStat
<1>6. CASE Remove(t) \/ Mknod(t) \/ RenameMove(t)
  BY <1>6 DEF Remove, Mknod, RenameMove
<1>. QED
  BY <1>1, <1>2, <1>3, <1>4, <1>5, <1>6 DEF Step

\* History only grows.
LEMMA HistoryGrows ==
    ASSUME FilesTypeOK, NEW t \in Threads, Step(t), NEW p \in Paths
    PROVE  hist[p] \subseteq hist'[p]
<1>. USE DEF FilesTypeOK, fsVars
<1>1. ASSUME NEW q, NEW v, SetFile(q, v) PROVE hist[p] \subseteq hist'[p]
  <2>1. hist' = [hist EXCEPT ![q] = hist[q] \union {v}]
    BY <1>1 DEF SetFile
  <2>. QED
    BY <2>1
<1>2. CASE RenameMove(t)
  BY <1>2 DEF RenameMove
<1>3. CASE UNCHANGED hist
  BY <1>3
<1>4. StoreCommit(t) => \E q, v : SetFile(q, v)
  BY DEF StoreCommit, CommitTemp
<1>5. Mknod(t) => UNCHANGED hist \/ \E q, v : SetFile(q, v)
  BY DEF Mknod
<1>. QED
  BY <1>1, <1>2, <1>3, <1>4, <1>5 DEF Step, GetReadLock, GetWriteLock, FetchRead,
     FetchStat, StreamTime, StreamOpen, StreamChunk, StreamSent, TestAuth,
     GetFileStat, StoreFirst, StoreOpen, StoreFill, StoreOpenFails, StoreFillFails, StoreCommitFails,
     StoreChunk, StoreNext, StoreLast, StoreStat, Remove, RenameLock, RenameCheck, Deliver

\* What a handler knows of the file it has locked survives the steps of the others.
LEMMA OtherThreads ==
    ASSUME IInv, NEW t \in Threads, Step(t), NEW u \in Threads, u # t
    PROVE  DataAt(u)'
<1>. USE DEF IInv, DataInv
<1>1. /\ pc'[u] = pc[u] /\ req'[u] = req[u] /\ reply'[u] = reply[u]
      /\ iter'[u] = iter[u] /\ fin'[u] = fin[u]
  BY LocalsAreLocal
<1>2. pc[u] # "idle" => req[u].path \in Paths
  BY DEF ControlInv, Requests, GoodRequest
<1>3. StreamingAt(u)'
  <2>1. pc[u] \in {"fopen", "send"} => disk'[req[u].path] = disk[req[u].path]
    BY <1>2, HeldIsStable DEF ControlInv, LocksHeld, HoldsShared, ReadLabels
  <2>. QED
    BY <1>1, <2>1 DEF DataAt, StreamingAt
<1>4. StoringAt(u)'
  <2>1. pc[u] \in FillLabels => /\ disk'[req[u].path] = disk[req[u].path]
                                /\ temp'[req[u].path] = temp[req[u].path]
    BY <1>2, HeldIsStable DEF ControlInv, LocksHeld, HoldsUnique, WriteLabels,
       FillLabels
  <2>. QED
    BY <1>1, <2>1 DEF DataAt, StoringAt, Exact, FillLabels
<1>5. AnsweredAt(u)'
  <2>1. pc[u] # "idle" => hist[req[u].path] \subseteq hist'[req[u].path]
    BY <1>2, HistoryGrows
  <2>. QED
    BY <1>1, <2>1 DEF DataAt, AnsweredAt, Succeeded, Exact
<1>6. MovingAt(u)'
  <2>1. pc[u] = "moveto" => disk'[req[u].dst] = disk[req[u].dst]
    BY <1>2, HeldIsStable DEF ControlInv, Requests, GoodRequest, OpAtLabel, LocksHeld,
       HoldsUnique
  <2>. QED
    BY <1>1, <2>1 DEF DataAt, MovingAt
<1>. QED
  BY <1>3, <1>4, <1>5, <1>6 DEF DataAt

\* Every handler step leaves files, responses and locals well formed.
LEMMA FilesTypeStep ==
    ASSUME IInv, NEW t \in Threads, Step(t)
    PROVE  FilesTypeOK'
<1>. USE DEF IInv, DataInv, ControlInv, ControlTypeOK, FilesTypeOK, fsVars,
         Goto, Return, ReturnRead, ReturnWrite, ReturnRename
<1>0. pc[t] # "idle" => req[t].path \in Paths
  BY DEF Requests, GoodRequest
<1>1. CASE GetReadLock(t) \/ GetWriteLock(t) \/ RenameLock(t) \/ StoreNext(t)
  BY <1>1, ChunksAssumption DEF GetReadLock, GetWriteLock, RenameLock, RenameCheck,
     StoreNext
<1>2. CASE Deliver(t)
  BY <1>2, BlankType, EmptyType, ChunksAssumption DEF Deliver
<1>3. CASE FetchRead(t)
  <2>1. Exists(req[t].path) => [reply[t] EXCEPT !.data = disk[req[t].path].data] \in Reply
    BY <1>0, <1>3, FileType, ReplyUpdate DEF FetchRead, Exists
  <2>2. [Blank EXCEPT !.errno = "ENOENT"] \in Reply
    BY BlankType, ReplyUpdate
  <2>. QED
    BY <1>3, <2>1, <2>2 DEF FetchRead
<1>4. CASE FetchStat(t)
  <2>1. Exists(req[t].path) => [reply[t] EXCEPT !.mtime = disk[req[t].path].mtime] \in Reply
    BY <1>0, <1>4, FileType, ReplyUpdate DEF FetchStat, Exists
  <2>2. [reply[t] EXCEPT !.errno = "ENOENT"] \in Reply
    BY ReplyUpdate
  <2>. QED
    BY <1>4, <2>1, <2>2 DEF FetchStat
<1>5. CASE StreamTime(t)
  <2>1. Exists(req[t].path) => [reply[t] EXCEPT !.mtime = disk[req[t].path].mtime] \in Reply
    BY <1>0, <1>5, FileType, ReplyUpdate DEF StreamTime, Exists
  <2>2. [Blank EXCEPT !.status = "UNKNOWN"] \in Reply
    BY BlankType, ReplyUpdate
  <2>. QED
    BY <1>5, <2>1, <2>2 DEF StreamTime
<1>6. CASE StreamOpen(t)
  BY <1>0, <1>6, FileType, EmptyType DEF StreamOpen, Content, Exists
<1>7. CASE StreamChunk(t)
  <2>1. fin[t] \in Seq(Data) /\ reply[t].data \in Seq(Data)
    BY DEF Contents, Reply
  <2>2. Len(reply[t].data) + 1 \in 1 .. Len(fin[t])
    BY <1>7, <2>1 DEF StreamChunk
  <2>3. Append(reply[t].data, fin[t][Len(reply[t].data) + 1]) \in Contents
    BY <2>1, <2>2 DEF Contents
  <2>4. [reply[t] EXCEPT !.data = Append(reply[t].data, fin[t][Len(reply[t].data) + 1])] \in Reply
    BY <2>3, ReplyUpdate
  <2>. QED
    BY <1>7, <2>4 DEF StreamChunk
<1>8. CASE StreamSent(t)
  BY <1>8, BlankType DEF StreamSent
<1>9. CASE TestAuth(t)
  <2>1. [Blank EXCEPT !.changed =
           ~Exists(req[t].path) \/ disk[req[t].path].mtime # req[t].time] \in Reply
    BY BlankType, ReplyUpdate
  <2>. QED
    BY <1>9, <2>1 DEF TestAuth
<1>10. CASE GetFileStat(t)
  <2>1. Exists(req[t].path) =>
          [Blank EXCEPT !.data = disk[req[t].path].data,
                        !.mtime = disk[req[t].path].mtime] \in Reply
    BY <1>0, <1>10, FileType DEF GetFileStat, Exists, Blank, Reply
  <2>2. [Blank EXCEPT !.errno = "ENOENT"] \in Reply
    BY BlankType, ReplyUpdate
  <2>. QED
    BY <1>10, <2>1, <2>2 DEF GetFileStat
<1>11. CASE StoreFirst(t)
  <2>1. [Blank EXCEPT !.status = "CANCELLED"] \in Reply
    BY BlankType, ReplyUpdate
  <2>. QED
    BY <1>11, <2>1, ChunksAssumption DEF StoreFirst
<1>12. CASE StoreOpen(t)
  <2>1. [data |-> <<>>, mtime |-> clock] \in Files
    BY VersionType, EmptyType
  <2>. QED
    BY <1>0, <1>12, <2>1 DEF StoreOpen
<1>13. CASE StoreFill(t)
  <2>1. req[t].data \in Data
    BY <1>13 DEF StoreFill, Requests, GoodRequest, OpAtLabel, FillLabels
  <2>. QED
    BY <1>0, <1>13, <2>1, WholeType, VersionType, StampType DEF StoreFill
<1>14. CASE StoreFillFails(t)
  <2>1. req[t].data \in Data /\ temp[req[t].path] \in Versions
    BY <1>0, <1>14, FileType DEF StoreFillFails, Requests, GoodRequest,
       OpAtLabel, FillLabels, DataAt, StoringAt
  <2>2. \A n \in 0 .. Chunks - 1 : SubSeq(Whole(req[t].data), 1, n) \in Contents
    BY <2>1, WholeType, ChunksAssumption DEF Contents, Whole
  <2>3. [Blank EXCEPT !.status = "UNKNOWN"] \in Reply
    BY BlankType, ReplyUpdate
  <2>4. \A c \in Contents : [temp[req[t].path] EXCEPT !.data = c] \in Files
    BY <2>1, VersionUpdate DEF Versions
  <2>5. PICK n \in 0 .. Chunks - 1 :
          temp' = [temp EXCEPT ![req[t].path] =
                     [@ EXCEPT !.data = SubSeq(Whole(req[t].data), 1, n)]]
    BY <1>14 DEF StoreFillFails
  <2>6. temp' \in [Paths -> Files]
    BY <1>0, <1>14, <2>2, <2>4, <2>5
  <2>. QED
    BY <1>14, <2>3, <2>6 DEF StoreFillFails
<1>15. CASE StoreChunk(t)
  <2>1. /\ req[t].data \in Data
        /\ temp[req[t].path] \in Versions
        /\ temp[req[t].path].data \in Contents
    BY <1>0, <1>15, FileType DEF StoreChunk, Requests, GoodRequest, OpAtLabel,
       StoreOps, DataAt, StoringAt
  <2>2. Append(temp[req[t].path].data, req[t].data) \in Contents
    BY <2>1 DEF Contents
  <2>3. [temp[req[t].path] EXCEPT !.data = Append(temp[req[t].path].data, req[t].data)] \in Files
    BY <2>1, <2>2, VersionUpdate DEF Versions
  <2>. QED
    BY <1>0, <1>15, <2>3 DEF StoreChunk
<1>16. CASE StoreLast(t)
  <2>1. temp[req[t].path] \in Versions
    BY <1>0, <1>16, FileType DEF StoreLast, DataAt, StoringAt
  <2>2. \A m \in StampTimes : m \in Nat /\ [temp[req[t].path] EXCEPT !.mtime = m] \in Files
    BY <2>1, VersionUpdate, StampType, EmptyType
  <2>3. PICK m \in StampTimes :
          clock' = m /\ temp' = [temp EXCEPT ![req[t].path] = [@ EXCEPT !.mtime = m]]
    BY <1>16 DEF StoreLast
  <2>4. temp' \in [Paths -> Files]
    BY <1>0, <1>16, <2>2, <2>3
  <2>. QED
    BY <1>16, <2>2, <2>3, <2>4 DEF StoreLast
<1>17. CASE StoreCommit(t)
  <2>1. temp[req[t].path] \in Versions
    BY <1>0, <1>17, FileType DEF StoreCommit
  <2>. QED
    BY <1>0, <1>17, <2>1 DEF StoreCommit, CommitTemp, SetFile, Files
<1>18. CASE StoreStat(t)
  <2>1. Exists(req[t].path) => [Blank EXCEPT !.mtime = disk[req[t].path].mtime] \in Reply
    BY <1>0, <1>18, FileType, BlankType, ReplyUpdate DEF StoreStat, Exists
  <2>2. [Blank EXCEPT !.errno = "ENOENT"] \in Reply
    BY BlankType, ReplyUpdate
  <2>. QED
    BY <1>18, <2>1, <2>2 DEF StoreStat
<1>19. CASE Remove(t)
  BY <1>0, <1>19, BlankType, ReplyUpdate DEF Remove, Files
<1>20. CASE Mknod(t)
  <2>1. CASE Exists(req[t].path)
    BY <1>0, <1>20, <2>1, BlankType DEF Mknod
  <2>2. CASE ~Exists(req[t].path)
    <3>1. PICK m \in StampTimes :
            clock' = m /\ SetFile(req[t].path, [data |-> <<>>, mtime |-> m])
      BY <1>20, <2>2 DEF Mknod
    <3>2. m \in Nat /\ [data |-> <<>>, mtime |-> m] \in Versions
      BY StampType, VersionType, EmptyType
    <3>3. disk' \in [Paths -> Files] /\ hist' \in [Paths -> SUBSET Versions]
      BY <1>0, <1>20, <3>1, <3>2 DEF SetFile, Files, Mknod
    <3>. QED
      BY <1>20, <3>1, <3>2, <3>3, BlankType DEF Mknod
  <2>. QED
    BY <2>1, <2>2
<1>21. CASE RenameMove(t)
  <2>1. req[t].dst \in Paths
    BY <1>21 DEF RenameMove, Requests, GoodRequest, OpAtLabel
  <2>2. \A e \in {"0", "ENOENT"} : [Blank EXCEPT !.errno = e] \in Reply
    BY BlankType, ReplyUpdate
  <2>3. CASE Exists(req[t].path)
    <3>1. /\ disk' = [disk EXCEPT ![req[t].path] = NoFile, ![req[t].dst] = disk[req[t].path]]
          /\ hist' = [hist EXCEPT ![req[t].dst] = @ \union {disk[req[t].path]}]
          /\ reply' = [reply EXCEPT ![t] = [Blank EXCEPT !.errno = "0"]]
      BY <1>21, <2>3 DEF RenameMove
    <3>2. /\ disk[req[t].path] \in Versions
          /\ disk[req[t].path] \in Files
          /\ NoFile \in Files
      BY <1>0, <1>21, <2>3, FileType DEF RenameMove, Exists, Files
    <3>3. disk' \in [Paths -> Files] /\ hist' \in [Paths -> SUBSET Versions]
      BY <3>1, <3>2
    <3>. QED
      BY <1>21, <2>2, <3>1, <3>3 DEF RenameMove
  <2>4. CASE ~Exists(req[t].path)
    BY <1>21, <2>2, <2>4 DEF RenameMove
  <2>. QED
    BY <2>3, <2>4
<1>22. CASE StoreOpenFails(t) \/ StoreCommitFails(t)
  <2>1. [Blank EXCEPT !.status = "UNKNOWN"] \in Reply
    BY BlankType, ReplyUpdate
  <2>. QED
    BY <1>22, <2>1 DEF StoreOpenFails, StoreCommitFails
<1>23. CASE RenameCheck(t)
  <2>1. [Blank EXCEPT !.errno = "EEXIST"] \in Reply
    BY BlankType, ReplyUpdate
  <2>. QED
    BY <1>23, <2>1 DEF RenameCheck
<1>. QED
  BY <1>1, <1>2, <1>3, <1>4, <1>5, <1>6, <1>7, <1>8, <1>9, <1>10, <1>11,
     <1>12, <1>13, <1>14, <1>15, <1>16, <1>17, <1>18, <1>19, <1>20, <1>21, <1>22,
     <1>23 DEF Step

\* Every version a path has had is the work of one store, and the present one is in the
\* history: stores of a path never meet in its temporary file (server.cc:139).
LEMMA HistoryStep ==
    ASSUME IInv, NEW t \in Threads, Step(t)
    PROVE  InHistory' /\ OneWriterPerFile'
<1>. USE DEF IInv, DataInv, ControlInv, FilesTypeOK, fsVars, InHistory,
         OneWriterPerFile
<1>0. pc[t] # "idle" => req[t].path \in Paths
  BY DEF Requests, GoodRequest
<1>1. CASE StoreCommit(t)
  <2>. DEFINE p == req[t].path
  <2>1. p \in Paths
    BY <1>0, <1>1 DEF StoreCommit
  <2>2. \A i, j \in 1 .. Len(temp[p].data) : temp[p].data[i] = temp[p].data[j]
    BY <1>1, <2>1 DEF StoreCommit, TempsAreUniform
  <2>3. /\ disk' = [disk EXCEPT ![p] = temp[p]]
        /\ hist' = [hist EXCEPT ![p] = @ \union {temp[p]}]
    BY <1>1 DEF StoreCommit, CommitTemp, SetFile
  <2>4. OneWriterPerFile'
    <3>. SUFFICES ASSUME NEW q \in Paths, NEW v \in hist'[q], NEW i \in 1 .. Len(v.data),
                         NEW j \in 1 .. Len(v.data)
                  PROVE  v.data[i] = v.data[j]
      OBVIOUS
    <3>1. v \in hist[q] \/ (q = p /\ v = temp[p])
      BY <2>1, <2>3
    <3>. QED
      BY <2>2, <3>1
  <2>5. InHistory'
    BY <2>1, <2>3
  <2>. QED
    BY <2>4, <2>5
<1>2. CASE Mknod(t)
  <2>1. CASE Exists(req[t].path)
    BY <1>0, <1>2, <2>1 DEF Mknod
  <2>2. CASE ~Exists(req[t].path)
    <3>1. PICK m : SetFile(req[t].path, [data |-> <<>>, mtime |-> m])
      BY <1>2, <2>2 DEF Mknod
    <3>. QED
      BY <1>0, <1>2, <3>1 DEF SetFile, Mknod
  <2>. QED
    BY <2>1, <2>2
<1>3. CASE RenameMove(t)
  <2>. DEFINE p == req[t].path
              q == req[t].dst
  <2>1. p \in Paths /\ q \in Paths /\ p # q
    BY <1>3 DEF RenameMove, Requests, GoodRequest, OpAtLabel
  <2>2. CASE Exists(p)
    <3>1. /\ disk' = [disk EXCEPT ![p] = NoFile, ![q] = disk[p]]
          /\ hist' = [hist EXCEPT ![q] = @ \union {disk[p]}]
      BY <1>3, <2>2 DEF RenameMove
    <3>2. disk[p] \in hist[p]
      BY <2>1, <2>2 DEF Exists
    <3>3. \A r \in Paths : disk'[r] = IF r = q THEN disk[p]
                                       ELSE IF r = p THEN NoFile ELSE disk[r]
      BY <2>1, <3>1
    <3>4. \A r \in Paths : hist'[r] = IF r = q THEN hist[r] \union {disk[p]} ELSE hist[r]
      BY <2>1, <3>1
    <3>5. InHistory'
      BY <3>3, <3>4
    <3>6. \A r \in Paths : \A v \in hist'[r] : v \in hist[r] \/ v \in hist[p]
      <4>. TAKE r \in Paths
      <4>1. hist'[r] \subseteq hist[r] \union {disk[p]}
        BY <3>4
      <4>. QED
        BY <3>2, <4>1
    <3>7. OneWriterPerFile'
      BY <2>1, <3>6
    <3>. QED
      BY <3>5, <3>7
  <2>3. CASE ~Exists(p)
    BY <1>3, <2>3 DEF RenameMove
  <2>. QED
    BY <2>2, <2>3
<1>4. CASE Remove(t)
  BY <1>0, <1>4 DEF Remove
<1>5. CASE UNCHANGED <<disk, hist>>
  BY <1>5
<1>. QED
  BY <1>1, <1>2, <1>3, <1>4, <1>5 DEF Step, GetReadLock, GetWriteLock,
     FetchRead, FetchStat, StreamTime, StreamOpen, StreamChunk, StreamSent,
     TestAuth, GetFileStat, StoreFirst, StoreOpen, StoreFill, StoreOpenFails, StoreFillFails, StoreCommitFails,
     StoreChunk, StoreNext, StoreLast, StoreStat, RenameLock, RenameCheck, Deliver

\* A temporary file that changes to one of uniform content leaves all of them so.
LEMMA PutTemp ==
    ASSUME TempsAreUniform, DOMAIN temp = Paths, NEW p, NEW v, temp' = [temp EXCEPT ![p] = v],
           v # NoFile => \A i, j \in 1 .. Len(v.data) : v.data[i] = v.data[j]
    PROVE  TempsAreUniform'
<1>. SUFFICES ASSUME NEW q \in Paths, temp'[q] # NoFile
              PROVE  \A i, j \in 1 .. Len(temp'[q].data) : temp'[q].data[i] = temp'[q].data[j]
  BY DEF TempsAreUniform
<1>1. CASE q = p
  BY <1>1
<1>2. CASE q # p
  <2>1. temp'[q] = temp[q]
    BY <1>2
  <2>. QED
    BY <2>1 DEF TempsAreUniform
<1>. QED
  BY <1>1, <1>2

\* A temporary file is filled by one store at a time (server.cc:866, and Store's write_file).
LEMMA TempsStep ==
    ASSUME IInv, NEW t \in Threads, Step(t)
    PROVE  TempsAreUniform'
<1>. DEFINE p == req[t].path
            d == req[t].data
<1>0. /\ pc[t] # "idle" => p \in Paths /\ GoodRequest(req[t]) /\ OpAtLabel(t)
      /\ temp \in [Paths -> Files] /\ TempsAreUniform /\ DataAt(t)
  BY DEF IInv, DataInv, ControlInv, FilesTypeOK, Requests, GoodRequest
<1>1. ASSUME NEW v, temp' = [temp EXCEPT ![p] = v],
             v # NoFile => \A i, j \in 1 .. Len(v.data) : v.data[i] = v.data[j]
      PROVE  TempsAreUniform'
  <2>1. DOMAIN temp = Paths
    BY <1>0
  <2>. QED
    BY <1>0, <1>1, <2>1, PutTemp
<1>2. CASE StoreOpen(t)
  <2>1. temp' = [temp EXCEPT ![p] = [data |-> <<>>, mtime |-> clock]]
    BY <1>2 DEF StoreOpen
  <2>. DEFINE v == [data |-> <<>>, mtime |-> clock]
  <2>2. temp' = [temp EXCEPT ![p] = v] /\ Len(v.data) = 0
    BY <2>1
  <2>3. \A i, j \in 1 .. Len(v.data) : v.data[i] = v.data[j]
    <3>1. \A i \in 1 .. 0 : FALSE
      OBVIOUS
    <3>. QED
      BY <2>2, <3>1
  <2>. HIDE DEF v, p
  <2>. QED
    BY <1>1, <2>2, <2>3
<1>3. CASE StoreFill(t)
  <2>1. PICK m \in StampTimes : temp' = [temp EXCEPT ![p] = [data |-> Whole(d), mtime |-> m]]
    BY <1>3 DEF StoreFill
  <2>2. \A i, j \in 1 .. Len(Whole(d)) : Whole(d)[i] = Whole(d)[j]
    BY ChunksAssumption DEF Whole
  <2>. DEFINE v == [data |-> Whole(d), mtime |-> m]
  <2>3. temp' = [temp EXCEPT ![p] = v] /\ v.data = Whole(d)
    BY <2>1
  <2>. HIDE DEF v, p, d
  <2>. QED
    BY <1>1, <2>2, <2>3
<1>4. CASE StoreFillFails(t)
  <2>1. p \in Paths /\ temp[p] \in Versions
    BY <1>0, <1>4, FileType DEF StoreFillFails, DataAt, StoringAt
  <2>2. PICK n \in 0 .. Chunks - 1 :
          temp' = [temp EXCEPT ![p] = [@ EXCEPT !.data = SubSeq(Whole(d), 1, n)]]
    BY <1>4 DEF StoreFillFails
  <2>. DEFINE s == SubSeq(Whole(d), 1, n)
              v == [temp[p] EXCEPT !.data = s]
  <2>3. temp' = [temp EXCEPT ![p] = v] /\ v.data = s
    BY <2>1, <2>2 DEF Versions
  <2>4. \A i, j \in 1 .. Len(s) : s[i] = s[j]
    BY ChunksAssumption DEF Whole
  <2>. QED
    BY <1>1, <2>3, <2>4
<1>5. CASE StoreChunk(t)
  <2>1. /\ p \in Paths /\ d \in Data /\ temp[p] \in Versions
        /\ \A i \in 1 .. Len(temp[p].data) : temp[p].data[i] = d
    BY <1>0, <1>5, FileType DEF StoreChunk, DataAt, StoringAt, GoodRequest, OpAtLabel, StoreOps
  <2>2. CASE temp' = temp
    BY <1>0, <2>2 DEF TempsAreUniform
  <2>3. CASE temp' = [temp EXCEPT ![p] = [@ EXCEPT !.data = Append(temp[p].data, d)]]
    <3>. DEFINE s == temp[p].data
                v == [temp[p] EXCEPT !.data = Append(s, d)]
    <3>1. s \in Seq(Data) /\ v.data = Append(s, d) /\ temp' = [temp EXCEPT ![p] = v]
      BY <2>1, <2>3 DEF Versions, Contents
    <3>2. \A i \in 1 .. Len(Append(s, d)) : Append(s, d)[i] = d
      <4>1. \A i \in 1 .. Len(s) : s[i] = d
        BY <2>1
      <4>. HIDE DEF s
      <4>2. d \in Data /\ s \in Seq(Data)
        BY <2>1, <3>1
      <4>3. /\ Len(Append(s, d)) = Len(s) + 1 /\ Append(s, d)[Len(s) + 1] = d
            /\ \A i \in 1 .. Len(s) : Append(s, d)[i] = s[i]
        BY <4>2, AppendProperties
      <4>. QED
        BY <4>1, <4>2, <4>3
    <3>. QED
      BY <1>1, <3>1, <3>2
  <2>. QED
    BY <1>5, <2>2, <2>3 DEF StoreChunk
<1>6. CASE StoreLast(t)
  <2>1. p \in Paths /\ temp[p] \in Versions
    BY <1>0, <1>6, FileType DEF StoreLast, DataAt, StoringAt
  <2>2. PICK m \in StampTimes : temp' = [temp EXCEPT ![p] = [@ EXCEPT !.mtime = m]]
    BY <1>6 DEF StoreLast
  <2>. DEFINE v == [temp[p] EXCEPT !.mtime = m]
  <2>3. temp' = [temp EXCEPT ![p] = v] /\ v.data = temp[p].data
    BY <2>1, <2>2 DEF Versions
  <2>4. \A i, j \in 1 .. Len(temp[p].data) : temp[p].data[i] = temp[p].data[j]
    BY <1>0, <2>1, FileType, NoFileAssumption DEF TempsAreUniform
  <2>. QED
    BY <1>1, <2>3, <2>4
<1>7. CASE StoreCommit(t)
  BY <1>1, <1>7 DEF StoreCommit, CommitTemp
<1>8. CASE temp' = temp
  BY <1>0, <1>8 DEF TempsAreUniform
<1>. QED
  BY <1>2, <1>3, <1>4, <1>5, <1>6, <1>7, <1>8 DEF Step, fsVars, GetReadLock, GetWriteLock,
     FetchRead, FetchStat, StreamTime, StreamOpen, StreamChunk, StreamSent,
     TestAuth, GetFileStat, StoreFirst, StoreOpenFails, StoreNext,
     StoreCommitFails, StoreStat, Remove, Mknod, RenameLock, RenameCheck,
     RenameMove, Deliver

\* A handler's step establishes what its next label claims to know of the file, the
\* temporary file and the answer.
LEMMA OwnThread ==
    ASSUME IInv, NEW t \in Threads, Step(t)
    PROVE  DataAt(t)'
<1>. DEFINE p == req[t].path
            d == req[t].data
<1>. USE DEF IInv, DataInv, ControlInv, ControlTypeOK, FilesTypeOK, fsVars, Goto
<1>0. /\ pc[t] # "idle" => p \in Paths /\ GoodRequest(req[t]) /\ OpAtLabel(t)
      /\ StreamingAt(t) /\ StoringAt(t) /\ AnsweredAt(t)
  BY DEF Requests, GoodRequest, DataAt
<1>20. MovingAt(t)'
  <2>1. CASE RenameCheck(t)
    BY <1>0, <2>1 DEF RenameCheck, ReturnRename, Return, Exists, MovingAt
  <2>2. CASE GetReadLock(t) \/ GetWriteLock(t)
    <3>1. pc'[t] # "moveto"
      BY <2>2 DEF GetReadLock, GetWriteLock, AfterLock, ReadOps, WriteOps, StoreOps
    <3>. QED
      BY <3>1 DEF MovingAt
  <2>. QED
    BY <2>1, <2>2 DEF Step, MovingAt, FetchRead, FetchStat, StreamTime, StreamOpen,
       StreamChunk, StreamSent, TestAuth, GetFileStat, StoreFirst, StoreOpen,
       StoreOpenFails, StoreFill, StoreFillFails, StoreChunk, StoreNext, StoreLast,
       StoreCommit, StoreCommitFails, StoreStat, Remove, Mknod, RenameLock,
       RenameMove, Deliver, Return, ReturnRead, ReturnWrite, ReturnRename
<1>. SUFFICES StreamingAt(t)' /\ StoringAt(t)' /\ AnsweredAt(t)'
  BY <1>20 DEF DataAt
<1>1. CASE GetReadLock(t) \/ GetWriteLock(t)
  <2>1. /\ pc[t] = "lock" /\ UNCHANGED <<req, reply, iter>>
        /\ pc'[t] \in {"read", "time", "auth", "stat", "open", "unlink", "mknod", "lock2"}
    BY <1>1 DEF GetReadLock, GetWriteLock, AfterLock, ReadOps, WriteOps,
       StoreOps
  <2>. QED
    BY <1>0, <2>1 DEF DataAt, StreamingAt, StoringAt, AnsweredAt, Succeeded
<1>2. CASE FetchRead(t) \/ FetchStat(t)
  <2>1. CASE FetchRead(t)
    <3>1. /\ pc[t] = "read" /\ req' = req /\ iter' = iter /\ p \in Paths
          /\ pc'[t] \in {"mtime", "done"} /\ req[t].op = "Fetch"
      BY <1>0, <2>1 DEF FetchRead, Return, OpAtLabel
    <3>2. StreamingAt(t)' /\ StoringAt(t)'
      BY <3>1 DEF StreamingAt, StoringAt
    <3>3. AnsweredAt(t)'
      BY <3>1 DEF AnsweredAt, Succeeded, StoreOps
    <3>. QED
      BY <3>2, <3>3 DEF DataAt
  <2>2. CASE FetchStat(t)
    BY <1>0, <2>2 DEF FetchStat, Return, OpAtLabel, StoreOps, DataAt,
       StreamingAt, StoringAt, AnsweredAt, Succeeded
  <2>. QED
    BY <1>2, <2>1, <2>2
<1>3. CASE StreamTime(t)
  <2>1. reply[t] = Blank
    BY <1>0, <1>3 DEF StreamTime, AnsweredAt
  <2>2. CASE Exists(p)
    <3>1. /\ pc'[t] = "fopen" /\ req' = req /\ disk' = disk
          /\ reply'[t] = [Blank EXCEPT !.mtime = disk[p].mtime]
      BY <1>3, <2>1, <2>2 DEF StreamTime
    <3>2. reply'[t].data = <<>> /\ reply'[t].mtime = disk[p].mtime
      BY <3>1 DEF Blank
    <3>. QED
      BY <2>2, <3>1, <3>2 DEF Exists, DataAt, StreamingAt, StoringAt,
         AnsweredAt, Succeeded
  <2>3. CASE ~Exists(p)
    <3>1. pc'[t] = "done" /\ req' = req /\ reply'[t].status = "UNKNOWN"
      BY <1>3, <2>3 DEF StreamTime, ReturnRead, Return, Blank
    <3>. QED
      BY <3>1 DEF DataAt, StreamingAt, StoringAt, AnsweredAt, Succeeded
  <2>. QED
    BY <2>2, <2>3
<1>4. CASE StreamOpen(t)
  <2>1. /\ disk[p] # NoFile /\ reply[t].mtime = disk[p].mtime
        /\ reply[t].data = <<>> /\ disk[p].data \in Contents
    BY <1>0, <1>4, FileType DEF StreamOpen, StreamingAt
  <2>2. /\ pc'[t] = "send" /\ req' = req /\ disk' = disk /\ reply' = reply
        /\ fin'[t] = disk[p].data
    BY <1>4, <2>1 DEF StreamOpen, Content, Exists
  <2>. QED
    BY <2>1, <2>2 DEF Contents, DataAt, StreamingAt, StoringAt, AnsweredAt,
       Succeeded
<1>5. CASE StreamChunk(t)
  <2>. DEFINE n == Len(reply[t].data)
  <2>1. /\ pc[t] = "send" /\ n < Len(fin[t]) /\ UNCHANGED <<pc, req, disk, fin>>
        /\ reply'[t] = [reply[t] EXCEPT !.data = Append(@, fin[t][n + 1])]
    BY <1>5 DEF StreamChunk
  <2>2. /\ reply[t] \in Reply
        /\ reply[t].data \in Seq(Data)
        /\ fin[t] \in Seq(Data)
    BY DEF Contents, Reply
  <2>3. /\ reply'[t].data = Append(reply[t].data, fin[t][n + 1])
        /\ reply'[t].mtime = reply[t].mtime
    BY <2>1, <2>2 DEF Reply
  <2>4. Len(reply'[t].data) = n + 1
    BY <2>1, <2>2, <2>3
  <2>5. \A i \in 1 .. n + 1 : reply'[t].data[i] = fin[t][i]
    BY <1>0, <2>1, <2>2, <2>3 DEF StreamingAt
  <2>6. n \in Nat /\ Len(fin[t]) \in Nat
    BY <2>2
  <2>7. StreamingAt(t)'
    BY <1>0, <2>1, <2>3, <2>4, <2>5, <2>6 DEF StreamingAt
  <2>. QED
    BY <2>1, <2>7 DEF DataAt, StoringAt, AnsweredAt, Succeeded
<1>6. CASE StreamSent(t)
  <2>1. /\ pc'[t] = "done" /\ UNCHANGED <<req, disk, hist>>
        /\ reply'[t] = IF fin[t] = <<>> THEN Blank ELSE reply[t]
        /\ pc[t] = "send" /\ Len(reply[t].data) = Len(fin[t])
    BY <1>6 DEF StreamSent, ReturnRead, Return
  <2>2. reply[t].data \in Seq(Data) /\ fin[t] \in Seq(Data)
    BY DEF Contents, Reply
  <2>3. reply[t].data = fin[t]
    BY <1>0, <2>1, <2>2, SeqEqual DEF StreamingAt
  <2>4. disk[p] \in Versions /\ disk[p] \in hist[p]
    BY <1>0, <2>1, FileType DEF StreamingAt, InHistory
  <2>5. req[t].op = "FetchWithStream" /\ fin[t] = disk[p].data
        /\ reply[t].mtime = disk[p].mtime
    BY <1>0, <2>1 DEF StreamingAt, OpAtLabel, StreamLabels
  <2>6. [data |-> reply'[t].data, mtime |-> reply'[t].mtime]
          = Delivered(req[t].op, disk[p])
    <3>1. CASE fin[t] = <<>>
      <4>1. reply'[t].data = <<>> /\ reply'[t].mtime = 0
        BY <2>1, <3>1 DEF Blank
      <4>2. Delivered(req[t].op, disk[p]) = [data |-> <<>>, mtime |-> 0]
        BY <2>4, <2>5, <3>1 DEF Delivered, Versions
      <4>. QED
        BY <4>1, <4>2
    <3>2. CASE fin[t] # <<>>
      <4>1. reply'[t].data = disk[p].data /\ reply'[t].mtime = disk[p].mtime
        BY <2>1, <2>3, <2>5, <3>2
      <4>2. Delivered(req[t].op, disk[p]) = disk[p]
        BY <2>5, <3>2 DEF Delivered
      <4>3. [data |-> disk[p].data, mtime |-> disk[p].mtime] = disk[p]
        BY <2>4 DEF Versions
      <4>. QED
        BY <4>1, <4>2, <4>3
    <3>. QED
      BY <3>1, <3>2
  <2>. QED
    BY <1>0, <2>1, <2>4, <2>6 DEF OpAtLabel, StreamLabels, StoreOps, DataAt,
       StreamingAt, StoringAt, AnsweredAt, Succeeded
<1>7. CASE TestAuth(t) \/ Remove(t) \/ Mknod(t) \/ RenameMove(t)
  <2>1. pc'[t] = "done" /\ req' = req
    BY <1>7 DEF TestAuth, Remove, Mknod, RenameMove, ReturnRead, ReturnWrite,
       ReturnRename, Return
  <2>2. req[t].op \in {"TestAuth", "Remove", "Mknod", "Rename"}
    BY <1>0, <1>7 DEF TestAuth, Remove, Mknod, RenameMove, OpAtLabel
  <2>. QED
    BY <2>1, <2>2 DEF StoreOps, DataAt, StreamingAt, StoringAt, AnsweredAt,
       Succeeded
<1>8. CASE GetFileStat(t)
  <2>1. /\ pc'[t] = "done"
        /\ UNCHANGED <<req, disk, hist>>
        /\ req[t].op = "GetFileStat"
    BY <1>0, <1>8 DEF GetFileStat, ReturnRead, Return, OpAtLabel
  <2>2. CASE Exists(p)
    <3>1. disk[p] \in Versions /\ disk[p] \in hist[p]
      BY <1>0, <1>8, <2>2, FileType DEF GetFileStat, Exists, InHistory
    <3>2. reply'[t].data = disk[p].data /\ reply'[t].mtime = disk[p].mtime
      BY <1>8, <2>2 DEF GetFileStat, ReturnRead, Return, Blank
    <3>3. [data |-> disk[p].data, mtime |-> disk[p].mtime]
            = Delivered(req[t].op, disk[p])
      BY <2>1, <3>1 DEF Delivered, Versions
    <3>. QED
      BY <2>1, <3>1, <3>2, <3>3 DEF StoreOps, DataAt, StreamingAt, StoringAt,
         AnsweredAt, Succeeded
  <2>3. CASE ~Exists(p)
    <3>1. reply'[t].errno = "ENOENT"
      BY <1>8, <2>3 DEF GetFileStat, ReturnRead, Return, Blank
    <3>. QED
      BY <2>1, <3>1 DEF StoreOps, DataAt, StreamingAt, StoringAt, AnsweredAt,
         Succeeded
  <2>. QED
    BY <2>2, <2>3
<1>9. CASE StoreFirst(t)
  <2>1. CASE pc'[t] = "lock"
    BY <1>0, <1>9, <2>1, ChunksAssumption DEF StoreFirst, Return, DataAt,
       StreamingAt, StoringAt, AnsweredAt, Succeeded
  <2>2. CASE pc'[t] = "done"
    <3>1. reply'[t].status = "CANCELLED"
      BY <1>9, <2>2 DEF StoreFirst, Return, Blank
    <3>. QED
      BY <2>2, <3>1 DEF DataAt, StreamingAt, StoringAt, AnsweredAt, Succeeded
  <2>. QED
    BY <1>9, <2>1, <2>2 DEF StoreFirst, Return
<1>10. CASE StoreOpen(t)
  <2>1. /\ p \in Paths /\ req' = req /\ iter' = iter /\ reply' = reply
        /\ temp'[p] = [data |-> <<>>, mtime |-> clock]
        /\ pc[t] = "open"
        /\ pc'[t] = IF req[t].op = "Store" THEN "fill" ELSE "write"
    BY <1>0, <1>10 DEF StoreOpen
  <2>2. temp'[p].data = <<>> /\ temp'[p] # NoFile
    BY <2>1, EmptyType, NoFileAssumption DEF Versions
  <2>3. req[t].op \in StoreOps
    BY <1>0, <2>1 DEF OpAtLabel, FillLabels
  <2>4. req[t].op # "Store" => iter[t] = 1
    BY <1>0, <2>1, <2>3 DEF StoringAt, StoreOps
  <2>5. StoringAt(t)'
    BY <2>1, <2>2, <2>4 DEF StoringAt
  <2>. QED
    BY <1>0, <2>1, <2>5 DEF DataAt, StreamingAt, AnsweredAt, Succeeded
<1>11. CASE StoreFill(t)
  <2>1. PICK m \in StampTimes :
          temp' = [temp EXCEPT ![p] = [data |-> Whole(d), mtime |-> m]]
    BY <1>11 DEF StoreFill
  <2>2. /\ p \in Paths
        /\ d \in Data
        /\ pc'[t] = "commit"
        /\ req' = req
        /\ reply' = reply
    BY <1>0, <1>11 DEF StoreFill, OpAtLabel, FillLabels, GoodRequest
  <2>3. temp'[p] \in Versions /\ temp'[p].data = Whole(d)
    BY <2>1, <2>2, StampType, WholeType, VersionType
  <2>4. \A i \in 1 .. Len(Whole(d)) : Whole(d)[i] = d
    BY ChunksAssumption DEF Whole
  <2>5. StoringAt(t)'
    BY <2>2, <2>3, <2>4, NoFileAssumption DEF StoringAt
  <2>. QED
    BY <1>0, <1>11, <2>2, <2>5 DEF StoreFill, DataAt, StreamingAt, AnsweredAt,
       Succeeded
<1>12. CASE StoreFillFails(t) \/ StoreCommitFails(t)
  <2>1. pc'[t] = "done" /\ reply'[t].status = "UNKNOWN"
    BY <1>12 DEF StoreFillFails, StoreCommitFails, ReturnWrite, Return, Blank
  <2>. QED
    BY <2>1 DEF DataAt, StreamingAt, StoringAt, AnsweredAt, Succeeded
<1>13. CASE StoreChunk(t)
  <2>. DEFINE s == temp[p].data
  <2>1. /\ p \in Paths /\ d \in Data /\ pc[t] = "write" /\ pc'[t] = "next"
        /\ UNCHANGED <<req, reply, iter>>
    BY <1>0, <1>13 DEF StoreChunk, OpAtLabel, StoreOps, GoodRequest
  <2>2. /\ temp[p] \in Versions
        /\ temp[p].data \in Seq(Data)
        /\ iter[t] \in Nat
        /\ iter[t] >= 1
    BY <1>0, <2>1, FileType, ChunksAssumption DEF StoringAt, Contents
  <2>3. CASE temp' = [temp EXCEPT ![p] = [temp[p] EXCEPT !.data = Append(s, d)]]
             /\ Len(s) = iter[t] - 1
    <3>1. temp'[p] = [temp[p] EXCEPT !.data = Append(s, d)]
      BY <2>1, <2>3
    <3>0. s \in Seq(Data) /\ d \in Data /\ Len(s) = iter[t] - 1
      BY <2>1, <2>2, <2>3
    <3>. HIDE DEF s
    <3>2. Append(s, d) \in Seq(Data) /\ Len(Append(s, d)) = iter[t]
      BY <2>2, <3>0, AppendProperties
    <3>3. \A i \in 1 .. Len(Append(s, d)) : Append(s, d)[i] = d
      <4>1. \A i \in 1 .. Len(s) : s[i] = d
        BY <1>0, <2>1 DEF StoringAt, s
      <4>2. \A i \in 1 .. Len(s) : Append(s, d)[i] = s[i]
        BY <3>0, AppendProperties
      <4>3. Append(s, d)[Len(s) + 1] = d /\ Len(Append(s, d)) = Len(s) + 1
        BY <3>0, AppendProperties
      <4>4. Len(s) \in Nat
        BY <3>0
      <4>. QED
        BY <4>1, <4>2, <4>3, <4>4
    <3>4. temp'[p].data = Append(s, d) /\ temp'[p] \in Versions
      BY <2>2, <3>1, <3>2 DEF Versions, Contents
    <3>5. StoringAt(t)'
      BY <2>1, <2>2, <3>2, <3>3, <3>4, NoFileAssumption DEF StoringAt
    <3>. QED
      BY <1>0, <2>1, <3>5 DEF DataAt, StreamingAt, AnsweredAt, Succeeded
  <2>4. CASE temp' = temp /\ (DiskFails \/ Len(s) < iter[t] - 1)
    <3>1. ~Exact(t)
      BY <1>0, <2>1, <2>2, <2>4 DEF StoringAt, Exact, OpAtLabel
    <3>. QED
      BY <1>0, <2>1, <2>2, <2>4, <3>1, NoFileAssumption DEF DataAt,
         StreamingAt, StoringAt, AnsweredAt, Succeeded, Exact
  <2>5. \/ /\ Len(s) = iter[t] - 1
           /\ temp' = [temp EXCEPT ![p] = [temp[p] EXCEPT !.data = Append(s, d)]]
        \/ temp' = temp /\ (DiskFails \/ Len(s) < iter[t] - 1)
    BY <1>13 DEF StoreChunk
  <2>. QED
    BY <2>3, <2>4, <2>5
<1>14. CASE StoreNext(t)
  <2>1. /\ pc[t] = "next" /\ pc'[t] = "write" /\ iter'[t] = iter[t] + 1 /\ iter[t] \in Nat
        /\ UNCHANGED <<req, reply, temp>>
    BY <1>14, ChunksAssumption DEF StoreNext
  <2>. QED
    BY <1>0, <2>1 DEF DataAt, StreamingAt, StoringAt, AnsweredAt, Succeeded,
       Exact
<1>15. CASE StoreLast(t)
  <2>1. /\ p \in Paths /\ d \in Data /\ pc[t] = "next" /\ pc'[t] = "commit"
        /\ (iter[t] = Chunks \/ ClientDies) /\ req[t].op = "StoreWithStream"
        /\ UNCHANGED <<req, reply>>
    BY <1>0, <1>15 DEF StoreLast, OpAtLabel, StoreOps, GoodRequest
  <2>2. PICK m \in StampTimes : temp' = [temp EXCEPT ![p] = [@ EXCEPT !.mtime = m]]
    BY <1>15 DEF StoreLast
  <2>3. temp[p] \in Versions /\ temp[p].data \in Seq(Data) /\ m \in Nat
    BY <1>0, <2>1, FileType, StampType DEF StoringAt, Contents
  <2>4. temp'[p] \in Versions /\ temp'[p].data = temp[p].data
    BY <2>1, <2>2, <2>3 DEF Versions
  <2>5. \A i \in 1 .. Len(temp[p].data) : temp[p].data[i] = d
    BY <1>0, <2>1 DEF StoringAt
  <2>6. ASSUME Exact(t) PROVE temp[p].data = Whole(d)
    <3>1. Len(temp[p].data) = Chunks
      BY <1>0, <2>1, <2>6 DEF StoringAt, Exact
    <3>2. Whole(d) \in Seq(Data) /\ Len(Whole(d)) = Chunks
      BY <2>1, ChunksAssumption DEF Whole
    <3>3. \A i \in 1 .. Chunks : temp[p].data[i] = Whole(d)[i]
      BY <2>5, <3>1 DEF Whole
    <3>. QED
      BY <2>3, <3>1, <3>2, <3>3, SeqEqual
  <2>7. StreamingAt(t)'
    BY <2>1 DEF StreamingAt
  <2>8. StoringAt(t)'
    BY <2>1, <2>4, <2>5, <2>6, NoFileAssumption DEF StoringAt, Exact
  <2>9. AnsweredAt(t)'
    BY <1>0, <2>1 DEF AnsweredAt, Succeeded
  <2>. QED
    BY <2>7, <2>8, <2>9 DEF DataAt
<1>16. CASE StoreCommit(t)
  <2>1. /\ p \in Paths /\ pc[t] = "commit" /\ pc'[t] = "stamp" /\ disk'[p] = temp[p]
        /\ temp[p] # NoFile
        /\ UNCHANGED <<req, reply>>
    BY <1>0, <1>16 DEF StoreCommit, CommitTemp, SetFile
  <2>. QED
    BY <1>0, <2>1 DEF DataAt, StreamingAt, StoringAt, AnsweredAt, Succeeded,
       Exact
<1>17. CASE StoreStat(t)
  <2>1. /\ pc[t] = "stamp" /\ pc'[t] = "done" /\ disk[p] # NoFile
        /\ UNCHANGED <<req, hist>> /\ req[t].op \in StoreOps
    BY <1>0, <1>17 DEF StoreStat, ReturnWrite, Return, StoringAt, OpAtLabel,
       FillLabels
  <2>2. reply'[t].mtime = disk[p].mtime
    BY <1>17, <2>1 DEF StoreStat, ReturnWrite, Return, Exists, Blank
  <2>3. disk[p] \in Versions /\ disk[p] \in hist[p]
    BY <1>0, <2>1, FileType DEF InHistory
  <2>4. Exact(t) => [data |-> Whole(d), mtime |-> disk[p].mtime] = disk[p]
    BY <1>0, <2>1, <2>3 DEF StoringAt, Versions
  <2>. QED
    BY <2>1, <2>2, <2>3, <2>4 DEF StoreOps, DataAt, StreamingAt, StoringAt,
       AnsweredAt, Succeeded, Exact
<1>18. CASE RenameLock(t) \/ Deliver(t)
  <2>1. CASE RenameLock(t)
    BY <1>0, <2>1 DEF RenameLock, RenameCheck, OpAtLabel, DataAt, StreamingAt,
       StoringAt, AnsweredAt, Succeeded
  <2>2. CASE Deliver(t)
    BY <1>0, <2>2 DEF Deliver, OpAtLabel, DataAt, StreamingAt,
       StoringAt, AnsweredAt, Succeeded
  <2>. QED
    BY <1>18, <2>1, <2>2
<1>19. CASE StoreOpenFails(t)
  <2>1. CASE req[t].op = "Store"
    <3>1. pc'[t] = "done" /\ reply'[t].status = "UNKNOWN"
      BY <1>19, <2>1 DEF StoreOpenFails, ReturnWrite, Return, Blank
    <3>. QED
      BY <3>1 DEF StreamingAt, StoringAt, AnsweredAt, Succeeded
  <2>2. CASE req[t].op # "Store"
    <3>1. /\ pc[t] = "open" /\ pc'[t] = "commit" /\ DiskFails
          /\ UNCHANGED <<req, reply>>
      BY <1>19, <2>2 DEF StoreOpenFails
    <3>. QED
      BY <1>0, <2>2, <3>1 DEF StreamingAt, StoringAt, AnsweredAt, Succeeded, Exact
  <2>. QED
    BY <2>1, <2>2
<1>21. CASE RenameCheck(t)
  <2>1. /\ pc[t] = "move" /\ pc'[t] \in {"moveto", "done"} /\ req' = req
        /\ pc'[t] = "moveto" => reply' = reply
        /\ req[t].op = "Rename"
    BY <1>0, <1>21 DEF RenameCheck, ReturnRename, Return, OpAtLabel
  <2>. QED
    BY <1>0, <2>1 DEF StoreOps, StreamingAt, StoringAt, AnsweredAt, Succeeded
<1>. QED
  BY <1>1, <1>2, <1>3, <1>4, <1>5, <1>6, <1>7, <1>8, <1>9, <1>10, <1>11,
     <1>12, <1>13, <1>14, <1>15, <1>16, <1>17, <1>18, <1>19, <1>21 DEF Step

\* When the server starts no handler knows anything.
LEMMA DataInit == Init => DataInv
<1>. SUFFICES ASSUME Init PROVE DataInv
  OBVIOUS
<1>1. disk \in [Paths -> Files]
  BY WholeType, VersionType DEF Init, Files
<1>2. hist \in [Paths -> SUBSET Versions]
  BY <1>1 DEF Init, Files
<1>3. FilesTypeOK
  BY <1>1, <1>2, ChunksAssumption, BoundAssumption, BlankType, EmptyType DEF
     Init, FilesTypeOK, Files
<1>4. OneWriterPerFile
  BY ChunksAssumption DEF Init, OneWriterPerFile, Whole
<1>. QED
  BY <1>3, <1>4 DEF Init, DataInv, InHistory, TempsAreUniform, DataAt,
     MovingAt, StreamingAt, StoringAt,
     AnsweredAt, Succeeded

\* No step disturbs what the handlers know of the files.
LEMMA DataStep == IInv /\ [Next]_vars => DataInv'
<1>. SUFFICES ASSUME IInv, [Next]_vars PROVE DataInv'
  OBVIOUS
<1>1. ASSUME NEW t \in Threads, NEW r \in Incoming, Start(t, r) PROVE DataInv'
  <2>. USE <1>1 DEF Start, IInv, DataInv, fsVars, lockVars
  <2>1. FilesTypeOK'
    BY BoundAssumption DEF FilesTypeOK
  <2>2. InHistory' /\ OneWriterPerFile' /\ TempsAreUniform'
    BY DEF InHistory, OneWriterPerFile, TempsAreUniform
  <2>3. DataAt(t)'
    BY DEF ControlInv, ControlTypeOK, Goto, DataAt, StreamingAt, StoringAt,
       AnsweredAt, MovingAt, Succeeded
  <2>4. ASSUME NEW u \in Threads, u # t PROVE DataAt(u)'
    <3>1. /\ pc'[u] = pc[u] /\ req'[u] = req[u]
          /\ UNCHANGED <<reply, iter, fin, disk, temp, hist>>
      BY <2>4 DEF ControlInv, ControlTypeOK, Goto
    <3>2. StreamingAt(u) /\ StoringAt(u) /\ AnsweredAt(u) /\ MovingAt(u)
      BY DEF DataAt
    <3>3. StreamingAt(u)'
      BY <3>1, <3>2 DEF StreamingAt
    <3>4. StoringAt(u)'
      BY <3>1, <3>2 DEF StoringAt, Exact
    <3>5. AnsweredAt(u)'
      BY <3>1, <3>2 DEF AnsweredAt, Succeeded, Exact
    <3>6. MovingAt(u)'
      BY <3>1, <3>2 DEF MovingAt
    <3>. QED
      BY <3>3, <3>4, <3>5, <3>6 DEF DataAt
  <2>. QED
    BY <2>1, <2>2, <2>3, <2>4
<1>2. ASSUME NEW t \in Threads, Step(t) PROVE DataInv'
  BY <1>2, FilesTypeStep, HistoryStep, TempsStep, OwnThread, OtherThreads DEF DataInv
<1>3. ASSUME Crash PROVE DataInv'
  <2>. USE <1>3 DEF Crash, IInv, DataInv, fsVars
  <2>1. FilesTypeOK'
    BY BoundAssumption, ChunksAssumption, BlankType, EmptyType DEF FilesTypeOK
  <2>2. InHistory' /\ OneWriterPerFile' /\ TempsAreUniform'
    BY DEF InHistory, OneWriterPerFile, TempsAreUniform
  <2>. QED
    BY <2>1, <2>2 DEF DataAt, StreamingAt, StoringAt, AnsweredAt, MovingAt, Succeeded
<1>4. CASE UNCHANGED vars
  <2>. USE <1>4 DEF vars, fsVars, threadVars, lockVars, IInv, DataInv
  <2>1. FilesTypeOK'
    BY DEF FilesTypeOK
  <2>2. InHistory' /\ OneWriterPerFile' /\ TempsAreUniform'
    BY DEF InHistory, OneWriterPerFile, TempsAreUniform
  <2>3. ASSUME NEW u \in Threads PROVE DataAt(u)'
    <3>1. StreamingAt(u) /\ StoringAt(u) /\ AnsweredAt(u) /\ MovingAt(u)
      BY DEF DataAt
    <3>2. StreamingAt(u)'
      BY <3>1 DEF StreamingAt
    <3>3. StoringAt(u)'
      BY <3>1 DEF StoringAt, Exact
    <3>4. AnsweredAt(u)'
      BY <3>1 DEF AnsweredAt, Succeeded, Exact
    <3>5. MovingAt(u)'
      BY <3>1 DEF MovingAt
    <3>. QED
      BY <3>2, <3>3, <3>4, <3>5 DEF DataAt
  <2>. QED
    BY <2>1, <2>2, <2>3
<1>. QED
  BY <1>1, <1>2, <1>3, <1>4 DEF Next, Quiescent
----
\* The inductive invariant: who holds which lock at which step of a handler of server.cc,
\* and what the handler's locals then say of the file, of its temporary file and of the
\* answer.
THEOREM Invariance == Spec => []IInv
<1>1. Init => IInv
  BY ControlInit, DataInit DEF IInv
<1>2. IInv /\ [Next]_vars => IInv'
  BY ControlStep, DataStep DEF IInv
<1>. QED
  BY <1>1, <1>2, PTL DEF Spec

\* Every variable keeps its type.
THEOREM TypeCorrect == Spec => []TypeOK
<1>1. IInv => TypeOK
  BY DEF IInv, ControlInv, ControlTypeOK, DataInv, FilesTypeOK, TypeOK
<1>. QED
  BY <1>1, Invariance, PTL

\* FetchWithStream (server.cc:908) and GetFileStat (server.cc:672) answer with one
\* version of the file, whatever runs beside them, fails or crashes.
THEOREM ReadsAreConsistent == Spec => []ReadsOneVersion
<1>1. IInv => ReadsOneVersion
  BY DEF IInv, DataInv, DataAt, AnsweredAt, ReadsOneVersion
<1>. QED
  BY <1>1, Invariance, PTL

\* No version of a file mixes the data of two stores, though all stores of a path write
\* one temporary file (server.cc:139) and crashes leave it behind.
THEOREM OneWriter == Spec => []OneWriterPerFile
<1>1. IInv => OneWriterPerFile
  BY DEF IInv, DataInv
<1>. QED
  BY <1>1, Invariance, PTL

\* Where no disk fails and no client dies in mid-stream, a store answered OK
\* (server.cc:570, :838) has committed all it was sent, under the time it returned.
THEOREM StoresAreWhole ==
    ASSUME ~DiskFails, ~ClientDies
    PROVE  Spec => []StoreReplyNamesItsFile
<1>1. IInv => StoreReplyNamesItsFile
  BY DEF IInv, DataInv, DataAt, AnsweredAt, Exact, StoreReplyNamesItsFile
<1>. QED
  BY <1>1, Invariance, PTL

\* A file does not change while a handler holds its path in shared mode (locks.cc:10).
THEOREM ReadersSeeStableFiles == Spec => StableWhileRead
<1>1. IInv /\ [Next]_vars => [\A p \in Paths : readers[p] # {} => disk'[p] = disk[p]]_vars
  <2>. SUFFICES ASSUME IInv, Next, NEW p \in Paths, NEW u \in readers[p]
                PROVE  disk'[p] = disk[p]
    OBVIOUS
  <2>1. u \in Threads
    BY DEF IInv, ControlInv, ControlTypeOK, LockTypeOK
  <2>2. CASE \E t \in Threads : Step(t)
    BY <2>1, <2>2, HeldIsStable DEF IInv
  <2>3. CASE UNCHANGED disk
    BY <2>3
  <2>. QED
    BY <2>2, <2>3 DEF Next, Start, Crash, Quiescent, vars, fsVars
<1>. QED
  BY <1>1, Invariance, PTL DEF Spec, StableWhileRead

----
(***************************************************************************)
(* FileServer keeps the promise of AtomicFiles, proved for every number of *)
(* threads, paths, chunks and calls, together with the properties of       *)
(* modify times and of whole files the refinement rests on.                *)
(***************************************************************************)
\* Calls arrive of the RPCs in Ops only.
CallsAreIssued == \A t \in Threads : pc[t] # "idle" => req[t].op \in Ops

\* m is a time at which a version may replace those with the modify times of V.
Follows(m, V) ==
    \A v \in V : IF FineClock THEN v.mtime < m ELSE v.mtime <= m

\* A store that could not open its temporary file notices: Store does, and
\* StoreWithStream may rename one that was left behind.
OpensAreSeen == ~DiskFails \/ "StoreWithStream" \notin Ops

\* The clock is ahead of every version there has been, and the temporary file a
\* handler is about to rename, if it wrote it, is newer than every version of its path.
ClockInv ==
    /\ CallsAreIssued
    /\ \A p \in Paths : \A v \in hist[p] : v.mtime <= clock
    /\ \A p \in Paths : temp[p] # NoFile => temp[p].mtime <= clock
    /\ \A t \in Threads :
         LET p == req[t].path IN
         OpensAreSeen /\ pc[t] = "commit" /\ temp[p] # NoFile =>
            Follows(temp[p].mtime, hist[p])

\* Where no store can be cut short, or only in ways its handler notices (StoreFillFails).
NoSilentFailure == (~DiskFails /\ ~ClientDies) \/ "StoreWithStream" \notin Ops
----
\* The kernel's clock does not go back, and what it stamps follows all it stamped.
LEMMA StampFollows ==
    ASSUME clock \in Nat, NEW m \in StampTimes
    PROVE  /\ m \in Nat /\ m >= clock
           /\ FineClock => m > clock
BY DEF StampTimes

\* The clock does not go back in any step of a handler.
LEMMA ClockGrows ==
    ASSUME IInv, NEW t \in Threads, Step(t)
    PROVE  clock' \in Nat /\ clock' >= clock
<1>. USE DEF IInv, ControlInv, ControlTypeOK, fsVars
<1>1. CASE StoreFill(t) \/ StoreLast(t)
  BY <1>1, StampFollows DEF StoreFill, StoreLast
<1>2. CASE Mknod(t)
  <2>1. clock' = clock \/ clock' \in StampTimes
    BY <1>2 DEF Mknod
  <2>. QED
    BY <2>1, StampFollows
<1>3. CASE clock' = clock
  BY <1>3
<1>. QED
  BY <1>1, <1>2, <1>3 DEF Step, GetReadLock, GetWriteLock, FetchRead, FetchStat,
     StreamTime, StreamOpen, StreamChunk, StreamSent, TestAuth, GetFileStat,
     StoreFirst, StoreOpen, StoreOpenFails, StoreFillFails, StoreCommitFails, StoreChunk, StoreNext, StoreCommit,
     StoreStat, Remove, RenameLock, RenameCheck, RenameMove, Deliver

\* A new version of a path comes from the rename of its temporary file (write_file),
\* from mknod, or from the rename of another file, and from nothing else.
LEMMA NewVersion ==
    ASSUME IInv, NEW t \in Threads, Step(t), NEW p \in Paths, NEW v \in hist'[p], v \notin hist[p]
    PROVE  /\ t \in writers[p]
           /\ \/ StoreCommit(t) /\ p = req[t].path /\ v = temp[p]
              \/ /\ Mknod(t) /\ clock' \in StampTimes
                 /\ v = [data |-> <<>>, mtime |-> clock']
              \/ /\ RenameMove(t)
                 /\ req[t].path \in Paths /\ v \in hist[req[t].path]
<1>. USE DEF IInv, DataInv, ControlInv, ControlTypeOK, FilesTypeOK, fsVars
<1>0. pc[t] # "idle" => req[t].path \in Paths
  BY DEF Requests, GoodRequest
<1>1. CASE StoreCommit(t)
  <2>1. /\ hist' = [hist EXCEPT ![req[t].path] = @ \union {temp[req[t].path]}]
        /\ pc[t] = "commit"
    BY <1>1 DEF StoreCommit, CommitTemp, SetFile
  <2>2. p = req[t].path /\ v = temp[p]
    BY <1>0, <2>1
  <2>. QED
    BY <1>1, <2>1, <2>2 DEF LocksHeld, HoldsUnique, WriteLabels, FillLabels
<1>2. CASE Mknod(t)
  <2>1. ~Exists(req[t].path)
    BY <1>2 DEF Mknod
  <2>2. PICK m \in StampTimes :
          clock' = m /\ SetFile(req[t].path, [data |-> <<>>, mtime |-> m])
    BY <1>2, <2>1 DEF Mknod
  <2>3. pc[t] = "mknod" /\ p = req[t].path /\ v = [data |-> <<>>, mtime |-> m]
    BY <1>0, <1>2, <2>2 DEF Mknod, SetFile
  <2>. QED
    BY <1>2, <2>2, <2>3 DEF LocksHeld, HoldsUnique, WriteLabels
<1>3. CASE RenameMove(t)
  <2>1. pc[t] = "moveto" /\ Exists(req[t].path)
    BY <1>3 DEF RenameMove
  <2>2. hist' = [hist EXCEPT ![req[t].dst] = @ \union {disk[req[t].path]}]
    BY <1>3 DEF RenameMove
  <2>3. p = req[t].dst /\ v = disk[req[t].path]
    BY <2>2
  <2>. QED
    BY <1>0, <1>3, <2>1, <2>3 DEF LocksHeld, HoldsUnique, InHistory, Exists
<1>4. CASE UNCHANGED hist
  BY <1>4
<1>. QED
  BY <1>1, <1>2, <1>3, <1>4 DEF Step, GetReadLock, GetWriteLock, FetchRead,
     FetchStat, StreamTime, StreamOpen, StreamChunk, StreamSent, TestAuth,
     GetFileStat, StoreFirst, StoreOpen, StoreFill, StoreOpenFails, StoreFillFails, StoreCommitFails,
     StoreChunk, StoreNext, StoreLast, StoreStat, Remove, RenameLock, RenameCheck, Deliver

\* Who is in a handler stays in its RPC.
LEMMA RequestStays ==
    ASSUME IInv, NEW t \in Threads, Step(t), NEW u \in Threads, pc'[u] # "idle"
    PROVE  pc[u] # "idle" /\ req'[u] = req[u]
<1>. USE DEF IInv, DataInv, ControlInv, ControlTypeOK
<1>1. CASE u # t
  BY <1>1, LocalsAreLocal
<1>2. CASE u = t
  BY <1>2 DEF Step, GetReadLock, GetWriteLock, FetchRead,
     FetchStat, StreamTime, StreamOpen, StreamChunk, StreamSent, TestAuth,
     GetFileStat, StoreFirst, StoreOpen, StoreFill, StoreOpenFails, StoreFillFails, StoreCommitFails,
     StoreChunk, StoreNext, StoreLast, StoreCommit, StoreStat, Remove, Mknod,
     RenameLock, RenameCheck, RenameMove, Deliver, Goto
<1>. QED
  BY <1>1, <1>2
----
(***************************************************************************)
(* Modify times                                                            *)
(***************************************************************************)
LEMMA ClockInit == Init => ClockInv
BY NoFileAssumption DEF Init, ClockInv, CallsAreIssued, Versions, Files

\* The step that ends a store's writing stamps the temporary file.
LEMMA Stamped ==
    ASSUME IInv, CallsAreIssued, OpensAreSeen, NEW t \in Threads, Step(t),
           pc[t] # "commit", pc'[t] = "commit"
    PROVE  /\ clock' \in StampTimes
           /\ temp'[req[t].path].mtime = clock'
           /\ UNCHANGED <<req, hist>>
<1>. USE DEF IInv, DataInv, ControlInv, ControlTypeOK, FilesTypeOK
<1>0. pc[t] # "idle" => req[t].path \in Paths
  BY DEF Requests, GoodRequest
<1>1. CASE StoreFill(t)
  BY <1>0, <1>1 DEF StoreFill
<1>2. CASE StoreLast(t)
  <2>1. temp[req[t].path] \in Versions
    BY <1>0, <1>2, FileType DEF StoreLast, DataAt, StoringAt
  <2>2. PICK m \in StampTimes :
          clock' = m /\ temp' = [temp EXCEPT ![req[t].path] = [@ EXCEPT !.mtime = m]]
    BY <1>2 DEF StoreLast
  <2>. QED
    BY <1>0, <1>2, <2>1, <2>2 DEF StoreLast, Versions
<1>3. CASE GetReadLock(t) \/ GetWriteLock(t)
  BY <1>3, AfterLockLabel DEF GetReadLock, GetWriteLock, Goto, AfterLock, ReadOps,
     WriteOps,
     StoreOps
<1>4. ASSUME StoreOpenFails(t) PROVE FALSE
  <2>1. req[t].op = "Store"
    BY <1>4 DEF StoreOpenFails, OpensAreSeen, CallsAreIssued, Requests, OpAtLabel,
       FillLabels, StoreOps
  <2>. QED
    BY <1>4, <2>1 DEF StoreOpenFails, ReturnWrite, Return, Goto
<1>. QED
  BY <1>1, <1>2, <1>3, <1>4 DEF Step, FetchRead, FetchStat, StreamTime, StreamOpen,
     StreamChunk, StreamSent, TestAuth, GetFileStat, StoreFirst, StoreOpen,
     StoreFillFails, StoreCommitFails, StoreChunk, StoreNext, StoreCommit, StoreStat, Remove,
     Mknod, RenameLock, RenameCheck, RenameMove, Deliver, Goto, Return, ReturnRead, ReturnWrite,
     ReturnRename

\* What is written to a temporary file is stamped with a time the clock has reached.
LEMMA TempIsStamped ==
    ASSUME IInv, ClockInv, NEW t \in Threads, Step(t), NEW p \in Paths,
           temp'[p] # temp[p], temp'[p] # NoFile
    PROVE  temp'[p].mtime <= clock'
<1>. DEFINE q == req[t].path
<1>. USE DEF IInv, DataInv, ControlInv, ControlTypeOK, FilesTypeOK, fsVars
<1>0. pc[t] # "idle" => q \in Paths
  BY DEF Requests, GoodRequest
<1>1. ASSUME NEW v, temp' = [temp EXCEPT ![q] = v] PROVE temp'[p] = v
  <2>. HIDE DEF q
  <2>. QED
    BY <1>1
<1>2. clock \in Nat /\ clock <= clock /\ clock' \in Nat /\ clock' <= clock'
  BY ClockGrows
<1>3. CASE StoreOpen(t)
  <2>1. temp'[p] = [data |-> <<>>, mtime |-> clock] /\ clock' = clock
    BY <1>1, <1>3 DEF StoreOpen
  <2>. QED
    BY <1>2, <2>1
<1>4. CASE StoreFill(t)
  <2>1. temp'[p] = [data |-> Whole(req[t].data), mtime |-> clock']
    BY <1>1, <1>4 DEF StoreFill
  <2>. QED
    BY <1>2, <2>1
<1>5. CASE StoreFillFails(t) \/ StoreChunk(t)
  <2>1. q \in Paths /\ temp[q] \in Versions /\ temp[q].mtime <= clock /\ clock' = clock
    BY <1>0, <1>5, FileType DEF StoreFillFails, StoreChunk, DataAt, StoringAt, ClockInv
  <2>2. \E c : temp' = [temp EXCEPT ![q] = [temp[q] EXCEPT !.data = c]]
    <3>1. CASE StoreFillFails(t)
      BY <3>1 DEF StoreFillFails
    <3>2. CASE StoreChunk(t)
      BY <3>2 DEF StoreChunk
    <3>. QED
      BY <1>5, <3>1, <3>2
  <2>3. PICK c : temp' = [temp EXCEPT ![q] = [temp[q] EXCEPT !.data = c]]
    BY <2>2
  <2>4. temp'[p] = [temp[q] EXCEPT !.data = c]
    BY <1>1, <2>3
  <2>. QED
    BY <2>1, <2>4 DEF Versions
<1>6. CASE StoreLast(t)
  <2>1. q \in Paths /\ temp[q] \in Versions
    BY <1>0, <1>6, FileType DEF StoreLast, DataAt, StoringAt
  <2>2. temp' = [temp EXCEPT ![q] = [temp[q] EXCEPT !.mtime = clock']]
    BY <1>6 DEF StoreLast
  <2>3. temp'[p] = [temp[q] EXCEPT !.mtime = clock']
    BY <1>1, <2>2
  <2>. QED
    BY <1>2, <2>1, <2>3 DEF Versions
<1>7. CASE StoreCommit(t)
  BY <1>1, <1>7 DEF StoreCommit, CommitTemp
<1>. QED
  BY <1>3, <1>4, <1>5, <1>6, <1>7 DEF Step, GetReadLock, GetWriteLock,
     FetchRead, FetchStat, StreamTime, StreamOpen, StreamChunk, StreamSent,
     TestAuth, GetFileStat, StoreFirst, StoreOpenFails, StoreNext,
     StoreCommitFails, StoreStat, Remove, Mknod, RenameLock, RenameCheck,
     RenameMove, Deliver

\* A handler between the closing of its temporary file and rename(2) holds the lock:
\* neither the temporary file nor the path's history moves meanwhile.
LEMMA CommitIsPrivate ==
    ASSUME IInv, NEW t \in Threads, Step(t), NEW u \in Threads,
           pc[u] = "commit", pc'[u] = "commit"
    PROVE  LET p == req[u].path IN
           /\ req'[u] = req[u] /\ p \in Paths
           /\ temp'[p] = temp[p] /\ hist'[p] = hist[p]
<1>. DEFINE p == req[u].path
<1>. USE DEF IInv, DataInv, ControlInv, ControlTypeOK
<1>1. p \in Paths /\ u \in writers[p]
  BY DEF Requests, GoodRequest, LocksHeld, HoldsUnique, WriteLabels, FillLabels
<1>2. req'[u] = req[u]
  BY RequestStays
<1>3. u # t
  <2>1. ASSUME u = t PROVE StoreCommit(t) \/ StoreCommitFails(t)
    BY <2>1 DEF Step, GetReadLock, GetWriteLock, FetchRead,
     FetchStat, StreamTime, StreamOpen, StreamChunk, StreamSent, TestAuth,
     GetFileStat, StoreFirst, StoreOpen, StoreFill, StoreOpenFails, StoreFillFails,
     StoreChunk, StoreNext, StoreLast, StoreStat, Remove, Mknod,
     RenameLock, RenameCheck, RenameMove, Deliver
  <2>. QED
    BY <2>1 DEF StoreCommit, StoreCommitFails, ReturnWrite, Return, Goto
<1>4. temp'[p] = temp[p]
  BY <1>1, <1>3, HeldIsStable
<1>5. t \notin writers[p]
  BY <1>1, <1>3 DEF Exclusive
<1>6. hist[p] \subseteq hist'[p] /\ hist'[p] \subseteq hist[p]
  BY <1>1, <1>5, HistoryGrows, NewVersion
<1>. QED
  BY <1>1, <1>2, <1>4, <1>6

\* Every step leaves the clock ahead of the versions: one that is new to a path was stamped
\* by this step (Mknod) or an earlier one (StoreCommit), or was another path's (Rename).
LEMMA ClockStep == IInv /\ ClockInv /\ [Next]_vars => ClockInv'
<1>. SUFFICES ASSUME IInv, ClockInv, [Next]_vars PROVE ClockInv'
  OBVIOUS
<1>. USE DEF IInv, DataInv, ControlInv, ControlTypeOK, FilesTypeOK
<1>1. ASSUME NEW t \in Threads, NEW r \in Incoming, Start(t, r) PROVE ClockInv'
  <2>1. r.op \in Ops
    BY DEF Incoming
  <2>2. UNCHANGED <<temp, clock, hist>>
    BY <1>1 DEF Start, fsVars
  <2>3. /\ pc'[t] \in {"first", "lock"} /\ req'[t] = r
        /\ \A u \in Threads \ {t} : pc'[u] = pc[u] /\ req'[u] = req[u]
    BY <1>1 DEF Start, Goto
  <2>. QED
    BY <2>1, <2>2, <2>3 DEF ClockInv, CallsAreIssued, Follows
<1>2. ASSUME NEW t \in Threads, Step(t) PROVE ClockInv'
  <2>1. clock' \in Nat /\ clock' >= clock
    BY <1>2, ClockGrows
  <2>2. CallsAreIssued'
    BY <1>2, RequestStays DEF ClockInv, CallsAreIssued
  <2>3. \A p \in Paths : \A v \in hist[p] : v.mtime \in Nat /\ v.mtime <= clock'
    BY <2>1 DEF ClockInv, Versions
  <2>4. ASSUME NEW p \in Paths, NEW v \in hist'[p] PROVE v.mtime <= clock'
    <3>1. CASE v \in hist[p]
      BY <2>3, <3>1
    <3>2. CASE v \notin hist[p]
      <4>1. CASE StoreCommit(t) /\ p = req[t].path /\ v = temp[p]
        <5>1. v.mtime <= clock /\ clock' = clock
          BY <4>1 DEF StoreCommit, ClockInv
        <5>. QED
          BY <5>1
      <4>2. CASE v = [data |-> <<>>, mtime |-> clock']
        BY <2>1, <4>2
      <4>3. CASE req[t].path \in Paths /\ v \in hist[req[t].path]
        BY <2>3, <4>3
      <4>. QED
        BY <1>2, <3>2, <4>1, <4>2, <4>3, NewVersion
    <3>. QED
      BY <3>1, <3>2
  <2>6. ASSUME NEW p \in Paths, temp'[p] # NoFile PROVE temp'[p].mtime <= clock'
    <3>1. CASE temp'[p] = temp[p]
      <4>1. temp[p].mtime \in Nat /\ temp[p].mtime <= clock
        BY <2>6, <3>1, FileType DEF ClockInv
      <4>. QED
        BY <2>1, <3>1, <4>1
    <3>2. CASE temp'[p] # temp[p]
      BY <1>2, <2>6, <3>2, TempIsStamped
    <3>. QED
      BY <3>1, <3>2
  <2>5. ASSUME NEW u \in Threads, OpensAreSeen, pc'[u] = "commit",
               temp'[req'[u].path] # NoFile
        PROVE  Follows(temp'[req'[u].path].mtime, hist'[req'[u].path])
    <3>0. req'[u] = req[u]
      BY <1>2, <2>5, RequestStays
    <3>1. CASE pc[u] = "commit"
      <4>. DEFINE p == req[u].path
      <4>1. /\ p \in Paths /\ temp'[p] = temp[p] /\ hist'[p] = hist[p]
        BY <1>2, <2>5, <3>1, CommitIsPrivate
      <4>2. Follows(temp[p].mtime, hist[p])
        BY <2>5, <3>0, <3>1, <4>1 DEF ClockInv
      <4>. QED
        BY <3>0, <4>1, <4>2 DEF Follows
    <3>2. CASE pc[u] # "commit"
      <4>1. u = t
        BY <1>2, <2>5, <3>2, LocalsAreLocal
      <4>2. /\ clock' \in StampTimes /\ temp'[req[t].path].mtime = clock'
            /\ UNCHANGED <<req, hist>>
        BY <1>2, <2>5, <3>2, <4>1, Stamped DEF ClockInv
      <4>3. req[t].path \in Paths
        BY <1>2, <2>5, <3>2, <4>1, RequestStays DEF Requests, GoodRequest
      <4>4. Follows(clock', hist[req[t].path])
        BY <2>1, <2>3, <4>2, <4>3, StampFollows DEF ClockInv, Follows
      <4>. QED
        BY <2>1, <4>1, <4>2, <4>4
    <3>. QED
      BY <3>1, <3>2
  <2>. QED
    BY <2>2, <2>4, <2>5, <2>6 DEF ClockInv
<1>3. ASSUME Crash PROVE ClockInv'
  BY <1>3 DEF Crash, fsVars, ClockInv, CallsAreIssued
<1>4. CASE UNCHANGED vars
  BY <1>4 DEF vars, fsVars, threadVars, ClockInv, CallsAreIssued, Follows
<1>. QED
  BY <1>1, <1>2, <1>3, <1>4 DEF Next, Quiescent

\* So the clock is always ahead, as the server's own invariant always holds.
LEMMA ClockAhead == Spec => [](IInv /\ ClockInv)
<1>1. IInv /\ ClockInv /\ [Next]_vars => ClockInv'
  BY ClockStep
<1>. QED
  BY <1>1, ClockInit, Invariance, PTL DEF Spec

\* A file that is replaced is replaced by the rename of a newer temporary file: two
\* stores of a path never leave the older time behind (write_file, server.cc:225), and
\* Rename replaces no file, though it looks (:262) before it moves (:268).
THEOREM TimesGoForward ==
    ASSUME OpensAreSeen
    PROVE  Spec => MtimeNeverGoesBack
<1>1. IInv /\ ClockInv /\ [Next]_vars =>
        [\A p \in Paths :
           Exists(p) /\ disk'[p] # NoFile => disk'[p].mtime >= disk[p].mtime]_vars
  <2>. SUFFICES ASSUME IInv, ClockInv, Next, NEW p \in Paths, Exists(p), disk'[p] # NoFile
                PROVE  disk'[p].mtime >= disk[p].mtime
    OBVIOUS
  <2>. USE DEF IInv, DataInv, ControlInv, ControlTypeOK, FilesTypeOK
  <2>1. disk[p] \in hist[p] /\ disk[p].mtime \in Nat
    BY DEF InHistory, Exists, Versions
  <2>2. CASE disk'[p] = disk[p]
    BY <2>1, <2>2
  <2>3. ASSUME NEW t \in Threads, StoreCommit(t), p = req[t].path
        PROVE  disk'[p].mtime >= disk[p].mtime
    <3>1. pc[t] = "commit" /\ disk'[p] = temp[p] /\ temp[p] # NoFile
      BY <2>3 DEF StoreCommit, CommitTemp, SetFile
    <3>2. temp[p].mtime \in Nat
      BY <3>1, FileType
    <3>3. Follows(temp[p].mtime, hist[p])
      BY <2>3, <3>1 DEF ClockInv
    <3>. QED
      BY <2>1, <3>1, <3>2, <3>3 DEF Follows
  <2>4. ASSUME NEW t \in Threads, Step(t)
        PROVE  disk'[p] = disk[p] \/ (StoreCommit(t) /\ p = req[t].path)
    <3>1. CASE StoreCommit(t)
      BY <3>1 DEF StoreCommit, CommitTemp, SetFile
    <3>2. CASE Remove(t)
      BY <3>2 DEF Remove
    <3>3. CASE Mknod(t)
      BY <3>3 DEF Mknod, SetFile, Exists
    <3>4. CASE RenameMove(t)
      BY <3>4 DEF RenameMove, Exists, DataAt, MovingAt
    <3>5. CASE UNCHANGED disk
      BY <3>5
    <3>. QED
      BY <2>4, <3>1, <3>2, <3>3, <3>4, <3>5 DEF Step, GetReadLock, GetWriteLock,
         FetchRead, FetchStat, StreamTime, StreamOpen, StreamChunk, StreamSent,
         TestAuth, GetFileStat, StoreFirst, StoreOpen, StoreFill,
         StoreOpenFails, StoreFillFails, StoreCommitFails, StoreChunk, StoreNext,
         StoreLast, StoreStat,
         RenameLock, RenameCheck, Deliver, fsVars
  <2>5. CASE \E t \in Threads : Step(t)
    BY <2>2, <2>3, <2>4, <2>5
  <2>6. CASE UNCHANGED disk
    BY <2>2, <2>6
  <2>. QED
    BY <2>5, <2>6 DEF Next, Start, Crash, Quiescent, vars, fsVars
<1>. QED
  BY <1>1, ClockAhead, PTL DEF Spec, MtimeNeverGoesBack

----
(***************************************************************************)
(* Whole files                                                             *)
(***************************************************************************)
\* A store that reaches rename(2) has all its chunks in the temporary file, where only
\* Store meets a failing disk.
LEMMA CommitIsWhole ==
    ASSUME NoSilentFailure, IInv, ClockInv, NEW t \in Threads, pc[t] = "commit"
    PROVE  /\ req[t].path \in Paths /\ req[t].data \in Data /\ req[t].op \in StoreOps
           /\ temp[req[t].path] \in Versions
           /\ temp[req[t].path].data = Whole(req[t].data)
           /\ Exact(t)
<1>. USE DEF IInv, DataInv, ControlInv, ControlTypeOK, FilesTypeOK
<1>1. /\ req[t].path \in Paths /\ req[t].data \in Data /\ req[t].op \in StoreOps
  BY DEF Requests, GoodRequest, OpAtLabel, FillLabels
<1>2. Exact(t)
  BY <1>1 DEF NoSilentFailure, Exact, StoreOps, ClockInv, CallsAreIssued
<1>3. temp[req[t].path] # NoFile /\ temp[req[t].path].data = Whole(req[t].data)
  BY <1>2 DEF DataAt, StoringAt
<1>. QED
  BY <1>1, <1>2, <1>3, FileType

\* No crash and no failed write leaves a part of a file under its name (server.cc:225).
THEOREM FilesAreWhole ==
    ASSUME NoSilentFailure
    PROVE  Spec => []NoPartialFile
<1>1. Init => NoPartialFile
  BY NoFileAssumption DEF Init, NoPartialFile, Versions
<1>2. IInv /\ ClockInv /\ NoPartialFile /\ [Next]_vars => NoPartialFile'
  <2>. SUFFICES ASSUME IInv, ClockInv, NoPartialFile, [Next]_vars,
                       NEW p \in Paths, NEW v \in hist'[p]
                PROVE  v.data = <<>> \/ \E d \in Data : v.data = Whole(d)
    BY DEF NoPartialFile
  <2>1. ASSUME NEW t \in Threads, Step(t), v \notin hist[p]
        PROVE  v.data = <<>> \/ \E d \in Data : v.data = Whole(d)
    <3>1. CASE StoreCommit(t) /\ p = req[t].path /\ v = temp[p]
      BY <3>1, CommitIsWhole DEF StoreCommit
    <3>2. CASE v = [data |-> <<>>, mtime |-> clock']
      BY <3>2
    <3>3. CASE req[t].path \in Paths /\ v \in hist[req[t].path]
      BY <3>3 DEF NoPartialFile
    <3>. QED
      BY <2>1, <3>1, <3>2, <3>3, NewVersion
  <2>2. CASE v \in hist[p]
    BY <2>2 DEF NoPartialFile
  <2>3. CASE UNCHANGED hist
    BY <2>2, <2>3
  <2>. QED
    BY <2>1, <2>2, <2>3 DEF Next, Start, Crash, Quiescent, vars, fsVars
<1>. QED
  BY <1>1, <1>2, ClockAhead, PTL DEF Spec

----
(***************************************************************************)
(* The refinement, step by step                                            *)
(***************************************************************************)
\* The label at which a handler stands says what its caller can see of it.
LEMMA PhaseAt ==
    ASSUME NEW t \in Threads
    PROVE  /\ Phase(t) = IF pc[t] = "idle" THEN "idle"
                         ELSE IF pc[t] \in {"stamp", "done"} THEN "answered" ELSE "called"
           /\ AnswerOf(t) = IF pc[t] = "stamp"
                              THEN [Blank EXCEPT !.mtime = disk[req[t].path].mtime]
                            ELSE IF pc[t] = "done" THEN reply[t] ELSE Blank
BY DEF Phase, AnswerOf

\* The same of the state after a step.
LEMMA PhaseAtNext ==
    ASSUME NEW t \in Threads
    PROVE  /\ Phase(t)' = IF pc'[t] = "idle" THEN "idle"
                          ELSE IF pc'[t] \in {"stamp", "done"} THEN "answered" ELSE "called"
           /\ AnswerOf(t)' = IF pc'[t] = "stamp"
                               THEN [Blank EXCEPT !.mtime = disk'[req'[t].path].mtime]
                             ELSE IF pc'[t] = "done" THEN reply'[t] ELSE Blank
BY DEF Phase, AnswerOf

\* Nothing a handler does is seen by the callers of the others.
LEMMA OthersSeeNothing ==
    ASSUME IInv, NEW t \in Threads, Step(t), NEW u \in Threads, u # t
    PROVE  Phase(u)' = Phase(u) /\ AnswerOf(u)' = AnswerOf(u) /\ req'[u] = req[u]
<1>1. pc'[u] = pc[u] /\ req'[u] = req[u] /\ reply'[u] = reply[u]
  BY LocalsAreLocal DEF IInv, DataInv
<1>2. pc[u] = "stamp" => disk'[req[u].path] = disk[req[u].path]
  BY HeldIsStable DEF IInv, ControlInv, Requests, GoodRequest, LocksHeld,
     HoldsUnique, WriteLabels, FillLabels
<1>. QED
  BY <1>1, <1>2, PhaseAt, PhaseAtNext

\* A step that changes no file and neither begins nor answers a call is no step of
\* AtomicFiles.
LEMMA Silent ==
    ASSUME IInv, NEW t \in Threads, Step(t), UNCHANGED <<disk, hist, req>>,
           pc[t] \notin {"idle", "stamp", "done"}, pc'[t] \notin {"idle", "stamp", "done"}
    PROVE  UNCHANGED Atomic!vars
<1>1. \A u \in Threads : Phase(u)' = Phase(u) /\ AnswerOf(u)' = AnswerOf(u)
  BY OthersSeeNothing, PhaseAt, PhaseAtNext
<1>. QED
  BY <1>1 DEF Atomic!vars

\* A step that returns from a handler answers the call with the response.
LEMMA Answering ==
    ASSUME IInv, NEW t \in Threads, Step(t), UNCHANGED req,
           pc[t] \notin {"idle", "stamp", "done"}, pc'[t] = "done"
    PROVE  /\ Phase(t) = "called"
           /\ [u \in Threads |-> Phase(u)]'
                = [[u \in Threads |-> Phase(u)] EXCEPT ![t] = "answered"]
           /\ [u \in Threads |-> AnswerOf(u)]'
                = [[u \in Threads |-> AnswerOf(u)] EXCEPT ![t] = reply'[t]]
<1>1. /\ Phase(t) = "called" /\ Phase(t)' = "answered" /\ AnswerOf(t)' = reply'[t]
  BY PhaseAt, PhaseAtNext
<1>2. \A u \in Threads : u # t => Phase(u)' = Phase(u) /\ AnswerOf(u)' = AnswerOf(u)
  BY OthersSeeNothing
<1>. QED
  BY <1>1, <1>2

\* In the promise it is the answer its caller gets.
LEMMA Answers ==
    ASSUME IInv, NEW t \in Threads, Step(t), UNCHANGED req,
           pc[t] \notin {"idle", "stamp", "done"}, pc'[t] = "done"
    PROVE  Atomic!Answer(t, reply'[t])
<1>1. [u \in Threads |-> Phase(u)][t] = "called"
  BY Answering
<1>. QED
  BY <1>1, Answering, Zenon DEF Atomic!Answer

\* The promise speaks of the same files, requests and responses as the program.
LEMMA SameVocabulary ==
    /\ Atomic!Files = Files /\ Atomic!Versions = Versions
    /\ Atomic!Request = Request /\ Atomic!NoRequest = NoRequest
    /\ Atomic!Blank = Blank /\ Atomic!StoreOps = StoreOps
    /\ \A d \in Data : Atomic!Whole(d) = Whole(d)
    /\ \A op, v : Atomic!Delivered(op, v) = Delivered(op, v)
BY DEF Atomic!Files, Files, Atomic!Versions, Versions, Atomic!Contents, Contents,
       Atomic!Request, Request, Atomic!NoRequest, NoRequest, Atomic!Blank, Blank,
       Atomic!Whole, Whole, Atomic!Delivered, Delivered, Atomic!ReadOps, ReadOps,
       Atomic!StoreOps, StoreOps

\* A stream's response carries no error before the stream ends.
StreamsSucceed ==
    \A t \in Threads : pc[t] \in {"fopen", "send"} =>
        reply[t].status = "OK" /\ reply[t].errno = "0" /\ reply[t].changed = FALSE

\* No step spoils it: what fails a stream also ends it.
LEMMA StreamsStep == IInv /\ StreamsSucceed /\ [Next]_vars => StreamsSucceed'
<1>. SUFFICES ASSUME IInv, StreamsSucceed, [Next]_vars PROVE StreamsSucceed'
  OBVIOUS
<1>. USE DEF IInv, DataInv, ControlInv, ControlTypeOK, FilesTypeOK, StreamsSucceed
<1>1. ASSUME NEW t \in Threads, Step(t), NEW u \in Threads, pc'[u] \in {"fopen", "send"}
      PROVE  reply'[u].status = "OK" /\ reply'[u].errno = "0" /\ reply'[u].changed = FALSE
  <2>1. CASE u # t
    BY <1>1, <2>1, LocalsAreLocal
  <2>2. CASE u = t /\ StreamTime(t)
    <3>1. reply[t] = Blank
      BY <2>2 DEF StreamTime, DataAt, AnsweredAt
    <3>2. reply'[t] = [Blank EXCEPT !.mtime = disk[req[t].path].mtime]
      BY <1>1, <2>2, <3>1 DEF StreamTime, ReturnRead, Return, Goto
    <3>. QED
      BY <2>2, <3>2 DEF Blank
  <2>3. CASE u = t /\ StreamOpen(t)
    BY <2>3 DEF StreamOpen
  <2>4. CASE u = t /\ StreamChunk(t)
    <3>1. reply'[t] = [reply[t] EXCEPT !.data =
                         Append(@, fin[t][Len(reply[t].data) + 1])]
          /\ pc[t] = "send" /\ reply[t] \in Reply
      BY <2>4 DEF StreamChunk
    <3>. QED
      BY <2>4, <3>1 DEF Reply
  <2>5. CASE u = t /\ (GetReadLock(t) \/ GetWriteLock(t))
    BY <1>1, <2>5 DEF GetReadLock, GetWriteLock, Goto, AfterLock, Requests, GoodRequest,
       ReadOps, WriteOps, StoreOps
  <2>. QED
    BY <1>1, <2>1, <2>2, <2>3, <2>4, <2>5 DEF Step, FetchRead, FetchStat,
       StreamSent, TestAuth, GetFileStat, StoreFirst, StoreOpen, StoreFill,
       StoreOpenFails, StoreFillFails, StoreCommitFails, StoreChunk, StoreNext,
       StoreLast, StoreCommit, StoreStat,
       Remove, Mknod, RenameLock, RenameCheck, RenameMove, Deliver, Goto, Return, ReturnRead,
       ReturnWrite, ReturnRename
<1>2. ASSUME NEW t \in Threads, NEW r \in Incoming, Start(t, r) PROVE StreamsSucceed'
  BY <1>2 DEF Start, Goto
<1>3. CASE Crash
  BY <1>3 DEF Crash
<1>4. CASE UNCHANGED vars
  BY <1>4 DEF vars, threadVars
<1>. QED
  BY <1>1, <1>2, <1>3, <1>4 DEF Next, Quiescent

\* Init of the handlers is Init of the promise.
LEMMA InitRefines == Init => Atomic!Init
<1>. SUFFICES ASSUME Init PROVE Atomic!Init
  OBVIOUS
<1>1. disk \in [Paths -> Files]
  BY WholeType, VersionType DEF Init, Files
<1>2. \A t \in Threads : Phase(t) = "idle" /\ AnswerOf(t) = Blank
  BY PhaseAt DEF Init
<1>. QED
  BY <1>1, <1>2, SameVocabulary DEF Init, Atomic!Init

\* A response is its fields, ...
LEMMA ReplyFields ==
    ASSUME NEW r \in Reply
    PROVE  /\ r = [status |-> r.status, errno |-> r.errno, data |-> r.data,
                  mtime |-> r.mtime, changed |-> r.changed]
           /\ r.data \in Contents /\ r.mtime \in Nat
BY DEF Reply

\* ... and so is the response to a read.
LEMMA ReadReply ==
    ASSUME NEW c \in Contents, NEW m \in Nat
    PROVE  [Blank EXCEPT !.data = c, !.mtime = m]
             = [status |-> "OK", errno |-> "0", data |-> c, mtime |-> m, changed |-> FALSE]
<1>. DEFINE r == [[Blank EXCEPT !.data = c] EXCEPT !.mtime = m]
<1>1. r \in Reply
  BY BlankType, ReplyUpdate
<1>2. r.status = "OK" /\ r.errno = "0" /\ r.data = c /\ r.mtime = m /\ r.changed = FALSE
  BY DEF Blank
<1>3. r = [status |-> r.status, errno |-> r.errno, data |-> r.data, mtime |-> r.mtime,
           changed |-> r.changed]
  BY <1>1, ReplyFields
<1>4. [Blank EXCEPT !.data = c, !.mtime = m] = r
  OBVIOUS
<1>. QED
  BY <1>2, <1>3, <1>4

\* The handlers that read answer with the file as it is when they return.
LEMMA ReadRefines ==
    ASSUME IInv, StreamsSucceed, NEW t \in Threads,
           StreamTime(t) \/ StreamOpen(t) \/ StreamChunk(t) \/ StreamSent(t)
             \/ TestAuth(t) \/ GetFileStat(t)
    PROVE  Atomic!Read(t) \/ Atomic!TestAuth(t) \/ UNCHANGED Atomic!vars
<1>. USE DEF IInv, DataInv, ControlInv, ControlTypeOK, FilesTypeOK, fsVars
<1>. DEFINE p == req[t].path
<1>0. p \in Paths /\ Step(t)
  BY DEF Step, Requests, GoodRequest, StreamTime, StreamOpen, StreamChunk,
     StreamSent, TestAuth, GetFileStat
<1>1. CASE StreamTime(t)
  <2>1. pc[t] = "time" /\ UNCHANGED <<disk, hist, req>> /\ req[t].op = "FetchWithStream"
    BY <1>1 DEF StreamTime, OpAtLabel, StreamLabels, Requests
  <2>2. CASE Exists(p)
    <3>1. pc'[t] = "fopen"
      BY <1>1, <2>2 DEF StreamTime, Goto
    <3>. QED
      BY <1>0, <2>1, <3>1, Silent
  <2>3. CASE ~Exists(p)
    <3>1. pc'[t] = "done" /\ reply'[t] = [Blank EXCEPT !.status = "UNKNOWN"]
      BY <1>1, <2>3 DEF StreamTime, ReturnRead, Return, Goto
    <3>. QED
      BY <1>0, <2>1, <2>3, <3>1, Answering, SameVocabulary
         DEF Atomic!Read, Atomic!Answer, Atomic!Missing, Exists
  <2>. QED
    BY <2>2, <2>3
<1>2. CASE StreamOpen(t) \/ StreamChunk(t)
  <2>1. /\ pc[t] \in {"fopen", "send"} /\ pc'[t] = "send" /\ UNCHANGED <<disk, hist, req>>
    BY <1>2 DEF StreamOpen, StreamChunk, Goto
  <2>. QED
    BY <1>0, <2>1, Silent
<1>3. CASE StreamSent(t)
  <2>1. /\ pc[t] = "send" /\ pc'[t] = "done" /\ UNCHANGED <<disk, hist, req>>
        /\ req[t].op = "FetchWithStream"
        /\ Len(reply[t].data) = Len(fin[t])
        /\ reply'[t] = IF fin[t] = <<>> THEN Blank ELSE reply[t]
    BY <1>3 DEF StreamSent, ReturnRead, Return, Goto, OpAtLabel, StreamLabels, Requests
  <2>2. disk[p] # NoFile /\ fin[t] = disk[p].data /\ reply[t].mtime = disk[p].mtime
    BY <2>1 DEF DataAt, StreamingAt
  <2>3. reply[t].data = fin[t]
    <3>1. reply[t].data \in Seq(Data) /\ fin[t] \in Seq(Data)
      BY DEF Contents, Reply
    <3>. QED
      BY <2>1, <3>1, SeqEqual DEF DataAt, StreamingAt
  <2>4. reply'[t] = LET v == Delivered(req[t].op, disk[p])
                    IN  [Blank EXCEPT !.data = v.data, !.mtime = v.mtime]
    <3>1. disk[p] \in Versions
      BY <1>0, <2>2, FileType
    <3>2. CASE fin[t] = <<>>
      <4>1. Delivered(req[t].op, disk[p]) = [disk[p] EXCEPT !.mtime = 0]
        BY <2>1, <2>2, <3>2 DEF Delivered
      <4>2. /\ Delivered(req[t].op, disk[p]).data = <<>>
            /\ Delivered(req[t].op, disk[p]).mtime = 0
        BY <2>2, <3>1, <3>2, <4>1 DEF Versions
      <4>3. Blank = [Blank EXCEPT !.data = <<>>, !.mtime = 0]
        BY ReadReply, EmptyType DEF Blank
      <4>. QED
        BY <2>1, <3>2, <4>2, <4>3
    <3>3. CASE fin[t] # <<>>
      <4>1. Delivered(req[t].op, disk[p]) = disk[p] /\ reply'[t] = reply[t]
        BY <2>1, <2>2, <3>3 DEF Delivered
      <4>2. reply[t] = [Blank EXCEPT !.data = reply[t].data, !.mtime = reply[t].mtime]
        <5>1. /\ reply[t] = [status |-> reply[t].status, errno |-> reply[t].errno,
                             data |-> reply[t].data, mtime |-> reply[t].mtime,
                             changed |-> reply[t].changed]
              /\ reply[t].data \in Contents /\ reply[t].mtime \in Nat
          BY ReplyFields
        <5>2. reply[t].status = "OK" /\ reply[t].errno = "0" /\ reply[t].changed = FALSE
          BY <2>1 DEF StreamsSucceed
        <5>3. [Blank EXCEPT !.data = reply[t].data, !.mtime = reply[t].mtime]
                = [status |-> "OK", errno |-> "0", data |-> reply[t].data,
                   mtime |-> reply[t].mtime, changed |-> FALSE]
          BY <5>1, ReadReply
        <5>. QED
          BY <5>1, <5>2, <5>3, Zenon
      <4>. QED
        BY <2>2, <2>3, <4>1, <4>2
    <3>. QED
      BY <3>2, <3>3
  <2>5. Atomic!Answer(t, reply'[t])
    BY <1>0, <2>1, Answers
  <2>. QED
    BY <2>1, <2>2, <2>4, <2>5, SameVocabulary DEF Atomic!Read
<1>4. CASE TestAuth(t)
  <2>1. /\ pc[t] = "auth" /\ pc'[t] = "done" /\ UNCHANGED <<disk, hist, req>>
        /\ req[t].op = "TestAuth"
        /\ reply'[t] = [Blank EXCEPT !.changed = ~Exists(p) \/ disk[p].mtime # req[t].time]
    BY <1>4 DEF TestAuth, ReturnRead, Return, Goto, OpAtLabel, Requests
  <2>2. Atomic!Answer(t, reply'[t])
    BY <1>0, <2>1, Answers
  <2>. QED
    BY <2>1, <2>2, SameVocabulary DEF Atomic!TestAuth, Exists
<1>5. CASE GetFileStat(t)
  <2>1. /\ pc[t] = "stat" /\ pc'[t] = "done" /\ UNCHANGED <<disk, hist, req>>
        /\ req[t].op = "GetFileStat"
        /\ reply'[t] = IF Exists(p)
                         THEN [Blank EXCEPT !.data = disk[p].data, !.mtime = disk[p].mtime]
                         ELSE [Blank EXCEPT !.errno = "ENOENT"]
    BY <1>5 DEF GetFileStat, ReturnRead, Return, Goto, OpAtLabel, Requests
  <2>2. Delivered(req[t].op, disk[p]) = disk[p]
    BY <2>1 DEF Delivered
  <2>3. Atomic!Answer(t, reply'[t])
    BY <1>0, <2>1, Answers
  <2>. QED
    BY <2>1, <2>2, <2>3, SameVocabulary DEF Atomic!Read, Atomic!Missing, Exists
<1>. QED
  BY <1>1, <1>2, <1>3, <1>4, <1>5

\* The handlers that change files: a store takes effect at rename(2), and fails or is
\* answered without changing anything; the others act when they return.
LEMMA StoreRefines ==
    ASSUME NoSilentFailure, IInv, ClockInv, NEW t \in Threads,
           \/ StoreFirst(t) \/ StoreOpen(t) \/ StoreOpenFails(t) \/ StoreFill(t)
           \/ StoreFillFails(t) \/ StoreChunk(t) \/ StoreNext(t) \/ StoreLast(t)
           \/ StoreCommit(t) \/ StoreCommitFails(t) \/ StoreStat(t)
    PROVE  Atomic!Store(t) \/ Atomic!StoreFails(t) \/ UNCHANGED Atomic!vars
<1>. USE DEF IInv, DataInv, ControlInv, ControlTypeOK, FilesTypeOK, fsVars
<1>. DEFINE p == req[t].path
<1>0. p \in Paths /\ Step(t) /\ req[t].op \in StoreOps
  BY DEF Step, Requests, GoodRequest, OpAtLabel, FillLabels, StoreOps, StoreFirst,
     StoreOpen,
     StoreFill, StoreOpenFails, StoreFillFails, StoreCommitFails, StoreChunk, StoreNext, StoreLast, StoreCommit,
     StoreStat
<1>1. CASE StoreFirst(t)
  <2>1. pc[t] = "first" /\ UNCHANGED <<disk, hist, req>>
    BY <1>1 DEF StoreFirst
  <2>2. CASE pc'[t] = "lock"
    BY <1>0, <2>1, <2>2, Silent
  <2>3. CASE pc'[t] = "done" /\ reply'[t] = [Blank EXCEPT !.status = "CANCELLED"]
    BY <1>0, <2>1, <2>3, Answering, SameVocabulary DEF Atomic!StoreFails, Atomic!Answer
  <2>. QED
    BY <1>1, <2>2, <2>3 DEF StoreFirst, Return, Goto
<1>2. CASE StoreOpen(t) \/ StoreFill(t) \/ StoreChunk(t) \/ StoreNext(t) \/ StoreLast(t)
  <2>1. /\ pc[t] \in {"open", "fill", "write", "next"}
        /\ pc'[t] \in {"fill", "write", "next", "commit"}
        /\ UNCHANGED <<disk, hist, req>>
    BY <1>2 DEF StoreOpen, StoreFill, StoreChunk, StoreNext, StoreLast, Goto
  <2>. QED
    BY <1>0, <2>1, Silent
<1>3. CASE StoreOpenFails(t) \/ StoreFillFails(t) \/ StoreCommitFails(t)
  <2>1. StoreOpenFails(t) => req[t].op = "Store"
    BY <1>0 DEF StoreOpenFails, NoSilentFailure, ClockInv, CallsAreIssued, StoreOps
  <2>2. /\ pc[t] \in {"open", "fill", "commit"} /\ UNCHANGED <<disk, hist, req>>
        /\ pc'[t] = "done" /\ reply'[t] = [Blank EXCEPT !.status = "UNKNOWN"]
    BY <1>3, <2>1 DEF StoreOpenFails, StoreFillFails, StoreCommitFails, ReturnWrite,
       Return, Goto
  <2>. QED
    BY <1>0, <2>2, Answering, SameVocabulary DEF Atomic!StoreFails, Atomic!Answer
<1>4. CASE StoreCommit(t)
  <2>1. /\ pc[t] = "commit" /\ pc'[t] = "stamp" /\ req' = req
        /\ disk' = [disk EXCEPT ![p] = temp[p]]
        /\ hist' = [hist EXCEPT ![p] = @ \union {temp[p]}]
    BY <1>4 DEF StoreCommit, CommitTemp, SetFile, Goto
  <2>2. temp[p] \in Versions /\ temp[p].data = Whole(req[t].data) /\ req[t].data \in Data
    BY <2>1, CommitIsWhole
  <2>3. Follows(temp[p].mtime, hist[p])
    BY <1>4, <2>1 DEF ClockInv, StoreCommit, NoSilentFailure, OpensAreSeen
  <2>4. disk'[p] = temp[p]
    BY <1>0, <2>1
  <2>5. /\ disk'[p] \in Versions /\ disk'[p].data = Whole(req[t].data)
        /\ \A v \in hist[p] :
             IF FineClock THEN disk'[p].mtime > v.mtime ELSE disk'[p].mtime >= v.mtime
        /\ disk' = [disk EXCEPT ![p] = disk'[p]]
        /\ hist' = [hist EXCEPT ![p] = @ \union {disk'[p]}]
    BY <1>0, <2>1, <2>2, <2>3, <2>4 DEF Follows, Versions
  <2>6. Atomic!Replace(p, Atomic!Whole(req[t].data))
    BY <2>2, <2>5, SameVocabulary DEF Atomic!Replace
  <2>7. /\ Phase(t) = "called" /\ Phase(t)' = "answered"
        /\ AnswerOf(t)' = [Blank EXCEPT !.mtime = disk'[p].mtime]
    BY <2>1, PhaseAt, PhaseAtNext
  <2>8. \A u \in Threads : u # t => Phase(u)' = Phase(u) /\ AnswerOf(u)' = AnswerOf(u)
    BY <1>0, OthersSeeNothing
  <2>9. /\ [u \in Threads |-> Phase(u)]'
             = [[u \in Threads |-> Phase(u)] EXCEPT ![t] = "answered"]
        /\ [u \in Threads |-> AnswerOf(u)]'
             = [[u \in Threads |-> AnswerOf(u)] EXCEPT ![t] =
                  [Blank EXCEPT !.mtime = disk'[p].mtime]]
    BY <2>7, <2>8
  <2>10. Atomic!Answer(t, [Atomic!Blank EXCEPT !.mtime = disk'[p].mtime])
    BY <2>1, <2>7, <2>9, SameVocabulary DEF Atomic!Answer
  <2>. QED
    BY <1>0, <2>6, <2>10, SameVocabulary DEF Atomic!Store
<1>5. CASE StoreStat(t)
  <2>1. /\ pc[t] = "stamp" /\ pc'[t] = "done" /\ UNCHANGED <<disk, hist, req>>
        /\ reply'[t] = IF Exists(p) THEN [Blank EXCEPT !.mtime = disk[p].mtime]
                                    ELSE [Blank EXCEPT !.errno = "ENOENT"]
    BY <1>5 DEF StoreStat, ReturnWrite, Return, Goto
  <2>2. Exists(p)
    BY <2>1 DEF DataAt, StoringAt, Exists
  <2>3. Phase(t)' = Phase(t) /\ AnswerOf(t)' = AnswerOf(t)
    BY <2>1, <2>2, PhaseAt, PhaseAtNext
  <2>4. \A u \in Threads : Phase(u)' = Phase(u) /\ AnswerOf(u)' = AnswerOf(u)
    BY <1>0, <2>3, OthersSeeNothing
  <2>. QED
    BY <2>1, <2>4 DEF Atomic!vars
<1>. QED
  BY <1>1, <1>2, <1>3, <1>4, <1>5

\* The handlers of one system call, and Rename with both locks held, are AtomicFiles' actions
\* of the same name at the step that makes the call; their other steps stutter.
LEMMA NameRefines ==
    ASSUME IInv, ClockInv, NEW t \in Threads,
           Remove(t) \/ Mknod(t) \/ RenameLock(t) \/ RenameCheck(t) \/ RenameMove(t)
    PROVE  Atomic!Remove(t) \/ Atomic!Mknod(t) \/ Atomic!Rename(t) \/ UNCHANGED Atomic!vars
<1>. USE DEF IInv, DataInv, ControlInv, ControlTypeOK, FilesTypeOK, fsVars
<1>. DEFINE p == req[t].path
<1>0. p \in Paths /\ Step(t)
  BY DEF Step, Requests, GoodRequest, Remove, Mknod, RenameLock, RenameCheck, RenameMove
<1>1. CASE Remove(t)
  <2>1. /\ pc[t] = "unlink" /\ pc'[t] = "done" /\ UNCHANGED <<hist, req>>
        /\ req[t].op = "Remove"
        /\ disk' = [disk EXCEPT ![p] = NoFile]
        /\ reply'[t] = IF Exists(p) THEN Blank ELSE [Blank EXCEPT !.errno = "ENOENT"]
    BY <1>1 DEF Remove, ReturnWrite, Return, Goto, OpAtLabel, Requests
  <2>2. Atomic!Answer(t, reply'[t])
    BY <1>0, <2>1, Answers
  <2>. QED
    BY <2>1, <2>2, SameVocabulary DEF Atomic!Remove, Atomic!Missing, Exists
<1>2. CASE Mknod(t)
  <2>1. /\ pc[t] = "mknod" /\ pc'[t] = "done" /\ req' = req /\ req[t].op = "Mknod"
        /\ reply'[t] = Blank
    BY <1>2 DEF Mknod, ReturnWrite, Return, Goto, OpAtLabel, Requests
  <2>2. CASE Exists(p)
    <3>1. UNCHANGED <<disk, hist>>
      BY <1>2, <2>2 DEF Mknod
    <3>. QED
      BY <1>0, <2>1, <2>2, <3>1, Answering, SameVocabulary
         DEF Atomic!Mknod, Atomic!Answer, Exists
  <2>3. CASE ~Exists(p)
    <3>1. PICK m \in StampTimes : SetFile(p, [data |-> <<>>, mtime |-> m])
      BY <1>2, <2>3 DEF Mknod
    <3>2. m \in Nat /\ m >= clock /\ (FineClock => m > clock)
      BY StampFollows
    <3>. DEFINE w == [data |-> <<>>, mtime |-> m]
    <3>3. disk' = [disk EXCEPT ![p] = w] /\ hist' = [hist EXCEPT ![p] = @ \union {w}]
      BY <3>1 DEF SetFile
    <3>4. w \in Versions /\ w.data = <<>> /\ w.mtime = m
      BY <3>2, VersionType, EmptyType
    <3>. HIDE DEF w
    <3>5. disk'[p] = w
      BY <1>0, <3>3
    <3>6. ASSUME NEW v \in hist[p]
          PROVE  IF FineClock THEN disk'[p].mtime > v.mtime ELSE disk'[p].mtime >= v.mtime
      <4>1. v.mtime <= clock
        BY <1>0 DEF ClockInv
      <4>2. v.mtime \in Nat
        BY <1>0 DEF Versions
      <4>3. disk'[p].mtime = m
        BY <3>4, <3>5
      <4>. QED
        BY <3>2, <4>1, <4>2, <4>3
    <3>7. /\ disk'[p] \in Versions /\ disk'[p].data = <<>>
          /\ \A v \in hist[p] :
               IF FineClock THEN disk'[p].mtime > v.mtime ELSE disk'[p].mtime >= v.mtime
          /\ disk' = [disk EXCEPT ![p] = disk'[p]]
          /\ hist' = [hist EXCEPT ![p] = @ \union {disk'[p]}]
      BY <3>3, <3>4, <3>5, <3>6
    <3>8. Atomic!Replace(p, <<>>)
      BY <3>7, SameVocabulary DEF Atomic!Replace
    <3>9. Atomic!Answer(t, Atomic!Blank)
      BY <1>0, <2>1, Answering, SameVocabulary DEF Atomic!Answer
    <3>. QED
      BY <2>1, <2>3, <3>8, <3>9 DEF Atomic!Mknod, Exists
  <2>. QED
    BY <2>2, <2>3
<1>3. CASE RenameLock(t)
  <2>1. pc[t] = "lock2" /\ pc'[t] = "move" /\ UNCHANGED <<disk, hist, req>>
    BY <1>3 DEF RenameLock, RenameCheck, Goto
  <2>. QED
    BY <1>0, <2>1, Silent
<1>4. CASE RenameCheck(t)
  <2>1. pc[t] = "move" /\ UNCHANGED <<disk, hist, req>> /\ req[t].op = "Rename"
    BY <1>4 DEF RenameCheck, OpAtLabel, Requests
  <2>2. CASE Exists(req[t].dst)
    <3>1. pc'[t] = "done" /\ reply'[t] = [Blank EXCEPT !.errno = "EEXIST"]
      BY <1>4, <2>2 DEF RenameCheck, ReturnRename, Return, Goto
    <3>2. Atomic!Answer(t, reply'[t])
      BY <1>0, <2>1, <3>1, Answers
    <3>. QED
      BY <2>1, <2>2, <3>1, <3>2, SameVocabulary DEF Atomic!Rename, Exists
  <2>3. CASE ~Exists(req[t].dst)
    <3>1. pc'[t] = "moveto"
      BY <1>4, <2>3 DEF RenameCheck, Goto
    <3>. QED
      BY <1>0, <2>1, <3>1, Silent
  <2>. QED
    BY <2>2, <2>3
<1>5. CASE RenameMove(t)
  <2>. DEFINE q == req[t].dst
  <2>1. /\ pc[t] = "moveto" /\ pc'[t] = "done" /\ req' = req /\ req[t].op = "Rename"
        /\ reply'[t] = [Blank EXCEPT !.errno = IF Exists(p) THEN "0" ELSE "ENOENT"]
    BY <1>5 DEF RenameMove, ReturnRename, Return, Goto, OpAtLabel, Requests
  <2>2. ~Exists(q)
    BY <2>1 DEF DataAt, MovingAt, Exists
  <2>5. Atomic!Answer(t, reply'[t])
    BY <1>0, <2>1, Answers
  <2>3. CASE ~Exists(p)
    <3>1. UNCHANGED <<disk, hist>>
      BY <1>5, <2>3 DEF RenameMove
    <3>. QED
      BY <2>1, <2>2, <2>3, <2>5, <3>1, SameVocabulary
         DEF Atomic!Rename, Atomic!Missing, Exists
  <2>4. CASE Exists(p)
    <3>1. /\ disk' = [disk EXCEPT ![p] = NoFile, ![q] = disk[p]]
          /\ hist' = [hist EXCEPT ![q] = @ \union {disk[p]}]
      BY <1>5, <2>4 DEF RenameMove
    <3>2. reply'[t] = Blank
      BY <2>1, <2>4 DEF Blank
    <3>. QED
      BY <1>0, <2>1, <2>2, <2>4, <3>1, <3>2, Answering, SameVocabulary
         DEF Atomic!Rename, Atomic!Answer, Exists
  <2>. QED
    BY <2>3, <2>4
<1>. QED
  BY <1>1, <1>2, <1>3, <1>4, <1>5

\* Every step of the program is one of the promise, or none.
LEMMA NextRefines ==
    ASSUME NoSilentFailure, "Fetch" \notin Ops
    PROVE  IInv /\ ClockInv /\ StreamsSucceed /\ [Next]_vars => [Atomic!Next]_(Atomic!vars)
<1>. SUFFICES ASSUME IInv, ClockInv, StreamsSucceed, [Next]_vars
              PROVE  Atomic!Next \/ UNCHANGED Atomic!vars
  OBVIOUS
<1>. USE DEF IInv, DataInv, ControlInv, ControlTypeOK, FilesTypeOK
<1>1. ASSUME NEW t \in Threads, NEW r \in Incoming, Start(t, r) PROVE Atomic!Invoke(t)
  <2>1. /\ pc[t] = "idle" /\ pc'[t] \in {"first", "lock"}
        /\ req' = [req EXCEPT ![t] = r] /\ req'[t] = r
        /\ UNCHANGED <<disk, hist>>
        /\ \A u \in Threads : u # t => pc'[u] = pc[u] /\ req'[u] = req[u]
        /\ reply' = reply
    BY <1>1 DEF Start, Goto, fsVars
  <2>2. r \in Request
    BY IncomingGood
  <2>3. /\ Phase(t) = "idle" /\ Phase(t)' = "called"
        /\ AnswerOf(t) = Blank /\ AnswerOf(t)' = Blank
    BY <2>1, PhaseAt, PhaseAtNext
  <2>4. \A u \in Threads : u # t => Phase(u)' = Phase(u) /\ AnswerOf(u)' = AnswerOf(u)
    BY <2>1, PhaseAt, PhaseAtNext
  <2>5. [u \in Threads |-> Phase(u)]' = [[u \in Threads |-> Phase(u)] EXCEPT ![t] = "called"]
    BY <2>3, <2>4
  <2>6. [u \in Threads |-> AnswerOf(u)]' = [u \in Threads |-> AnswerOf(u)]
    BY <2>3, <2>4
  <2>7. [u \in Threads |-> Phase(u)][t] = "idle"
    BY <2>3
  <2>8. req'[t] \in Atomic!Request /\ req' = [req EXCEPT ![t] = req'[t]]
    BY <2>1, <2>2, SameVocabulary
  <2>. QED
    BY <2>1, <2>5, <2>6, <2>7, <2>8, Zenon DEF Atomic!Invoke
<1>2. ASSUME NEW t \in Threads, Step(t)
      PROVE  Atomic!Next \/ UNCHANGED Atomic!vars
  <2>1. CASE GetReadLock(t) \/ GetWriteLock(t)
    <3>1. /\ pc[t] = "lock" /\ UNCHANGED <<disk, hist, req>>
          /\ GoodRequest(req[t]) /\ pc' = [pc EXCEPT ![t] = AfterLock[req[t].op]]
      BY <2>1 DEF GetReadLock, GetWriteLock, Goto, Requests, fsVars
    <3>2. pc'[t] \notin {"idle", "stamp", "done"}
      BY <3>1, AfterLockLabel DEF ReadLabels, WriteLabels, FillLabels, GoodRequest,
         AfterLock, ReadOps, WriteOps, StoreOps
    <3>. QED
      BY <1>2, <3>1, <3>2, Silent
  <2>2. CASE StreamTime(t) \/ StreamOpen(t) \/ StreamChunk(t) \/ StreamSent(t)
               \/ TestAuth(t) \/ GetFileStat(t)
    BY <2>2, ReadRefines DEF Atomic!Next
  <2>3. CASE \/ StoreFirst(t) \/ StoreOpen(t) \/ StoreOpenFails(t) \/ StoreFill(t)
             \/ StoreFillFails(t) \/ StoreChunk(t) \/ StoreNext(t) \/ StoreLast(t)
             \/ StoreCommit(t) \/ StoreCommitFails(t) \/ StoreStat(t)
    BY <2>3, StoreRefines DEF Atomic!Next
  <2>4. CASE Remove(t) \/ Mknod(t) \/ RenameLock(t) \/ RenameCheck(t) \/ RenameMove(t)
    BY <2>4, NameRefines DEF Atomic!Next
  <2>5. CASE Deliver(t)
    <3>1. /\ pc[t] = "done" /\ pc'[t] = "idle" /\ UNCHANGED <<disk, hist>>
          /\ req' = [req EXCEPT ![t] = NoRequest]
      BY <2>5 DEF Deliver, Goto, fsVars
    <3>2. Phase(t) = "answered" /\ Phase(t)' = "idle" /\ AnswerOf(t)' = Blank
      BY <3>1, PhaseAt, PhaseAtNext
    <3>3. \A u \in Threads : u # t => Phase(u)' = Phase(u) /\ AnswerOf(u)' = AnswerOf(u)
      BY <1>2, OthersSeeNothing
    <3>4. Atomic!Return(t)
      BY <3>1, <3>2, <3>3, SameVocabulary DEF Atomic!Return
    <3>. QED
      BY <3>4 DEF Atomic!Next
  <2>6. ~FetchRead(t) /\ ~FetchStat(t)
    BY DEF FetchRead, FetchStat, ClockInv, CallsAreIssued, Requests, OpAtLabel
  <2>. QED
    BY <1>2, <2>1, <2>2, <2>3, <2>4, <2>5, <2>6 DEF Step
<1>3. CASE Crash
  <2>1. /\ UNCHANGED <<disk, hist>> /\ req' = [u \in Threads |-> NoRequest]
        /\ \A u \in Threads : pc'[u] = "idle"
    BY <1>3 DEF Crash, fsVars
  <2>2. \A u \in Threads : Phase(u)' = "idle" /\ AnswerOf(u)' = Blank
    BY <2>1, PhaseAtNext
  <2>3. Atomic!Crash
    BY <2>1, <2>2, SameVocabulary DEF Atomic!Crash
  <2>. QED
    BY <2>3 DEF Atomic!Next
<1>4. CASE UNCHANGED vars
  <2>1. UNCHANGED <<disk, hist, req, pc, reply>>
    BY <1>4 DEF vars, fsVars, threadVars
  <2>2. \A u \in Threads : Phase(u)' = Phase(u) /\ AnswerOf(u)' = AnswerOf(u)
    BY <2>1, PhaseAt, PhaseAtNext
  <2>. QED
    BY <2>1, <2>2 DEF Atomic!vars
<1>5. ASSUME NEW t \in Threads, Atomic!Invoke(t) PROVE Atomic!Next
  BY <1>5 DEF Atomic!Next
<1>. QED
  BY <1>1, <1>2, <1>3, <1>4, <1>5 DEF Next, Quiescent

\* All handlers but Fetch (server.cc:550 stats after its unlock) look to their callers as
\* if each had run alone at one moment between its invocation and its answer, whatever
\* overlaps, crashes, or fails under Store.
THEOREM HandlersAreAtomic ==
    ASSUME NoSilentFailure, "Fetch" \notin Ops
    PROVE  Spec => ImplementsAtomicFiles
<1>1. IInv /\ ClockInv /\ StreamsSucceed /\ [Next]_vars => [Atomic!Next]_(Atomic!vars)
  BY NextRefines
<1>2. Init => StreamsSucceed
  BY DEF Init, StreamsSucceed
<1>3. IInv /\ StreamsSucceed /\ [Next]_vars => StreamsSucceed'
  BY StreamsStep
<1>. QED
  BY <1>1, <1>2, <1>3, InitRefines, ClockAhead, PTL
     DEF Spec, ImplementsAtomicFiles, Atomic!Spec
====
