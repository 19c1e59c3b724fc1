---- MODULE AfsClientProofs ----
(***************************************************************************)
(* Proofs about AfsClient, for any number of machines, files, chunks,      *)
(* retries, lost connections, late requests and crashes, and both builds,  *)
(* when each machine has one process: a close that succeeds has committed  *)
(* every write; a copy that TestAuth can find valid is a version the       *)
(* server had, and an open file is fresh, but for fetches that broke or    *)
(* were overtaken, which leave of one version what they had of it.         *)
(***************************************************************************)
EXTENDS AfsClient, SequenceTheorems, TLAPS

(***************************************************************************)
(* The cache of a machine with one process                                 *)
(***************************************************************************)
\* One process on each machine.
Alone == \A u, w \in Procs : Host[u] = Host[w] => u = w

\* The labels at which u is in an RPC, by the RPC.
FetchLabels == {"fetched", "trunc", "write", "recv", "stamp"}
StoreLabels == {"send", "stored", "clear", "restamp"}
CallLabels  == FetchLabels \union StoreLabels \union {"lookup", "auth", "mknod", "unlink"}

\* From the open's answer on the file is open; from the stat, and from the beginning
\* of the release, the callback watches the server's file.
OpenLabels    == {"open", "log", "close", "store", "closed"} \union StoreLabels
OpeningLabels == {"open_test", "auth", "fetch", "opened"} \union FetchLabels
ClosingLabels == OpenLabels \ {"open", "log"}

ClientRequest ==
    [op : {"GetFileStat", "Fetch", "FetchWithStream", "Mknod", "Remove"}, path : Paths]
      \union [op : {"TestAuth"}, path : Paths, time : Nat \union {Local}]
      \union [op : StoreOps, path : Paths, data : Contents]

ClientReply ==
    [status : {"OK", "UNKNOWN", "CANCELLED", "UNAVAILABLE"}, errno : {"0", "ENOENT"},
     data : Contents, mtime : Nat, changed : BOOLEAN]

Types ==
    /\ file \in [Paths -> Files]
    /\ hist \in [Paths -> SUBSET Versions]
    /\ clock \in Nat
    /\ late \subseteq ClientRequest
    /\ cache \in [Clients -> [Paths -> Copies \union {NoFile}]]
    /\ spoilt \in [Clients -> SUBSET Paths]
    /\ dirty \in [Clients -> SUBSET Paths]
    /\ pc \in [Procs -> Labels]
    /\ path \in [Procs -> Paths \union {NoPath}]
    /\ req \in [Procs -> ClientRequest \union {NoRequest}]
    /\ reply \in [Procs -> ClientReply \union {NoReply}]
    /\ read \in [Procs -> Files]
    /\ tries \in [Procs -> Nat]
    /\ count \in [Procs -> Nat]
    /\ wrote \in [Procs -> SUBSET (Nat \X Data)]
    /\ seen \in [Procs -> SUBSET Files]

\* The RPC a process is in is the one its label waits for.
RpcAt(u) ==
    /\ pc[u] # "idle" => path[u] \in Paths
    /\ IF pc[u] \in CallLabels THEN req[u] \in ClientRequest /\ req[u].path = path[u]
                               ELSE req[u] = NoRequest /\ reply[u] = NoReply
    /\ pc[u] = "lookup" => req[u].op = "GetFileStat"
    /\ pc[u] = "auth" => req[u].op = "TestAuth"
    /\ pc[u] = "mknod" => req[u].op = "Mknod"
    /\ pc[u] = "unlink" => req[u].op = "Remove"
    /\ pc[u] \in FetchLabels => req[u].op = IF Streaming THEN "FetchWithStream" ELSE "Fetch"
    /\ pc[u] \in StoreLabels => req[u].op = IF Streaming THEN "StoreWithStream" ELSE "Store"
    /\ pc[u] \in {"recv", "send"} => Streaming
    /\ pc[u] \in {"fetched", "write", "clear"} => ~Streaming
    /\ pc[u] \notin {"recv", "stamp", "send"} => count[u] = 0
    /\ pc[u] = "write" \/ (pc[u] = "trunc" /\ ~Streaming) => Succeeded(u)
    /\ pc[u] = "stamp" => reply[u] # NoReply /\ (Streaming \/ Succeeded(u))

\* The server's clock names its versions.
ServerInv ==
    \A p \in Paths :
        /\ file[p] # NoFile =>
             file[p] \in hist[p] /\ \A v \in hist[p] : v.mtime <= file[p].mtime
        /\ \A v \in hist[p] : v.mtime \in 1 .. clock
        /\ \A v, w \in hist[p] : v.mtime = w.mtime => v = w

\* The reply of a store names a version the server had since the close began.
StoreDone(u) ==
    LET v == [data |-> req[u].data, mtime |-> reply[u].mtime] IN
    v \in seen[u] /\ v \in hist[path[u]]

\* What a process knows of the file it has open.
OpenAt(u) ==
    /\ pc[u] \in OpeningLabels \union ClosingLabels => file[path[u]] \in seen[u]
    /\ pc[u] \notin OpenLabels => wrote[u] = {}
    /\ pc[u] \in OpenLabels =>
         /\ Cached(u) # NoFile
         /\ \A w \in wrote[u] : w[1] \in 1 .. Len(Content(u)) /\ Content(u)[w[1]] = w[2]
    /\ pc[u] \in {"open", "close"} /\ wrote[u] # {} => path[u] \in dirty[Host[u]]
    /\ pc[u] = "send" =>
         /\ count[u] = Len(Content(u))
         /\ Len(req[u].data) <= Len(Content(u))
         /\ \A i \in 1 .. Len(req[u].data) : req[u].data[i] = Content(u)[i]
         /\ reply[u] # NoReply => reply[u].status = "UNAVAILABLE"
    /\ pc[u] = "stored" =>
         /\ req[u].data = Content(u) \/ (Streaming /\ reply[u].status = "UNAVAILABLE")
         /\ Succeeded(u) => StoreDone(u)
    /\ pc[u] \in {"clear", "restamp"} =>
         req[u].data = Content(u) /\ Succeeded(u) /\ StoreDone(u)
    /\ pc[u] = "closed" /\ wrote[u] # {} =>
         \E v \in seen[u] \ {NoFile} :
            \A w \in wrote[u] : w[1] <= Len(v.data) /\ v.data[w[1]] = w[2]

CloseInv ==
    /\ Types
    /\ ServerInv
    /\ \A u \in Procs : RpcAt(u) /\ OpenAt(u)

\* What u has received of a stream, as a version.
Fetched(u) == [data |-> reply[u].data, mtime |-> reply[u].mtime]

\* A stream brings a version that the server had during the call, at least how it began;
\* or nothing, as it broke or there was no file.
StreamAt(u) ==
    reply[u] # NoReply =>
        \/ /\ Fetched(u) \in seen[u] /\ Fetched(u) \in hist[path[u]]
           /\ reply[u].status \in {"OK", "UNAVAILABLE"}
        \/ /\ reply[u].data = <<>> /\ reply[u].status # "OK"
           /\ reply[u].status = "UNAVAILABLE" \/ NoFile \in seen[u]

\* Fetch brings the content of a version, and the time of that one or of a later one,
\* which the server had during the call.
UnaryAt(u) ==
    /\ read[u] # NoFile => read[u] \in hist[path[u]]
    /\ Succeeded(u) =>
         /\ read[u] # NoFile
         /\ reply[u].data = read[u].data
         /\ \E v \in seen[u] \ {NoFile} :
              v \in hist[path[u]] /\ v.mtime = reply[u].mtime /\ read[u].mtime <= v.mtime

\* What an opening process knows of the file it validates or fetches.
FetchAt(u) ==
    /\ pc[u] = "auth" =>
         /\ Cached(u) # NoFile /\ req[u].time = Cached(u).mtime
         /\ reply[u].status = "OK" /\ ~reply[u].changed =>
              path[u] \in spoilt[Host[u]] \/ \E v \in seen[u] \ {NoFile} : v.data = Content(u)
    /\ pc[u] \in FetchLabels => IF Streaming THEN StreamAt(u) ELSE UnaryAt(u)
    /\ pc[u] \in {"recv", "write", "stamp"} => Cached(u) # NoFile
    /\ pc[u] = "recv" \/ (pc[u] = "stamp" /\ Streaming) =>
         /\ Len(Content(u)) = count[u]
         /\ reply[u] = NoReply => count[u] = 0
         /\ reply[u] # NoReply =>
              /\ count[u] <= Len(reply[u].data)
              /\ \A i \in 1 .. count[u] : Content(u)[i] = reply[u].data[i]
    /\ pc[u] = "write" => Content(u) = <<>>
    /\ pc[u] = "stamp" =>
         /\ ~Streaming => Content(u) = reply[u].data
         /\ Streaming /\ reply[u].status = "OK" => count[u] = Len(reply[u].data)
    /\ pc[u] = "opened" /\ path[u] \notin spoilt[Host[u]] =>
         \E v \in seen[u] : Content(u) = IF v = NoFile THEN <<>> ELSE v.data

FetchInv == CachedCopyIsAVersion /\ \A u \in Procs : FetchAt(u)
----
(***************************************************************************)
(* Contents                                                                *)
(***************************************************************************)
\* A write of a chunk makes the content as long as it must be, and changes that
\* chunk; the hole in front of it is zeros.
LEMMA PutChunk ==
    ASSUME NEW s \in Contents, NEW i \in Nat \ {0}, NEW d \in Data
    PROVE  /\ Put(s, i, d) \in Contents
           /\ Len(Put(s, i, d)) = Longer(Len(s), i)
           /\ \A j \in 1 .. Longer(Len(s), i) :
                Put(s, i, d)[j] = IF j = i THEN d ELSE IF j <= Len(s) THEN s[j] ELSE Hole
  <1>1. Longer(Len(s), i) \in Nat
    BY LenProperties DEF Contents, Longer
  <1>2. \A j \in 1 .. Longer(Len(s), i) :
          (IF j = i THEN d ELSE IF j <= Len(s) THEN s[j] ELSE Hole) \in Data
    BY ElementOfSeq, LenProperties, ClientAssumption DEF Contents
  <1> DEFINE f == [j \in 1 .. Longer(Len(s), i) |->
                     IF j = i THEN d ELSE IF j <= Len(s) THEN s[j] ELSE Hole]
  <1>3. f \in [1 .. Longer(Len(s), i) -> Data]
    BY <1>2
  <1>4. f \in Seq(Data) /\ Len(f) = Longer(Len(s), i)
    BY <1>1, <1>3, IsASeq
  <1> QED
    BY <1>4 DEF Put, Contents

\* Content written over content is content; over an empty file, it is the file.
LEMMA OverlayContent ==
    ASSUME NEW t \in Contents
    PROVE  /\ \A s \in Contents : Overlay(s, t) \in Contents
           /\ Overlay(<<>>, t) = t
  <1>0. ASSUME NEW s \in Contents PROVE Overlay(s, t) \in Contents
    <2>1. Longer(Len(s), Len(t)) \in Nat /\ Len(s) \in Nat /\ Len(t) \in Nat
      BY LenProperties DEF Contents, Longer
    <2>2. \A i \in 1 .. Longer(Len(s), Len(t)) :
            (IF i <= Len(t) THEN t[i] ELSE s[i]) \in Data
      BY <2>1, ElementOfSeq DEF Contents, Longer
    <2> DEFINE f == [i \in 1 .. Longer(Len(s), Len(t)) |-> IF i <= Len(t) THEN t[i] ELSE s[i]]
    <2>3. f \in [1 .. Longer(Len(s), Len(t)) -> Data]
      BY <2>2
    <2>4. f \in Seq(Data)
      BY <2>1, <2>3, IsASeq
    <2> QED
      BY <2>4 DEF Overlay, Contents
  <1>1. Len(t) \in Nat /\ Len(<<>>) = 0
    BY LenProperties DEF Contents
  <1>2. Longer(Len(<<>>), Len(t)) = Len(t)
    BY <1>1 DEF Longer
  <1>3. Overlay(<<>>, t) = [i \in 1 .. Len(t) |-> t[i]]
    BY <1>1, <1>2 DEF Overlay
  <1> QED
    BY <1>0, <1>3, LenProperties DEF Contents

\* Sequences of the same chunks are the same content.
LEMMA SameContent ==
    ASSUME NEW s \in Contents, NEW t \in Contents, Len(s) = Len(t),
           \A i \in 1 .. Len(s) : s[i] = t[i]
    PROVE  s = t
  BY SeqEqual DEF Contents

\* A process that works on a file has a content for it.
LEMMA ContentOf ==
    ASSUME Types, NEW u \in Procs, path[u] \in Paths
    PROVE  /\ Host[u] \in Clients
           /\ Cached(u) \in Copies \union {NoFile}
           /\ Content(u) \in Contents
           /\ Len(Content(u)) \in Nat
  <1>1. Host[u] \in Clients
    BY ClientAssumption
  <1>2. Cached(u) \in Copies \union {NoFile}
    BY <1>1 DEF Types, Cached
  <1>3. Content(u) \in Contents
    BY <1>2, EmptySeq DEF Content, Copies, Contents
  <1> QED
    BY <1>1, <1>2, <1>3, LenProperties DEF Contents

\* No copy and no version is the absence of a file.
LEMMA NoFileIsNone == NoFile \notin Copies /\ NoFile \notin Versions
  BY NoFileAssumption, ClientAssumption DEF Copies, Versions
----
(***************************************************************************)
(* The server                                                              *)
(***************************************************************************)
\* A request by its operation.
LEMMA RequestKinds ==
    ASSUME NEW r \in ClientRequest
    PROVE  /\ r.path \in Paths
           /\ r.op \in {"GetFileStat", "Fetch", "FetchWithStream", "Mknod", "Remove",
                        "TestAuth", "Store", "StoreWithStream"}
           /\ r.op \in StoreOps => r \in [op : StoreOps, path : Paths, data : Contents]
           /\ r.op = "TestAuth" => r.time \in Nat \union {Local}
           /\ r # NoRequest
  BY DEF ClientRequest, StoreOps, NoRequest

\* A reply is not the absence of one.
LEMMA ReplyIsOne == \A y \in ClientReply : y # NoReply
  BY DEF ClientReply, NoReply

\* What the server does to a file: its clock goes on, versions are never lost, and
\* whoever watches the file sees what becomes of it.
LEMMA Effects ==
    ASSUME Types, ServerInv, NEW r \in ClientRequest, Effect(r)
    PROVE  /\ file' \in [Paths -> Files]
           /\ hist' \in [Paths -> SUBSET Versions]
           /\ clock' \in Nat
           /\ seen' \in [Procs -> SUBSET Files]
           /\ ServerInv'
           /\ \A p \in Paths : hist[p] \subseteq hist'[p]
           /\ \A w \in Procs : seen[w] \subseteq seen'[w]
           /\ \A w \in Procs : path[w] \in Paths /\ file[path[w]] \in seen[w]
                => file'[path[w]] \in seen'[w]
           /\ Stores(r) =>
                LET v == [data |-> r.data, mtime |-> clock + 1] IN
                /\ v \in hist'[r.path]
                /\ \A w \in Procs : path[w] = r.path /\ seen[w] # {} => v \in seen'[w]
           /\ r.op \in ReadOps => UNCHANGED <<file, hist, clock, seen>>
  <1>1. r.path \in Paths
    BY RequestKinds
  <1>2. ASSUME NEW s \in Contents, Replace(r.path, s)
        PROVE  /\ file' \in [Paths -> Files]
               /\ hist' \in [Paths -> SUBSET Versions]
               /\ clock' \in Nat
               /\ seen' \in [Procs -> SUBSET Files]
               /\ ServerInv'
               /\ \A p \in Paths : hist[p] \subseteq hist'[p]
               /\ \A w \in Procs : seen[w] \subseteq seen'[w]
               /\ \A w \in Procs : path[w] \in Paths /\ file[path[w]] \in seen[w]
                    => file'[path[w]] \in seen'[w]
               /\ [data |-> s, mtime |-> clock + 1] \in hist'[r.path]
               /\ \A w \in Procs : path[w] = r.path /\ seen[w] # {}
                    => [data |-> s, mtime |-> clock + 1] \in seen'[w]
    <2> DEFINE v == [data |-> s, mtime |-> clock + 1]
    <2>1. v \in Versions /\ v.mtime = clock + 1 /\ clock \in Nat
      BY DEF Types, Versions
    <2>2. /\ clock' = clock + 1
          /\ file' = [file EXCEPT ![r.path] = v]
          /\ hist' = [hist EXCEPT ![r.path] = hist[r.path] \union {v}]
          /\ seen' = [w \in Procs |-> IF path[w] = r.path /\ seen[w] # {}
                                        THEN seen[w] \union {v} ELSE seen[w]]
      BY <1>2 DEF Replace, Watch
    <2> HIDE DEF v
    <2>3. /\ file' \in [Paths -> Files]
          /\ hist' \in [Paths -> SUBSET Versions]
          /\ clock' \in Nat
          /\ seen' \in [Procs -> SUBSET Files]
      BY <1>1, <2>1, <2>2 DEF Types, Files
    <2>4. /\ \A p \in Paths : hist[p] \subseteq hist'[p]
          /\ \A w \in Procs : seen[w] \subseteq seen'[w]
          /\ v \in hist'[r.path]
          /\ \A w \in Procs : path[w] = r.path /\ seen[w] # {} => v \in seen'[w]
          /\ \A w \in Procs : path[w] \in Paths /\ file[path[w]] \in seen[w]
               => file'[path[w]] \in seen'[w]
      BY <1>1, <2>2 DEF Types
    <2>5. \A p \in Paths : file'[p] # NoFile => file'[p] \in hist'[p]
      BY <1>1, <2>2 DEF Types, ServerInv
    <2>6. \A p \in Paths : \A x \in hist'[p] : x \in hist[p] \/ x = v
      BY <1>1, <2>2 DEF Types
    <2>9. ASSUME NEW p \in Paths, file'[p] # NoFile, NEW x \in hist'[p]
          PROVE  x.mtime <= file'[p].mtime
      <3>1. CASE p = r.path
        BY <1>1, <2>1, <2>2, <2>6, <3>1 DEF Types, ServerInv
      <3>2. CASE p # r.path
        <4>1. hist'[p] = hist[p] /\ file'[p] = file[p]
          BY <2>2, <3>2 DEF Types
        <4> QED
          BY <2>9, <4>1 DEF ServerInv
      <3> QED
        BY <3>1, <3>2
    <2>7. \A p \in Paths : \A x \in hist'[p] : x.mtime \in 1 .. clock'
      BY <2>1, <2>2, <2>6 DEF ServerInv
    <2>8. \A p \in Paths : \A x, y \in hist'[p] : x.mtime = y.mtime => x = y
      BY <2>1, <2>6 DEF ServerInv
    <2> QED
      BY <2>3, <2>4, <2>5, <2>7, <2>8, <2>9 DEF ServerInv, v
  <1>3. CASE Stores(r) /\ Replace(r.path, r.data)
    <2>1. r.data \in Contents /\ r.op \notin ReadOps
      BY <1>3, RequestKinds DEF Stores, StoreOps, ReadOps
    <2> QED
      BY <1>2, <1>3, <2>1
  <1>4. CASE r.op = "Mknod" /\ Replace(r.path, <<>>)
    <2>1. <<>> \in Contents /\ r.op \notin ReadOps /\ ~Stores(r)
      BY <1>4, EmptySeq DEF Stores, ReadOps, Contents
    <2> QED
      BY <1>2, <1>4, <2>1
  <1>5. CASE /\ r.op = "Remove"
             /\ file' = [file EXCEPT ![r.path] = NoFile]
             /\ Watch(r.path, NoFile)
             /\ UNCHANGED <<hist, clock>>
    <2>1. r.op \notin ReadOps /\ ~Stores(r)
      BY <1>5 DEF Stores, ReadOps
    <2>2. file' \in [Paths -> Files] /\ seen' \in [Procs -> SUBSET Files]
      BY <1>1, <1>5 DEF Types, Watch, Files
    <2>3. ServerInv'
      BY <1>1, <1>5 DEF Types, ServerInv
    <2>4. \A w \in Procs : seen[w] \subseteq seen'[w]
      BY <1>5 DEF Types, Watch
    <2>5. \A w \in Procs : path[w] \in Paths /\ file[path[w]] \in seen[w]
               => file'[path[w]] \in seen'[w]
      BY <1>1, <1>5 DEF Types, Watch
    <2> QED
      BY <1>5, <2>1, <2>2, <2>3, <2>4, <2>5 DEF Types
  <1>6. CASE ~Stores(r) /\ UNCHANGED <<file, hist, clock, seen>>
    BY <1>6 DEF Types, ServerInv
  <1> QED
    BY <1>3, <1>4, <1>5, <1>6 DEF Effect
\* What the server answers, by the operation.
LEMMA Answers ==
    ASSUME Types, NEW r \in ClientRequest, NEW x \in Files,
           r.op = "Fetch" => x # NoFile \/ file[r.path] = NoFile
    PROVE  /\ AnswerTo(r, x) \in ClientReply
           /\ AnswerTo(r, x).status # "UNAVAILABLE"
           /\ r.op \in {"Fetch", "FetchWithStream"} =>
                IF file[r.path] = NoFile
                  THEN /\ AnswerTo(r, x).data = <<>>
                       /\ AnswerTo(r, x).status # "OK" \/ AnswerTo(r, x).errno # "0"
                  ELSE /\ AnswerTo(r, x).data = IF r.op = "Fetch" THEN x.data ELSE file[r.path].data
                       /\ AnswerTo(r, x).mtime = file[r.path].mtime
                       /\ AnswerTo(r, x).status = "OK" /\ AnswerTo(r, x).errno = "0"
           /\ r.op = "FetchWithStream" /\ file[r.path] = NoFile => AnswerTo(r, x).status # "OK"
           /\ r.op = "TestAuth" /\ ~AnswerTo(r, x).changed
                => file[r.path] # NoFile /\ file[r.path].mtime = r.time
           /\ r.op \in StoreOps =>
                IF Stores(r) THEN AnswerTo(r, x).mtime = clock + 1
                             ELSE AnswerTo(r, x).status # "OK"
  <1> DEFINE f == file[r.path]
  <1>1. r.path \in Paths /\ f \in Files /\ clock \in Nat
    BY RequestKinds DEF Types
  <1>2. f # NoFile => f.data \in Contents /\ f.mtime \in Nat
    BY <1>1 DEF Files, Versions
  <1>3. Blank \in ClientReply /\ Blank.data = <<>> /\ Blank.status = "OK" /\ Blank.errno = "0"
    BY EmptySeq DEF Blank, ClientReply, Contents
  <1>4. Missing(r) \in ClientReply /\ Missing(r).data = <<>>
          /\ Missing(r).status # "UNAVAILABLE"
          /\ (Missing(r).status # "OK" \/ Missing(r).errno # "0")
          /\ (r.op = "FetchWithStream" => Missing(r).status # "OK")
    BY <1>3, EmptySeq DEF Missing, Blank, ClientReply, Contents
  <1> HIDE DEF f
  <1>5. CASE r.op \in {"Fetch", "FetchWithStream", "GetFileStat"}
    <2> DEFINE d == IF r.op = "Fetch" THEN x.data ELSE f.data
    <2>0. f # NoFile => d \in Contents
      BY <1>2 DEF f, Files, Versions
    <2>1. AnswerTo(r, x) = IF f = NoFile THEN Missing(r)
                             ELSE [Blank EXCEPT !.data = d, !.mtime = f.mtime]
      BY <1>5 DEF AnswerTo, f, StoreOps
    <2>2. r.op # "TestAuth" /\ r.op \notin StoreOps
      BY <1>5 DEF StoreOps
    <2>3. f # NoFile =>
            LET y == [Blank EXCEPT !.data = d, !.mtime = f.mtime] IN
            /\ y \in ClientReply /\ y.data = d /\ y.mtime = f.mtime
            /\ y.status = "OK" /\ y.errno = "0"
      <3> HIDE DEF d
      <3> QED
        BY <2>0, <1>2 DEF Blank, ClientReply
    <2> QED
      BY <2>1, <2>2, <2>3, <1>4 DEF f
  <1>6. CASE r.op = "TestAuth"
    <2>1. AnswerTo(r, x) = [Blank EXCEPT !.changed = f = NoFile \/ f.mtime # r.time]
      BY <1>6 DEF AnswerTo, f, StoreOps
    <2> DEFINE b == f = NoFile \/ f.mtime # r.time
    <2>2. b \in BOOLEAN
      OBVIOUS
    <2> HIDE DEF b
    <2>3. [Blank EXCEPT !.changed = b] \in ClientReply
            /\ [Blank EXCEPT !.changed = b].changed = b
            /\ [Blank EXCEPT !.changed = b].status = "OK"
      BY <2>2, EmptySeq DEF Blank, ClientReply, Contents
    <2>4. AnswerTo(r, x) = [Blank EXCEPT !.changed = b]
      BY <2>1 DEF b
    <2> QED
      BY <1>6, <2>3, <2>4 DEF b, f, StoreOps
  <1>7. CASE r.op \in StoreOps
    <2>1. AnswerTo(r, x) = IF Stores(r) THEN [Blank EXCEPT !.mtime = clock + 1]
                                     ELSE [Blank EXCEPT !.status = "CANCELLED"]
      BY <1>7 DEF AnswerTo, f, StoreOps
    <2>2. r.op \notin {"Fetch", "FetchWithStream"} /\ r.op # "TestAuth"
      BY <1>7 DEF StoreOps
    <2>3. ASSUME NEW t \in Nat
          PROVE  LET y == [Blank EXCEPT !.mtime = t] IN
                   y \in ClientReply /\ y.mtime = t /\ y.status = "OK"
      BY EmptySeq DEF Blank, ClientReply, Contents
    <2>4. LET y == [Blank EXCEPT !.status = "CANCELLED"] IN
            y \in ClientReply /\ y.status = "CANCELLED"
      BY EmptySeq DEF Blank, ClientReply, Contents
    <2>5. clock + 1 \in Nat
      BY <1>1
    <2>6. CASE Stores(r)
      BY <2>1, <2>2, <2>3, <2>5, <2>6
    <2>7. CASE ~Stores(r)
      BY <2>1, <2>2, <2>4, <2>7
    <2> QED
      BY <2>6, <2>7
  <1>8. CASE r.op = "Mknod"
    <2>1. AnswerTo(r, x) = Blank
      BY <1>8 DEF AnswerTo, f, StoreOps
    <2> QED
      BY <1>3, <1>8, <2>1 DEF StoreOps
  <1>9. CASE r.op = "Remove"
    <2>1. AnswerTo(r, x) = IF f = NoFile THEN Missing(r) ELSE Blank
      BY <1>9 DEF AnswerTo, f, StoreOps
    <2> QED
      BY <1>3, <1>4, <1>9, <2>1 DEF StoreOps
  <1> QED
    BY <1>5, <1>6, <1>7, <1>8, <1>9, RequestKinds DEF StoreOps

\* What remains of a broken call is a request.
LEMMA RemainsAreRequests ==
    ASSUME Types, NEW u \in Procs
    PROVE  Remains(u) \subseteq ClientRequest
  <1>1. CASE req[u] = NoRequest \/ reply[u] # NoReply
    BY <1>1 DEF Remains
  <1>2. CASE req[u] # NoRequest /\ req[u].op # "StoreWithStream"
    BY <1>2 DEF Remains, Types
  <1>3. CASE req[u] # NoRequest /\ reply[u] = NoReply /\ req[u].op = "StoreWithStream"
    <2>1. req[u] \in [op : StoreOps, path : Paths, data : Contents]
      BY <1>3, RequestKinds DEF Types, StoreOps
    <2>2. ASSUME NEW n \in 1 .. Len(req[u].data)
          PROVE  [req[u] EXCEPT !.data = SubSeq(req[u].data, 1, n)] \in ClientRequest
      <3>1. req[u].data \in Seq(Data) /\ Len(req[u].data) \in Nat
        BY <2>1, LenProperties DEF Contents
      <3>2. \A i \in 1 .. n : req[u].data[i] \in Data
        BY <3>1, ElementOfSeq
      <3>3. SubSeq(req[u].data, 1, n) \in Contents
        BY <3>2, <3>1, SubSeqProperties DEF Contents
      <3> QED
        BY <2>1, <3>3 DEF ClientRequest
    <2> QED
      BY <1>3, <2>2 DEF Remains
  <1> QED
    BY <1>1, <1>2, <1>3
----
(***************************************************************************)
(* Steps of one process                                                    *)
(***************************************************************************)
\* A step leaves w and its machine alone.
Untouched(w) ==
    /\ pc'[w] = pc[w] /\ path'[w] = path[w]
    /\ req'[w] = req[w] /\ reply'[w] = reply[w] /\ read'[w] = read[w]
    /\ count'[w] = count[w] /\ wrote'[w] = wrote[w]
    /\ cache'[Host[w]] = cache[Host[w]] /\ dirty'[Host[w]] = dirty[Host[w]]
    /\ spoilt'[Host[w]] = spoilt[Host[w]]

\* Of the state of processes and machines, a step touches that of u at most.
OnlyOf(u) == \A w \in Procs \ {u} : Untouched(w)

\* What the server does where w watches.
Witnessed(w) ==
    /\ seen[w] \subseteq seen'[w]
    /\ path[w] \in Paths =>
         /\ hist[path[w]] \subseteq hist'[path[w]]
         /\ file[path[w]] \in seen[w] => file'[path[w]] \in seen'[w]

\* A process that is left alone knows what it knew.
LEMMA Kept ==
    ASSUME NEW w \in Procs, Untouched(w), Witnessed(w)
    PROVE  /\ RpcAt(w) => RpcAt(w)'
           /\ RpcAt(w) /\ OpenAt(w) => OpenAt(w)'
           /\ RpcAt(w) /\ FetchAt(w) => FetchAt(w)'
  <1>1. RpcAt(w) => RpcAt(w)'
    BY DEF Untouched, RpcAt, Succeeded
  <1>2. RpcAt(w) => /\ pc[w] \in OpenLabels \union OpeningLabels \union ClosingLabels
                         => path[w] \in Paths
    BY DEF RpcAt, OpenLabels, OpeningLabels, ClosingLabels, FetchLabels, StoreLabels
  <1>3. RpcAt(w) /\ OpenAt(w) => OpenAt(w)'
    <2> SUFFICES ASSUME RpcAt(w), OpenAt(w) PROVE OpenAt(w)'
      OBVIOUS
    <2>1. /\ pc'[w] = pc[w] /\ path'[w] = path[w] /\ Cached(w)' = Cached(w)
          /\ Content(w)' = Content(w) /\ Succeeded(w)' = Succeeded(w)
          /\ req'[w] = req[w] /\ reply'[w] = reply[w] /\ count'[w] = count[w]
          /\ wrote'[w] = wrote[w] /\ dirty'[Host[w]] = dirty[Host[w]]
      BY DEF Untouched, Cached, Content, Succeeded
    <2>2. path[w] \in Paths /\ StoreDone(w) => StoreDone(w)'
      BY <2>1 DEF StoreDone, Witnessed
    <2>3. pc[w] \in {"stored", "clear", "restamp"} => path[w] \in Paths
      BY DEF RpcAt
    <2> QED
      BY <1>2, <2>1, <2>2, <2>3 DEF OpenAt, Witnessed
  <1>4. RpcAt(w) /\ FetchAt(w) => FetchAt(w)'
    <2> SUFFICES ASSUME RpcAt(w), FetchAt(w) PROVE FetchAt(w)'
      OBVIOUS
    <2>1. /\ pc'[w] = pc[w] /\ path'[w] = path[w] /\ Cached(w)' = Cached(w)
          /\ Content(w)' = Content(w) /\ Succeeded(w)' = Succeeded(w)
          /\ req'[w] = req[w] /\ reply'[w] = reply[w] /\ count'[w] = count[w]
          /\ read'[w] = read[w] /\ spoilt'[Host[w]] = spoilt[Host[w]]
          /\ Fetched(w)' = Fetched(w)
      BY DEF Untouched, Cached, Content, Succeeded, Fetched
    <2>2. pc[w] \in FetchLabels => path[w] \in Paths
      BY DEF RpcAt, FetchLabels
    <2>3. path[w] \in Paths /\ StreamAt(w) => StreamAt(w)'
      BY <2>1 DEF StreamAt, Witnessed
    <2>4. path[w] \in Paths /\ UnaryAt(w) => UnaryAt(w)'
      BY <2>1 DEF UnaryAt, Witnessed
    <2> QED
      BY <1>2, <2>1, <2>2, <2>3, <2>4 DEF FetchAt, Witnessed, OpeningLabels
  <1> QED
    BY <1>1, <1>3, <1>4

\* The invariant is kept by a step of u, and so is what others know of their fetches.
GoesOn(u) == CloseInv' /\ \A w \in Procs \ {u} : FetchAt(w) => FetchAt(w)'

\* A step of u that leaves the server alone need only be right for u.
LEMMA OfOne ==
    ASSUME CloseInv, NEW u \in Procs, OnlyOf(u), UNCHANGED <<file, hist, clock>>,
           \A w \in Procs \ {u} : seen'[w] = seen[w],
           Types', RpcAt(u)', OpenAt(u)'
    PROVE  GoesOn(u)
  <1>1. ServerInv'
    BY DEF CloseInv, ServerInv
  <1>2. ASSUME NEW w \in Procs \ {u}
        PROVE  RpcAt(w)' /\ OpenAt(w)' /\ (FetchAt(w) => FetchAt(w)')
    <2>1. Witnessed(w)
      BY DEF Witnessed
    <2> QED
      BY <2>1, Kept DEF CloseInv, OnlyOf
  <1> QED
    BY <1>1, <1>2 DEF CloseInv, GoesOn

\* The locals of the callback of u may change: its label, its RPC, its count.
Calling(u) ==
    /\ pc' \in [Procs -> Labels]
    /\ req' \in [Procs -> ClientRequest \union {NoRequest}]
    /\ reply' \in [Procs -> ClientReply \union {NoReply}]
    /\ read' \in [Procs -> Files]
    /\ tries' \in [Procs -> Nat]
    /\ count' \in [Procs -> Nat]
    /\ \A w \in Procs \ {u} :
         /\ pc'[w] = pc[w] /\ req'[w] = req[w] /\ reply'[w] = reply[w]
         /\ read'[w] = read[w] /\ count'[w] = count[w]

\* Without one of its calls, a callback changes only its label.
LEMMA CallingMoves ==
    ASSUME Types, NEW u \in Procs, NEW label \in Labels, Goto(u, label)
    PROVE  /\ UNCHANGED <<rpcVars, count>> => Calling(u)
           /\ EndCall(u) /\ UNCHANGED count => Calling(u)
           /\ EndCall(u) /\ count' = [count EXCEPT ![u] = 0] => Calling(u)
           /\ \A r \in ClientRequest : Call(u, r) /\ UNCHANGED count => Calling(u)
           /\ pc'[u] = label
           /\ UNCHANGED rpcVars => req'[u] = req[u] /\ reply'[u] = reply[u]
           /\ UNCHANGED count => count'[u] = count[u]
           /\ EndCall(u) => req'[u] = NoRequest /\ reply'[u] = NoReply
           /\ \A r \in ClientRequest : Call(u, r) => req'[u] = r /\ reply'[u] = NoReply
  <1>1. /\ pc' \in [Procs -> Labels] /\ pc'[u] = label
        /\ \A w \in Procs \ {u} : pc'[w] = pc[w]
    BY DEF Types, Goto
  <1>2. ASSUME EndCall(u)
        PROVE  /\ req' \in [Procs -> ClientRequest \union {NoRequest}]
               /\ reply' \in [Procs -> ClientReply \union {NoReply}]
               /\ read' \in [Procs -> Files]
               /\ tries' \in [Procs -> Nat]
               /\ req'[u] = NoRequest /\ reply'[u] = NoReply
               /\ \A w \in Procs \ {u} : req'[w] = req[w] /\ reply'[w] = reply[w] /\ read'[w] = read[w]
    BY <1>2 DEF Types, EndCall, Files
  <1>3. ASSUME NEW r \in ClientRequest, Call(u, r)
        PROVE  /\ req' \in [Procs -> ClientRequest \union {NoRequest}]
               /\ reply' \in [Procs -> ClientReply \union {NoReply}]
               /\ read' \in [Procs -> Files]
               /\ tries' \in [Procs -> Nat]
               /\ req'[u] = r /\ reply'[u] = NoReply
               /\ \A w \in Procs \ {u} : req'[w] = req[w] /\ reply'[w] = reply[w] /\ read'[w] = read[w]
    BY <1>3 DEF Types, Call, Files
  <1>4. UNCHANGED count => count' \in [Procs -> Nat] /\ \A w \in Procs : count'[w] = count[w]
    BY DEF Types
  <1>5. count' = [count EXCEPT ![u] = 0]
          => count' \in [Procs -> Nat] /\ \A w \in Procs \ {u} : count'[w] = count[w]
    BY DEF Types
  <1>6. UNCHANGED rpcVars => /\ req' \in [Procs -> ClientRequest \union {NoRequest}]
                             /\ reply' \in [Procs -> ClientReply \union {NoReply}]
                             /\ read' \in [Procs -> Files]
                             /\ tries' \in [Procs -> Nat]
                             /\ \A w \in Procs : req'[w] = req[w] /\ reply'[w] = reply[w] /\ read'[w] = read[w]
    BY DEF Types, rpcVars
  <1> QED
    BY <1>1, <1>2, <1>3, <1>4, <1>5, <1>6 DEF Calling

\* A step of u that changes no file, cached or not, no log, and nothing of the opened file.
LEMMA Within ==
    ASSUME CloseInv, NEW u \in Procs, Calling(u),
           UNCHANGED <<serverVars, diskVars, path, ghostVars>>,
           RpcAt(u)', OpenAt(u)'
    PROVE  GoesOn(u)
  <1>1. Types'
    BY DEF Calling, CloseInv, Types, serverVars, diskVars, ghostVars
  <1>2. OnlyOf(u)
    BY DEF Calling, OnlyOf, Untouched, serverVars, diskVars, ghostVars
  <1> QED
    BY <1>1, <1>2, OfOne DEF serverVars, ghostVars

\* What is known of the copies of others, and of other copies of u, is kept.
SpoilsOnly(u) ==
    /\ spoilt' \in [Clients -> SUBSET Paths]
    /\ \A c \in Clients \ {Host[u]} : spoilt'[c] = spoilt[c]
    /\ \A p \in Paths \ {path[u]} : p \in spoilt'[Host[u]] <=> p \in spoilt[Host[u]]

LEMMA Spoiling ==
    ASSUME Types, NEW u \in Procs, path[u] \in Paths,
           \/ spoilt' = spoilt
           \/ Spoil(u, spoilt[Host[u]] \union {path[u]})
           \/ Spoil(u, spoilt[Host[u]] \ {path[u]})
    PROVE  SpoilsOnly(u)
  <1>1. Host[u] \in Clients /\ spoilt[Host[u]] \subseteq Paths
    BY ClientAssumption DEF Types
  <1>2. ASSUME NEW P \in SUBSET Paths, Spoil(u, P),
               \A p \in Paths \ {path[u]} : p \in P <=> p \in spoilt[Host[u]]
        PROVE  SpoilsOnly(u)
    BY <1>1, <1>2 DEF Types, Spoil, SpoilsOnly
  <1>3. CASE spoilt' = spoilt
    BY <1>3 DEF Types, SpoilsOnly
  <1>4. CASE Spoil(u, spoilt[Host[u]] \union {path[u]})
    BY <1>1, <1>2, <1>4
  <1>5. CASE Spoil(u, spoilt[Host[u]] \ {path[u]})
    BY <1>1, <1>2, <1>5
  <1> QED
    BY <1>3, <1>4, <1>5

\* A step of u that changes no cached file, but what is known of the copy.
LEMMA WithinSpoiling ==
    ASSUME CloseInv, Alone, NEW u \in Procs, Calling(u), SpoilsOnly(u),
           UNCHANGED <<serverVars, cache, dirty, path, ghostVars>>,
           RpcAt(u)', OpenAt(u)'
    PROVE  GoesOn(u)
  <1>1. Types'
    BY DEF Calling, CloseInv, Types, serverVars, ghostVars, SpoilsOnly
  <1>2. \A w \in Procs \ {u} : Host[w] \in Clients \ {Host[u]}
    BY ClientAssumption DEF Alone
  <1>3. OnlyOf(u)
    BY <1>2 DEF Calling, OnlyOf, Untouched, serverVars, ghostVars, SpoilsOnly
  <1> QED
    BY <1>1, <1>3, OfOne DEF serverVars, ghostVars

\* A callback that returns without an open file.
LEMMA Leaving ==
    ASSUME CloseInv, NEW u \in Procs, Leave(u), UNCHANGED <<serverVars, diskVars>>,
           \/ UNCHANGED count /\ count[u] = 0
           \/ count' = [count EXCEPT ![u] = 0]
    PROVE  GoesOn(u) /\ pc'[u] = "idle"
  <1>1. Calling(u) /\ pc'[u] = "idle" /\ req'[u] = NoRequest /\ reply'[u] = NoReply
    BY CallingMoves DEF Leave, CloseInv, Labels
  <1>2. /\ path' = [path EXCEPT ![u] = NoPath]
        /\ wrote' = [wrote EXCEPT ![u] = {}]
        /\ seen' = [seen EXCEPT ![u] = {}]
    BY DEF Leave
  <1>3. Types'
    BY <1>1, <1>2 DEF Calling, CloseInv, Types, serverVars, diskVars
  <1>4. OnlyOf(u)
    BY <1>1, <1>2 DEF Calling, CloseInv, Types, OnlyOf, Untouched, diskVars
  <1>5. count'[u] = 0 /\ wrote'[u] = {}
    BY <1>2 DEF CloseInv, Types
  <1>6. RpcAt(u)' /\ OpenAt(u)'
    BY <1>1, <1>5 DEF RpcAt, OpenAt, CallLabels, FetchLabels, StoreLabels, OpenLabels,
         OpeningLabels, ClosingLabels
  <1>7. \A w \in Procs \ {u} : seen'[w] = seen[w]
    BY <1>2 DEF CloseInv, Types
  <1> QED
    BY <1>1, <1>3, <1>4, <1>6, <1>7, OfOne DEF serverVars

\* On a machine of its own, a process changes no other's cache.
LEMMA CacheOf ==
    ASSUME Types, Alone, NEW u \in Procs, path[u] \in Paths,
           NEW v \in Copies \union {NoFile}, SetCache(u, v)
    PROVE  /\ cache' \in [Clients -> [Paths -> Copies \union {NoFile}]]
           /\ cache'[Host[u]][path[u]] = v
           /\ \A c \in Clients, p \in Paths :
                c # Host[u] \/ p # path[u] => cache'[c][p] = cache[c][p]
           /\ \A w \in Procs \ {u} : cache'[Host[w]] = cache[Host[w]]
  <1>1. Host[u] \in Clients /\ \A w \in Procs \ {u} : Host[w] \in Clients /\ Host[w] # Host[u]
    BY ClientAssumption DEF Alone
  <1>2. cache' = [cache EXCEPT ![Host[u]] = [cache[Host[u]] EXCEPT ![path[u]] = v]]
    BY DEF SetCache
  <1>3. cache[Host[u]] \in [Paths -> Copies \union {NoFile}]
    BY <1>1 DEF Types
  <1> DEFINE m == [cache[Host[u]] EXCEPT ![path[u]] = v]
  <1>4. /\ m \in [Paths -> Copies \union {NoFile}] /\ m[path[u]] = v
        /\ \A p \in Paths : p # path[u] => m[p] = cache[Host[u]][p]
    BY <1>3
  <1>5. cache' = [cache EXCEPT ![Host[u]] = m]
    BY <1>2
  <1> HIDE DEF m
  <1> QED
    BY <1>1, <1>4, <1>5 DEF Types

\* A step of u that changes the file it works on in the cache, and its callback.
LEMMA Caching ==
    ASSUME CloseInv, Alone, NEW u \in Procs, Calling(u), path[u] \in Paths,
           NEW v \in Copies \union {NoFile}, SetCache(u, v), SpoilsOnly(u),
           UNCHANGED <<serverVars, dirty, path, ghostVars>>,
           RpcAt(u)', OpenAt(u)'
    PROVE  GoesOn(u)
  <1>1. Types'
    BY CacheOf DEF Calling, CloseInv, Types, serverVars, ghostVars, SpoilsOnly
  <1>2. \A w \in Procs \ {u} : Host[w] \in Clients \ {Host[u]}
    BY ClientAssumption DEF Alone
  <1>3. OnlyOf(u)
    BY <1>2, CacheOf DEF Calling, CloseInv, OnlyOf, Untouched, ghostVars, SpoilsOnly
  <1> QED
    BY <1>1, <1>3, OfOne DEF serverVars, ghostVars

\* A cached file that is written has the content, and is a copy.
LEMMA Written ==
    ASSUME Types, NEW u \in Procs, path[u] \in Paths, NEW s \in Contents, WriteCache(u, s),
           path' = path
    PROVE  LET v == [data |-> s, mtime |-> Local] IN
           /\ v \in Copies /\ SetCache(u, v)
           /\ Cached(u)' = v /\ Cached(u)' # NoFile /\ Content(u)' = s
  <1> DEFINE v == [data |-> s, mtime |-> Local]
  <1>1. v \in Copies /\ v # NoFile /\ v.data = s
    BY NoFileIsNone DEF Copies
  <1>2. SetCache(u, v)
    BY DEF WriteCache
  <1>3. Cached(u)' = v
    BY <1>2, ClientAssumption DEF Types, Cached, SetCache
  <1>4. Content(u)' = s
    BY <1>1, <1>3 DEF Content
  <1> QED
    BY <1>1, <1>2, <1>3, <1>4

\* A cached file that is stamped keeps its content.
LEMMA Stamped ==
    ASSUME Types, NEW u \in Procs, path[u] \in Paths, NEW t \in Nat \union {Local},
           StampCache(u, t), path' = path
    PROVE  /\ Content(u)' = Content(u)
           /\ Cached(u) = NoFile => UNCHANGED cache /\ Cached(u)' = NoFile
           /\ Cached(u) # NoFile =>
                LET v == [Cached(u) EXCEPT !.mtime = t] IN
                /\ v \in Copies /\ SetCache(u, v)
                /\ Cached(u)' = v /\ Cached(u)' # NoFile
  <1>1. CASE Cached(u) = NoFile
    BY <1>1 DEF StampCache, Cached, Content
  <1>2. CASE Cached(u) # NoFile
    <2> DEFINE v == [Cached(u) EXCEPT !.mtime = t]
    <2>1. Cached(u) \in Copies
      BY <1>2, ContentOf
    <2>2. v \in Copies /\ v.data = Cached(u).data
      BY <2>1 DEF Copies
    <2>3. SetCache(u, v)
      BY <1>2 DEF StampCache
    <2>4. Cached(u)' = v
      BY <2>3, ClientAssumption DEF Types, Cached, SetCache
    <2>5. v # NoFile
      BY <2>2, NoFileIsNone
    <2>6. Content(u)' = Content(u)
      BY <1>2, <2>2, <2>4, <2>5 DEF Content
    <2> QED
      BY <1>2, <2>2, <2>3, <2>4, <2>5, <2>6
  <1> QED
    BY <1>1, <1>2

\* An unfinished open has written nothing and knows only that it sees the server.
LEMMA Opening ==
    ASSUME CloseInv, NEW u \in Procs, Calling(u), pc[u] \in OpeningLabels,
           pc'[u] \in OpeningLabels,
           UNCHANGED <<serverVars, path, ghostVars>>
    PROVE  OpenAt(u)'
  <1>1. /\ pc'[u] \notin {"open", "close", "send", "stored", "clear", "restamp", "closed"}
        /\ pc'[u] \notin OpenLabels
    BY DEF OpeningLabels, OpenLabels, FetchLabels, StoreLabels
  <1>2. pc[u] \notin OpenLabels
    BY DEF OpeningLabels, OpenLabels, FetchLabels, StoreLabels
  <1>3. wrote'[u] = {} /\ file'[path'[u]] \in seen'[u]
    BY <1>2 DEF CloseInv, OpenAt, serverVars, ghostVars
  <1> QED
    BY <1>1, <1>3 DEF OpenAt

\* open, as far as the server's answer.
LEMMA OpenClose ==
    ASSUME CloseInv, Alone, NEW u \in Procs,
           \/ GetFileStat(u) \/ TestAuth(u) \/ AuthReply(u)
           \/ FetchCall(u) \/ FetchReply(u) \/ FetchEnd(u)
    PROVE  GoesOn(u)
  <1> USE DEF CallLabels, FetchLabels, StoreLabels, Labels
  <1>0. Types /\ RpcAt(u) /\ OpenAt(u)
    BY DEF CloseInv
  <1>1. CASE GetFileStat(u)
    <2>1. pc[u] = "lookup" /\ count[u] = 0 /\ path[u] \in Paths
      BY <1>0, <1>1 DEF GetFileStat, RpcAt
    <2>2. CASE Succeeded(u)
      <3>1. /\ EndCall(u) /\ Goto(u, "open_test")
            /\ seen' = [seen EXCEPT ![u] = {file[path[u]]}]
            /\ UNCHANGED <<serverVars, diskVars, path, count, wrote>>
        BY <1>1, <2>2 DEF GetFileStat
      <3>2. Calling(u) /\ pc'[u] = "open_test" /\ req'[u] = NoRequest /\ reply'[u] = NoReply
              /\ count'[u] = 0
        BY <1>0, <2>1, <3>1, CallingMoves
      <3>3. Types'
        <4>1. seen' \in [Procs -> SUBSET Files]
          BY <1>0, <2>1, <3>1 DEF Types
        <4> QED
          BY <1>0, <3>1, <3>2, <4>1 DEF Calling, Types, serverVars, diskVars
      <3>4. OnlyOf(u)
        BY <3>1, <3>2 DEF Calling, OnlyOf, Untouched, diskVars
      <3>5. RpcAt(u)'
        BY <2>1, <3>1, <3>2 DEF RpcAt
      <3>6. OpenAt(u)'
        BY <1>0, <2>1, <3>1, <3>2 DEF OpenAt, Types, OpenLabels, serverVars
      <3>7. \A w \in Procs \ {u} : seen'[w] = seen[w]
        BY <1>0, <3>1 DEF Types
      <3> QED
        BY <3>1, <3>3, <3>4, <3>5, <3>6, <3>7, OfOne DEF serverVars
    <2>3. CASE ~Succeeded(u)
      BY <1>1, <2>1, <2>3, Leaving DEF GetFileStat
    <2> QED
      BY <2>2, <2>3
  <1>2. CASE TestAuth(u)
    <2>1. /\ pc[u] = "open_test" /\ path[u] \in Paths /\ count[u] = 0
          /\ req[u] = NoRequest /\ reply[u] = NoReply
          /\ UNCHANGED <<serverVars, diskVars, path, ghostVars>> /\ UNCHANGED count
      BY <1>0, <1>2 DEF TestAuth, RpcAt
    <2>2. CASE Goto(u, "fetch") /\ UNCHANGED rpcVars
      <3>1. Calling(u) /\ pc'[u] = "fetch" /\ req'[u] = NoRequest /\ reply'[u] = NoReply
              /\ count'[u] = 0
        BY <1>0, <2>1, <2>2, CallingMoves
      <3> QED
        BY <2>1, <3>1, Within, Opening DEF RpcAt, OpeningLabels
    <2>3. CASE /\ Cached(u) # NoFile
               /\ Call(u, [op |-> "TestAuth", path |-> path[u], time |-> Cached(u).mtime])
               /\ Goto(u, "auth")
      <3> DEFINE r == [op |-> "TestAuth", path |-> path[u], time |-> Cached(u).mtime]
      <3>1. Cached(u).mtime \in Nat \union {Local}
        BY <1>0, <2>1, <2>3, ContentOf DEF Copies
      <3>2. r \in ClientRequest /\ r.path = path[u] /\ r.op = "TestAuth"
        BY <2>1, <3>1 DEF ClientRequest
      <3> HIDE DEF r
      <3>3. Call(u, r)
        BY <2>3 DEF r
      <3>4. Calling(u) /\ pc'[u] = "auth" /\ req'[u] = r /\ count'[u] = 0
        BY <1>0, <2>1, <2>3, <3>2, <3>3, CallingMoves
      <3> QED
        BY <2>1, <3>2, <3>4, Within, Opening DEF RpcAt, OpeningLabels
    <2> QED
      BY <1>2, <2>2, <2>3 DEF TestAuth
  <1>3. CASE AuthReply(u)
    <2>1. /\ pc[u] = "auth" /\ path[u] \in Paths /\ count[u] = 0 /\ EndCall(u)
          /\ Goto(u, "fetch") \/ Goto(u, "opened")
          /\ UNCHANGED <<serverVars, diskVars, path, ghostVars>> /\ UNCHANGED count
      BY <1>0, <1>3 DEF AuthReply, RpcAt
    <2>2. Calling(u) /\ pc'[u] \in {"fetch", "opened"} /\ req'[u] = NoRequest
            /\ reply'[u] = NoReply /\ count'[u] = 0
      BY <1>0, <2>1, CallingMoves
    <2> QED
      BY <2>1, <2>2, Within, Opening DEF RpcAt, OpeningLabels
  <1>4. CASE FetchCall(u)
    <2> DEFINE r == [op |-> IF Streaming THEN "FetchWithStream" ELSE "Fetch", path |-> path[u]]
    <2>1. /\ pc[u] = "fetch" /\ path[u] \in Paths /\ count[u] = 0 /\ Call(u, r)
          /\ Goto(u, IF Streaming THEN "trunc" ELSE "fetched")
          /\ UNCHANGED <<serverVars, diskVars, path, ghostVars>> /\ UNCHANGED count
      BY <1>0, <1>4 DEF FetchCall, RpcAt
    <2>2. /\ r \in ClientRequest /\ r.path = path[u]
          /\ r.op = IF Streaming THEN "FetchWithStream" ELSE "Fetch"
      BY <2>1 DEF ClientRequest
    <2> HIDE DEF r
    <2>3. Calling(u) /\ pc'[u] = (IF Streaming THEN "trunc" ELSE "fetched") /\ req'[u] = r
            /\ count'[u] = 0
      BY <1>0, <2>1, <2>2, CallingMoves
    <2> QED
      BY <2>1, <2>2, <2>3, Within, Opening DEF RpcAt, OpeningLabels
  <1>5. CASE FetchReply(u)
    <2>1. pc[u] = "fetched" /\ path[u] \in Paths /\ count[u] = 0 /\ ~Streaming
            /\ req[u] \in ClientRequest /\ req[u].path = path[u] /\ req[u].op = "Fetch"
      BY <1>0, <1>5 DEF FetchReply, RpcAt
    <2>2. CASE Succeeded(u)
      <3>1. Goto(u, "trunc") /\ UNCHANGED <<serverVars, diskVars, path, ghostVars>>
              /\ UNCHANGED rpcVars /\ UNCHANGED count
        BY <1>5, <2>2 DEF FetchReply
      <3>2. Calling(u) /\ pc'[u] = "trunc" /\ req'[u] = req[u] /\ reply'[u] = reply[u]
              /\ count'[u] = 0
        BY <1>0, <2>1, <3>1, CallingMoves
      <3>3. RpcAt(u)'
        BY <2>1, <2>2, <3>1, <3>2 DEF RpcAt, Succeeded
      <3> QED
        BY <2>1, <3>1, <3>2, <3>3, Within, Opening DEF OpeningLabels
    <2>3. CASE ~Succeeded(u)
      BY <1>5, <2>1, <2>3, Leaving DEF FetchReply
    <2> QED
      BY <2>2, <2>3
  <1>6. CASE FetchEnd(u)
    <2>1. /\ pc[u] = "recv" /\ path[u] \in Paths /\ Streaming
          /\ req[u] \in ClientRequest /\ req[u].path = path[u]
          /\ req[u].op = "FetchWithStream" /\ reply[u] # NoReply
          /\ Goto(u, "stamp") /\ UNCHANGED <<serverVars, diskVars, path, ghostVars>>
          /\ UNCHANGED rpcVars /\ UNCHANGED count
      BY <1>0, <1>6 DEF FetchEnd, RpcAt
    <2>2. Calling(u) /\ pc'[u] = "stamp" /\ req'[u] = req[u] /\ reply'[u] = reply[u]
      BY <1>0, <2>1, CallingMoves
    <2>3. RpcAt(u)'
      BY <2>1, <2>2 DEF RpcAt
    <2> QED
      BY <2>1, <2>2, <2>3, Within, Opening DEF OpeningLabels
  <1> QED
    BY <1>1, <1>2, <1>3, <1>4, <1>5, <1>6

\* The fetched file is written to the cache, and fs_open returns.
LEMMA FetchClose ==
    ASSUME CloseInv, Alone, NEW u \in Procs,
           \/ Trunc(u) \/ FetchWrite(u) \/ FetchChunk(u) \/ Stamp(u) \/ Opened(u)
    PROVE  GoesOn(u)
  <1> USE DEF CallLabels, FetchLabels, StoreLabels, Labels
  <1>0. Types /\ RpcAt(u) /\ OpenAt(u)
    BY DEF CloseInv
  <1>1. CASE Trunc(u)
    <2>1. /\ pc[u] = "trunc" /\ path[u] \in Paths /\ count[u] = 0 /\ WriteCache(u, <<>>)
          /\ req[u] \in ClientRequest /\ req[u].path = path[u]
          /\ req[u].op = IF Streaming THEN "FetchWithStream" ELSE "Fetch"
          /\ Streaming \/ Succeeded(u)
          /\ Goto(u, IF Streaming THEN "recv" ELSE "write")
          /\ UNCHANGED <<serverVars, dirty, path, ghostVars>>
          /\ UNCHANGED rpcVars /\ UNCHANGED count
      BY <1>0, <1>1 DEF Trunc, RpcAt
    <2>2. Calling(u) /\ pc'[u] = (IF Streaming THEN "recv" ELSE "write") /\ req'[u] = req[u]
            /\ reply'[u] = reply[u] /\ count'[u] = 0
      BY <1>0, <2>1, CallingMoves
    <2>3. <<>> \in Contents
      BY EmptySeq DEF Contents
    <2>4. PICK v \in Copies : SetCache(u, v)
      BY <1>0, <2>1, <2>3, Written
    <2>5. RpcAt(u)'
      BY <2>1, <2>2 DEF RpcAt, Succeeded
    <2>9. SpoilsOnly(u)
      BY <1>0, <1>1, <2>1, Spoiling DEF Trunc
    <2> QED
      BY <2>1, <2>2, <2>4, <2>5, <2>9, Caching, Opening DEF OpeningLabels
  <1>2. CASE FetchWrite(u)
    <2> DEFINE s == Overlay(Content(u), reply[u].data)
    <2>1. /\ pc[u] = "write" /\ path[u] \in Paths /\ count[u] = 0 /\ ~Streaming
          /\ WriteCache(u, s)
          /\ req[u] \in ClientRequest /\ req[u].path = path[u] /\ req[u].op = "Fetch"
          /\ Succeeded(u)
          /\ Goto(u, "stamp")
          /\ UNCHANGED <<serverVars, dirty, path, ghostVars>>
          /\ UNCHANGED rpcVars /\ UNCHANGED count
      BY <1>0, <1>2 DEF FetchWrite, RpcAt
    <2>2. Calling(u) /\ pc'[u] = "stamp" /\ req'[u] = req[u] /\ reply'[u] = reply[u]
            /\ count'[u] = 0
      BY <1>0, <2>1, CallingMoves
    <2>3. s \in Contents
      <3>1. reply[u].data \in Contents
        BY <1>0, <2>1 DEF RpcAt, Succeeded, Types, ClientReply, NoReply
      <3> QED
        BY <1>0, <2>1, <3>1, ContentOf, OverlayContent
    <2>4. PICK v \in Copies : SetCache(u, v)
      <3> HIDE DEF s
      <3> QED
        BY <1>0, <2>1, <2>3, Written
    <2>5. RpcAt(u)'
      BY <2>1, <2>2 DEF RpcAt, Succeeded, NoReply
    <2>9. SpoilsOnly(u)
      BY <1>0, <1>2, <2>1, Spoiling DEF FetchWrite
    <2> QED
      BY <2>1, <2>2, <2>4, <2>5, <2>9, Caching, Opening DEF OpeningLabels
  <1>3. CASE FetchChunk(u)
    <2>1. /\ pc[u] = "recv" /\ path[u] \in Paths /\ Streaming
          /\ req[u] \in ClientRequest /\ req[u].path = path[u]
          /\ req[u].op = "FetchWithStream"
          /\ reply[u] # NoReply /\ count[u] < Len(reply[u].data)
          /\ WriteCache(u, Put(Content(u), count[u] + 1, reply[u].data[count[u] + 1]))
          /\ count' = [count EXCEPT ![u] = count[u] + 1]
          /\ UNCHANGED <<serverVars, dirty, path, ghostVars>>
          /\ UNCHANGED rpcVars /\ UNCHANGED pc
      BY <1>0, <1>3 DEF FetchChunk, RpcAt, ghostVars
    <2>2. Calling(u) /\ pc'[u] = "recv" /\ req'[u] = req[u]
      BY <1>0, <2>1 DEF Types, Calling, rpcVars
    <2>3. reply[u].data[count[u] + 1] \in Data /\ count[u] + 1 \in Nat \ {0}
      <3>1. reply[u].data \in Seq(Data) /\ count[u] \in Nat
        BY <1>0, <2>1 DEF Types, ClientReply, Contents
      <3>2. count[u] + 1 \in 1 .. Len(reply[u].data)
        BY <2>1, <3>1, LenProperties
      <3> QED
        BY <3>1, <3>2, ElementOfSeq
    <2>4. Put(Content(u), count[u] + 1, reply[u].data[count[u] + 1]) \in Contents
      BY <1>0, <2>1, <2>3, ContentOf, PutChunk
    <2>5. PICK v \in Copies : SetCache(u, v)
      BY <1>0, <2>1, <2>4, Written
    <2>9. SpoilsOnly(u)
      BY <1>0, <1>3, <2>1, Spoiling DEF FetchChunk
    <2> QED
      BY <2>1, <2>2, <2>5, <2>9, Caching, Opening DEF RpcAt, OpeningLabels
  <1>4. CASE Stamp(u)
    <2> DEFINE t == IF Streaming /\ count[u] = 0 THEN 0 ELSE reply[u].mtime
    <2>1. /\ pc[u] = "stamp" /\ path[u] \in Paths
          /\ StampCache(u, t)
          /\ count' = [count EXCEPT ![u] = 0] /\ EndCall(u) /\ Goto(u, "opened")
          /\ UNCHANGED <<serverVars, dirty, path, ghostVars>>
      BY <1>0, <1>4 DEF Stamp, RpcAt
    <2>2. Calling(u) /\ pc'[u] = "opened" /\ req'[u] = NoRequest /\ reply'[u] = NoReply
            /\ count'[u] = 0
      BY <1>0, <2>1, CallingMoves DEF Types
    <2>3. t \in Nat
      BY <1>0, <2>1 DEF RpcAt, Types, ClientReply
    <2>4. RpcAt(u)'
      BY <2>1, <2>2 DEF RpcAt
    <2>5. OpenAt(u)'
      BY <2>1, <2>2, Opening DEF OpeningLabels
    <2>9. SpoilsOnly(u)
      BY <1>0, <1>4, <2>1, Spoiling DEF Stamp
    <2>6. CASE Cached(u) = NoFile
      <3>1. UNCHANGED cache
        BY <2>1, <2>6 DEF StampCache
      <3> QED
        BY <2>1, <2>2, <2>4, <2>5, <2>9, <3>1, WithinSpoiling
    <2>7. CASE Cached(u) # NoFile
      <3>1. PICK v \in Copies : SetCache(u, v)
        <4> HIDE DEF t
        <4> QED
          BY <1>0, <2>1, <2>3, <2>7, Stamped
      <3> QED
        BY <2>1, <2>2, <2>4, <2>5, <2>9, <3>1, Caching
    <2> QED
      BY <2>6, <2>7
  <1>5. CASE Opened(u)
    <2>1. /\ pc[u] = "opened" /\ path[u] \in Paths /\ count[u] = 0 /\ Goto(u, "open")
          /\ req[u] = NoRequest /\ reply[u] = NoReply /\ wrote[u] = {}
          /\ IF Cached(u) = NoFile THEN WriteCache(u, <<>>) ELSE UNCHANGED cache
          /\ seen' = [seen EXCEPT ![u] = {}]
          /\ UNCHANGED <<serverVars, spoilt, dirty, path, wrote>>
          /\ UNCHANGED rpcVars /\ UNCHANGED count
      BY <1>0, <1>5 DEF Opened, RpcAt, OpenAt, OpenLabels
    <2>2. Calling(u) /\ pc'[u] = "open" /\ req'[u] = NoRequest /\ reply'[u] = NoReply
            /\ count'[u] = 0
      BY <1>0, <2>1, CallingMoves
    <2>3. <<>> \in Contents
      BY EmptySeq DEF Contents
    <2>4. /\ cache' \in [Clients -> [Paths -> Copies \union {NoFile}]]
          /\ \A w \in Procs \ {u} : cache'[Host[w]] = cache[Host[w]]
          /\ Cached(u)' # NoFile
      <3>1. CASE Cached(u) = NoFile
        BY <1>0, <2>1, <2>3, <3>1, Written, CacheOf
      <3>2. CASE Cached(u) # NoFile
        BY <1>0, <2>1, <3>2 DEF Types, Cached
      <3> QED
        BY <3>1, <3>2
    <2>5. Types'
      BY <1>0, <2>1, <2>2, <2>4 DEF Types, Calling, serverVars
    <2>6. OnlyOf(u)
      BY <2>1, <2>2, <2>4 DEF OnlyOf, Untouched, Calling
    <2>7. RpcAt(u)' /\ OpenAt(u)'
      BY <2>1, <2>2, <2>4 DEF RpcAt, OpenAt, OpenLabels, OpeningLabels, ClosingLabels
    <2>8. \A w \in Procs \ {u} : seen'[w] = seen[w]
      BY <1>0, <2>1 DEF Types
    <2> QED
      BY <2>1, <2>5, <2>6, <2>7, <2>8, OfOne DEF serverVars
  <1> QED
    BY <1>1, <1>2, <1>3, <1>4, <1>5

\* A call made again, and the end of the two callbacks that create and remove files.
LEMMA CallClose ==
    ASSUME CloseInv, Alone, NEW u \in Procs,
           Retry(u) \/ Closed(u) \/ CreateFile(u) \/ DeleteFile(u)
    PROVE  GoesOn(u)
  <1> USE DEF CallLabels, FetchLabels, StoreLabels, Labels
  <1>0. Types /\ RpcAt(u) /\ OpenAt(u)
    BY DEF CloseInv
  <1>1. CASE Retry(u)
    <2>1. /\ reply[u].status = "UNAVAILABLE" /\ req[u].op \notin {"FetchWithStream", "StoreWithStream"}
          /\ Call(u, req[u])
          /\ UNCHANGED <<serverVars, diskVars, path, ghostVars>>
          /\ UNCHANGED pc /\ UNCHANGED count
      BY <1>1 DEF Retry, MayRetry, ghostVars
    <2>2. pc[u] \in CallLabels /\ req[u] \in ClientRequest
      BY <1>0, <2>1 DEF RpcAt, NoReply
    <2>3. Goto(u, pc[u])
      BY <1>0, <2>1 DEF Types, Goto
    <2>4. Calling(u) /\ pc'[u] = pc[u] /\ req'[u] = req[u] /\ reply'[u] = NoReply
            /\ count'[u] = count[u]
      BY <1>0, <2>1, <2>2, <2>3, CallingMoves
    <2>5. ~Succeeded(u) /\ pc[u] \notin {"trunc", "write", "stamp", "send", "clear", "restamp"}
      BY <1>0, <2>1 DEF RpcAt, OpenAt, Succeeded
    <2>6. RpcAt(u)'
      BY <1>0, <2>1, <2>2, <2>4, <2>5 DEF RpcAt
    <2>7. ~Succeeded(u)'
      BY <2>4 DEF Succeeded, NoReply
    <2>8. Cached(u)' = Cached(u) /\ Content(u)' = Content(u) /\ wrote'[u] = wrote[u]
      BY <2>1 DEF Cached, Content, diskVars, ghostVars
    <2>9. pc[u] = "stored" => ~Streaming
      BY <1>0, <2>1 DEF RpcAt
    <2>10. /\ pc[u] \in OpeningLabels \union ClosingLabels => file'[path'[u]] \in seen'[u]
           /\ pc[u] \notin OpenLabels => wrote'[u] = {}
           /\ pc[u] \in OpenLabels =>
                /\ Cached(u)' # NoFile
                /\ \A w \in wrote'[u] :
                     w[1] \in 1 .. Len(Content(u)') /\ Content(u)'[w[1]] = w[2]
           /\ pc[u] \notin {"open", "close", "closed"}
           /\ pc[u] = "stored" => req'[u].data = Content(u)'
      BY <1>0, <2>1, <2>2, <2>4, <2>8, <2>9 DEF OpenAt, serverVars, ghostVars
    <2>11. OpenAt(u)'
      BY <2>4, <2>5, <2>7, <2>10 DEF OpenAt
    <2> QED
      BY <2>1, <2>4, <2>6, <2>11, Within
  <1>2. CASE Closed(u)
    <2>1. pc[u] = "closed" /\ count[u] = 0
      BY <1>0, <1>2 DEF Closed, RpcAt
    <2> QED
      BY <1>2, <2>1, Leaving DEF Closed
  <1>3. ASSUME Leave(u), UNCHANGED <<serverVars, dirty, count>>, count[u] = 0,
               path[u] \in Paths, NEW v \in Copies \union {NoFile}, SetCache(u, v), SpoilsOnly(u)
        PROVE  GoesOn(u)
    <2>1. Calling(u) /\ pc'[u] = "idle" /\ req'[u] = NoRequest /\ reply'[u] = NoReply
      BY <1>0, <1>3, CallingMoves DEF Leave
    <2>2. /\ path' = [path EXCEPT ![u] = NoPath]
          /\ wrote' = [wrote EXCEPT ![u] = {}]
          /\ seen' = [seen EXCEPT ![u] = {}]
      BY <1>3 DEF Leave
    <2>3. /\ cache' \in [Clients -> [Paths -> Copies \union {NoFile}]]
          /\ \A w \in Procs \ {u} : cache'[Host[w]] = cache[Host[w]]
      BY <1>0, <1>3, CacheOf
    <2>4. Types'
      BY <1>0, <1>3, <2>1, <2>2, <2>3 DEF Calling, Types, serverVars, SpoilsOnly
    <2>9. \A w \in Procs \ {u} : Host[w] \in Clients \ {Host[u]}
      BY ClientAssumption DEF Alone
    <2>5. OnlyOf(u)
      BY <1>0, <1>3, <2>1, <2>2, <2>3, <2>9 DEF Calling, Types, OnlyOf, Untouched, SpoilsOnly
    <2>6. count'[u] = 0 /\ wrote'[u] = {}
      BY <1>0, <1>3, <2>2 DEF Types
    <2>7. RpcAt(u)' /\ OpenAt(u)'
      BY <2>1, <2>6 DEF RpcAt, OpenAt, OpenLabels, OpeningLabels, ClosingLabels
    <2>8. \A w \in Procs \ {u} : seen'[w] = seen[w]
      BY <1>0, <2>2 DEF Types
    <2> QED
      BY <1>3, <2>4, <2>5, <2>7, <2>8, OfOne DEF serverVars
  <1>4. CASE CreateFile(u)
    <2>1. pc[u] = "mknod" /\ count[u] = 0 /\ path[u] \in Paths
      BY <1>0, <1>4 DEF CreateFile, RpcAt
    <2>2. CASE Succeeded(u) /\ Cached(u) = NoFile
      <3>1. [data |-> <<>>, mtime |-> Local] \in Copies
        BY EmptySeq DEF Copies, Contents
      <3>2. SetCache(u, [data |-> <<>>, mtime |-> Local])
        BY <1>4, <2>2 DEF CreateFile, WriteCache
      <3>3. Leave(u) /\ UNCHANGED <<serverVars, dirty, count>>
        BY <1>4 DEF CreateFile
      <3>4. SpoilsOnly(u)
        BY <1>0, <1>4, <2>1, Spoiling DEF CreateFile
      <3> QED
        BY <1>3, <2>1, <3>1, <3>2, <3>3, <3>4
    <2>3. CASE ~(Succeeded(u) /\ Cached(u) = NoFile)
      BY <1>4, <2>1, <2>3, Leaving DEF CreateFile, diskVars
    <2> QED
      BY <2>2, <2>3
  <1>5. CASE DeleteFile(u)
    <2>1. pc[u] = "unlink" /\ count[u] = 0 /\ path[u] \in Paths
      BY <1>0, <1>5 DEF DeleteFile, RpcAt
    <2>2. CASE Succeeded(u)
      <3>1. SpoilsOnly(u)
        BY <1>0, <1>5, <2>1, <2>2, Spoiling DEF DeleteFile
      <3> QED
        BY <1>3, <1>5, <2>1, <2>2, <3>1 DEF DeleteFile
    <2>3. CASE ~Succeeded(u)
      BY <1>5, <2>1, <2>3, Leaving DEF DeleteFile, diskVars
    <2> QED
      BY <2>2, <2>3
  <1> QED
    BY <1>1, <1>2, <1>3, <1>4, <1>5

\* A step of u that changes its machine's log.
LEMMA Logging ==
    ASSUME CloseInv, Alone, NEW u \in Procs, Calling(u),
           NEW d \in SUBSET Paths, dirty' = [dirty EXCEPT ![Host[u]] = d],
           UNCHANGED <<serverVars, cache, spoilt, path, ghostVars>>,
           RpcAt(u)', OpenAt(u)'
    PROVE  GoesOn(u)
  <1>1. Host[u] \in Clients /\ \A w \in Procs \ {u} : Host[w] \in Clients /\ Host[w] # Host[u]
    BY ClientAssumption DEF Alone
  <1>2. Types'
    BY <1>1 DEF Calling, CloseInv, Types, serverVars, ghostVars
  <1>3. OnlyOf(u)
    BY <1>1 DEF Calling, CloseInv, Types, OnlyOf, Untouched, ghostVars
  <1> QED
    BY <1>2, <1>3, OfOne DEF serverVars, ghostVars

\* What the close knows of the file stays while neither of them is touched.
LEMMA Closing ==
    ASSUME CloseInv, NEW u \in Procs, pc[u] \in ClosingLabels,
           UNCHANGED <<serverVars, cache, spoilt, path, ghostVars>>
    PROVE  /\ file'[path'[u]] \in seen'[u]
           /\ Cached(u)' = Cached(u) /\ Cached(u) # NoFile
           /\ Content(u)' = Content(u) /\ wrote'[u] = wrote[u]
           /\ \A w \in wrote[u] : w[1] \in 1 .. Len(Content(u)) /\ Content(u)[w[1]] = w[2]
           /\ path[u] \in Paths
           /\ Content(u) \in Contents /\ Len(Content(u)) \in Nat
  <1>1. /\ pc[u] \in OpenLabels /\ pc[u] # "idle"
    BY DEF OpenLabels, ClosingLabels, StoreLabels
  <1>2. path[u] \in Paths
    BY <1>1 DEF CloseInv, RpcAt
  <1>3. Content(u) \in Contents /\ Len(Content(u)) \in Nat
    BY <1>2, ContentOf DEF CloseInv
  <1>4. Cached(u)' = Cached(u) /\ Content(u)' = Content(u)
    BY DEF Cached, Content
  <1> QED
    BY <1>1, <1>2, <1>3, <1>4 DEF CloseInv, OpenAt, serverVars, ghostVars

\* release, as far as the call that stores the file.
LEMMA StoreClose ==
    ASSUME CloseInv, Alone, NEW u \in Procs,
           \/ Log(u) \/ CheckModified(u) \/ StoreCall(u) \/ StreamCall(u)
           \/ SendChunk(u) \/ SendEnd(u)
    PROVE  GoesOn(u)
  <1> USE DEF CallLabels, FetchLabels, StoreLabels, Labels, OpenLabels, OpeningLabels,
              ClosingLabels
  <1>0. Types /\ RpcAt(u) /\ OpenAt(u)
    BY DEF CloseInv
  <1>1. CASE Log(u)
    <2>1. /\ pc[u] = "log" /\ path[u] \in Paths /\ count[u] = 0
          /\ req[u] = NoRequest /\ reply[u] = NoReply /\ Goto(u, "open")
          /\ dirty' = [dirty EXCEPT ![Host[u]] = dirty[Host[u]] \union {path[u]}]
          /\ UNCHANGED <<serverVars, cache, spoilt, path, ghostVars>>
          /\ UNCHANGED rpcVars /\ UNCHANGED count
      BY <1>0, <1>1 DEF Log, RpcAt
    <2>2. Calling(u) /\ pc'[u] = "open" /\ req'[u] = NoRequest /\ reply'[u] = NoReply
            /\ count'[u] = 0
      BY <1>0, <2>1, CallingMoves
    <2>3. /\ Host[u] \in Clients /\ dirty[Host[u]] \union {path[u]} \in SUBSET Paths
          /\ path[u] \in dirty'[Host[u]]
      BY <1>0, <2>1, ClientAssumption DEF Types
    <2>4. /\ Cached(u)' = Cached(u) /\ Content(u)' = Content(u) /\ wrote'[u] = wrote[u]
      BY <2>1 DEF Cached, Content, ghostVars
    <2>5. OpenAt(u)'
      BY <1>0, <2>1, <2>2, <2>3, <2>4 DEF OpenAt
    <2>6. RpcAt(u)'
      BY <2>1, <2>2 DEF RpcAt
    <2> QED
      BY <2>1, <2>2, <2>3, <2>5, <2>6, Logging
  <1>2. CASE CheckModified(u)
    <2>1. /\ pc[u] = "close" /\ path[u] \in Paths /\ count[u] = 0
          /\ req[u] = NoRequest /\ reply[u] = NoReply
          /\ Goto(u, IF path[u] \in dirty[Host[u]] THEN "store" ELSE "closed")
          /\ UNCHANGED <<serverVars, diskVars, path, ghostVars>>
          /\ UNCHANGED rpcVars /\ UNCHANGED count
      BY <1>0, <1>2 DEF CheckModified, RpcAt
    <2>2. Calling(u) /\ pc'[u] = (IF path[u] \in dirty[Host[u]] THEN "store" ELSE "closed")
            /\ req'[u] = NoRequest /\ reply'[u] = NoReply /\ count'[u] = 0
      BY <1>0, <2>1, CallingMoves
    <2>3. wrote[u] # {} => path[u] \in dirty[Host[u]]
      BY <1>0, <2>1 DEF OpenAt
    <2>4. OpenAt(u)'
      BY <2>1, <2>2, <2>3, Closing DEF OpenAt, diskVars
    <2>5. RpcAt(u)'
      BY <2>1, <2>2 DEF RpcAt
    <2> QED
      BY <2>1, <2>2, <2>4, <2>5, Within
  <1>3. CASE StoreCall(u)
    <2> DEFINE r == [op |-> "Store", path |-> path[u], data |-> Content(u)]
    <2>1. /\ pc[u] = "store" /\ path[u] \in Paths /\ count[u] = 0 /\ ~Streaming
          /\ Call(u, r) /\ Goto(u, "stored")
          /\ UNCHANGED <<serverVars, diskVars, path, ghostVars>> /\ UNCHANGED count
      BY <1>0, <1>3 DEF StoreCall, RpcAt
    <2>2. r \in ClientRequest /\ r.path = path[u] /\ r.op = "Store" /\ r.data = Content(u)
      BY <1>0, <2>1, ContentOf DEF ClientRequest, StoreOps
    <2> HIDE DEF r
    <2>3. Calling(u) /\ pc'[u] = "stored" /\ req'[u] = r /\ reply'[u] = NoReply /\ count'[u] = 0
      BY <1>0, <2>1, <2>2, CallingMoves
    <2>4. OpenAt(u)'
      BY <2>1, <2>2, <2>3, Closing DEF OpenAt, Succeeded, NoReply, diskVars
    <2>5. RpcAt(u)'
      BY <2>1, <2>2, <2>3 DEF RpcAt
    <2> QED
      BY <2>1, <2>3, <2>4, <2>5, Within
  <1>4. CASE StreamCall(u)
    <2> DEFINE r == [op |-> "StoreWithStream", path |-> path[u], data |-> <<>>]
    <2>1. /\ pc[u] = "store" /\ path[u] \in Paths /\ Streaming
          /\ Call(u, r) /\ Goto(u, "send")
          /\ count' = [count EXCEPT ![u] = Len(Content(u))]
          /\ UNCHANGED <<serverVars, diskVars, path, ghostVars>>
      BY <1>0, <1>4 DEF StreamCall, RpcAt
    <2>2. r \in ClientRequest /\ r.path = path[u] /\ r.op = "StoreWithStream" /\ Len(r.data) = 0
      BY <1>0, <2>1, EmptySeq DEF ClientRequest, StoreOps, Contents
    <2> HIDE DEF r
    <2>3. Len(Content(u)) \in Nat
      BY <1>0, <2>1, ContentOf
    <2>4. Calling(u) /\ pc'[u] = "send" /\ req'[u] = r /\ reply'[u] = NoReply
            /\ count'[u] = Len(Content(u))
      BY <1>0, <2>1, <2>2, <2>3 DEF Types, Files, Calling, Call, Goto
    <2>5. OpenAt(u)'
      BY <2>1, <2>2, <2>3, <2>4, Closing DEF OpenAt, diskVars
    <2>6. RpcAt(u)'
      BY <2>1, <2>2, <2>4 DEF RpcAt
    <2> QED
      BY <2>1, <2>4, <2>5, <2>6, Within
  <1>5. CASE SendChunk(u)
    <2> DEFINE d == Content(u)[Next1(u)]
    <2> DEFINE r == [req[u] EXCEPT !.data = Append(req[u].data, d)]
    <2>1. /\ pc[u] = "send" /\ path[u] \in Paths /\ Streaming
          /\ req[u] \in ClientRequest /\ req[u].path = path[u] /\ req[u].op = "StoreWithStream"
          /\ reply[u] = NoReply /\ Next1(u) <= Len(Content(u))
          /\ req' = [req EXCEPT ![u] = r]
          /\ UNCHANGED <<serverVars, diskVars, path, ghostVars>>
          /\ UNCHANGED <<pc, reply, read, tries, count>>
      BY <1>0, <1>5 DEF SendChunk, RpcAt, ghostVars
    <2>2. req[u] \in [op : StoreOps, path : Paths, data : Contents]
      BY <2>1, RequestKinds DEF StoreOps
    <2>3. Len(req[u].data) \in Nat /\ req[u].data \in Seq(Data) /\ Next1(u) = Len(req[u].data) + 1
      BY <2>2, LenProperties DEF Contents, Next1
    <2>4. Content(u) \in Seq(Data) /\ d \in Data
      BY <1>0, <2>1, <2>3, ContentOf, ElementOfSeq DEF Contents
    <2> HIDE DEF d
    <2>5. /\ Append(req[u].data, d) \in Contents
          /\ Len(Append(req[u].data, d)) = Len(req[u].data) + 1
          /\ \A i \in 1 .. Len(req[u].data) : Append(req[u].data, d)[i] = req[u].data[i]
          /\ Append(req[u].data, d)[Len(req[u].data) + 1] = d
      BY <2>3, <2>4, AppendProperties DEF Contents
    <2>6. r \in ClientRequest /\ r.path = path[u] /\ r.op = "StoreWithStream"
            /\ r.data = Append(req[u].data, d)
      BY <2>1, <2>2, <2>5 DEF ClientRequest
    <2> HIDE DEF r
    <2>7. Calling(u) /\ pc'[u] = "send" /\ req'[u] = r /\ reply'[u] = NoReply
            /\ count'[u] = count[u]
      BY <1>0, <2>1, <2>6 DEF Types, Calling
    <2>8. RpcAt(u)'
      BY <2>1, <2>6, <2>7 DEF RpcAt
    <2>9. \A i \in 1 .. Len(r.data) : r.data[i] = Content(u)[i]
      <3> TAKE i \in 1 .. Len(r.data)
      <3>1. i \in 1 .. Len(req[u].data) \/ i = Len(req[u].data) + 1
        BY <2>3, <2>5, <2>6
      <3>2. \A j \in 1 .. Len(req[u].data) : req[u].data[j] = Content(u)[j]
        BY <1>0, <2>1 DEF OpenAt
      <3>3. d = Content(u)[Len(req[u].data) + 1]
        BY <2>3 DEF d
      <3> QED
        BY <2>5, <2>6, <3>1, <3>2, <3>3
    <2>10. Len(r.data) <= Len(Content(u)) /\ count[u] = Len(Content(u))
      BY <1>0, <2>1, <2>3, <2>5, <2>6 DEF OpenAt
    <2>11. OpenAt(u)'
      BY <2>1, <2>7, <2>9, <2>10, Closing DEF OpenAt, diskVars
    <2> QED
      BY <2>1, <2>7, <2>8, <2>11, Within
  <1>6. CASE SendEnd(u)
    <2>1. /\ pc[u] = "send" /\ path[u] \in Paths /\ Streaming
          /\ req[u] \in ClientRequest /\ req[u].path = path[u] /\ req[u].op = "StoreWithStream"
          /\ reply[u] # NoReply \/ Next1(u) > count[u] \/ Next1(u) > Len(Content(u))
          /\ count' = [count EXCEPT ![u] = 0] /\ Goto(u, "stored")
          /\ UNCHANGED <<serverVars, diskVars, path, ghostVars>> /\ UNCHANGED rpcVars
      BY <1>0, <1>6 DEF SendEnd, RpcAt
    <2>2. Calling(u) /\ pc'[u] = "stored" /\ req'[u] = req[u] /\ reply'[u] = reply[u]
            /\ count'[u] = 0
      BY <1>0, <2>1 DEF Types, Calling, Goto, rpcVars
    <2>3. RpcAt(u)'
      BY <2>1, <2>2 DEF RpcAt
    <2>4. req[u].data \in Contents /\ Len(req[u].data) \in Nat
      BY <2>1, RequestKinds, LenProperties DEF StoreOps, Contents
    <2>5. Content(u) \in Contents /\ Len(Content(u)) \in Nat
      BY <1>0, <2>1, ContentOf
    <2>6. reply[u] = NoReply => req[u].data = Content(u)
      <3> SUFFICES ASSUME reply[u] = NoReply PROVE req[u].data = Content(u)
        OBVIOUS
      <3>1. Len(req[u].data) = Len(Content(u))
        BY <1>0, <2>1, <2>4, <2>5 DEF OpenAt, Next1
      <3>2. \A i \in 1 .. Len(req[u].data) : req[u].data[i] = Content(u)[i]
        BY <1>0, <2>1 DEF OpenAt
      <3> QED
        BY <2>4, <2>5, <3>1, <3>2, SameContent
    <2>7. reply[u] = NoReply \/ reply[u].status = "UNAVAILABLE"
      BY <1>0, <2>1 DEF OpenAt
    <2>8. ~Succeeded(u)'
      BY <2>2, <2>7 DEF Succeeded, NoReply
    <2>9. OpenAt(u)'
      BY <2>1, <2>2, <2>6, <2>7, <2>8, Closing DEF OpenAt, diskVars
    <2> QED
      BY <2>1, <2>2, <2>3, <2>9, Within
  <1> QED
    BY <1>1, <1>2, <1>3, <1>4, <1>5, <1>6

\* release, from the answer of the store.
LEMMA StoredClose ==
    ASSUME CloseInv, Alone, NEW u \in Procs,
           StreamAgain(u) \/ StoreReply(u) \/ ClearLog(u) \/ Restamp(u)
    PROVE  GoesOn(u)
  <1> USE DEF CallLabels, FetchLabels, StoreLabels, Labels, OpenLabels, OpeningLabels,
              ClosingLabels
  <1>0. Types /\ RpcAt(u) /\ OpenAt(u)
    BY DEF CloseInv
  <1>1. CASE StreamAgain(u)
    <2>1. /\ pc[u] = "stored" /\ path[u] \in Paths /\ count[u] = 0
          /\ req' = [req EXCEPT ![u] = NoRequest]
          /\ reply' = [reply EXCEPT ![u] = NoReply] /\ Goto(u, "store")
          /\ UNCHANGED <<serverVars, diskVars, path, ghostVars>> /\ UNCHANGED <<read, tries, count>>
      BY <1>0, <1>1 DEF StreamAgain, RpcAt
    <2>2. Calling(u) /\ pc'[u] = "store" /\ req'[u] = NoRequest /\ reply'[u] = NoReply
            /\ count'[u] = 0
      BY <1>0, <2>1 DEF Types, Calling, Goto
    <2>3. OpenAt(u)'
      BY <2>1, <2>2, Closing DEF OpenAt, diskVars
    <2>4. RpcAt(u)'
      BY <2>1, <2>2 DEF RpcAt
    <2> QED
      BY <2>1, <2>2, <2>3, <2>4, Within
  <1>2. CASE StoreReply(u)
    <2>1. pc[u] = "stored" /\ path[u] \in Paths /\ count[u] = 0
            /\ req[u] \in ClientRequest /\ req[u].path = path[u]
            /\ req[u].op = IF Streaming THEN "StoreWithStream" ELSE "Store"
      BY <1>0, <1>2 DEF StoreReply, RpcAt
    <2>2. CASE Succeeded(u)
      <3>1. /\ Goto(u, IF Streaming THEN "restamp" ELSE "clear")
            /\ UNCHANGED <<serverVars, diskVars, path, ghostVars>>
            /\ UNCHANGED rpcVars /\ UNCHANGED count
        BY <1>2, <2>2 DEF StoreReply
      <3>2. Calling(u) /\ pc'[u] = (IF Streaming THEN "restamp" ELSE "clear")
              /\ req'[u] = req[u] /\ reply'[u] = reply[u] /\ count'[u] = 0
        BY <1>0, <2>1, <3>1, CallingMoves
      <3>3. RpcAt(u)'
        BY <2>1, <3>1, <3>2 DEF RpcAt
      <3>4. req[u].data = Content(u) /\ Succeeded(u)' /\ StoreDone(u)'
        BY <1>0, <2>1, <2>2, <3>1, <3>2
           DEF OpenAt, Succeeded, StoreDone, serverVars, ghostVars
      <3>5. OpenAt(u)'
        BY <2>1, <3>1, <3>2, <3>4, Closing DEF OpenAt, diskVars
      <3> QED
        BY <3>1, <3>2, <3>3, <3>5, Within
    <2>3. CASE ~Succeeded(u)
      BY <1>2, <2>1, <2>3, Leaving DEF StoreReply
    <2> QED
      BY <2>2, <2>3
  <1>3. CASE ClearLog(u)
    <2>1. /\ pc[u] = "clear" /\ path[u] \in Paths /\ count[u] = 0
          /\ req[u] \in ClientRequest /\ req[u].path = path[u]
          /\ req[u].op = IF Streaming THEN "StoreWithStream" ELSE "Store"
          /\ dirty' = [dirty EXCEPT ![Host[u]] = dirty[Host[u]] \ {path[u]}] \/ UNCHANGED dirty
          /\ Goto(u, "restamp") /\ UNCHANGED <<serverVars, cache, spoilt, path, ghostVars>>
          /\ UNCHANGED rpcVars /\ UNCHANGED count
      BY <1>0, <1>3 DEF ClearLog, RpcAt
    <2>2. Calling(u) /\ pc'[u] = "restamp" /\ req'[u] = req[u] /\ reply'[u] = reply[u]
            /\ count'[u] = 0
      BY <1>0, <2>1, CallingMoves
    <2>3. RpcAt(u)'
      BY <2>1, <2>2 DEF RpcAt
    <2>4. req[u].data = Content(u) /\ Succeeded(u)' /\ StoreDone(u)'
      BY <1>0, <2>1, <2>2 DEF OpenAt, Succeeded, StoreDone, serverVars, ghostVars
    <2>5. OpenAt(u)'
      BY <2>1, <2>2, <2>4, Closing DEF OpenAt
    <2>6. dirty[Host[u]] \ {path[u]} \in SUBSET Paths
      BY <1>0, ClientAssumption DEF Types
    <2> QED
      BY <2>1, <2>2, <2>3, <2>5, <2>6, Within, Logging DEF diskVars
  <1>4. CASE Restamp(u)
    <2>1. /\ pc[u] = "restamp" /\ path[u] \in Paths /\ count[u] = 0
          /\ StampCache(u, reply[u].mtime) /\ EndCall(u) /\ Goto(u, "closed")
          /\ UNCHANGED <<serverVars, dirty, path, ghostVars>> /\ UNCHANGED count
      BY <1>0, <1>4 DEF Restamp, RpcAt
    <2>2. Calling(u) /\ pc'[u] = "closed" /\ req'[u] = NoRequest /\ reply'[u] = NoReply
            /\ count'[u] = 0
      BY <1>0, <2>1, CallingMoves
    <2>3. reply[u].mtime \in Nat /\ req[u].data = Content(u) /\ StoreDone(u)
      BY <1>0, <2>1 DEF OpenAt, Succeeded, NoReply, Types, ClientReply
    <2>4. Cached(u) # NoFile /\ file[path[u]] \in seen[u]
            /\ \A w \in wrote[u] : w[1] \in 1 .. Len(Content(u)) /\ Content(u)[w[1]] = w[2]
      BY <1>0, <2>1 DEF OpenAt
    <2>5. PICK v \in Copies : SetCache(u, v)
      BY <1>0, <2>1, <2>3, <2>4, Stamped
    <2>6. Cached(u)' # NoFile /\ Content(u)' = Content(u)
      BY <1>0, <2>1, <2>3, <2>4, Stamped
    <2>7. RpcAt(u)'
      BY <2>1, <2>2 DEF RpcAt
    <2>8. \E x \in seen[u] \ {NoFile} :
            \A w \in wrote[u] : w[1] <= Len(x.data) /\ x.data[w[1]] = w[2]
      <3> DEFINE x == [data |-> req[u].data, mtime |-> reply[u].mtime]
      <3>1. x \in Versions /\ x \in seen[u]
        BY <1>0, <2>1, <2>3 DEF StoreDone, Types
      <3>2. x # NoFile /\ x.data = Content(u)
        BY <2>3, <3>1, NoFileIsNone
      <3>3. Len(Content(u)) \in Nat
        BY <1>0, <2>1, ContentOf
      <3> HIDE DEF x
      <3> QED
        BY <2>4, <3>1, <3>2, <3>3
    <2>9. OpenAt(u)'
      BY <2>1, <2>2, <2>4, <2>6, <2>8 DEF OpenAt, serverVars, ghostVars
    <2>10. SpoilsOnly(u)
      BY <1>0, <1>4, <2>1, Spoiling DEF Restamp
    <2> QED
      BY <2>1, <2>2, <2>5, <2>7, <2>9, <2>10, Caching
  <1> QED
    BY <1>1, <1>2, <1>3, <1>4

\* What the user processes ask for.
LEMMA AskClose ==
    ASSUME CloseInv, Alone, NEW u \in Procs, Ask(u)
    PROVE  GoesOn(u)
  <1> USE DEF CallLabels, FetchLabels, StoreLabels, Labels, OpenLabels, OpeningLabels,
              ClosingLabels
  <1>0. Types /\ RpcAt(u) /\ OpenAt(u)
    BY DEF CloseInv
  <1>1. ASSUME pc[u] = "idle", NEW p \in Paths, path' = [path EXCEPT ![u] = p],
               NEW r \in ClientRequest, r.path = p, Call(u, r),
               NEW label \in {"lookup", "mknod", "unlink"}, Goto(u, label),
               label = "lookup" => r.op = "GetFileStat",
               label = "mknod" => r.op = "Mknod",
               label = "unlink" => r.op = "Remove",
               UNCHANGED <<serverVars, diskVars, count, ghostVars>>
        PROVE  GoesOn(u)
    <2>1. /\ count[u] = 0 /\ wrote[u] = {}
      BY <1>0, <1>1 DEF RpcAt, OpenAt
    <2>2. Calling(u) /\ pc'[u] = label /\ req'[u] = r /\ reply'[u] = NoReply /\ count'[u] = 0
      BY <1>0, <1>1, <2>1, CallingMoves
    <2>3. path' \in [Procs -> Paths \union {NoPath}] /\ path'[u] = p
            /\ \A w \in Procs \ {u} : path'[w] = path[w]
      BY <1>0, <1>1 DEF Types
    <2>4. Types'
      BY <1>0, <1>1, <2>2, <2>3 DEF Types, Calling, serverVars, diskVars, ghostVars
    <2>5. OnlyOf(u)
      BY <1>1, <2>2, <2>3 DEF OnlyOf, Untouched, Calling, diskVars, ghostVars
    <2>6. RpcAt(u)' /\ OpenAt(u)'
      BY <1>1, <2>1, <2>2, <2>3 DEF RpcAt, OpenAt, ghostVars
    <2> QED
      BY <1>1, <2>4, <2>5, <2>6, OfOne DEF serverVars, ghostVars
  <1>2. ASSUME NEW p \in Paths, Open(u, p) PROVE GoesOn(u)
    <2>1. [op |-> "GetFileStat", path |-> p] \in ClientRequest
      BY DEF ClientRequest
    <2> QED
      BY <1>1, <1>2, <2>1 DEF Open
  <1>3. ASSUME NEW p \in Paths, Create(u, p) PROVE GoesOn(u)
    <2>1. [op |-> "Mknod", path |-> p] \in ClientRequest
      BY DEF ClientRequest
    <2> QED
      BY <1>1, <1>3, <2>1 DEF Create
  <1>4. ASSUME NEW p \in Paths, Delete(u, p) PROVE GoesOn(u)
    <2>1. [op |-> "Remove", path |-> p] \in ClientRequest
      BY DEF ClientRequest
    <2> QED
      BY <1>1, <1>4, <2>1 DEF Delete
  <1>5. ASSUME NEW i \in 1 .. Chunks, NEW d \in Data \ {Hole}, Write(u, i, d) PROVE GoesOn(u)
    <2> DEFINE s == Put(Content(u), i, d)
    <2>1. /\ pc[u] = "open" /\ path[u] \in Paths /\ count[u] = 0
          /\ req[u] = NoRequest /\ reply[u] = NoReply
          /\ WriteCache(u, s) /\ Goto(u, "log")
          /\ wrote' = [wrote EXCEPT ![u] = {w \in wrote[u] : w[1] # i} \union {<<i, d>>}]
          /\ UNCHANGED <<serverVars, spoilt, dirty, path, seen>>
          /\ UNCHANGED rpcVars /\ UNCHANGED count
      BY <1>0, <1>5 DEF Write, RpcAt
    <2>2. Calling(u) /\ pc'[u] = "log" /\ req'[u] = NoRequest /\ reply'[u] = NoReply
            /\ count'[u] = 0
      BY <1>0, <2>1, CallingMoves
    <2>3. i \in Nat \ {0} /\ d \in Data
      BY ChunksAssumption
    <2>4. Content(u) \in Contents /\ Len(Content(u)) \in Nat
      BY <1>0, <2>1, ContentOf
    <2>5. /\ s \in Contents /\ Len(s) = Longer(Len(Content(u)), i)
          /\ \A j \in 1 .. Longer(Len(Content(u)), i) :
               s[j] = IF j = i THEN d ELSE IF j <= Len(Content(u)) THEN Content(u)[j] ELSE Hole
      BY <2>3, <2>4, PutChunk
    <2> HIDE DEF s
    <2>6. PICK v \in Copies : SetCache(u, v)
      BY <1>0, <2>1, <2>5, Written
    <2>7. Cached(u)' # NoFile /\ Content(u)' = s
      BY <1>0, <2>1, <2>5, Written
    <2>8. /\ wrote' \in [Procs -> SUBSET (Nat \X Data)]
          /\ wrote'[u] = {w \in wrote[u] : w[1] # i} \union {<<i, d>>}
          /\ \A w \in Procs \ {u} : wrote'[w] = wrote[w]
      <3>1. {w \in wrote[u] : w[1] # i} \union {<<i, d>>} \in SUBSET (Nat \X Data)
        BY <1>0, <2>3 DEF Types
      <3> QED
        BY <1>0, <2>1, <3>1 DEF Types
    <2>9. \A w \in wrote'[u] : w[1] \in 1 .. Len(s) /\ s[w[1]] = w[2]
      <3> TAKE w \in wrote'[u]
      <3>1. CASE w = <<i, d>>
        BY <2>3, <2>4, <2>5, <3>1 DEF Longer
      <3>2. CASE w \in wrote[u] /\ w[1] # i
        <4>1. w[1] \in 1 .. Len(Content(u)) /\ Content(u)[w[1]] = w[2]
          BY <1>0, <2>1, <3>2 DEF OpenAt
        <4> QED
          BY <2>3, <2>4, <2>5, <3>2, <4>1 DEF Longer
      <3> QED
        BY <2>8, <3>1, <3>2
    <2>10. Types'
      BY <1>0, <2>1, <2>2, <2>6, <2>8, CacheOf DEF Types, Calling, serverVars
    <2>11. OnlyOf(u)
      BY <1>0, <2>1, <2>2, <2>6, <2>8, CacheOf DEF Calling, OnlyOf, Untouched
    <2>12. RpcAt(u)' /\ OpenAt(u)'
      BY <2>1, <2>2, <2>7, <2>9 DEF RpcAt, OpenAt
    <2> QED
      BY <2>1, <2>10, <2>11, <2>12, OfOne DEF serverVars
  <1>6. CASE Close(u)
    <2>1. /\ pc[u] = "open" /\ path[u] \in Paths /\ count[u] = 0
          /\ req[u] = NoRequest /\ reply[u] = NoReply /\ Goto(u, "close")
          /\ seen' = [seen EXCEPT ![u] = {file[path[u]]}]
          /\ UNCHANGED <<serverVars, diskVars, path, wrote>>
          /\ UNCHANGED rpcVars /\ UNCHANGED count
      BY <1>0, <1>6 DEF Close, RpcAt
    <2>2. Calling(u) /\ pc'[u] = "close" /\ req'[u] = NoRequest /\ reply'[u] = NoReply
            /\ count'[u] = 0
      BY <1>0, <2>1, CallingMoves
    <2>3. /\ seen' \in [Procs -> SUBSET Files] /\ seen'[u] = {file[path[u]]}
          /\ \A w \in Procs \ {u} : seen'[w] = seen[w]
      BY <1>0, <2>1 DEF Types
    <2>4. Types'
      BY <1>0, <2>1, <2>2, <2>3 DEF Types, Calling, serverVars, diskVars
    <2>5. OnlyOf(u)
      BY <2>1, <2>2 DEF Calling, OnlyOf, Untouched, diskVars
    <2>6. Cached(u)' = Cached(u) /\ Content(u)' = Content(u)
      BY <2>1 DEF Cached, Content, diskVars
    <2>7. RpcAt(u)' /\ OpenAt(u)'
      BY <1>0, <2>1, <2>2, <2>3, <2>6 DEF RpcAt, OpenAt, serverVars, diskVars
    <2> QED
      BY <2>1, <2>3, <2>4, <2>5, <2>7, OfOne DEF serverVars
  <1> QED
    BY <1>2, <1>3, <1>4, <1>5, <1>6 DEF Ask
----
(***************************************************************************)
(* Steps of the server, and crashes                                        *)
(***************************************************************************)
\* Everyone sees what the server does to a file.
LEMMA AllWitness ==
    ASSUME Types, ServerInv, NEW r \in ClientRequest, Effect(r), NEW w \in Procs
    PROVE  Witnessed(w)
  BY Effects DEF Witnessed

\* The server answers u: a store that it accepts is a version of the file, seen by u.
LEMMA ServeClose ==
    ASSUME CloseInv, NEW u \in Procs, Serve(u)
    PROVE  GoesOn(u)
  <1> USE DEF CallLabels, FetchLabels, StoreLabels, Labels, OpenLabels, OpeningLabels,
              ClosingLabels
  <1>0. Types /\ ServerInv /\ RpcAt(u) /\ OpenAt(u)
    BY DEF CloseInv
  <1>1. /\ req[u] # NoRequest /\ reply[u] = NoReply
        /\ req[u].op = "StoreWithStream" => pc[u] = "stored"
        /\ req[u].op = "Fetch" => read[u] # NoFile \/ file[req[u].path] = NoFile
        /\ Effect(req[u])
        /\ reply' = [reply EXCEPT ![u] = AnswerTo(req[u], read[u])]
        /\ UNCHANGED <<late, diskVars, pc, path, req, read, tries, count, wrote>>
    BY DEF Serve
  <1>2. pc[u] \in CallLabels /\ req[u] \in ClientRequest /\ req[u].path = path[u]
          /\ path[u] \in Paths
    BY <1>0, <1>1 DEF RpcAt
  <1>3. reply' \in [Procs -> ClientReply \union {NoReply}] /\ reply'[u] = AnswerTo(req[u], read[u])
          /\ \A w \in Procs \ {u} : reply'[w] = reply[w]
    BY <1>0, <1>1, <1>2, Answers DEF Types
  <1>4. /\ file' \in [Paths -> Files] /\ hist' \in [Paths -> SUBSET Versions]
        /\ clock' \in Nat /\ seen' \in [Procs -> SUBSET Files]
        /\ ServerInv'
    BY <1>0, <1>1, <1>2, Effects
  <1>5. Types'
    BY <1>0, <1>1, <1>3, <1>4 DEF Types, diskVars
  <1>6. OnlyOf(u)
    BY <1>1, <1>3 DEF OnlyOf, Untouched, diskVars
  <1>7. \A w \in Procs : Witnessed(w)
    BY <1>0, <1>1, <1>2, AllWitness
  <1>8. pc[u] \notin {"write", "stamp", "send", "clear", "restamp"} /\ ~(pc[u] = "trunc" /\ ~Streaming)
    BY <1>0, <1>1 DEF RpcAt, OpenAt, Succeeded, NoReply
  <1>9. RpcAt(u)'
    BY <1>0, <1>1, <1>2, <1>8 DEF RpcAt
  <1>10. pc[u] = "stored" => req[u].data = Content(u)
    BY <1>0, <1>1 DEF OpenAt, NoReply
  <1>11. pc[u] = "stored" /\ Succeeded(u)' => StoreDone(u)'
    <2> SUFFICES ASSUME pc[u] = "stored", Succeeded(u)' PROVE StoreDone(u)'
      OBVIOUS
    <2>1. req[u].op \in StoreOps
      BY <1>0 DEF RpcAt, StoreOps
    <2>2. Stores(req[u]) /\ AnswerTo(req[u], read[u]).mtime = clock + 1
      BY <1>1, <1>2, <1>3, <1>0, <2>1, Answers DEF Succeeded, Types
    <2>3. seen[u] # {}
      BY <1>0 DEF OpenAt
    <2>4. LET v == [data |-> req[u].data, mtime |-> clock + 1] IN
          v \in hist'[path[u]] /\ v \in seen'[u]
      BY <1>0, <1>1, <1>2, <2>2, <2>3, Effects
    <2> QED
      BY <1>1, <1>3, <2>2, <2>4 DEF StoreDone
  <1>12. Cached(u)' = Cached(u) /\ Content(u)' = Content(u)
    BY <1>1 DEF Cached, Content, diskVars
  <1>13. pc[u] \in OpeningLabels \union ClosingLabels => file'[path'[u]] \in seen'[u]
    BY <1>0, <1>1, <1>2, <1>7 DEF OpenAt, Witnessed
  <1>14. OpenAt(u)'
    BY <1>0, <1>1, <1>2, <1>8, <1>10, <1>11, <1>12, <1>13 DEF OpenAt
  <1>15. ASSUME NEW w \in Procs \ {u}
         PROVE  RpcAt(w)' /\ OpenAt(w)' /\ (FetchAt(w) => FetchAt(w)')
    BY <1>6, <1>7, Kept DEF OnlyOf, CloseInv
  <1> QED
    BY <1>4, <1>5, <1>9, <1>14, <1>15 DEF CloseInv, GoesOn

\* The server reads the file for a Fetch.
LEMMA ReadClose ==
    ASSUME CloseInv, NEW u \in Procs, FetchRead(u)
    PROVE  GoesOn(u)
  <1>0. Types /\ RpcAt(u) /\ OpenAt(u)
    BY DEF CloseInv
  <1>1. /\ req[u] # NoRequest /\ file[req[u].path] # NoFile
        /\ read' = [read EXCEPT ![u] = file[req[u].path]]
        /\ UNCHANGED <<file, hist, clock, late, diskVars, pc, path, req, reply, tries, count,
                       wrote, seen>>
    BY DEF FetchRead, serverVars, ghostVars
  <1>2. req[u].path \in Paths
    BY <1>0, <1>1, RequestKinds DEF Types
  <1>3. Types'
    BY <1>0, <1>1, <1>2 DEF Types, diskVars
  <1>4. OnlyOf(u)
    BY <1>0, <1>1 DEF Types, OnlyOf, Untouched, diskVars
  <1>5. RpcAt(u)'
    BY <1>0, <1>1 DEF RpcAt, Succeeded
  <1>6. Cached(u)' = Cached(u) /\ Content(u)' = Content(u)
    BY <1>1 DEF Cached, Content, diskVars
  <1>7. Succeeded(u)' = Succeeded(u) /\ StoreDone(u)' = StoreDone(u)
    BY <1>1 DEF Succeeded, StoreDone
  <1>8. OpenAt(u)'
    BY <1>0, <1>1, <1>6, <1>7 DEF OpenAt, diskVars
  <1> QED
    BY <1>1, <1>3, <1>4, <1>5, <1>8, OfOne

\* A connection that breaks.
LEMMA BreakClose ==
    ASSUME CloseInv, NEW u \in Procs, Break(u)
    PROVE  GoesOn(u)
  <1> USE DEF CallLabels, FetchLabels, StoreLabels, Labels, OpenLabels, OpeningLabels,
              ClosingLabels
  <1>0. Types /\ ServerInv /\ RpcAt(u) /\ OpenAt(u)
    BY DEF CloseInv
  <1> DEFINE y == IF reply[u] = NoReply THEN Broken ELSE [reply[u] EXCEPT !.status = "UNAVAILABLE"]
  <1>1. /\ Waits(u)
        /\ late' \subseteq late \union Remains(u)
        /\ reply' = [reply EXCEPT ![u] = y]
        /\ UNCHANGED <<file, hist, clock, diskVars, pc, path, req, read, tries, count, ghostVars>>
    BY DEF Break
  <1>2. y \in ClientReply /\ y.status = "UNAVAILABLE"
    <2>1. Broken \in ClientReply /\ Broken.status = "UNAVAILABLE"
      BY EmptySeq DEF Broken, Blank, ClientReply, Contents
    <2>2. reply[u] \in ClientReply \union {NoReply}
      BY <1>0 DEF Types
    <2>3. reply[u] \in ClientReply =>
            /\ [reply[u] EXCEPT !.status = "UNAVAILABLE"] \in ClientReply
            /\ [reply[u] EXCEPT !.status = "UNAVAILABLE"].status = "UNAVAILABLE"
      BY DEF ClientReply
    <2> QED
      BY <2>1, <2>2, <2>3
  <1> HIDE DEF y
  <1>3. reply' \in [Procs -> ClientReply \union {NoReply}] /\ reply'[u] = y
          /\ \A w \in Procs \ {u} : reply'[w] = reply[w]
    BY <1>0, <1>1, <1>2 DEF Types
  <1>4. late' \subseteq ClientRequest
    BY <1>0, <1>1, RemainsAreRequests DEF Types
  <1>5. Types'
    BY <1>0, <1>1, <1>3, <1>4 DEF Types, diskVars, ghostVars
  <1>6. OnlyOf(u)
    BY <1>1, <1>3 DEF OnlyOf, Untouched, diskVars, ghostVars
  <1>7. ~Succeeded(u)' /\ reply'[u] # NoReply
    BY <1>2, <1>3, ReplyIsOne DEF Succeeded
  <1>8. /\ pc[u] \in {"lookup", "auth", "fetched", "trunc", "recv", "send", "stored", "mknod", "unlink"}
        /\ pc[u] = "trunc" => Streaming
    BY <1>1 DEF Waits
  <1>9. RpcAt(u)'
    BY <1>0, <1>1, <1>8 DEF RpcAt
  <1>10. Cached(u)' = Cached(u) /\ Content(u)' = Content(u)
    BY <1>1 DEF Cached, Content, diskVars
  <1>11. /\ pc[u] \in OpeningLabels \union ClosingLabels => file'[path'[u]] \in seen'[u]
         /\ pc[u] = "stored" =>
              req'[u].data = Content(u)' \/ (Streaming /\ reply'[u].status = "UNAVAILABLE")
    BY <1>0, <1>1, <1>2, <1>3, <1>10 DEF OpenAt, RpcAt, ghostVars
  <1>12. OpenAt(u)'
    BY <1>0, <1>1, <1>2, <1>3, <1>7, <1>8, <1>10, <1>11 DEF OpenAt, ghostVars
  <1> QED
    BY <1>1, <1>5, <1>6, <1>9, <1>12, OfOne DEF ghostVars

\* A request of a broken call that the server executes.
LEMMA LateClose ==
    ASSUME CloseInv, NEW r \in late, ServeLate(r)
    PROVE  CloseInv'
  <1>0. Types /\ ServerInv /\ r \in ClientRequest /\ Effect(r)
    BY DEF CloseInv, Types, ServeLate
  <1>1. /\ late' \subseteq late
        /\ UNCHANGED <<diskVars, pc, path, rpcVars, count, wrote>>
    BY DEF ServeLate
  <1>2. /\ file' \in [Paths -> Files] /\ hist' \in [Paths -> SUBSET Versions]
        /\ clock' \in Nat /\ seen' \in [Procs -> SUBSET Files]
        /\ ServerInv'
    BY <1>0, Effects
  <1>3. Types'
    BY <1>0, <1>1, <1>2 DEF Types, diskVars, rpcVars
  <1>4. ASSUME NEW w \in Procs PROVE RpcAt(w)' /\ OpenAt(w)'
    <2>1. Untouched(w) /\ Witnessed(w)
      BY <1>0, <1>1, AllWitness DEF Untouched, diskVars, rpcVars
    <2> QED
      BY <2>1, Kept DEF CloseInv
  <1> QED
    BY <1>2, <1>3, <1>4 DEF CloseInv

\* A machine dies, and what its processes knew with it.
LEMMA CrashClose ==
    ASSUME CloseInv, NEW c \in Clients, Crash(c)
    PROVE  CloseInv'
  <1> DEFINE users == {u \in Procs : Host[u] = c}
  <1>1. /\ late' \subseteq late \union UNION {Remains(u) : u \in users}
        /\ dirty' = [dirty EXCEPT ![c] = {}]
        /\ pc' = [u \in Procs |-> IF u \in users THEN "idle" ELSE pc[u]]
        /\ path' = [u \in Procs |-> IF u \in users THEN NoPath ELSE path[u]]
        /\ req' = [u \in Procs |-> IF u \in users THEN NoRequest ELSE req[u]]
        /\ reply' = [u \in Procs |-> IF u \in users THEN NoReply ELSE reply[u]]
        /\ read' = [u \in Procs |-> IF u \in users THEN NoFile ELSE read[u]]
        /\ tries' = [u \in Procs |-> IF u \in users THEN 0 ELSE tries[u]]
        /\ count' = [u \in Procs |-> IF u \in users THEN 0 ELSE count[u]]
        /\ wrote' = [u \in Procs |-> IF u \in users THEN {} ELSE wrote[u]]
        /\ seen' = [u \in Procs |-> IF u \in users THEN {} ELSE seen[u]]
        /\ UNCHANGED <<file, hist, clock, cache, spoilt>>
    BY DEF Crash
  <1>2. late' \subseteq ClientRequest
    BY <1>1, RemainsAreRequests DEF CloseInv, Types
  <1>3. Types'
    BY <1>1, <1>2 DEF CloseInv, Types, Labels, Files
  <1>4. ServerInv'
    BY <1>1 DEF CloseInv, ServerInv
  <1>5. ASSUME NEW u \in Procs PROVE RpcAt(u)' /\ OpenAt(u)'
    <2>1. CASE u \in users
      BY <1>1, <2>1 DEF RpcAt, OpenAt, CallLabels, FetchLabels, StoreLabels, OpenLabels,
           OpeningLabels, ClosingLabels
    <2>2. CASE u \notin users
      <3>1. Host[u] # c
        BY <2>2
      <3>2. Untouched(u) /\ Witnessed(u)
        BY <1>1, <3>1, ClientAssumption DEF CloseInv, Types, Untouched, Witnessed
      <3> QED
        BY <3>2, Kept DEF CloseInv
    <2> QED
      BY <2>1, <2>2
  <1> QED
    BY <1>3, <1>4, <1>5 DEF CloseInv
----
\* At first no file is open and every file has one version.
LEMMA InitClose == Init => CloseInv
  <1> SUFFICES ASSUME Init PROVE CloseInv
    OBVIOUS
  <1>1. [data |-> Whole(Hole), mtime |-> 1] \in Versions
    <2>1. Whole(Hole) \in [1 .. Chunks -> Data]
      BY ClientAssumption DEF Whole
    <2>2. Whole(Hole) \in Seq(Data)
      BY <2>1, ChunksAssumption
    <2> QED
      BY <2>2 DEF Versions, Contents
  <1>2. Types
    <2>1. /\ file \in [Paths -> Files] /\ hist \in [Paths -> SUBSET Versions] /\ clock \in Nat
      BY <1>1 DEF Init, Files
    <2>2. /\ cache \in [Clients -> [Paths -> Copies \union {NoFile}]]
          /\ spoilt \in [Clients -> SUBSET Paths]
          /\ dirty \in [Clients -> SUBSET Paths]
          /\ late \subseteq ClientRequest
      BY DEF Init
    <2>3. /\ pc \in [Procs -> Labels]
          /\ path \in [Procs -> Paths \union {NoPath}]
          /\ req \in [Procs -> ClientRequest \union {NoRequest}]
          /\ reply \in [Procs -> ClientReply \union {NoReply}]
          /\ read \in [Procs -> Files]
          /\ tries \in [Procs -> Nat] /\ count \in [Procs -> Nat]
          /\ wrote \in [Procs -> SUBSET (Nat \X Data)]
          /\ seen \in [Procs -> SUBSET Files]
      BY DEF Init, Labels, Files
    <2> QED
      BY <2>1, <2>2, <2>3 DEF Types
  <1>3. ServerInv
    <2>1. \A p \in Paths : file[p] \in {NoFile, [data |-> Whole(Hole), mtime |-> 1]}
      BY DEF Init
    <2>2. clock = 1 /\ \A p \in Paths : hist[p] = {file[p]} \ {NoFile}
      BY DEF Init
    <2> DEFINE v == [data |-> Whole(Hole), mtime |-> 1]
    <2>3. v.mtime = 1
      OBVIOUS
    <2>4. \A p \in Paths : \A x \in hist[p] : x = v
      BY <2>1, <2>2
    <2> HIDE DEF v
    <2>5. \A p \in Paths : file[p] # NoFile => file[p] \in hist[p]
      BY <2>2
    <2>8. \A p \in Paths : file[p] # NoFile => \A x \in hist[p] : x.mtime <= file[p].mtime
      BY <2>3, <2>4, <2>5
    <2>6. \A p \in Paths : \A x \in hist[p] : x.mtime \in 1 .. clock
      BY <2>2, <2>3, <2>4
    <2>7. \A p \in Paths : \A x, y \in hist[p] : x = y
      BY <2>4
    <2> QED
      BY <2>5, <2>6, <2>7, <2>8 DEF ServerInv
  <1>4. \A u \in Procs : RpcAt(u) /\ OpenAt(u)
    BY DEF Init, RpcAt, OpenAt, CallLabels, FetchLabels, StoreLabels, OpenLabels,
       OpeningLabels, ClosingLabels
  <1> QED
    BY <1>2, <1>3, <1>4 DEF CloseInv

\* Whatever happens, every process keeps knowing what it must of its open file.
LEMMA NextClose ==
    ASSUME CloseInv, Alone, [Next]_vars
    PROVE  CloseInv'
  <1>1. ASSUME NEW u \in Procs, Step(u) PROVE CloseInv'
    BY <1>1, OpenClose, FetchClose, CallClose, StoreClose, StoredClose DEF Step, GoesOn
  <1>2. CASE UNCHANGED vars
    <2>1. UNCHANGED <<file, hist, clock, late, cache, spoilt, dirty, pc, path, req, reply, read, tries,
                      count, wrote, seen>>
      BY <1>2 DEF vars, serverVars, diskVars, rpcVars, ghostVars
    <2>2. Types' /\ ServerInv'
      BY <2>1 DEF CloseInv, Types, ServerInv
    <2>3. ASSUME NEW w \in Procs PROVE RpcAt(w)' /\ OpenAt(w)'
      <3>1. Untouched(w) /\ Witnessed(w)
        BY <2>1 DEF Untouched, Witnessed
      <3> QED
        BY <3>1, Kept DEF CloseInv
    <2> QED
      BY <2>2, <2>3 DEF CloseInv
  <1> QED
    BY <1>1, <1>2, AskClose, ReadClose, ServeClose, BreakClose, LateClose, CrashClose
       DEF Next, Quiescent, Server, GoesOn

\* A close that succeeds has committed what the process wrote, whatever breaks, is made
\* again, comes late or dies, if each machine has one process (afs_client.h:767-909).
THEOREM ClosesCommit ==
    ASSUME Alone
    PROVE  Spec => []CloseCommits
  <1>1. CloseInv => CloseCommits
    BY DEF CloseInv, OpenAt, CloseCommits, HasWrites
  <1> QED
    BY <1>1, InitClose, NextClose, PTL DEF Spec
----
(***************************************************************************)
(* What is fetched                                                         *)
(***************************************************************************)
\* Content f.data is how one version of p began, that is no newer than f is said to be.
OneVersion(f, p) == \E v \in hist[p] : v.mtime <= f.mtime /\ Begins(f.data, v.data)

\* All of a content is how it begins.
LEMMA BeginsItself == \A s \in Contents : Begins(s, s)
  BY LenProperties DEF Begins, Contents

\* A step that changes the cache of u as it may leaves every copy a version, or what a
\* spoilt fetch made of one.
LEMMA CopyStays ==
    ASSUME Types, Alone, CachedCopyIsAVersion, NEW u \in Procs, path[u] \in Paths,
           NEW v \in Copies \union {NoFile}, SetCache(u, v), SpoilsOnly(u), UNCHANGED hist,
           v # NoFile /\ v.mtime \notin {0, Local} =>
             v \in hist[path[u]] \/ (path[u] \in spoilt'[Host[u]] /\ OneVersion(v, path[u]))
    PROVE  CachedCopyIsAVersion'
  <1>1. /\ cache'[Host[u]][path[u]] = v
        /\ \A c \in Clients, p \in Paths :
             c # Host[u] \/ p # path[u] => cache'[c][p] = cache[c][p]
    BY CacheOf
  <1>2. \A c \in Clients, p \in Paths :
          c # Host[u] \/ p # path[u] => (p \in spoilt'[c] <=> p \in spoilt[c])
    BY DEF SpoilsOnly
  <1>3. ASSUME NEW c \in Clients, NEW p \in Paths, cache'[c][p] # NoFile,
               cache'[c][p].mtime \notin {0, Local}
        PROVE  cache'[c][p] \in hist'[p] \/ (p \in spoilt'[c] /\ OneVersion(cache'[c][p], p))
    <2>1. CASE c = Host[u] /\ p = path[u]
      BY <1>1, <1>3, <2>1
    <2>2. CASE c # Host[u] \/ p # path[u]
      BY <1>1, <1>2, <1>3, <2>2 DEF CachedCopyIsAVersion, OneVersion
    <2> QED
      BY <2>1, <2>2
  <1> QED
    BY <1>3 DEF CachedCopyIsAVersion, OneVersion

\* A step that changes no cache and loses no version leaves the copies what they are.
LEMMA CopiesStay ==
    ASSUME CachedCopyIsAVersion, UNCHANGED <<cache, spoilt>>,
           \A p \in Paths : hist[p] \subseteq hist'[p]
    PROVE  CachedCopyIsAVersion'
  <1>1. ASSUME NEW c \in Clients, NEW p \in Paths, cache'[c][p] # NoFile,
               cache'[c][p].mtime \notin {0, Local}
        PROVE  \/ cache'[c][p] \in hist'[p]
               \/ /\ p \in spoilt'[c]
                  /\ \E v \in hist'[p] : v.mtime <= cache'[c][p].mtime /\ Begins(cache'[c][p].data, v.data)
    BY <1>1 DEF CachedCopyIsAVersion
  <1> QED
    BY <1>1 DEF CachedCopyIsAVersion

\* open keeps what it knows of the file it validates or fetches.
LEMMA OpenFetch ==
    ASSUME CloseInv, FetchInv, Alone, NEW u \in Procs,
           \/ GetFileStat(u) \/ TestAuth(u) \/ AuthReply(u)
           \/ FetchCall(u) \/ FetchReply(u) \/ FetchEnd(u)
    PROVE  CachedCopyIsAVersion' /\ FetchAt(u)'
  <1>0. Types /\ RpcAt(u) /\ OpenAt(u) /\ FetchAt(u) /\ CachedCopyIsAVersion
    BY DEF CloseInv, FetchInv
  <1>1. UNCHANGED <<cache, spoilt, hist, file>>
    BY DEF GetFileStat, TestAuth, AuthReply, FetchCall, FetchReply, FetchEnd, serverVars, diskVars
  <1>2. CachedCopyIsAVersion'
    BY <1>0, <1>1, CopiesStay
  <1>3. CASE GetFileStat(u)
    <2>1. pc'[u] \in {"open_test", "idle"}
      BY <1>0, <1>3 DEF GetFileStat, Leave, Goto, Types
    <2> QED
      BY <1>2, <2>1 DEF FetchAt, FetchLabels
  <1>4. CASE TestAuth(u)
    <2>1. CASE pc'[u] = "fetch"
      BY <1>2, <2>1 DEF FetchAt, FetchLabels
    <2>2. CASE /\ Cached(u) # NoFile /\ pc'[u] = "auth"
               /\ Call(u, [op |-> "TestAuth", path |-> path[u], time |-> Cached(u).mtime])
      <3>1. reply'[u] = NoReply /\ req'[u].time = Cached(u).mtime /\ Cached(u)' = Cached(u)
        BY <1>0, <1>1, <1>4, <2>2 DEF Call, Types, Cached, TestAuth
      <3> QED
        BY <1>2, <2>2, <3>1 DEF FetchAt, FetchLabels, NoReply
    <2> QED
      BY <1>0, <1>4, <2>1, <2>2 DEF TestAuth, Goto, Types
  <1>5. CASE AuthReply(u)
    <2>1. pc[u] = "auth" /\ UNCHANGED <<path, seen>>
            /\ pc'[u] = IF reply[u].status # "OK" \/ reply[u].changed THEN "fetch" ELSE "opened"
      BY <1>0, <1>5 DEF AuthReply, Goto, Types, ghostVars
    <2>2. Content(u)' = Content(u)
      BY <1>1, <2>1 DEF Content, Cached
    <2>3. pc'[u] = "opened" =>
            path[u] \in spoilt[Host[u]] \/ \E v \in seen[u] \ {NoFile} : v.data = Content(u)
      BY <1>0, <2>1 DEF FetchAt
    <2> QED
      BY <1>1, <1>2, <2>1, <2>2, <2>3 DEF FetchAt, FetchLabels
  <1>6. CASE FetchCall(u)
    <2>1. pc'[u] \in {"trunc", "fetched"} /\ reply'[u] = NoReply /\ read'[u] = NoFile
      BY <1>0, <1>6 DEF FetchCall, Call, Goto, Types
    <2>2. StreamAt(u)' /\ UnaryAt(u)'
      BY <2>1 DEF StreamAt, UnaryAt, Succeeded, NoReply
    <2> QED
      BY <1>2, <2>1, <2>2 DEF FetchAt
  <1>7. CASE FetchReply(u)
    <2>1. CASE Leave(u)
      <3>1. pc'[u] = "idle"
        BY <1>0, <2>1 DEF Leave, Goto, Types
      <3> QED
        BY <1>2, <3>1 DEF FetchAt, FetchLabels
    <2>2. CASE Goto(u, "trunc") /\ UNCHANGED <<path, rpcVars, ghostVars>>
      <3>1. /\ pc[u] = "fetched" /\ pc'[u] = "trunc" /\ reply' = reply /\ read' = read
            /\ UNCHANGED <<path, seen>> /\ ~Streaming
        BY <1>0, <1>7, <2>2 DEF FetchReply, Goto, Types, rpcVars, ghostVars, RpcAt
      <3>2. UnaryAt(u)'
        BY <1>0, <1>1, <3>1 DEF FetchAt, FetchLabels, UnaryAt, Succeeded
      <3> QED
        BY <1>2, <3>1, <3>2 DEF FetchAt
    <2> QED
      BY <1>7, <2>1, <2>2 DEF FetchReply
  <1>8. CASE FetchEnd(u)
    <2>1. /\ pc[u] = "recv" /\ pc'[u] = "stamp" /\ Streaming /\ reply[u] # NoReply
          /\ UNCHANGED <<path, seen, reply, count>>
          /\ reply[u].status = "OK" => count[u] = Len(reply[u].data)
      BY <1>0, <1>8 DEF FetchEnd, Goto, Types, rpcVars, ghostVars, RpcAt
    <2>2. Cached(u)' = Cached(u) /\ Content(u)' = Content(u)
      BY <1>1, <2>1 DEF Cached, Content
    <2>3. StreamAt(u)'
      BY <1>0, <1>1, <2>1 DEF FetchAt, FetchLabels, StreamAt, Fetched
    <2> QED
      BY <1>0, <1>2, <2>1, <2>2, <2>3 DEF FetchAt, FetchLabels
  <1> QED
    BY <1>3, <1>4, <1>5, <1>6, <1>7, <1>8

\* What is written to the cached file is what was fetched, in order and from the start;
\* when it is stamped it is the version fetched, or it is spoilt.
LEMMA FillFetch ==
    ASSUME CloseInv, FetchInv, Alone, NEW u \in Procs,
           \/ Trunc(u) \/ FetchWrite(u) \/ FetchChunk(u) \/ Stamp(u) \/ Opened(u)
    PROVE  CachedCopyIsAVersion' /\ FetchAt(u)'
  <1>0. Types /\ ServerInv /\ RpcAt(u) /\ OpenAt(u) /\ FetchAt(u) /\ CachedCopyIsAVersion
    BY DEF CloseInv, FetchInv
  <1>1. UNCHANGED <<file, hist, path>>
    BY DEF Trunc, FetchWrite, FetchChunk, Stamp, Opened, serverVars
  <1>2. pc[u] \in {"trunc", "write", "recv", "stamp", "opened"} /\ path[u] \in Paths
    BY <1>0 DEF Trunc, FetchWrite, FetchChunk, Stamp, Opened, RpcAt
  <1>3. ASSUME NEW s \in Contents, WriteCache(u, s), UNCHANGED spoilt
        PROVE  CachedCopyIsAVersion' /\ Cached(u)' # NoFile /\ Content(u)' = s
    <2> DEFINE v == [data |-> s, mtime |-> Local]
    <2>1. v \in Copies /\ SetCache(u, v) /\ Cached(u)' # NoFile /\ Content(u)' = s
      BY <1>0, <1>1, <1>2, <1>3, Written
    <2>2. v.mtime = Local
      OBVIOUS
    <2>3. SpoilsOnly(u)
      BY <1>0, <1>2, <1>3, Spoiling
    <2> HIDE DEF v
    <2> QED
      BY <1>0, <1>1, <1>2, <2>1, <2>2, <2>3, CopyStays
  <1>4. CASE Trunc(u)
    <2>1. /\ pc[u] = "trunc" /\ pc'[u] = (IF Streaming THEN "recv" ELSE "write")
          /\ WriteCache(u, <<>>) /\ count[u] = 0
          /\ UNCHANGED <<spoilt, reply, read, seen, count>>
      BY <1>0, <1>4 DEF Trunc, Goto, Types, RpcAt, rpcVars, ghostVars
    <2>2. <<>> \in Contents /\ Len(<<>>) = 0
      BY EmptySeq DEF Contents
    <2>3. CachedCopyIsAVersion' /\ Cached(u)' # NoFile /\ Content(u)' = <<>>
      BY <1>3, <2>1, <2>2
    <2>4. (Streaming => StreamAt(u)') /\ (~Streaming => UnaryAt(u)')
      BY <1>0, <1>1, <2>1 DEF FetchAt, FetchLabels, StreamAt, UnaryAt, Fetched, Succeeded
    <2>5. reply[u] # NoReply => Len(reply[u].data) \in Nat
      BY <1>0, LenProperties DEF Types, ClientReply, Contents
    <2> QED
      BY <2>1, <2>2, <2>3, <2>4, <2>5 DEF FetchAt
  <1>5. CASE FetchWrite(u)
    <2>1. /\ pc[u] = "write" /\ pc'[u] = "stamp" /\ ~Streaming /\ Succeeded(u)
          /\ WriteCache(u, Overlay(Content(u), reply[u].data))
          /\ UNCHANGED <<spoilt, reply, read, seen, count>>
      BY <1>0, <1>5 DEF FetchWrite, Goto, Types, RpcAt, rpcVars, ghostVars
    <2>2. reply[u].data \in Contents
      BY <1>0, <2>1 DEF Succeeded, Types, ClientReply, NoReply
    <2>3. Overlay(Content(u), reply[u].data) = reply[u].data
      BY <1>0, <2>1, <2>2, OverlayContent DEF FetchAt
    <2>4. CachedCopyIsAVersion' /\ Cached(u)' # NoFile /\ Content(u)' = reply[u].data
      BY <1>3, <2>1, <2>2, <2>3
    <2>5. UnaryAt(u)'
      BY <1>0, <1>1, <2>1 DEF FetchAt, FetchLabels, UnaryAt, Succeeded
    <2> QED
      BY <2>1, <2>4, <2>5 DEF FetchAt
  <1>6. CASE FetchChunk(u)
    <2> DEFINE d == reply[u].data[count[u] + 1]
    <2>1. /\ pc[u] = "recv" /\ pc'[u] = "recv" /\ reply[u] # NoReply
          /\ count[u] < Len(reply[u].data) /\ count'[u] = count[u] + 1
          /\ WriteCache(u, Put(Content(u), count[u] + 1, d))
          /\ Streaming /\ UNCHANGED <<spoilt, reply, seen>>
      BY <1>0, <1>6 DEF FetchChunk, Types, rpcVars, ghostVars, RpcAt
    <2>2. /\ reply[u].data \in Seq(Data) /\ Len(reply[u].data) \in Nat /\ count[u] \in Nat
      BY <1>0, <2>1, LenProperties DEF Types, ClientReply, Contents
    <2>3. count[u] + 1 \in 1 .. Len(reply[u].data)
      BY <2>1, <2>2
    <2>4. d \in Data
      BY <2>2, <2>3, ElementOfSeq
    <2>5. Content(u) \in Contents
      BY <1>0, <1>2, ContentOf
    <2>6. Len(Content(u)) = count[u]
            /\ \A i \in 1 .. count[u] : Content(u)[i] = reply[u].data[i]
      BY <1>0, <2>1 DEF FetchAt
    <2>7. Longer(count[u], count[u] + 1) = count[u] + 1
      BY <2>2 DEF Longer
    <2> DEFINE s == Put(Content(u), count[u] + 1, d)
    <2> HIDE DEF d
    <2>8. /\ s \in Contents /\ Len(s) = count[u] + 1
          /\ \A j \in 1 .. count[u] + 1 :
               s[j] = IF j = count[u] + 1 THEN d ELSE IF j <= count[u] THEN Content(u)[j] ELSE Hole
      <3>1. count[u] + 1 \in Nat \ {0}
        BY <2>2
      <3>2. /\ s \in Contents /\ Len(s) = Longer(Len(Content(u)), count[u] + 1)
            /\ \A j \in 1 .. Longer(Len(Content(u)), count[u] + 1) :
                 s[j] = IF j = count[u] + 1 THEN d
                        ELSE IF j <= Len(Content(u)) THEN Content(u)[j] ELSE Hole
        BY <2>4, <2>5, <3>1, PutChunk
      <3>3. Len(Content(u)) = count[u]
        BY <2>6
      <3> HIDE DEF s
      <3> QED
        BY <2>7, <3>2, <3>3
    <2> HIDE DEF s
    <2>9. \A i \in 1 .. count[u] + 1 : s[i] = reply[u].data[i]
      BY <2>2, <2>6, <2>8 DEF d
    <2>10. CachedCopyIsAVersion' /\ Cached(u)' # NoFile /\ Content(u)' = s
      BY <1>3, <2>1, <2>8 DEF s
    <2>11. StreamAt(u)'
      BY <1>0, <1>1, <2>1 DEF FetchAt, FetchLabels, StreamAt, Fetched
    <2>12. count[u] + 1 <= Len(reply[u].data)
      BY <2>3
    <2> QED
      BY <2>1, <2>8, <2>9, <2>10, <2>11, <2>12 DEF FetchAt
  <1>7. CASE Stamp(u)
    <2> DEFINE t == IF Streaming /\ count[u] = 0 THEN 0 ELSE reply[u].mtime
    <2>1. /\ pc[u] = "stamp" /\ pc'[u] = "opened" /\ StampCache(u, t)
          /\ Spoil(u, IF Torn(u) THEN spoilt[Host[u]] \union {path[u]}
                                ELSE spoilt[Host[u]] \ {path[u]})
          /\ UNCHANGED seen
      BY <1>0, <1>7 DEF Stamp, Goto, Types, ghostVars
    <2>2. /\ Cached(u) # NoFile /\ reply[u] # NoReply
          /\ reply[u].data \in Contents /\ reply[u].mtime \in Nat /\ count[u] \in Nat
          /\ Content(u) \in Contents /\ Host[u] \in Clients
      BY <1>0, <1>2, <2>1, ContentOf DEF FetchAt, RpcAt, Types, ClientReply
    <2>3. t \in Nat
      BY <2>2
    <2>4. /\ SpoilsOnly(u)
          /\ path[u] \in spoilt'[Host[u]] <=> Torn(u)
      <3>1. SpoilsOnly(u)
        BY <1>0, <1>2, <2>1, Spoiling
      <3>2. path[u] \in spoilt'[Host[u]] <=> Torn(u)
        BY <1>0, <2>1, <2>2 DEF Spoil, Types
      <3> QED
        BY <3>1, <3>2
    <2>5. Len(Content(u)) \in Nat /\ Len(reply[u].data) \in Nat
            /\ (reply[u].data = <<>> => Len(reply[u].data) = 0)
      BY <2>2, LenProperties, EmptySeq DEF Contents
    <2>6. ASSUME Streaming
          PROVE  /\ t # 0 /\ ~Torn(u) => [data |-> Content(u), mtime |-> t] \in hist[path[u]]
                 /\ t # 0 => \E v \in hist[path[u]] : v.mtime <= t /\ Begins(Content(u), v.data)
                 /\ ~Torn(u) =>
                      \E v \in seen[u] : Content(u) = IF v = NoFile THEN <<>> ELSE v.data
      <3>1. /\ StreamAt(u) /\ Len(Content(u)) = count[u] /\ count[u] <= Len(reply[u].data)
            /\ \A i \in 1 .. count[u] : Content(u)[i] = reply[u].data[i]
            /\ reply[u].status = "OK" => count[u] = Len(reply[u].data)
        BY <1>0, <2>1, <2>2, <2>6 DEF FetchAt, FetchLabels
      <3>2. t # 0 => t = reply[u].mtime /\ count[u] # 0
        BY <2>6
      <3>3. count[u] # 0 => Fetched(u) \in seen[u] /\ Fetched(u) \in hist[path[u]]
        BY <2>2, <2>5, <3>1 DEF StreamAt
      <3>4. Begins(Content(u), reply[u].data)
        BY <3>1 DEF Begins
      <3>5. Len(Content(u)) = Len(reply[u].data) => Content(u) = reply[u].data
        BY <2>2, <3>1, SameContent
      <3>6. ~Torn(u) /\ (reply[u].status = "OK" \/ reply[u].status = "UNAVAILABLE")
              => count[u] = Len(reply[u].data)
        BY <2>2, <2>5, <2>6, <3>1 DEF Torn
      <3>7. count[u] # 0 /\ ~Torn(u) => count[u] = Len(reply[u].data)
        BY <2>5, <3>1, <3>6, <2>2 DEF StreamAt
      <3>8. Fetched(u).data = reply[u].data /\ Fetched(u).mtime = reply[u].mtime
        BY DEF Fetched
      <3>9. t # 0 /\ ~Torn(u) => [data |-> Content(u), mtime |-> t] \in hist[path[u]]
        BY <3>1, <3>2, <3>3, <3>5, <3>7 DEF Fetched
      <3>10. t # 0 => \E v \in hist[path[u]] : v.mtime <= t /\ Begins(Content(u), v.data)
        BY <2>2, <3>2, <3>3, <3>4, <3>8
      <3>11. ASSUME ~Torn(u)
             PROVE  \E v \in seen[u] : Content(u) = IF v = NoFile THEN <<>> ELSE v.data
        <4>1. CASE Fetched(u) \in seen[u] /\ reply[u].status \in {"OK", "UNAVAILABLE"}
          <5>1. Content(u) = Fetched(u).data
            BY <3>1, <3>5, <3>6, <3>8, <3>11, <4>1
          <5>2. Fetched(u) \in Versions
            BY <2>2 DEF Fetched, Versions
          <5>3. Fetched(u) # NoFile
            BY <5>2, NoFileIsNone
          <5> QED
            BY <4>1, <5>1, <5>3
        <4>2. CASE /\ reply[u].data = <<>> /\ reply[u].status # "OK"
                   /\ reply[u].status = "UNAVAILABLE" \/ NoFile \in seen[u]
          <5>1. count[u] = 0
            BY <2>2, <2>5, <3>1, <4>2
          <5>2. reply[u].status # "UNAVAILABLE"
            BY <2>6, <3>11, <5>1 DEF Torn
          <5>3. Content(u) = <<>>
            BY <2>5, <3>1, <3>5, <4>2, <5>1
          <5> QED
            BY <4>2, <5>2, <5>3
        <4> QED
          BY <2>2, <3>1, <4>1, <4>2 DEF StreamAt
      <3> QED
        BY <3>9, <3>10, <3>11
    <2>7. ASSUME ~Streaming
          PROVE  /\ ~Torn(u) => [data |-> Content(u), mtime |-> t] \in hist[path[u]]
                 /\ \E v \in hist[path[u]] : v.mtime <= t /\ Begins(Content(u), v.data)
                 /\ ~Torn(u) =>
                      \E v \in seen[u] : Content(u) = IF v = NoFile THEN <<>> ELSE v.data
      <3>1. Succeeded(u) /\ UnaryAt(u) /\ Content(u) = reply[u].data /\ t = reply[u].mtime
        BY <1>0, <2>1, <2>7 DEF FetchAt, FetchLabels, RpcAt
      <3>2. read[u] \in hist[path[u]] /\ reply[u].data = read[u].data /\ read[u] \in Versions
        BY <1>0, <1>2, <3>1 DEF UnaryAt, Types
      <3>3. PICK v \in seen[u] \ {NoFile} :
              v \in hist[path[u]] /\ v.mtime = reply[u].mtime /\ read[u].mtime <= v.mtime
        BY <3>1 DEF UnaryAt
      <3>4. ~Torn(u) => read[u] = v
        BY <1>0, <1>2, <2>7, <3>2, <3>3 DEF Torn, ServerInv
      <3>5. read[u] = [data |-> read[u].data, mtime |-> read[u].mtime]
        BY <3>2 DEF Versions
      <3>6. ~Torn(u) => [data |-> Content(u), mtime |-> t] \in hist[path[u]]
        BY <3>1, <3>2, <3>3, <3>4, <3>5
      <3>7. Begins(Content(u), read[u].data)
        BY <2>2, <3>1, <3>2, BeginsItself
      <3> QED
        BY <3>1, <3>2, <3>3, <3>4, <3>6, <3>7
    <2> HIDE DEF t
    <2>8. Content(u)' = Content(u)
      BY <1>0, <1>1, <1>2, <2>1, <2>3, Stamped
    <2> DEFINE x == [Cached(u) EXCEPT !.mtime = t]
    <2>9. x \in Copies /\ SetCache(u, x)
      BY <1>0, <1>1, <1>2, <2>1, <2>2, <2>3, Stamped
    <2>10. x = [data |-> Content(u), mtime |-> t] /\ x.mtime = t /\ x.data = Content(u)
      <3>1. Cached(u) \in Copies /\ Content(u) = Cached(u).data
        BY <1>0, <1>2, <2>2, ContentOf DEF Content
      <3> QED
        BY <3>1 DEF Copies
    <2> HIDE DEF x
    <2>11. x.mtime \notin {0, Local} =>
             x \in hist[path[u]] \/ (path[u] \in spoilt'[Host[u]] /\ OneVersion(x, path[u]))
      BY <2>4, <2>6, <2>7, <2>10 DEF OneVersion
    <2>12. CachedCopyIsAVersion'
      BY <1>0, <1>1, <1>2, <2>4, <2>9, <2>11, CopyStays
    <2>13. path[u] \notin spoilt'[Host[u]] =>
             \E v \in seen[u] : Content(u) = IF v = NoFile THEN <<>> ELSE v.data
      BY <2>4, <2>6, <2>7
    <2> QED
      BY <1>1, <2>1, <2>8, <2>12, <2>13 DEF FetchAt, FetchLabels
  <1>8. CASE Opened(u)
    <2>1. /\ pc'[u] = "open" /\ UNCHANGED spoilt
          /\ IF Cached(u) = NoFile THEN WriteCache(u, <<>>) ELSE UNCHANGED cache
      BY <1>0, <1>8 DEF Opened, Goto, Types
    <2>2. <<>> \in Contents
      BY EmptySeq DEF Contents
    <2>3. CachedCopyIsAVersion'
      BY <1>0, <1>1, <1>3, <2>1, <2>2, CopiesStay
    <2> QED
      BY <2>1, <2>3 DEF FetchAt, FetchLabels
  <1> QED
    BY <1>4, <1>5, <1>6, <1>7, <1>8

\* The other steps of a process that touch a cache write to it, stamp it with the time
\* of the version they stored, or remove the file.
LEMMA RestFetch ==
    ASSUME CloseInv, FetchInv, Alone, NEW u \in Procs,
           \/ Ask(u) \/ Retry(u) \/ Log(u) \/ CheckModified(u) \/ StoreCall(u) \/ StreamCall(u)
           \/ SendChunk(u) \/ SendEnd(u) \/ StreamAgain(u) \/ StoreReply(u) \/ ClearLog(u)
           \/ Restamp(u) \/ Closed(u) \/ CreateFile(u) \/ DeleteFile(u)
    PROVE  CachedCopyIsAVersion' /\ FetchAt(u)'
  <1>0. Types /\ RpcAt(u) /\ OpenAt(u) /\ FetchAt(u) /\ CachedCopyIsAVersion
    BY DEF CloseInv, FetchInv
  <1>1. ASSUME NEW s \in Contents, WriteCache(u, s), UNCHANGED <<hist, spoilt>>, path[u] \in Paths
        PROVE  CachedCopyIsAVersion'
    <2> DEFINE v == [data |-> s, mtime |-> Local]
    <2>1. v \in Copies /\ SetCache(u, v) /\ v.mtime = Local
      BY <1>1 DEF Copies, WriteCache
    <2>2. SpoilsOnly(u)
      BY <1>0, <1>1, Spoiling
    <2> HIDE DEF v
    <2> QED
      BY <1>0, <1>1, <2>1, <2>2, CopyStays
  <1>2. ASSUME UNCHANGED <<cache, spoilt, hist>> PROVE CachedCopyIsAVersion'
    BY <1>0, <1>2, CopiesStay
  <1>3. ASSUME pc'[u] \in Labels \ (FetchLabels \union {"auth", "opened"}) PROVE FetchAt(u)'
    BY <1>3 DEF FetchAt, FetchLabels
  <1> USE DEF Labels, FetchLabels, Goto, Types
  <1>4. CASE Ask(u)
    <2>1. ASSUME NEW p \in Paths, Open(u, p) \/ Create(u, p) \/ Delete(u, p)
          PROVE  CachedCopyIsAVersion' /\ FetchAt(u)'
      <3>1. pc'[u] \in {"lookup", "mknod", "unlink"} /\ UNCHANGED <<cache, spoilt, hist>>
        BY <1>0, <2>1 DEF Open, Create, Delete, serverVars, diskVars
      <3> QED
        BY <1>2, <1>3, <3>1
    <2>2. ASSUME NEW i \in 1 .. Chunks, NEW d \in Data \ {Hole}, Write(u, i, d)
          PROVE  CachedCopyIsAVersion' /\ FetchAt(u)'
      <3>1. pc'[u] = "log" /\ UNCHANGED <<hist, spoilt>> /\ WriteCache(u, Put(Content(u), i, d))
              /\ path[u] \in Paths
        BY <1>0, <2>2 DEF Write, serverVars, RpcAt
      <3>3. i \in Nat \ {0} /\ d \in Data /\ Content(u) \in Contents
        BY <1>0, <3>1, ChunksAssumption, ContentOf
      <3>2. Put(Content(u), i, d) \in Contents
        BY <3>3, PutChunk
      <3> QED
        BY <1>1, <1>3, <3>1, <3>2
    <2>3. CASE Close(u)
      <3>1. pc'[u] = "close" /\ UNCHANGED <<cache, spoilt, hist>>
        BY <1>0, <2>3 DEF Close, serverVars, diskVars
      <3> QED
        BY <1>2, <1>3, <3>1
    <2> QED
      BY <1>4, <2>1, <2>2, <2>3 DEF Ask
  <1>5. CASE Retry(u)
    <2>1. /\ reply[u].status = "UNAVAILABLE" /\ reply'[u] = NoReply /\ req'[u] = req[u] /\ read'[u] = NoFile
          /\ req[u].op \notin {"FetchWithStream", "StoreWithStream"}
          /\ UNCHANGED <<cache, spoilt, hist, file, pc, path, count, seen>>
      BY <1>0, <1>5 DEF Retry, MayRetry, Call, serverVars, diskVars, ghostVars
    <2>2. ~Succeeded(u) /\ ~Succeeded(u)'
      BY <2>1 DEF Succeeded, NoReply
    <2>3. pc[u] \notin {"trunc", "write", "stamp", "recv"} /\ (pc[u] = "fetched" => ~Streaming)
      BY <1>0, <2>1, <2>2 DEF RpcAt
    <2>4. Cached(u)' = Cached(u) /\ Content(u)' = Content(u)
      BY <2>1 DEF Cached, Content
    <2>6. UnaryAt(u)'
      BY <2>1, <2>2 DEF UnaryAt
    <2>7. pc[u] \in FetchLabels => ~Streaming
      BY <1>0, <2>1 DEF RpcAt
    <2>5. FetchAt(u)'
      BY <1>0, <2>1, <2>3, <2>4, <2>6, <2>7 DEF FetchAt, NoReply
    <2> QED
      BY <1>2, <2>1, <2>5
  <1>6. CASE \/ Log(u) \/ CheckModified(u) \/ StoreCall(u) \/ StreamCall(u) \/ SendEnd(u)
             \/ StreamAgain(u) \/ StoreReply(u) \/ ClearLog(u) \/ Closed(u)
    <2>1. UNCHANGED <<cache, spoilt, hist>>
      BY <1>6 DEF Log, CheckModified, StoreCall, StreamCall, SendEnd, StreamAgain, StoreReply,
           ClearLog, Closed, serverVars, diskVars
    <2>2. pc'[u] \in {"open", "store", "closed", "stored", "send", "idle", "restamp", "clear"}
      BY <1>0, <1>6 DEF Log, CheckModified, StoreCall, StreamCall, SendEnd, StreamAgain,
           StoreReply, ClearLog, Closed, Leave
    <2> QED
      BY <1>2, <1>3, <2>1, <2>2
  <1>7. CASE SendChunk(u)
    <2>1. pc'[u] = "send" /\ UNCHANGED <<cache, spoilt, hist>>
      BY <1>7 DEF SendChunk, serverVars, diskVars
    <2> QED
      BY <1>2, <1>3, <2>1
  <1>8. CASE Restamp(u)
    <2>1. /\ pc[u] = "restamp" /\ pc'[u] = "closed" /\ StampCache(u, reply[u].mtime)
          /\ UNCHANGED <<hist, path>> /\ path[u] \in Paths
          /\ Spoil(u, spoilt[Host[u]] \ {path[u]})
      BY <1>0, <1>8 DEF Restamp, serverVars, RpcAt
    <2>2. Cached(u) # NoFile /\ req[u].data = Content(u) /\ StoreDone(u) /\ Succeeded(u)
      BY <1>0, <2>1 DEF OpenAt, OpenLabels, StoreLabels
    <2>3. reply[u].mtime \in Nat
      BY <1>0, <2>2 DEF Succeeded, NoReply, ClientReply
    <2> DEFINE x == [Cached(u) EXCEPT !.mtime = reply[u].mtime]
    <2>4. x \in Copies /\ SetCache(u, x)
      BY <1>0, <2>1, <2>2, <2>3, Stamped
    <2>5. x = [data |-> Content(u), mtime |-> reply[u].mtime]
      <3>1. Cached(u) \in Copies /\ Content(u) = Cached(u).data
        BY <1>0, <2>1, <2>2, ContentOf DEF Content
      <3> QED
        BY <3>1 DEF Copies
    <2>6. x \in hist[path[u]]
      BY <2>2, <2>5 DEF StoreDone
    <2> HIDE DEF x
    <2>8. SpoilsOnly(u)
      BY <1>0, <2>1, Spoiling
    <2>7. CachedCopyIsAVersion'
      BY <1>0, <2>1, <2>4, <2>6, <2>8, CopyStays
    <2> QED
      BY <1>3, <2>1, <2>7
  <1>9. CASE CreateFile(u)
    <2>1. /\ pc'[u] = "idle" /\ UNCHANGED <<hist, spoilt>> /\ path[u] \in Paths
          /\ WriteCache(u, <<>>) \/ UNCHANGED cache
      BY <1>0, <1>9 DEF CreateFile, Leave, serverVars, RpcAt
    <2>2. <<>> \in Contents
      BY EmptySeq DEF Contents
    <2> QED
      BY <1>1, <1>2, <1>3, <2>1, <2>2
  <1>10. CASE DeleteFile(u)
    <2>1. /\ pc'[u] = "idle" /\ UNCHANGED hist /\ path[u] \in Paths
          /\ \/ SetCache(u, NoFile) /\ Spoil(u, spoilt[Host[u]] \ {path[u]})
             \/ UNCHANGED <<cache, spoilt>>
      BY <1>0, <1>10 DEF DeleteFile, Leave, serverVars, RpcAt
    <2>2. SetCache(u, NoFile) /\ Spoil(u, spoilt[Host[u]] \ {path[u]}) => CachedCopyIsAVersion'
      <3> SUFFICES ASSUME SetCache(u, NoFile), Spoil(u, spoilt[Host[u]] \ {path[u]})
                   PROVE  CachedCopyIsAVersion'
        OBVIOUS
      <3>1. SpoilsOnly(u)
        BY <1>0, <2>1, Spoiling
      <3> QED
        BY <1>0, <2>1, <3>1, CopyStays
    <2> QED
      BY <1>2, <1>3, <2>1, <2>2
  <1> QED
    BY <1>4, <1>5, <1>6, <1>7, <1>8, <1>9, <1>10

\* What the server reads for a Fetch is a version.
LEMMA ReadFetch ==
    ASSUME CloseInv, FetchInv, NEW u \in Procs, FetchRead(u)
    PROVE  CachedCopyIsAVersion' /\ FetchAt(u)'
  <1>0. Types /\ ServerInv /\ RpcAt(u) /\ FetchAt(u) /\ CachedCopyIsAVersion
    BY DEF CloseInv, FetchInv
  <1>1. /\ reply[u] = NoReply /\ req[u] # NoRequest /\ req[u].op = "Fetch"
        /\ file[req[u].path] # NoFile
        /\ read' = [read EXCEPT ![u] = file[req[u].path]]
        /\ UNCHANGED <<file, hist, cache, spoilt, pc, path, req, reply, count, seen>>
    BY DEF FetchRead, serverVars, diskVars, ghostVars
  <1>2. pc[u] \in CallLabels /\ req[u].path = path[u] /\ path[u] \in Paths
    BY <1>0, <1>1 DEF RpcAt, CallLabels, FetchLabels, StoreLabels
  <1>3. pc[u] = "fetched" /\ ~Streaming
    BY <1>0, <1>1, <1>2 DEF RpcAt, CallLabels, FetchLabels, StoreLabels, Succeeded, NoReply
  <1>4. CachedCopyIsAVersion'
    BY <1>0, <1>1, CopiesStay
  <1>5. read'[u] \in hist'[path'[u]]
    BY <1>0, <1>1, <1>2 DEF ServerInv, Types
  <1>6. ~Succeeded(u)'
    BY <1>1 DEF Succeeded, NoReply
  <1> QED
    BY <1>1, <1>3, <1>4, <1>5, <1>6 DEF FetchAt, UnaryAt

\* The server answers an opening process with a version that it sees, or that there is
\* none, but that the content of a Fetch may be older; if it finds the copy unchanged,
\* the copy is that version, or was spoilt.
LEMMA ServeFetch ==
    ASSUME CloseInv, FetchInv, NEW u \in Procs, Serve(u)
    PROVE  CachedCopyIsAVersion' /\ FetchAt(u)'
  <1>0. Types /\ ServerInv /\ RpcAt(u) /\ OpenAt(u) /\ FetchAt(u) /\ CachedCopyIsAVersion
    BY DEF CloseInv, FetchInv
  <1>1. /\ req[u] # NoRequest /\ reply[u] = NoReply
        /\ req[u].op = "Fetch" => read[u] # NoFile \/ file[req[u].path] = NoFile
        /\ Effect(req[u])
        /\ reply' = [reply EXCEPT ![u] = AnswerTo(req[u], read[u])]
        /\ UNCHANGED <<cache, spoilt, pc, path, req, read, count>>
    BY DEF Serve, diskVars
  <1>2. /\ pc[u] \in CallLabels /\ req[u] \in ClientRequest /\ req[u].path = path[u]
        /\ path[u] \in Paths /\ read[u] \in Files
    BY <1>0, <1>1 DEF RpcAt, CallLabels, FetchLabels, StoreLabels, Types
  <1>3. reply'[u] = AnswerTo(req[u], read[u]) /\ reply'[u] \in ClientReply
    BY <1>0, <1>1, <1>2, Answers DEF Types
  <1>4. CachedCopyIsAVersion'
    BY <1>0, <1>1, <1>2, Effects, CopiesStay
  <1>5. Cached(u)' = Cached(u) /\ Content(u)' = Content(u)
    BY <1>1 DEF Cached, Content
  <1> DEFINE f == file[path[u]]
  <1>6. /\ pc[u] \in OpeningLabels => f \in seen[u]
        /\ f # NoFile => /\ f \in hist[path[u]] /\ f \in Versions /\ f.mtime \in 1 .. clock
                         /\ \A v \in hist[path[u]] : v.mtime <= f.mtime
        /\ clock \in Nat
    BY <1>0, <1>2 DEF OpenAt, ServerInv, Types
  <1>7. CASE pc[u] = "auth"
    <2>1. req[u].op = "TestAuth" /\ Cached(u) # NoFile /\ req[u].time = Cached(u).mtime
      BY <1>0, <1>7 DEF RpcAt, FetchAt
    <2>2. UNCHANGED <<hist, seen>>
      BY <1>0, <1>1, <1>2, <2>1, Effects DEF ReadOps
    <2>3. ASSUME ~reply'[u].changed
          PROVE  path[u] \in spoilt[Host[u]] \/ \E v \in seen[u] \ {NoFile} : v.data = Content(u)
      <3>1. f # NoFile /\ f.mtime = Cached(u).mtime
        BY <1>0, <1>2, <1>3, <2>1, <2>3, <1>1, Answers
      <3>2. Cached(u).mtime \notin {0, Local}
        BY <1>6, <3>1, ClientAssumption
      <3>3. Cached(u) \in hist[path[u]] \/ path[u] \in spoilt[Host[u]]
        BY <1>0, <1>2, <2>1, <3>2, ClientAssumption DEF CachedCopyIsAVersion, Cached
      <3>4. Cached(u) \in hist[path[u]] => Cached(u) = f
        BY <1>0, <1>2, <1>6, <3>1 DEF ServerInv
      <3>5. f \in seen[u] /\ (Cached(u) = f => f.data = Content(u))
        BY <1>6, <1>7, <2>1 DEF OpeningLabels, Content
      <3> QED
        BY <3>1, <3>3, <3>4, <3>5
    <2> QED
      BY <1>1, <1>4, <1>5, <1>7, <2>1, <2>2, <2>3 DEF FetchAt, FetchLabels
  <1>8. CASE pc[u] \in FetchLabels
    <2>1. req[u].op = IF Streaming THEN "FetchWithStream" ELSE "Fetch"
      BY <1>0, <1>8 DEF RpcAt
    <2>2. UNCHANGED <<hist, seen>>
      BY <1>0, <1>1, <1>2, <2>1, Effects DEF ReadOps
    <2>3. f \in seen[u]
      BY <1>6, <1>8 DEF OpeningLabels
    <2>4. /\ f = NoFile => reply'[u].data = <<>> /\ ~Succeeded(u)'
          /\ f = NoFile /\ Streaming => reply'[u].status # "OK"
          /\ f # NoFile => /\ reply'[u].data = IF Streaming THEN f.data ELSE read[u].data
                           /\ reply'[u].mtime = f.mtime
                           /\ reply'[u].status = "OK"
      BY <1>0, <1>1, <1>2, <1>3, <2>1, Answers DEF Succeeded
    <2>5. f # NoFile => f = [data |-> f.data, mtime |-> f.mtime]
      BY <1>6 DEF Versions
    <2>6. Streaming => StreamAt(u)'
      BY <1>1, <1>6, <2>2, <2>3, <2>4, <2>5 DEF StreamAt, Fetched
    <2>7. ~Streaming => UnaryAt(u)'
      <3> SUFFICES ASSUME ~Streaming PROVE UnaryAt(u)'
        OBVIOUS
      <3>1. UnaryAt(u) /\ req[u].op = "Fetch"
        BY <1>0, <1>8, <2>1 DEF FetchAt
      <3>2. Succeeded(u)' => f # NoFile /\ read[u] # NoFile
        BY <1>1, <1>2, <2>4, <3>1
      <3>3. f # NoFile /\ read[u] # NoFile => read[u].mtime <= f.mtime
        BY <1>6, <3>1 DEF UnaryAt
      <3>4. read[u] # NoFile => read'[u] \in hist'[path'[u]]
        BY <1>1, <2>2, <3>1 DEF UnaryAt
      <3>5. f # NoFile => f \in seen'[u] \ {NoFile} /\ f \in hist'[path'[u]]
        BY <1>1, <1>6, <2>2, <2>3
      <3> HIDE DEF f
      <3> QED
        BY <1>1, <2>4, <3>2, <3>3, <3>4, <3>5 DEF UnaryAt
    <2>8. pc[u] \notin {"write", "stamp"}
      BY <1>0, <1>1 DEF RpcAt, Succeeded, NoReply
    <2>9. pc[u] = "recv" =>
            /\ Cached(u) # NoFile /\ Len(Content(u)) = count[u] /\ count[u] = 0
      BY <1>0, <1>1 DEF FetchAt
    <2>10. Len(reply'[u].data) \in Nat
      BY <1>3, LenProperties DEF ClientReply, Contents
    <2>11. pc[u] \notin {"auth", "opened"}
      BY <1>8 DEF FetchLabels
    <2> QED
      BY <1>1, <1>4, <1>5, <1>8, <2>6, <2>7, <2>8, <2>9, <2>10, <2>11 DEF FetchAt
  <1>9. CASE pc[u] \notin FetchLabels \union {"auth"}
    <2>1. pc[u] # "opened"
      BY <1>2 DEF CallLabels, FetchLabels, StoreLabels
    <2> QED
      BY <1>1, <1>4, <1>9, <2>1 DEF FetchAt, FetchLabels
  <1> QED
    BY <1>7, <1>8, <1>9

\* A connection that breaks tells an opening process nothing; of a stream, it keeps what
\* was on its way.
LEMMA BreakFetch ==
    ASSUME CloseInv, FetchInv, NEW u \in Procs, Break(u)
    PROVE  CachedCopyIsAVersion' /\ FetchAt(u)'
  <1>0. Types /\ RpcAt(u) /\ FetchAt(u) /\ CachedCopyIsAVersion
    BY DEF CloseInv, FetchInv
  <1>1. /\ Waits(u)
        /\ reply' = [reply EXCEPT ![u] = IF reply[u] = NoReply THEN Broken
                                         ELSE [reply[u] EXCEPT !.status = "UNAVAILABLE"]]
        /\ UNCHANGED <<file, hist, cache, spoilt, pc, path, req, read, count, seen>>
    BY DEF Break, diskVars, ghostVars
  <1>2. reply'[u] = IF reply[u] = NoReply THEN Broken
                    ELSE [reply[u] EXCEPT !.status = "UNAVAILABLE"]
    BY <1>0, <1>1 DEF Types
  <1>3. Broken.status = "UNAVAILABLE" /\ Broken.data = <<>>
    BY DEF Broken, Blank
  <1>4. reply[u] # NoReply =>
          LET y == [reply[u] EXCEPT !.status = "UNAVAILABLE"] IN
          y.status = "UNAVAILABLE" /\ y.data = reply[u].data /\ y.mtime = reply[u].mtime
    BY <1>0 DEF Types, ClientReply
  <1>5. /\ reply'[u].status = "UNAVAILABLE" /\ reply'[u] # NoReply
        /\ reply[u] = NoReply => reply'[u].data = <<>>
        /\ reply[u] # NoReply => reply'[u].data = reply[u].data /\ reply'[u].mtime = reply[u].mtime
    BY <1>2, <1>3, <1>4 DEF NoReply
  <1>6. ~Succeeded(u)'
    BY <1>5 DEF Succeeded
  <1>7. CachedCopyIsAVersion'
    BY <1>0, <1>1, CopiesStay
  <1>8. pc[u] \notin {"opened", "write", "stamp"} /\ (pc[u] = "trunc" => Streaming)
    BY <1>1 DEF Waits
  <1>9. Cached(u)' = Cached(u) /\ Content(u)' = Content(u)
    BY <1>1 DEF Cached, Content
  <1>10. pc[u] \in FetchLabels /\ Streaming => StreamAt(u)'
    <2> SUFFICES ASSUME pc[u] \in FetchLabels, Streaming PROVE StreamAt(u)'
      OBVIOUS
    <2>1. StreamAt(u)
      BY <1>0 DEF FetchAt
    <2>2. reply[u] # NoReply => Fetched(u)' = Fetched(u)
      BY <1>5 DEF Fetched
    <2> QED
      BY <1>1, <1>5, <2>1, <2>2 DEF StreamAt
  <1>11. pc[u] \in FetchLabels /\ ~Streaming => UnaryAt(u)'
    BY <1>0, <1>1, <1>6 DEF FetchAt, UnaryAt
  <1>12. pc[u] = "recv" =>
           /\ Cached(u) # NoFile /\ Len(Content(u)) = count[u]
           /\ count[u] <= Len(reply'[u].data)
           /\ \A i \in 1 .. count[u] : Content(u)[i] = reply'[u].data[i]
    <2> SUFFICES ASSUME pc[u] = "recv"
                 PROVE  /\ Cached(u) # NoFile /\ Len(Content(u)) = count[u]
                        /\ count[u] <= Len(reply'[u].data)
                        /\ \A i \in 1 .. count[u] : Content(u)[i] = reply'[u].data[i]
      OBVIOUS
    <2>1. CASE reply[u] = NoReply
      BY <1>0, <1>5, <2>1, EmptySeq DEF FetchAt
    <2>2. CASE reply[u] # NoReply
      BY <1>0, <1>5, <2>2 DEF FetchAt
    <2> QED
      BY <2>1, <2>2
  <1>13. FetchAt(u)'
    BY <1>0, <1>1, <1>5, <1>8, <1>9, <1>10, <1>11, <1>12 DEF FetchAt
  <1> QED
    BY <1>7, <1>13

\* What a process knows of a fetch outlives all else.
LEMMA NextFetch ==
    ASSUME CloseInv, FetchInv, Alone, [Next]_vars
    PROVE  FetchInv'
  <1>1. ASSUME NEW u \in Procs, GoesOn(u), CachedCopyIsAVersion', FetchAt(u)' PROVE FetchInv'
    BY <1>1 DEF FetchInv, GoesOn
  <1>2. ASSUME NEW u \in Procs, Ask(u) \/ Step(u) PROVE FetchInv'
    <2>1. GoesOn(u)
      BY <1>2, AskClose, OpenClose, FetchClose, CallClose, StoreClose, StoredClose DEF Step
    <2>2. CachedCopyIsAVersion' /\ FetchAt(u)'
      BY <1>2, OpenFetch, FillFetch, RestFetch DEF Step
    <2> QED
      BY <1>1, <2>1, <2>2
  <1>3. ASSUME NEW u \in Procs, Server(u) PROVE FetchInv'
    BY <1>1, <1>3, ReadClose, ReadFetch, ServeClose, ServeFetch DEF Server
  <1>4. ASSUME NEW u \in Procs, Break(u) PROVE FetchInv'
    BY <1>1, <1>4, BreakClose, BreakFetch
  <1>5. ASSUME NEW r \in late, ServeLate(r) PROVE FetchInv'
    <2>1. Types /\ ServerInv /\ r \in ClientRequest /\ Effect(r)
      BY <1>5 DEF CloseInv, Types, ServeLate
    <2>2. UNCHANGED <<diskVars, pc, path, rpcVars, count, wrote>>
      BY <1>5 DEF ServeLate
    <2>3. ASSUME NEW w \in Procs PROVE FetchAt(w)'
      <3>1. Untouched(w) /\ Witnessed(w)
        BY <2>1, <2>2, AllWitness DEF Untouched, diskVars, rpcVars
      <3> QED
        BY <3>1, Kept DEF CloseInv, FetchInv
    <2>4. CachedCopyIsAVersion'
      BY <2>1, <2>2, Effects, CopiesStay DEF FetchInv, diskVars
    <2> QED
      BY <2>3, <2>4 DEF FetchInv
  <1>6. ASSUME NEW c \in Clients, Crash(c) PROVE FetchInv'
    <2>1. ASSUME NEW u \in Procs PROVE FetchAt(u)'
      <3>1. CASE Host[u] = c
        <4>1. pc'[u] = "idle"
          BY <1>6, <3>1 DEF Crash
        <4> QED
          BY <4>1 DEF FetchAt, FetchLabels
      <3>2. CASE Host[u] # c
        <4>1. Untouched(u) /\ Witnessed(u)
          BY <1>6, <3>2, ClientAssumption DEF CloseInv, Types, Crash, Untouched, Witnessed
        <4> QED
          BY <4>1, Kept DEF CloseInv, FetchInv
      <3> QED
        BY <3>1, <3>2
    <2>2. CachedCopyIsAVersion'
      BY <1>6, CopiesStay DEF Crash, FetchInv
    <2> QED
      BY <2>1, <2>2 DEF FetchInv
  <1>7. CASE UNCHANGED vars
    <2>1. UNCHANGED <<file, hist, cache, spoilt, dirty, pc, path, req, reply, read, count, wrote, seen>>
      BY <1>7 DEF vars, serverVars, diskVars, rpcVars, ghostVars
    <2>2. ASSUME NEW w \in Procs PROVE FetchAt(w)'
      <3>1. Untouched(w) /\ Witnessed(w)
        BY <2>1 DEF Untouched, Witnessed
      <3> QED
        BY <3>1, Kept DEF CloseInv, FetchInv
    <2>3. CachedCopyIsAVersion'
      BY <2>1, CopiesStay DEF FetchInv
    <2> QED
      BY <2>2, <2>3 DEF FetchInv
  <1> QED
    BY <1>2, <1>3, <1>4, <1>5, <1>6, <1>7 DEF Next, Quiescent

\* At first no file is cached.
LEMMA InitFetch == Init => FetchInv
  BY DEF Init, FetchInv, CachedCopyIsAVersion, FetchAt, FetchLabels

\* The invariants of both hold.
LEMMA FetchInvariant ==
    ASSUME Alone
    PROVE  Spec => [](CloseInv /\ FetchInv)
  BY InitClose, InitFetch, NextClose, NextFetch, PTL DEF Spec

\* A cached copy that TestAuth could find valid is, whole and unmixed, the version of
\* that modify time, or, if the fetch broke or was overtaken, how one version no newer
\* began; whatever answers are lost, however late a store comes and wherever the client
\* dies, if each machine has one process (afs_client.h:952-980, 889-893).
THEOREM CachesHoldVersions ==
    ASSUME Alone
    PROVE  Spec => []CachedCopyIsAVersion
  <1>1. CloseInv /\ FetchInv => CachedCopyIsAVersion
    BY DEF FetchInv
  <1> QED
    BY <1>1, FetchInvariant, PTL

\* A process that gets a file open has in its cache what the server had at some moment
\* of the call, unless the last fetch of that copy broke or was overtaken, if each
\* machine has one process (afs_client.h:912-1008).
THEOREM OpensAreFresh ==
    ASSUME Alone
    PROVE  Spec => []OpenIsFresh
  <1>1. CloseInv /\ FetchInv => OpenIsFresh
    BY DEF FetchInv, FetchAt, OpenIsFresh
  <1> QED
    BY <1>1, FetchInvariant, PTL
====
