---- MODULE ChunkedStream ----
(***************************************************************************)
(* How a file or a string is cut into the messages of a stream: by            *)
(* FetchWithStream of the server and CloseFileWithStream of the client (P2),   *)
(* which share their arithmetic, and by the two streams of P1's gRPC client.   *)
(*                                                                         *)
(* Sizes are kept in an int though st_size is wider; the loop counts in size_t, *)
(* to which a negative int is larger than any count the loop reaches.          *)
(***************************************************************************)
EXTENDS Integers

CONSTANTS
    IntWidth,          \* 32: the bits of an int
    ChunkSize,         \* 1024 in P2, 128 in P1
    StreamIterations,  \* 8
    MaxFileSize,       \* bound: the largest st_size
    Heap               \* bound: the buffers that fit in memory

IntLimit == 2 ^ (IntWidth - 1)

\* Memory holds the buffers for any file whose size an int holds.
ASSUME ChunkAssumption ==
    /\ {IntWidth, ChunkSize, StreamIterations} \subseteq Nat \ {0}
    /\ MaxFileSize \in Nat /\ Heap \in Nat
    /\ ChunkSize < IntLimit /\ Heap * ChunkSize > IntLimit + ChunkSize

VARIABLES
    sender,    \* "fetch", "close", "stream1" or "stream2"
    size,      \* what stat(2) said, or the size asked for
    length,    \* the bytes the file has now
    chunk,     \* the loop's counter
    pos,       \* the file position, -1 when the stream of the file has failed
    bytes, messages,   \* what has been sent
    broken,    \* history: a Write has failed
    resized,   \* history: the file has become shorter since stat
    leaked,    \* the buffers allocated; none is freed
    progress   \* "sending", "sent" or "bad_alloc"

chunkVars == <<sender, size, length, chunk, pos, bytes, messages, broken, resized, leaked, progress>>

\* C++ converts by wrapping, and divides towards zero.
ToInt(n)   == ((n + IntLimit) % (2 * IntLimit)) - IntLimit
Quot(a, b) == IF a >= 0 THEN a \div b ELSE -((-a) \div b)
Rem(a, b)  == a - b * Quot(a, b)

\* Mutant: what is left over gets no chunk.
TotalChunksDropsRest(n) == Quot(ToInt(n), ChunkSize)

TotalChunks(n) ==
    Quot(ToInt(n), ChunkSize) + (IF Rem(ToInt(n), ChunkSize) = 0 THEN 0 ELSE 1)

\* The size of chunk k, negative if it is negative as an int.
CurrentChunkSize(n, k) ==
    IF k = TotalChunks(n) - 1 /\ Rem(ToInt(n), ChunkSize) # 0
    THEN Rem(ToInt(n), ChunkSize) ELSE ChunkSize

\* What Write does with n bytes: once broken, the stream stays so.
Write(n) ==
    \/ /\ ~broken
       /\ bytes' = bytes + n
       /\ messages' = messages + 1
       /\ UNCHANGED broken
    \/ broken' = TRUE /\ UNCHANGED <<bytes, messages>>

Reads == sender \in {"fetch", "close"} /\ progress = "sending"
More(total) == total < 0 \/ chunk < total
----
\* new throws: a chunk of negative size, or no memory is left.
BadAlloc ==
    /\ Reads
    /\ More(TotalChunks(size))
    /\ CurrentChunkSize(size, chunk) < 0 \/ leaked = Heap
    /\ progress' = "bad_alloc"
    /\ UNCHANGED <<sender, size, length, chunk, pos, bytes, messages, broken, resized, leaked>>

\* A chunk is read and sent.  FetchWithStream does not look at what Write returns,
\* CloseFileWithStream leaves the loop.
SendChunk ==
    /\ Reads
    /\ More(TotalChunks(size))
    /\ leaked < Heap
    /\ LET n == CurrentChunkSize(size, chunk)
       IN  /\ n >= 0
           /\ pos >= 0 /\ pos + n <= length
           /\ pos' = pos + n
           /\ Write(n)
           /\ progress' = IF sender = "close" /\ broken' THEN "sent" ELSE "sending"
    /\ chunk' = chunk + 1
    /\ leaked' = leaked + 1
    /\ UNCHANGED <<sender, size, length, resized>>

\* A short read fails; nothing of it is sent, and all later reads fail.
SkipChunk ==
    /\ Reads
    /\ More(TotalChunks(size))
    /\ leaked < Heap
    /\ CurrentChunkSize(size, chunk) >= 0
    /\ pos < 0 \/ pos + CurrentChunkSize(size, chunk) > length
    /\ pos' = -1
    /\ chunk' = chunk + 1
    /\ leaked' = leaked + 1
    /\ UNCHANGED <<sender, size, length, bytes, messages, broken, resized, progress>>

EndChunks ==
    /\ Reads
    /\ ~More(TotalChunks(size))
    /\ progress' = "sent"
    /\ UNCHANGED <<sender, size, length, chunk, pos, bytes, messages, broken, resized, leaked>>

\* Another callback makes the cached file shorter while it is sent.  The server's
\* read lock keeps FetchWithStream from this.
CacheShrinks ==
    /\ Reads
    /\ sender = "close"
    /\ resized' = TRUE
    /\ length' \in 0 .. length - 1
    /\ UNCHANGED <<sender, size, chunk, pos, bytes, messages, broken, leaked, progress>>

\* AcceptClientSideStream1: full chunks, which end when the stream breaks; then
\* the remainder, whether it has or not.
Stream1 ==
    /\ sender = "stream1" /\ progress = "sending"
    /\ IF chunk < size \div ChunkSize
       THEN /\ Write(ChunkSize)
            /\ chunk' = IF broken' THEN size \div ChunkSize ELSE chunk + 1
            /\ UNCHANGED progress
       ELSE /\ IF size % ChunkSize = 0 THEN UNCHANGED <<bytes, messages, broken>>
               ELSE Write(size % ChunkSize)
            /\ progress' = "sent"
            /\ UNCHANGED chunk
    /\ UNCHANGED <<sender, size, length, pos, resized, leaked>>

\* AcceptClientSideStream2: StreamIterations equal parts; the rest is not sent.
Stream2 ==
    /\ sender = "stream2" /\ progress = "sending"
    /\ IF chunk < StreamIterations
       THEN /\ Write(size \div StreamIterations)
            /\ chunk' = IF broken' THEN StreamIterations ELSE chunk + 1
            /\ UNCHANGED progress
       ELSE progress' = "sent" /\ UNCHANGED <<chunk, bytes, messages, broken>>
    /\ UNCHANGED <<sender, size, length, pos, resized, leaked>>

StreamOver == progress # "sending" /\ UNCHANGED chunkVars

ChunkInit ==
    /\ sender \in {"fetch", "close", "stream1", "stream2"}
    /\ size \in 0 .. (IF sender \in {"fetch", "close"} THEN MaxFileSize ELSE IntLimit - 1)
    /\ length = size
    /\ chunk = 0 /\ pos = 0 /\ bytes = 0 /\ messages = 0 /\ leaked = 0
    /\ broken = FALSE /\ resized = FALSE
    /\ progress = "sending"

ChunkNext ==
    \/ BadAlloc \/ SendChunk \/ SkipChunk \/ EndChunks \/ CacheShrinks
    \/ Stream1 \/ Stream2
    \/ StreamOver

ChunkSpec == ChunkInit /\ [][ChunkNext]_chunkVars
----
\* A stream that was not broken carries the whole of a file, in as many messages as
\* it takes, exactly if an int holds the size: of a larger file a part is sent, or
\* the sender runs out of memory, and nothing else makes it.  The first stream of P1
\* carries the whole string too, the second all but what does not divide evenly.
StreamCarriesWhole ==
    /\ progress = "bad_alloc" => size >= IntLimit
    /\ progress = "sent" /\ ~broken /\ ~resized =>
         CASE sender = "stream1" -> bytes = size
           [] sender = "stream2" -> bytes = size - (size % StreamIterations)
           [] OTHER -> /\ bytes = size <=> size < IntLimit
                       /\ size < IntLimit => messages = (size + ChunkSize - 1) \div ChunkSize
====
