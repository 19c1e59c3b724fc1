---- MODULE FileTypes ----
(***************************************************************************)
(* What the file service stores and what its RPCs carry (filesystemcomm.   *)
(* proto), shared by the promise (AtomicFiles) and the program (FileServer).*)
(*                                                                         *)
(* A file's content is the sequence of CHUNK_SIZE chunks it is made of, a   *)
(* chunk being a value that names its writer's data.                        *)
(***************************************************************************)
EXTENDS Naturals, Sequences

CONSTANTS
    Paths,        \* the storage paths
    Data,         \* what a client may store: the value of every chunk of a file
    Chunks,       \* the number of chunks of a stored file
    NoFile        \* no such file

ReadOps  == {"Fetch", "FetchWithStream", "TestAuth", "GetFileStat"}
StoreOps == {"Store", "StoreWithStream"}
WriteOps == StoreOps \union {"Remove", "Mknod", "Rename"}

Contents == Seq(Data)
Versions == [data : Contents, mtime : Nat]
Files    == Versions \union {NoFile}

ASSUME ChunksAssumption == Chunks \in Nat \ {0}
ASSUME NoFileAssumption == NoFile \notin Versions

\* The content of a file a client stores.
Whole(d) == [i \in 1 .. Chunks |-> d]

\* What a client receives of version v.  FetchWithStream puts the modify time in
\* every message of the stream, and the stream of an empty file has none.
Delivered(op, v) ==
    IF op = "FetchWithStream" /\ v.data = <<>> THEN [v EXCEPT !.mtime = 0] ELSE v

Request ==
    [op : ReadOps \ {"TestAuth"}, path : Paths]
      \union [op : {"TestAuth"}, path : Paths, time : Nat]
      \union [op : StoreOps, path : Paths, data : Data]
      \union [op : {"Remove", "Mknod"}, path : Paths]
      \union [op : {"Rename"}, path : Paths, dst : Paths]
NoRequest == [op |-> "none"]

\* The response messages in one record; a field the handler does not set
\* keeps its protobuf default.
Reply ==
    [status : {"OK", "UNKNOWN", "CANCELLED"},
     errno : {"0", "ENOENT", "EEXIST"},
     data : Contents, mtime : Nat, changed : BOOLEAN]
Blank == [status |-> "OK", errno |-> "0", data |-> <<>>, mtime |-> 0,
          changed |-> FALSE]
====
