---- MODULE MCFileServer ----
(***************************************************************************)
(* Instances of FileServer for TLC.                                        *)
(***************************************************************************)
EXTENDS FileServer, TLC

CONSTANTS a, b        \* two paths

AllOps        == ReadOps \union WriteOps
\* All that AtomicFiles describes; on a disk that fails, not StoreWithStream.
AllButStreams == AllOps \ {"Fetch", "StoreWithStream"}
StreamOps     == {"FetchWithStream", "StoreWithStream", "TestAuth", "GetFileStat", "Remove", "Mknod"}
StreamStore   == {"StoreWithStream"}
RenameOnly    == {"Rename"}

OneWay   == {<<a, b>>}
BothWays == {<<a, b>>, <<b, a>>}
NoPairs  == {}

Symmetric == Permutations(Data) \union Permutations(Threads)
====
