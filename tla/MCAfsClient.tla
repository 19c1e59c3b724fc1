---- MODULE MCAfsClient ----
(***************************************************************************)
(* Instances of AfsClient for TLC.                                         *)
(***************************************************************************)
EXTENDS AfsClient, TLC

CONSTANTS
    u1, u2,       \* two user processes
    c1, c2        \* two client machines

\* Each process on a machine of its own, or both on one.
Apart    == u1 :> c1 @@ u2 :> c2
Together == u1 :> c1 @@ u2 :> c1

\* The machines exchanged together with their processes.
Swap == {f \in Permutations({u1, u2, c1, c2}) : f[u1] \in {u1, u2} /\ Apart[f[u1]] = f[c1]
                                              /\ f[u2] \in {u1, u2} /\ Apart[f[u2]] = f[c2]}

Unary   == {"GetFileStat", "TestAuth", "Fetch", "Store", "Mknod", "Remove"}
Streams == {"GetFileStat", "TestAuth", "FetchWithStream", "StoreWithStream", "Mknod", "Remove"}
FileStreams == {"TestAuth", "FetchWithStream", "StoreWithStream"}
Fetches == {"FetchWithStream"}
====
