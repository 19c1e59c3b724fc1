---- MODULE MemMap ----
(***************************************************************************)
(* The server's map of small files (P2/src/server.cc, compiled with           *)
(* PERFORMANCE_MEM_MAP == 1; the shipped build leaves it out).  Handlers of    *)
(* one path exclude each other by its lock, so each is a step here.  The map   *)
(* has no lock of its own: handlers of two paths that change it at once race,   *)
(* which is undefined and is not modelled.                                     *)
(*                                                                         *)
(* Only Store puts files into the map; StoreWithStream, Mknod and Rename change *)
(* the disk and not the map.                                                   *)
(***************************************************************************)
EXTENDS Naturals

CONSTANTS
    MapPaths,
    Small, Large,    \* contents below and above SMALL_FILE_SIZE_THRESHOLD
    Empty,           \* the content of a file mknod has made
    Absent           \* no file, or no entry of the map

ASSUME MapAssumption == Absent \notin Small \union Large \union {Empty}

VARIABLES
    stored,      \* stored[p]: what the disk holds
    mem_map,     \* mem_map[p]: what the map holds
    bypassed     \* history: the paths changed by a handler that ignores the map

mapVars == <<stored, mem_map, bypassed>>

\* Mutant: a hit is answered without a look at the disk.
FetchedBlindly(p) == IF mem_map[p] # Absent THEN mem_map[p] ELSE stored[p]

\* What Fetch answers: a hit counts if the modify time can be read from the disk.
Fetched(p) == IF mem_map[p] # Absent /\ stored[p] # Absent THEN mem_map[p] ELSE stored[p]

\* The disk is changed behind the map's back.
Bypass(p, content) ==
    /\ stored' = [stored EXCEPT ![p] = content]
    /\ bypassed' = bypassed \union {p}
    /\ UNCHANGED mem_map

\* Store puts a small file into the map; a large one leaves the old entry there.
PutFile(p, content) ==
    IF content \in Large THEN Bypass(p, content)
    ELSE /\ stored' = [stored EXCEPT ![p] = content]
         /\ mem_map' = [mem_map EXCEPT ![p] = content]
         /\ bypassed' = bypassed \ {p}

MapStream(p, content) == Bypass(p, content)
MapMknod(p)           == stored[p] = Absent /\ Bypass(p, Empty)

\* delete_file_from_mem_map has its condition inverted: it erases nothing.
DeleteFile(p) ==
    /\ stored[p] # Absent
    /\ stored' = [stored EXCEPT ![p] = Absent]
    /\ UNCHANGED <<mem_map, bypassed>>

MapRename(p, q) ==
    /\ stored[p] # Absent
    /\ stored[q] = Absent
    /\ stored' = [stored EXCEPT ![p] = Absent, ![q] = stored[p]]
    /\ bypassed' = bypassed \union {q}
    /\ UNCHANGED mem_map

\* The server is started again with an empty map.
MapRestart ==
    /\ mem_map' = [p \in MapPaths |-> Absent]
    /\ bypassed' = {}
    /\ UNCHANGED stored

MapInit ==
    /\ stored = [p \in MapPaths |-> Absent]
    /\ mem_map = [p \in MapPaths |-> Absent]
    /\ bypassed = {}

MapNext ==
    \/ \E p \in MapPaths :
         \/ \E c \in Small \union Large : PutFile(p, c) \/ MapStream(p, c)
         \/ MapMknod(p) \/ DeleteFile(p)
         \/ \E q \in MapPaths \ {p} : MapRename(p, q)
    \/ MapRestart

MapSpec == MapInit /\ [][MapNext]_mapVars
----
\* Although Remove leaves the entry of the file in the map, Fetch answers what the
\* disk holds, until a handler that knows nothing of the map changes the path; a
\* small Store, or a restart, puts that right.
MapServesTheDisk == \A p \in MapPaths \ bypassed : Fetched(p) = stored[p]
====
