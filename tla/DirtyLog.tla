---- MODULE DirtyLog ----
(***************************************************************************)
(* The log of modified files on a client's disk (P2/src/afs_fuse.cc and      *)
(* afs_client.h), in both builds: one file `log` with a line for each write   *)
(* of a file, rewritten into `newlog` when a file has been stored, or an      *)
(* empty file for each modified one, named after it.  The callbacks of        *)
(* several processes run at once and there is no lock.                        *)
(*                                                                         *)
(* A step is a system call, or several that no other callback can tell apart. *)
(* A file is an inode, as a callback writes to what it has opened although    *)
(* the name has gone or names another file.                                   *)
(***************************************************************************)
EXTENDS Integers, Sequences, FiniteSets

CONSTANTS
    Writers,       \* the threads that run FUSE callbacks
    DirtyNames,    \* the relative paths of files, sequences of characters
    MaxDirtyOps,   \* bound: the callbacks
    MaxRestarts    \* bound: the restarts of the client

ASSUME DirtyNamesAssumption ==
    /\ IsFiniteSet(Writers)
    /\ DirtyNames \subseteq Seq(UNION {{p[i] : i \in 1 .. Len(p)} : p \in DirtyNames})

Inodes == 1 .. 2 + 2 * Cardinality(Writers)

VARIABLES
    single,     \* the build: SINGLE_LOG
    dangling,   \* closeEntry_single_log's pointers show something else than log
    inode,      \* inode["log"], inode["newlog"]: the file of that name, 0 for none
    lines,      \* lines[i]: the lines of the file i
    flats,      \* the pending files: names in the cache directory
    doing,      \* doing[t]: the step t is at, its path and the files it has open
    pending,    \* history: the files with a write no store has read
    fresh,      \* history: the callbacks whose store read all that was written by then
    disturbed,  \* history: the files whose entry another callback may have spoilt
    nops        \* the callbacks and restarts so far

logVars == <<single, dangling, inode, lines, flats, doing, pending, fresh, disturbed, nops>>
build   == <<single, dangling>>

Idle == [step |-> "none", path |-> <<>>, from |-> 0, to |-> 0]

\* to_flat_file: the directory separators become "%", which a name may have too.
ToFlatFile(p) == [i \in 1 .. Len(p) |-> IF p[i] = "/" THEN "%" ELSE p[i]] \o <<".tmp">>

LinesOf(i)   == IF i = 0 THEN {} ELSE {lines[i][k] : k \in 1 .. Len(lines[i])}
Closers      == {t \in Writers : doing[t].step \in {"copy", "remove", "rename"}}
PathsAt(step) == {doing[t].path : t \in {u \in Writers : doing[u].step = step}}
Writing      == PathsAt("write")
Appending    == PathsAt("append")
Clearing     == PathsAt("clear")

\* A file no name refers to and no callback has open.
NewInode ==
    CHOOSE i \in Inodes :
      /\ i \notin {inode["log"], inode["newlog"]}
      /\ \A t \in Writers : i \notin {doing[t].from, doing[t].to}

Begin(t, act) ==
    /\ doing[t] = Idle
    /\ nops.calls < MaxDirtyOps
    /\ nops' = [nops EXCEPT !.calls = @ + 1]
    /\ doing' = [doing EXCEPT ![t] = act]
----
\* fs_write: pwrite.  The write is not logged yet, and a store under way that has
\* read the file has not read this.
WriteFile(t, p) ==
    /\ Begin(t, [Idle EXCEPT !.step = "write", !.path = p])
    /\ pending' = pending \union {p}
    /\ fresh' = {u \in fresh : doing[u].path # p}
    /\ UNCHANGED <<build, inode, lines, flats, disturbed>>

\* Then the file is logged.  write_single_log opens the log to append, which
\* creates it ...
AppendOpen(t) ==
    /\ doing[t].step = "write"
    /\ single
    /\ LET i == IF inode["log"] = 0 THEN NewInode ELSE inode["log"]
       IN  /\ inode' = [inode EXCEPT !["log"] = i]
           /\ lines' = IF inode["log"] = 0 THEN [lines EXCEPT ![i] = <<>>] ELSE lines
           /\ doing' = [doing EXCEPT ![t].step = "append", ![t].to = i]
    /\ disturbed' = disturbed \union (IF Closers = {} THEN {} ELSE {doing[t].path})
    /\ UNCHANGED <<build, flats, pending, fresh, nops>>

\* ... and writes the line, of a file that may have been stored in the meantime.
AppendWrite(t) ==
    /\ doing[t].step = "append"
    /\ lines' = [lines EXCEPT ![doing[t].to] = Append(@, doing[t].path)]
    /\ doing' = [doing EXCEPT ![t] = Idle]
    /\ disturbed' = disturbed \union ({doing[t].path} \ pending)
    /\ UNCHANGED <<build, inode, flats, pending, fresh, nops>>

\* createPendingFile: touch.
CreatePendingFile(t) ==
    /\ doing[t].step = "write"
    /\ ~single
    /\ flats' = flats \union {ToFlatFile(doing[t].path)}
    /\ doing' = [doing EXCEPT ![t] = Idle]
    /\ disturbed' = disturbed \union ({doing[t].path} \ pending)
    /\ UNCHANGED <<build, inode, lines, pending, fresh, nops>>

\* fs_release: CloseFile asks whether the file was modified.
CheckModified(t, p) ==
    /\ IF single THEN p \in LinesOf(inode["log"]) ELSE ToFlatFile(p) \in flats
    /\ Begin(t, [Idle EXCEPT !.step = "read", !.path = p])
    /\ UNCHANGED <<build, inode, lines, flats, pending, fresh, disturbed>>

\* It reads the file into the request ...
StoreRead(t) ==
    /\ doing[t].step = "read"
    /\ doing' = [doing EXCEPT ![t].step = "store"]
    /\ fresh' = fresh \union {t}
    /\ UNCHANGED <<build, inode, lines, flats, pending, disturbed, nops>>

\* ... and sends it.  Once the server has stored it the entry is to go,
StoreOK(t) ==
    /\ doing[t].step = "store"
    /\ doing' = [doing EXCEPT ![t].step = "clear"]
    /\ pending' = IF t \in fresh THEN pending \ {doing[t].path} ELSE pending
    /\ fresh' = fresh \ {t}
    /\ UNCHANGED <<build, inode, lines, flats, disturbed, nops>>

\* else it stays.
StoreFails(t) ==
    /\ doing[t].step = "store"
    /\ doing' = [doing EXCEPT ![t] = Idle]
    /\ fresh' = fresh \ {t}
    /\ UNCHANGED <<build, inode, lines, flats, pending, disturbed, nops>>

\* removePendingFile: rm -f, whatever was written since the store read the file, and
\* whichever file with that flat name was.
RemovePendingFile(t) ==
    /\ doing[t].step = "clear"
    /\ ~single
    /\ LET gone == ToFlatFile(doing[t].path)
       IN  /\ flats' = flats \ {gone}
           /\ disturbed' = disturbed \union ({q \in pending : ToFlatFile(q) = gone} \ Writing)
    /\ doing' = [doing EXCEPT ![t] = Idle]
    /\ UNCHANGED <<build, inode, lines, pending, fresh, nops>>

\* closeEntry_single_log with names that are not those of the log.
CloseNothing(t) ==
    /\ doing[t].step = "clear"
    /\ single /\ dangling
    /\ doing' = [doing EXCEPT ![t] = Idle]
    /\ UNCHANGED <<build, inode, lines, flats, pending, fresh, disturbed, nops>>

\* Mutant: newlog is not truncated.
CloseOpenKeeps(t) ==
    /\ doing[t].step = "clear"
    /\ single /\ ~dangling
    /\ LET new == IF inode["newlog"] = 0 THEN NewInode ELSE inode["newlog"]
       IN  /\ inode' = [inode EXCEPT !["newlog"] = new]
           /\ lines' = IF inode["newlog"] = 0 THEN [lines EXCEPT ![new] = <<>>] ELSE lines
           /\ doing' = [doing EXCEPT ![t] =
                          IF inode["log"] = 0 THEN Idle
                          ELSE [@ EXCEPT !.step = "copy", !.from = inode["log"], !.to = new]]
    /\ disturbed' = disturbed \union Appending \union (IF Closers = {} THEN {} ELSE DirtyNames)
                    \union (({doing[t].path} \intersect pending) \ Writing)
    /\ UNCHANGED <<build, flats, pending, fresh, nops>>

\* closeEntry_single_log opens both files and truncates newlog.  Without a log
\* it returns.  A line of the file goes although it is of a write the store did
\* not read.
CloseOpen(t) ==
    /\ doing[t].step = "clear"
    /\ single /\ ~dangling
    /\ LET new == IF inode["newlog"] = 0 THEN NewInode ELSE inode["newlog"]
       IN  /\ inode' = [inode EXCEPT !["newlog"] = new]
           /\ lines' = [lines EXCEPT ![new] = <<>>]
           /\ doing' = [doing EXCEPT ![t] =
                          IF inode["log"] = 0 THEN Idle
                          ELSE [@ EXCEPT !.step = "copy", !.from = inode["log"], !.to = new]]
    /\ disturbed' = disturbed \union Appending \union (IF Closers = {} THEN {} ELSE DirtyNames)
                    \union (({doing[t].path} \intersect pending) \ Writing)
    /\ UNCHANGED <<build, flats, pending, fresh, nops>>

\* The lines other than p, in their order.
OtherLines(s, p) ==
    LET others  == {k \in 1 .. Len(s) : s[k] # p}
        rank(k) == Cardinality({j \in others : j <= k})
    IN  [n \in 1 .. Cardinality(others) |-> s[CHOOSE k \in others : rank(k) = n]]

\* Mutant: the copy ends at the first line of the file.
CloseCopyStops(t) ==
    /\ doing[t].step = "copy"
    /\ LET d    == doing[t]
           cut  == {k \in 1 .. Len(lines[d.from]) : \A j \in 1 .. k : lines[d.from][j] # d.path}
           kept == SubSeq(lines[d.from], 1, Cardinality(cut))
           over == SubSeq(lines[d.to], Len(kept) + 1, Len(lines[d.to]))
       IN  lines' = [lines EXCEPT ![d.to] = kept \o over]
    /\ doing' = [doing EXCEPT ![t].step = "remove"]
    /\ UNCHANGED <<build, inode, flats, pending, fresh, disturbed, nops>>

\* The lines of other files are copied, over what another callback has written.
CloseCopy(t) ==
    /\ doing[t].step = "copy"
    /\ LET d    == doing[t]
           kept == OtherLines(lines[d.from], d.path)
           over == SubSeq(lines[d.to], Len(kept) + 1, Len(lines[d.to]))
       IN  lines' = [lines EXCEPT ![d.to] = kept \o over]
    /\ doing' = [doing EXCEPT ![t].step = "remove"]
    /\ UNCHANGED <<build, inode, flats, pending, fresh, disturbed, nops>>

\* remove(path_old)
RemoveLog(t) ==
    /\ doing[t].step = "remove"
    /\ inode' = [inode EXCEPT !["log"] = 0]
    /\ doing' = [doing EXCEPT ![t].step = "rename"]
    /\ UNCHANGED <<build, lines, flats, pending, fresh, disturbed, nops>>

\* rename(path_new, path_old) fails if another callback has renamed newlog.
RenameNewLog(t) ==
    /\ doing[t].step = "rename"
    /\ inode' = IF inode["newlog"] = 0 THEN inode
                ELSE [inode EXCEPT !["log"] = inode["newlog"], !["newlog"] = 0]
    /\ doing' = [doing EXCEPT ![t] = Idle]
    /\ UNCHANGED <<build, lines, flats, pending, fresh, disturbed, nops>>

\* The client dies and is started again: init_single_log truncates the log,
\* init_multi_log removes *.tmp.  A newlog stays.
Restart ==
    /\ nops.restarts < MaxRestarts
    /\ nops' = [nops EXCEPT !.restarts = @ + 1]
    /\ doing' = [t \in Writers |-> Idle]
    /\ IF single
       THEN LET old == inode["log"]
                i   == IF old = 0 THEN CHOOSE j \in Inodes : j # inode["newlog"] ELSE old
            IN  /\ inode' = [inode EXCEPT !["log"] = i]
                /\ lines' = [lines EXCEPT ![i] = <<>>]
                /\ UNCHANGED flats
       ELSE flats' = {} /\ UNCHANGED <<inode, lines>>
    /\ pending' = {}
    /\ fresh' = {}
    /\ disturbed' = {}
    /\ UNCHANGED build

LogIdle ==
    /\ \A t \in Writers : doing[t] = Idle
    /\ UNCHANGED logVars

LogInit ==
    /\ single \in BOOLEAN
    /\ dangling \in BOOLEAN
    /\ inode = [n \in {"log", "newlog"} |-> IF n = "log" THEN 1 ELSE 0]
    /\ lines = [i \in Inodes |-> <<>>]
    /\ flats = {}
    /\ doing = [t \in Writers |-> Idle]
    /\ pending = {}
    /\ fresh = {}
    /\ disturbed = {}
    /\ nops = [calls |-> 0, restarts |-> 0]

LogNext ==
    \/ \E t \in Writers :
         \/ \E p \in DirtyNames : WriteFile(t, p) \/ CheckModified(t, p)
         \/ AppendOpen(t) \/ AppendWrite(t) \/ CreatePendingFile(t)
         \/ StoreRead(t) \/ StoreOK(t) \/ StoreFails(t)
         \/ RemovePendingFile(t) \/ CloseNothing(t)
         \/ CloseOpen(t) \/ CloseCopy(t) \/ RemoveLog(t) \/ RenameNewLog(t)
    \/ Restart
    \/ LogIdle

LogSpec == LogInit /\ [][LogNext]_logVars
----
(***************************************************************************)
(* Properties                                                              *)
(***************************************************************************)
\* The files whose entry must be there, and those whose entry may be.
Kept  == (pending \ disturbed) \ (Writing \union Appending)
Known == pending \union disturbed \union Clearing

\* Though callbacks log their writes while others store and clear, a file with a
\* write no store has read is in the log, or in the newlog about to become the
\* log, or has its pending file.  Not so before fs_write has logged it; when the
\* entry was cleared between the store's read and the answer to it; when a write
\* was logged during a closeEntry or two closeEntrys overlapped; and when a file
\* with the same flat name was stored.
DirtyIsLogged ==
    \A p \in Kept :
      IF single
      THEN p \in LinesOf(IF \E t \in Writers : doing[t].step = "rename"
                         THEN inode["newlog"] ELSE inode["log"])
      ELSE ToFlatFile(p) \in flats

\* The log, between rewrites, and the pending files name no file that has been
\* stored, if closeEntry finds the log at all: neither an earlier rewrite nor the
\* newlog that a crash left brings an entry back.
StoredIsCleared ==
    /\ single /\ ~dangling /\ Closers = {} => LinesOf(inode["log"]) \subseteq Known
    /\ ~single => flats \subseteq {ToFlatFile(p) : p \in Known}
====
