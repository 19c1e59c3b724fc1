# Verification of the P2 distributed file system

TLA+ models of the AFS-style file system in `P2/src`, their TLC configurations
and their TLAPS proofs. Line numbers refer to the commit the models were written
from. To check everything, run in this directory

    tlc -config server_streams.cfg MCFileServer     (and so on, see "Runs")
    tlapm FileServerProofs.tla                       (and so on, see "Proofs")

Checked from nothing, the proof modules take from seconds to about a quarter of
an hour each. They hold the processor: the `parts` run is best not run beside them.

## 1. Inventory

The repository holds two course projects. P1 measures clocks, marshalling,
a reliable UDP and RPC libraries; P2 is the file system: a server that keeps the
files of a directory, and clients that mount them through FUSE, cache whole
files and write them back when they are closed.

| Component | State | Operations | Correct means |
|---|---|---|---|
| **Server, file handlers** (`server.cc`, `filesystemcomm.proto`) | the directory under the storage root; per path the file and its temporary file `.afs_tmp`; per call the request, the response, open streams | Fetch, FetchWithStream, Store, StoreWithStream, TestAuth, GetFileStat, Remove, Mknod, Rename | every call takes effect at once or not at all; a read returns one version with its own modify time; a store is whole; every call is answered |
| **Server, lock map** (`locks.cc`, `locks.h`) | a mutex, a hash map from path to reader/writer lock | GetReadLock, GetWriteLock, and the destructors of what they return | per path: readers together, a writer alone; the map never keeps two locks for one path |
| **Server, directory handlers** (`server.cc`) | the directories | MakeDir, RemoveDir, ReadDir | errors reach the client; the cache directories of the clients follow; a listing is complete |
| **Server, memory map** (`server.cc:451`, compiled out) | a map from path to content | put, get, delete, partial_free, called by Store, Fetch and Remove | a hit returns what the disk holds; no file that was removed comes back |
| **Server, durability** | what has reached the disk | write, rename | what was answered survives a power failure |
| **Client library** (`afs_client.h`) | the cache directory, the times of the cached files, the channel | one RPC with up to five attempts per FUSE operation; open (validate, fetch), close (store) | an open file is a version the server had; a written file reaches the server at close, or the close fails |
| **FUSE front end** (`afs_fuse.cc`) | open files, the log of dirty files (a single log file, or a `.tmp` file for each) | getattr, readdir, mknod, mkdir, unlink, rmdir, open, read, write, release | a file written to is in the log until its store |
| **Chunked streams** (`server.cc:922`, `afs_client.h:816`, `P1/part3/grpc/greeter_client.cc`) | the size as an int, the chunk counter, a buffer per chunk | FetchWithStream, CloseFileWithStream, two streams of P1 | the messages carry the whole of what is sent |
| **Async server and client** (`async_server.cc`, `async_afs_client.cc`) | a completion queue, one CallData per call | MakeDir only | every call is answered; each CallData lives until its last event and no longer |
| **Log benchmark** (`logtester.cc`) | the two logs in /tmp/afs | initialise, write, check, remove | what is timed is what the titles say |
| **Reliable UDP** (`P1/part2`) | one packet in flight, counters | send with timeout, acknowledge | readings and counts are of the packets they are printed for |
| **Thrift service and benchmark** (`P1/part3/thrift`) | a connection shared by threads, who reads it; totals of times | six methods, plain and concurrent client, simple server; eight test cases | a reply reaches its caller and every call returns; a printed average is the one of its title |
| Clock benchmarks, generated serialisers, scripts, results | none a property could be about | | |

How they interact: the kernel calls the FUSE front end from several threads;
the front end calls the client library, which makes gRPC calls to the server;
gRPC runs each call on a thread of its own, so that all handlers of all clients
run concurrently and share the directory and the lock map. The client's cache is
validated by comparing modify times (TestAuth) and is otherwise never told of a
change. Crashes lose everything but the directories on either side.

What is hard: handlers of one path interleaving around the locks; the temporary
file that all stores of a path share; streams, which take many steps and can
break in the middle; a server crash between any two steps; a disk that fails; a
clock too coarse to tell two stores apart; two locks taken by one handler; the
client's retries of calls whose answer was lost; writes that race with the close
of the file; callbacks that rewrite one log without a lock; a cache directory that
follows the server's tree only through the client's own calls; threads that read
each other's replies. `PROJECT.json` lists them at their lines.

## 2. Plan

Written, in order:

1. `FileTypes`, `RWLock`: the vocabulary, and what the lock map promises.
2. `AtomicFiles`: what the server promises its clients.
3. `FileServer`: the handlers, and `MCFileServer` with its runs.
4. `FileServerProofs`.
5. `MutexMap`: `locks.cc` itself, which implements `RWLock` (`MutexMapProofs`).
6. `AfsClient`: the clients with their caches, logs and retries, on a server that
   takes each request at once but Fetch, which it takes in two steps (`AfsClientProofs`).

7. `Namespace`: directories, the directory handlers and callbacks, leftover
   temporary files, and what the clients' cache directories become.
8. `DirtyLog`: the files of the two dirty logs, step by step, against the set of
   names `AfsClient` takes them for.
9. The parts that share no state with the file system: `ChunkedStream`, `MemMap`,
   `AsyncServer`, `LogBench`, `UdpAck`, `ThriftRpc`, `ThriftBench`, side by side in
   `MCParts`.

10. The proofs: `FileServerProofs`, `MutexMapProofs`, `AfsClientProofs`,
   `NamespaceProofs`, `DirtyLogProofs`, `PartsProofs`, `ThriftRpcProofs`, `BenchProofs`.

Nothing of the plan is left but liveness, which is checked and not proved. Three things the code
is found not to do have a run that shows it (`v_...`); the others are listed with them under
"Departures", and the properties and theorems say under which conditions they do not happen.

## 3. The models

### FileTypes
A content is a sequence of chunks (`CHUNK_SIZE` bytes each in `server.cc:32`), a
chunk a value of `Data` that names the store it came from: two stores are
told apart by the value they write, and a file that mixes two stores, or holds
part of one, by looking at its chunks. A version is a content with a modify time.
Requests and responses are records with the fields of `filesystemcomm.proto` that
a property can see; the stat of a file is its content (its size) and modify time.

### RWLock
`LockShared`, `LockUnique` and their releases on `readers[p]` and `writers[p]`. They
are operators on the lock state alone, conjoined by `FileServer` with the
step of the handler that locks.

### FileServer
One action per step of a handler; a step is one system call or one message, or
the taking of a lock. `pc[t]` names the next step of the thread `t`.

| Handler | Steps |
|---|---|
| Fetch `:518` | GetReadLock, FetchRead (reads, then `lock.unlock()`), FetchStat |
| FetchWithStream `:908` | GetReadLock, StreamTime, StreamOpen, StreamChunk (once per message), StreamSent |
| TestAuth `:695`, GetFileStat `:672` | GetReadLock, TestAuth / GetFileStat |
| Store `:570` | GetWriteLock, StoreOpen, StoreFill, StoreCommit, StoreStat, or one of StoreOpenFails, StoreFillFails, StoreCommitFails |
| StoreWithStream `:838` | StoreFirst, GetWriteLock, StoreOpen, then StoreChunk and StoreNext per message, StoreLast, StoreCommit or StoreCommitFails, StoreStat; after StoreOpenFails, which it does not see, the commit |
| Remove `:610`, Mknod `:751` | GetWriteLock, Remove / Mknod |
| Rename `:640` | GetWriteLock (source), RenameLock (destination), RenameCheck (`fs::exists`), RenameMove (`rename`) |

`Start` is the arrival of a call and `Deliver` the departure of its response, at
which the locals of the handler are gone. `Crash` is the death and restart of the
server process: locks and handlers vanish, files and temporary files stay.
`Quiescent` is the stuttering of a server nobody calls any more, so that TLC's deadlock
check finds the handlers that wait for each other and nothing else.

Decisions worth knowing:
- Store and StoreWithStream share StoreOpen, StoreCommit and StoreStat: the code
  repeats the same calls in `write_file` and in the stream handler.
- `hist` is a history variable: every version a name has referred to. Properties
  say "a version of the file" with it.
- `fin[t]` is the content of the inode FetchWithStream has open, which a
  rename over the path does not change.
- The stream of an empty file has no message, and the modify time travels in
  the messages: `Delivered` in `FileTypes`.
- `FineClock` chooses between a clock that ticks between any two writes and the
  real one, which may not. `DiskFails` lets the open, the writes and the rename of temporary
  files fail; `ClientDies` lets a stream end early. A StoreWithStream whose open fails goes on
  to its rename(2): it commits what an earlier store left under that name, or fails if nothing is there.
- All paths are files in one existing directory that pass `to_storage_path`: the
  checks of the code that concern parents, directories and special files do not
  fail. A Rename's source and destination differ.

### AtomicFiles
Between invocation and return each call acts once on the files, atomically:
the abstract server. `FileServer` maps to it with a call taking effect when its
handler returns, except a store, which does when rename(2) does (`Phase`,
`AnswerOf`). Fetch is not part of the runs that check the refinement, because
it does not refine: see "Departures".

### MutexMap
`GetReadLock` and `GetWriteLock` step by step: `LockOuter`, `Find`, `Insert` (the
two halves of `mutices[key]`), `UnlockOuter`, `LockFile`; `Ask` is a handler that
takes its lock or, in Rename, its second one, `Release` a destructor. A mutex is
the number under which it was made, 0 for none. The refinement mapping reads
`readers[p]` and `writers[p]` off the locks the threads own.

### AfsClient
A process (`Procs`) lives on a machine (`Host`) and is in one FUSE callback at a
time; processes of one machine share its cache and its log. `pc[u]` names the next
step, `"open"` is a process between callbacks with the file open.

| Callback | Steps |
|---|---|
| lookup and `fs_open` `afs_fuse.cc:270,368` | Open, GetFileStat, TestAuth, AuthReply, FetchCall, then Trunc, FetchChunk per message, FetchEnd, Stamp (streaming) or FetchReply, Trunc, FetchWrite, Stamp; Opened |
| `fs_write` `:438` | Write, Log |
| `fs_release` `:493` | Close, CheckModified, then StreamCall, SendChunk per message, SendEnd, StoreReply, Restamp (streaming) or StoreCall, StoreReply, ClearLog, Restamp; Closed |
| `fs_mknod`, `fs_unlink` | Create, CreateFile; Delete, DeleteFile |
| death and restart, `fs_init` `:212` | Crash |

`fs_read` changes no state. An RPC is `Call`, `Serve` (the server acts and answers) and
the step that takes the reply; a Fetch has a step more, `FetchRead`, after which the server has
given up its lock and, in `Serve`, answers with the content it read and the modify time it finds.
`Break` loses the connection in between, and leaves the server, by choice, nothing, the request, or of a stream the messages that
had arrived, which it executes later or never (`late`, `ServeLate`). `Retry` is
the loop around the stub's unary calls, `StreamAgain` that of CloseFileWithStream;
OpenFileWithStream has a loop and never repeats it.

Decisions worth knowing:
- A modify time is the server's (a number), 0 (the stream of an empty file has
  no message that could carry one), or `Local`: what the client's kernel stamps.
  A local time never equals a server's; both have nanoseconds.
- The server is otherwise taken for atomic, as `FileServer` is shown to be for every handler but
  Fetch, and for one whose clock tells stores apart (the server's may not: "Departures"). What a stream
  cut short does to the server's file (`v_partial`) is in this model (`Remains`).
- `spoilt[c]` is a history variable: the copies whose last fetch was not of one version, because
  its stream broke before the end or because the file had changed when Fetch took its time
  (`Torn`). Both are faults of the code: `v_broken_fetch` shows the first with EveryCopyIsAVersion,
  which knows no exception, and would show the second in the other build. CachedCopyIsAVersion and
  OpenIsFresh say that nothing else goes wrong, and what such a copy still is.
- `Unbounded = {"breaks"}` lifts the bound on lost connections, which is how EveryCallbackReturns
  is checked: that a callback returns must not be the doing of `MaxBreaks`.
- libfuse renames a file that is unlinked while it is open, and rename is not
  among `fsops`: such an unlink fails before it reaches the client (`Unused`).
- `closeEntry_single_log` uses pointers into destroyed strings. What a build makes of
  that is to clear the entry or to leave the log alone (`ClearLog`).
- `CloseFile` reads the file in `StoreCall` and clears its entry in `ClearLog`, with the server's
  answer in between: a write of another process of the machine that falls there is lost.
- The kernel ignores what release returns: a process never learns that its close
  failed. The properties speak of what the callback returns.

### Namespace
The tree of the server (`tree`, `temps`), the handlers that read or change it, and
each client's cache directory. A handler with one system call is one step; Store
is `StoreWrite` and `StoreCommit` with its temporary file in between, ReadDir is
`ListOpen`, `ListEntry` per entry and `ListEnd`, as the entries are looked at one
by one and take no lock of their own.

| Callback | In the model |
|---|---|
| `fs_mkdir`, `fs_rmdir`, `fs_mknod`, `fs_unlink`, `fs_readdir` | Callback, the handler, Answer with `CacheAfter` |
| `fs_open`, `fs_release` of a modified file | the same, with Fetch and Store |
| `fs_release` otherwise | Close |
| the retry loops | Break, Unavailable, Retry |

`Streaming` are the clients of the shipped build, whose open does not call
create_path; both builds share a server. `Break` leaves the request lost, its
handler running for nobody (`Drop`), or its answer lost. A server's error
is taken as it is: error numbers are not told apart. Permissions, and errors of the
disk, are left out: `FileServer` has the latter.

### DirtyLog
Inodes and names, because a callback goes on writing to the file it has opened when
`log` has become another one. `single` is the build (SINGLE_LOG); `dangling` is what
closeEntry_single_log's dead pointers show: something else than the log for good, or
the log. A write of one line is atomic (O_APPEND); closeEntry opens and truncates
`newlog`, copies, removes `log` and renames, each a step. `OtherLines` is what the copying
loop keeps; it is written with ranks instead of recursion so that one can reason about it.

| Callback | Steps |
|---|---|
| `fs_write` `afs_fuse.cc:438` | WriteFile (pwrite), then AppendOpen, AppendWrite or CreatePendingFile |
| CloseFile `afs_client.h:605` | CheckModified, StoreRead (reads the file), StoreOK or StoreFails, then CloseNothing; or CloseOpen, CloseCopy, RemoveLog, RenameNewLog; or RemovePendingFile |
| death and restart | Restart |

A file is `pending` from its write (`afs_fuse.cc:467`, before it is logged) until a store that
read it after that write has succeeded (`afs_client.h:636`): a write between the read and the removal
of the entry, which is lost, leaves a pending file without one. Such files, and those another overlap or an equal flat name
robs of their entry, are `disturbed`: each of the steps that can do so adds them. Names may hold the
separator of flat names; the instance has `x/y` and `x%y`.

### LogBench and ThriftBench
Programs that run once. `Program` and `Code` are their sections as sequences of
instructions, each a definition named for its section; one step executes an
instruction. LogBench executes them on the two logs; its properties compare the
logs with the titles the times are printed under ("beginning", "50", "not in log") and, where the
title gives no size, with the 100 entries of `report.pdf` (page 5). `Numeral[i]` is what
std::to_string gives of i: of it the model uses that different numbers have different
numerals, none of which is a separator. `Half`, 50 in the code, is at least 2: with 1, the
first entry and the one in the middle, which are removed one after the other, would be one.
ThriftBench keeps what its
sections add up, the clock's nanoseconds, the buffer, and as history what was really
measured. `Rounds`, one call after the other, is given index by index and not by
recursion, so that its length and its instructions can be reasoned about.

### MemMap
Store, Fetch, Remove and the handlers that do not know the map, each a step: the
lock of the path makes them so.

### ChunkedStream
The arithmetic of the two loops of P2 with ints of `IntWidth` bits that wrap and
divisions towards zero, and the two of P1. `bytes` counts what was sent.

### AsyncServer
A `CallData` has a `status_`, the operation gRPC has for it (`outstanding`) and events
in `cq`. `Match` and `FinishDone` are gRPC's, the rest is `HandleRpcs`, which runs
in one thread. A client that dies may make `ok` false, at which the server
aborts.

### UdpAck
`Send` and then `Receive`, `Timeout` or `Failure` are one call of send_packet; `loop` is
the loop of main it is called from. The network is two sets of packets. Failing
sends end the program and are left out, as are the times themselves.

### ThriftRpc
A message is two items on the wire, head and struct. The plain client has a
connection of its own, the threads of the concurrent one share the other; the
recv_ loop of `CustomSvc.cpp:1855` is `LockRead`, `ReadHead`, `ReadBody`, `WaitForWork`.
TConcurrentClientSyncInfo is Thrift's and modelled from how the stubs use it. The
methods differ in a name and a field: one set of actions models the
code generated for all six.

### MCParts
One state space for the seven modules above and DirtyLog; `which` says whose variables
change, and fairness is asked of that part only.

## 4. Runs

| Run | Instance | Shows |
|---|---|---|
| `server_streams` | 1 path, 3 threads, 2 contents, 2 chunks, 4 calls, 1 crash, coarse clock | ReadsOneVersion, StoreReplyNamesItsFile, OneWriterPerFile, StableWhileRead, TypeOK and ImplementsAtomicFiles for the streaming handlers, TestAuth, GetFileStat, Remove and Mknod |
| `server_store` | 2 paths, 2 threads, 3 calls, 1 crash, disk fails, coarse clock, renames one way | NoPartialFile, MtimeNeverGoesBack and ImplementsAtomicFiles for the unary handlers but Fetch |
| `server_live` | 2 paths, 2 threads, 2 calls, renames one way, clients die | EveryCallAnswered and TempIsInUse for all handlers, under fairness |
| `locks` | 3 threads, 2 paths, 4 locks, nested ones in one order | ImplementsRWLock; EveryLockGranted, under fairness |
| `client_streams` | 2 machines with a process each, 1 file of up to 2 chunks, 3 opens, creations or removals, 1 write, 2 broken connections, 1 crash; shipped build | CachedCopyIsAVersion, OpenIsFresh, CloseCommits, where connections break in TestAuth and the store |
| `client_unary` | the same, `USE_STREAMING 0`, any call may break, the fetch included | the same |
| `client_threads` | 2 processes of one machine, shipped build, 2 opens, creations or removals, 1 write, connections that break without a bound | EveryCallbackReturns, under fairness |
| `directories` | a directory and a name in it, a client of each build, 2 threads, 4 callbacks, 2 attempts, 1 broken connection, 1 crash | ListingIsComplete, CacheMirrorsTree |
| `parts` | DirtyLog: 2 threads, `x/y` and `x%y`, 5 callbacks, 1 restart, both builds; LogBench: logs of 3 and 6 lines, 2 iterations; MemMap: 2 paths, 3 contents; UdpAck: 1 + 2 rounds, 2 losses, 2 late answers, 1 failure; AsyncServer: 3 clients, 2 directories; ThriftRpc: 3 threads on one connection and one on another, one method that may throw, 1 lost connection; ChunkedStream: ints of 4 bits, chunks of 2 bytes, sizes to 22; ThriftBench: all eight cases, a second of 2 ticks | the properties of these modules; UdpBenchmarkEnds, AsyncServerAnswers, ThriftCallsReturn under fairness |

Three threads are what the reading hazards take: one reader, one writer
and one that reads or writes after it. Two chunks give a stream a middle. Four
calls let a thread be reused after a crash or a failed store, which is how a
leftover temporary file meets a second store. Data and threads are symmetric.
For the clients, three opens are a first one, one of the other machine that
writes, and a third that must notice; two breaks exhaust `MaxRetry` (2 there, 5 in
the code), so that calls also fail for good. The machines are exchanged
together with their processes by `Swap`. Four callbacks on a directory let one client
make, the other remove, and the first list or open what has gone. In `parts`,
ints of 4 bits put the sizes beyond one and beyond two turns of an int (8 and
16) among those tried; a second of two ticks makes it begin within an
operation or not; three threads on a connection are a reader, one whose reply
it reads, and one that waits for work.

### Departures

Where the code departs from what the report or a comment says of it. Three departures have a run
that checks the one property that states it, and TLC finds it violated. Nothing else goes wrong in
these instances: none has a crash, and connections break only where the row is about it.

| Run | Property | What happens |
|---|---|---|
| `v_partial` | NoPartialFile | a client dies in StoreWithStream; the handler takes it for the end of the stream and commits (`server.cc:877`) |
| `v_rename` | EveryCallAnswered | opposite renames deadlock (`server.cc:650`) |
| `v_broken_fetch` | EveryCopyIsAVersion | a broken fetch stream looks like success (`afs_client.h:957`): half a file under the whole one's modify time, valid ever after |

The others have no run of their own. The actions contain them all; the last column says which
property excepts them or under which condition it is checked:

| Where | What happens | In the model |
|---|---|---|
| `server.cc:550` | Fetch releases its lock before it stats: after a store in between it answers with the old content and the new modify time, and the stale copy validates | `spoilt` in CachedCopyIsAVersion and OpenIsFresh; no Fetch in ImplementsAtomicFiles |
| `server.cc:704` | two stores in one tick have one modify time; TestAuth cannot tell them apart | the server runs have the coarse clock; the clients are checked with one that ticks |
| `server.cc:873` | StoreWithStream does not check its writes: on a disk that fails it commits a truncated file and answers OK | StoreReplyNamesItsFile is checked on a disk that does not fail |
| `afs_client.h:873` | no stub has a deadline: a server that never answers, on a connection that lasts, holds the callback for ever | EveryCallbackReturns assumes that a request is answered or its connection breaks |
| `afs_client.h:948` | an open overwrites the copy another process of the machine has modified, whose close then succeeds | CloseCommits is checked with one process per machine |
| `afs_client.h:636`, `:663` | CloseFile takes a file out of the log that was written to since it was read | DirtyIsLogged excepts that file (`disturbed`) |
| `afs_client.h:887` | CloseFileWithStream never takes the file out of the single log: the next close stores it again, modified or not, over what others stored since | no property of which files are stored |
| `afs_client.h:948` | the streaming open makes no directory in the cache: a file below a directory made by another client cannot be opened | no property of failing opens |
| `P1/part2/client.c:143`, `:147` | the first timeout of a round counts two drops: "tried" is not the number of sends | no property of the counts |
| `logtester.cc:308`, `:486`, `:502`, `:518` | the first init is timed on 200 lines, the last three removals of pending files on 99, 98 and 97 | LogsAsTitled says nothing of these sizes |
| `server.cc:759` | the result of mknod(2) is dropped: OK for a path that exists or has no parent | no property of the result of Mknod |
| `server.cc:239` | the temporary file a crash leaves is listed, and keeps its directory from being removed, until the next store of the file | TempIsInUse speaks of servers that have not crashed |
| `server.cc:856` | a StoreWithStream whose open fails commits the temporary file an earlier store left | NoPartialFile and ImplementsAtomicFiles where it cannot fail; MtimeNeverGoesBack is proved without it |
| `server.cc:354` | file_size throws for an entry removed during the listing; the whole listing fails with UNKNOWN | ListingIsComplete speaks of listings that succeed |
| `server.cc:461` | StoreWithStream, Mknod, Rename and a store of a large file leave the map as it is: Fetch answers with older content; `:481` has its condition inverted and erases nothing | MapServesTheDisk excepts paths these have changed |
| `server.cc:927`, `afs_client.h:818` | of a file of 2 GiB or more nothing arrives, or a part, or `new` throws | StreamCarriesWhole says exactly which |
| `afs_client.h:184` | a mkdir made again after a lost answer fails with EEXIST, and the cache never gets the directory; a late mkdir or rmdir of a broken call undoes a later one | CacheMirrorsTree excepts clients that lost a connection |
| `afs_client.h:1192` | the log is lost for a moment, and for good if two callbacks rewrite it; an append that overlaps a rewrite is lost | DirtyIsLogged excepts those entries |
| `afs_client.h:1023` | `a/b` and `a%b` have one pending file: the store of one clears the other | DirtyIsLogged excepts those entries |
| `afs_client.h:964` | as `v_broken_fetch`, for errors: a file removed just before its open opens as an empty one | OpenIsFresh allows it |
| `afs_client.h:980` | `set_timings` goes by name: one open stamps the copy another has just truncated, and a crash leaves it so | CachedCopyIsAVersion checked with one process per machine |
| `P1/part2/client.c:61` | the late acknowledgement of one packet ends the wait for the next | MixupNeedsLateness names the cause |
| `async_server.cc:228` | a client that dies may end the server | AsyncServerAnswers counts the calls that ends as over |
| `logtester.cc:348` | the path has no slash, so that `rite_test_50` is logged | the program of LogBench has it |
| `cpp_thrift_with_marshalling.cpp:184` | `tv_sec` is not added | AveragesAreTrue says when the average is off |
| `cpp_thrift_with_marshalling.cpp:690`, `:850`, `:976` | case 4 prints marshalling, or nothing, as unmarshalling, and complex data as a string | Mistitled lists them |
| `greeter_client.cc:192` | AcceptClientSideStream2 does not send what 8 does not divide | StreamCarriesWhole says how much |

The bounds of the client and server runs: `MaxReqs` calls and `MaxCrashes` crashes; `MaxLocks` locks; `MaxOps` opens,
creations and removals, `MaxWrites`, `MaxBreaks` and `MaxCrashes` of the clients; `MaxCalls`, `MaxBreaks`
and `MaxCrashes` of `Namespace`. Of the parts: `MaxDirtyOps`, `MaxRestarts`,
`MaxLosses`, `MaxLate`, `MaxFailures`, `MaxCuts`, `MaxFileSize`, `Heap`, `NSEC`, `Longest`.

Fairness: weak fairness of `Step(t)` for each thread, because the operating system
runs every thread that can run, and gRPC calls every message's handler. It is
assumed of no arrival and no crash. `std::shared_mutex` promises no order, so
a thread waiting for a lock is only guaranteed it if the lock stays free; with
finitely many calls (`MaxReqs`) it eventually does. With endless readers a
writer may starve, and the model says so. Of the clients, the thread of a callback
runs (`Step`); nothing makes a process open, write or close. That the server acts on a request, or
its connection breaks, is an assumption (`FairSpec`) and not something the program sees to: no
`ClientContext` is given a deadline. `client_threads` makes it, with breaks as often as they like, and
shows that the retries end; without it a callback may hang. Of the parts, the UDP client and
server each run, as each is a process in a loop whose reads end at a timeout; the
asynchronous server's one thread and gRPC's run; the threads of the Thrift
clients that have called, and the server's, run. A thread of a Thrift client need
not call, but one that is done closes its connection: without that the simple
server would never turn to the other one.

## 5. Proofs

The safety properties of the passing runs are proved, but for TempIsInUse, for any values of the
constants that satisfy the assumptions stated beside them. A theorem
with hypotheses of its own names them: they are the conditions "Departures" gives.

| Module | Theorem | Property | Hypotheses |
|---|---|---|---|
| `FileServerProofs` | TypeCorrect, ReadsAreConsistent, OneWriter, ReadersSeeStableFiles | TypeOK, ReadsOneVersion, OneWriterPerFile, StableWhileRead | |
| | StoresAreWhole | StoreReplyNamesItsFile | no failing disk, no client that dies in mid-stream |
| | HandlersAreAtomic | ImplementsAtomicFiles | no Fetch; `NoSilentFailure` |
| | FilesAreWhole | NoPartialFile | `NoSilentFailure` |
| | TimesGoForward | MtimeNeverGoesBack | no StoreWithStream whose open fails (`OpensAreSeen`) |
| `MutexMapProofs` | Refinement | ImplementsRWLock | |
| `AfsClientProofs` | ClosesCommit, CachesHoldVersions, OpensAreFresh | CloseCommits, CachedCopyIsAVersion, OpenIsFresh | one process per machine |
| `NamespaceProofs` | ListingsAreComplete, CachesMirrorTheTree | ListingIsComplete, CacheMirrorsTree | |
| `DirtyLogProofs` | WritesStayLogged, StoresLeaveTheLog | DirtyIsLogged, StoredIsCleared | |
| `PartsProofs` | MapIsFresh | MapServesTheDisk | |
| | ReadingsAreOfTheirRound | MixupNeedsLateness | |
| | CallDatasAreAccountedFor | OneThingToCome | |
| | StreamsCarryWhole | StreamCarriesWhole | |
| | AveragesAreTitled | AveragesAreTrue | |
| `ThriftRpcProofs` | RepliesReachTheirCallers, NothingIsLeftBehind | ReplyReachesItsCaller, NothingLeftBehind | |
| `BenchProofs` | TitlesAreTrue | LogsAsTitled | |

### The handlers
`FileServerProofs`. None of these properties is inductive. `IInv` adds what the code's
authors had in mind: `ControlInv`, that each label of a handler belongs to its RPC
(`OpAtLabel`), that the locks held are exactly those the labels say
(`LocksHeld`) and that a unique holder is alone (`Exclusive`); and `DataInv`, what a
handler knows of the file while it holds the lock: a stream's
inode and time are still the file's (`StreamingAt`), the temporary file
holds this request's chunks and, if nothing failed, all those received
(`StoringAt`), and the answers already given name versions in the history
(`AnsweredAt`). `OnlyWriters` and `HeldIsStable` carry the proof: a step changes only
paths its thread holds in unique mode, so what one handler knows
survives the steps of all others (`OtherThreads`), and what is left is each
handler's own step (`OwnThread`). TLC has checked `IInv` on the instances above.

The second half of the module adds the clock: `ClockInv`, that no version there has been is
newer than the clock, and that a temporary file about to be renamed is newer than every
version of its path. The step that matters is StoreCommit, where this gives the
atomic store, and RenameMove, which replaces nothing because what RenameCheck saw still holds
under the destination's lock; crashes map to the loss of calls that had or had not taken effect.
`NoSilentFailure` says that no StoreWithStream is cut short without noticing: either
nothing fails, or it is not called; Store checks its open and its writes and may fail.
`OpensAreSeen` asks less: a StoreWithStream whose writes fail, or whose client dies, still commits a
file newer than the one it replaces; one whose open fails commits what was left there before. Fetch is
left out of HandlersAreAtomic because it stats after it has unlocked.

### The lock map
`MutexMapProofs`, for any threads, paths and nesting. The invariant (`LookupsAgree`) is
that only the owner of the outer mutex is between lookup and insertion, so that what
it found missing still is; a path's mutex, once made, is the path's for good, and every
lock held is of that mutex.

### The clients
`AfsClientProofs`. The proofs need that a machine has one process (`Alone`): then nobody
else touches a copy while a callback is at work on it (with two, an open may overwrite what the
other has written). `CloseInv` says that each label
has its RPC under way (`RpcAt`), that the server's times name its versions
(`ServerInv`), and that an open copy holds every write of its process while a store
sends it, until a store that succeeded names a version since the close began that holds
them (`OpenAt`); ClosesCommit follows for every build, whatever breaks. `FetchInv` is about the
copy. What a stream has brought is how one version in `seen` began (`StreamAt`); what a Fetch has
brought is the content of one version under the time of that one or of a later one in `seen`
(`UnaryAt`). So at every label of a fetch, half of which is not yet a copy TestAuth could confirm, the
copy is on its way to a version, or to a beginning of one under its time or a later one, and then it is
marked `spoilt` when it is stamped (`Torn`); no other step spoils a copy. A confirmed copy that is not
spoilt is the server's version, and what is opened is in `seen`. The theorems have both builds, and
breaking fetch streams: which copies are excepted is a matter of the history, not of the hypotheses.

### Directories
`NamespaceProofs`. `TypeOK` and `Attached` (which thread works on whose call) are
common. ListInv: what has been there since a listing began is in the reply or still to
be looked at. TreeInv: every entry is in a directory, and a Store at its commit still
has its own, which its temporary file keeps from being removed. CachesMirrorTheTree needs both, and MirrorInv: a client nobody has overtaken is the only
one that changes the tree, one call at a time, and its cache is in step or will be once
it has taken the answer. The assumption on `Names` is that a name is a sequence of
components whose prefixes are names too.

### The dirty logs
`DirtyLogProofs`. `Kept` are the files whose entry must be there: those with a write no store has
read, once it is logged, that nothing has disturbed; `Known` those whose entry may be there. FlatInv,
for the build with one pending file per modified file, says both of the pending files; that two paths
may share one is in `disturbed`. LogInv, for the single log, follows the two inodes and names
(`FilesApart`, `AppendsToLog`) and, while no two closeEntrys have overlapped (`Calm`), says
at each of their steps where the entries that must survive are: `OneCloser`,
`KeepsDirty`, `DropsStored`. What closeEntry's loop keeps is a lemma about `OtherLines`.

### The parts
`PartsProofs`. MapInv: an entry of the map is what the disk holds, or is left from a file
that has gone, unless a handler went past the map. OneUnderWay: as long
as the UDP client has waited for everything it sent, at most this round's packet is in the
network. `AsyncInv`: each event is of a CallData that waits for it and nothing else; exactly
one CallData awaits the next call. That there always is a free one when it is needed is a
pigeonhole: those in use serve different callers, and there are more CallDatas than callers.

StreamsCarryWhole is the one with arithmetic: products and quotients of the size by the
length of a chunk, for ints of any width, sizes that wrap included. `WholeChunks` does it once:
if an int makes of the size a number that is not negative, chunk k + 1 takes what was sent
from `Before`(n, k) to `Before`(n, k + 1) bytes, which is the whole after `TotalChunks` of them; and if it
makes a negative one, there is no chunk or the first cannot be allocated. `ChunkInv` is then
that k messages have carried `Before`(n, k) bytes and the file is read to there, while the stream
is whole and the file keeps its length (`ReadersGoOn`); P1's two loops send as many bytes in each
round (`StreamsGoOn`), and one of them drops the remainder.

### The shared Thrift connection
`ThriftRpcProofs`, for any number of threads and calls. Heads and structs alternate on the
wire, the reader's half read reply included (`Alternate`); the sequence numbers of the
calls under way differ (`SeqIdsDiffer`); a message that has the number of a call is its
request or its reply (`MessagesFit`), and, unless the client is in the bad state
(`stop`), each message is of exactly one call that still waits (`MessagesAwaited`); the
read mutex is held from the head to the body, so that the thread that reads the struct is
the one whose head it follows (`BodyIsOwn`); and the bad state is never entered but with the
connection lost (`StopIsLost`). What returns is then the caller's own, and when all
have returned nothing can be left on the wire, since nobody waits for it. TLC has checked
the invariant with three threads on a connection and a plain client on the other.

### The benchmarks of P1 and P2
LogBench and ThriftBench execute a constant program. Their properties are about the state an
instruction finds, which follows from all instructions before it; so the invariants say, for
each place in the program, what the state is there, and the work is to know which
instruction is at which place when the loops have any number of rounds.

`BenchProofs`: the program is thirteen sections, whose lengths are functions of `Half` and
`Iterations` (`Length`, `Start`, `Layout`). `BenchInv` has one predicate per section (`InTestWrite`,
`InCheck`, ...) for the logs after o of its instructions, and the lemmas named `...Step` carry it
over one; `TitleOK` is what each predicate gives the instruction that is next. That the
removals leave `2 * Half` - 1, - 2 and - 3 pending files (`Left1`, `Left2`, `Left3`) is where names must
not collide when they are flattened, and where the three entries removed must differ.

AveragesAreTitled, in `PartsProofs`: each case of main is a sequence of loops, a body repeated n
times and a tail that prints and resets (`MarshalLoop`, `ComplexLoop`, `Complex2Loop`, `RoundLoop`);
`Layout` and `LaidFacts` say where each begins, for any number of iterations and sizes.
`GoodBody` is what makes a loop right: a total is measured once in it, and an operation that reads
finds in the buffer what the other of its protocol has written. `ThriftInv` has two parts.
`Place`: after j rounds and o instructions each total is of one operation, j or j + 1 times; in the
tail, n times. `ClockInv`: a printed total is the true one less a whole second for each measurement
during which one began. An average printed in the tail is therefore over n measurements of
the operation in its title (`GoodTail`), but for the titles `Mistitled` lists.

### Model-checked only
Liveness (EveryCallAnswered, EveryLockGranted, EveryCallbackReturns,
UdpBenchmarkEnds, AsyncServerAnswers, ThriftCallsReturn): the prover has neither ENABLED
nor the induction they need. TempIsInUse is checked
only, and so are EveryCopyIsAVersion, which the code does not have, and NoPartialFile and
EveryCallAnswered under the conditions of `v_partial` and `v_rename`.

## 6. Not modelled

- Durability: neither side calls fsync, so that after a power failure the files are
  what the disk makes of it; the program has no step to model.
- What two handlers make of `mem_map` when they change it at once: a data race on
  a std::map, undefined. `partial_free_mem_map` has no caller.
- `Ping`, `fs_read` and the transforms of messages, which change no state; `Rename`
  of the client does not exist, so that only `FileServer` has it.
- The clock and marshalling benchmarks of `P1/part0` and `P1/part1`, the serialisers
  in `helloworld.pb.cc` and `rpc_measurement_types.cpp`, the unary loops of the gRPC
  client, the scripts and results: straight-line code, or generated, that keeps no state
  worth a specification.
- The size and times `fs_getattr` reports for a file that is open and modified are
  the server's, and no property is about them.
