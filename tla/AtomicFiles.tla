---- MODULE AtomicFiles ----
(***************************************************************************)
(* What the file service promises its clients: between its invocation and  *)
(* its return every call takes effect at once, or not at all.  A store     *)
(* replaces the whole file and gives it a modify time no older than any    *)
(* the name has had; a read returns one version of the file, content and   *)
(* modify time together; a failed store changes nothing.  A crash of the   *)
(* server drops the calls in progress and no file.                         *)
(*                                                                         *)
(* P2/report.pdf, "Server crash consistency": "any request that modifies   *)
(* the persistent state is executed as an atomic sequence of operations".  *)
(***************************************************************************)
EXTENDS FileTypes

CONSTANTS
    Threads,      \* the calls in progress
    FineClock     \* TRUE: no two writes get the same modify time

VARIABLES
    file,         \* file[p]: the file p, NoFile if none
    hist,         \* hist[p]: every version p has had
    phase,        \* phase[t]: "idle", "called" or "answered"
    req,          \* req[t]: the request of the call
    reply         \* reply[t]: its response

vars == <<file, hist, phase, req, reply>>

Init ==
    /\ file \in [Paths -> Files]
    /\ hist = [p \in Paths |-> {file[p]} \ {NoFile}]
    /\ phase = [t \in Threads |-> "idle"]
    /\ req = [t \in Threads |-> NoRequest]
    /\ reply = [t \in Threads |-> Blank]

Invoke(t) ==
    /\ phase[t] = "idle"
    /\ phase' = [phase EXCEPT ![t] = "called"]
    /\ req'[t] \in Request
    /\ req' = [req EXCEPT ![t] = req'[t]]
    /\ UNCHANGED <<file, hist, reply>>

Answer(t, r) ==
    /\ phase[t] = "called"
    /\ phase' = [phase EXCEPT ![t] = "answered"]
    /\ reply' = [reply EXCEPT ![t] = r]
    /\ UNCHANGED req

\* The file p is replaced by one with content c and a new modify time.
Replace(p, c) ==
    /\ file'[p] \in Versions
    /\ file'[p].data = c
    /\ \A v \in hist[p] :
         IF FineClock THEN file'[p].mtime > v.mtime ELSE file'[p].mtime >= v.mtime
    /\ file' = [file EXCEPT ![p] = file'[p]]
    /\ hist' = [hist EXCEPT ![p] = @ \union {file'[p]}]

Missing(t) ==
    IF req[t].op = "FetchWithStream" THEN [Blank EXCEPT !.status = "UNKNOWN"]
                                     ELSE [Blank EXCEPT !.errno = "ENOENT"]

Read(t) ==
    LET p == req[t].path IN
    /\ req[t].op \in {"Fetch", "FetchWithStream", "GetFileStat"}
    /\ Answer(t, IF file[p] = NoFile
                   THEN Missing(t)
                   ELSE LET v == Delivered(req[t].op, file[p])
                        IN  [Blank EXCEPT !.data = v.data, !.mtime = v.mtime])
    /\ UNCHANGED <<file, hist>>

TestAuth(t) ==
    LET p == req[t].path IN
    /\ req[t].op = "TestAuth"
    /\ Answer(t, [Blank EXCEPT !.changed =
                    file[p] = NoFile \/ file[p].mtime # req[t].time])
    /\ UNCHANGED <<file, hist>>

Store(t) ==
    LET p == req[t].path IN
    /\ req[t].op \in StoreOps
    /\ Replace(p, Whole(req[t].data))
    /\ Answer(t, [Blank EXCEPT !.mtime = file'[p].mtime])

StoreFails(t) ==
    /\ req[t].op \in StoreOps
    /\ \E s \in {"UNKNOWN", "CANCELLED"} :
         Answer(t, [Blank EXCEPT !.status = s])
    /\ UNCHANGED <<file, hist>>

Remove(t) ==
    LET p == req[t].path IN
    /\ req[t].op = "Remove"
    /\ file' = [file EXCEPT ![p] = NoFile]
    /\ Answer(t, IF file[p] = NoFile THEN Missing(t) ELSE Blank)
    /\ UNCHANGED hist

\* The response to a Mknod does not tell whether it created the file.
Mknod(t) ==
    LET p == req[t].path IN
    /\ req[t].op = "Mknod"
    /\ IF file[p] = NoFile THEN Replace(p, <<>>) ELSE UNCHANGED <<file, hist>>
    /\ Answer(t, Blank)

Rename(t) ==
    LET p == req[t].path
        q == req[t].dst
    IN
    /\ req[t].op = "Rename"
    /\ \/ /\ file[q] # NoFile
          /\ Answer(t, [Blank EXCEPT !.errno = "EEXIST"])
          /\ UNCHANGED <<file, hist>>
       \/ /\ file[q] = NoFile /\ file[p] = NoFile
          /\ Answer(t, Missing(t))
          /\ UNCHANGED <<file, hist>>
       \/ /\ file[q] = NoFile /\ file[p] # NoFile
          /\ Answer(t, Blank)
          /\ file' = [file EXCEPT ![p] = NoFile, ![q] = file[p]]
          /\ hist' = [hist EXCEPT ![q] = @ \union {file[p]}]

Return(t) ==
    /\ phase[t] = "answered"
    /\ phase' = [phase EXCEPT ![t] = "idle"]
    /\ req' = [req EXCEPT ![t] = NoRequest]
    /\ reply' = [reply EXCEPT ![t] = Blank]
    /\ UNCHANGED <<file, hist>>

Crash ==
    /\ phase' = [t \in Threads |-> "idle"]
    /\ req' = [t \in Threads |-> NoRequest]
    /\ reply' = [t \in Threads |-> Blank]
    /\ UNCHANGED <<file, hist>>

Next ==
    \/ \E t \in Threads :
         \/ Invoke(t) \/ Return(t)
         \/ Read(t) \/ TestAuth(t)
         \/ Store(t) \/ StoreFails(t)
         \/ Remove(t) \/ Mknod(t) \/ Rename(t)
    \/ Crash

Spec == Init /\ [][Next]_vars
====
