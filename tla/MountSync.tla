----------------------------- MODULE MountSync -----------------------------
(***************************************************************************)
(* Two-way synchronisation of a folder of a Windows mount with the server. *)
(* One goroutine runs passes one after the other: it sends the changes the *)
(* directory watcher reported (a flush), follows the journal of the server *)
(* (a poll) and compares everything (an audit).  Meanwhile the user works  *)
(* in the folder and other clients change the server.                      *)
(*                                                                         *)
(* Every request is a step of its own, and so is reading a local file      *)
(* before it is sent.  What a pass does in the folder between two requests *)
(* is one step, in the middle of which it may still crash.                 *)
(*                                                                         *)
(* One folder of files is modelled.  Directories, exclusions, pinned files *)
(* and the cache limit are left out.  A file has its content; that Windows *)
(* fetched it less than a second ago (winHydrationGrace) is possible       *)
(* whenever the code asks: a file that differs is then not sent.           *)
(***************************************************************************)
EXTENDS Integers, Sequences, FiniteSets

CONSTANTS
  NumPaths,      \* names the user and other clients give
  NumCopies,     \* names of conflict copies (they contain a time)
  NumNodes,
  InitialNodes,  \* how many nodes exist when the folder is first mounted
  Copying,       \* the user also writes content that existed before
  Ticks,         \* what wakes the goroutine: flush, poll, audit
  MaxRev,        \* a node that has reached it is changed no more
  MaxWrites, MaxUserSteps, MaxWebSteps, MaxFaults

ASSUME MountAssumption ==
  /\ NumPaths \in Nat \ {0} /\ NumCopies \in Nat /\ NumNodes \in Nat \ {0}
  /\ InitialNodes \in 0..NumNodes /\ InitialNodes =< NumPaths
  /\ Copying \in BOOLEAN
  /\ Ticks \subseteq {"flush", "poll", "audit"}
  /\ MaxRev \in Nat \ {0} /\ MaxWrites \in Nat /\ MaxUserSteps \in Nat
  /\ MaxWebSteps \in Nat /\ MaxFaults \in Nat

Name == 1..NumPaths
Copy == NumPaths + 1 .. NumPaths + NumCopies
Path == Name \cup Copy
Node == 1..NumNodes

VARIABLES
  node,      \* path, revision, content and state of every node
  journal,   \* nodes changed after the cursor of the mount, last change last
  late,      \* nodes changed since the page in hand was read
  receipts,  \* finalized upload sessions: what was asked, and the node
  stored,    \* contents the server was ever given
  disk,      \* the files of the folder
  events,    \* changes the watcher has reported
  base,      \* winProvider.baseline, persisted with every change
  known,     \* there is a persisted baseline
  tracked,   \* winProvider.remoteJournal
  pc, why,   \* the step the goroutine is at, and what woke it
  batch,     \* the events a flush works on
  work,      \* the copy of the baseline a pass works on
  moves,     \* renames of the batch still to be sent
  todo,      \* paths a loop still has to visit
  gone,      \* paths whose deletion is still to be sent
  scan,      \* what an audit found in the folder
  snap,      \* what Walk answered
  page,      \* changes of the journal still to be applied
  advance,   \* the pass ends with a new cursor
  job,       \* the file being sent
  watched,   \* writes of the user reported at the path they are still at
  due,       \* those the running pass began with or found when it scanned
  dropped,   \* nodes whose file the user removed or renamed
  writes, userSteps, webSteps, faults

server  == <<node, journal, late, receipts, stored>>
folder  == <<disk, events>>
mount   == <<base, known, tracked>>
locals  == <<batch, work, moves, todo, gone, scan, snap, page, advance, job>>
run     == <<pc, why, locals>>
history == <<watched, due, dropped>>
counts  == <<writes, userSteps, webSteps>>
vars    == <<server, folder, mount, run, history, counts, faults>>

-----------------------------------------------------------------------------
(* Files, baseline entries and nodes *)

\* The stamp of a file is its size and time of modification.
NoStamp == <<"none", 0, 0>>
Stamp == {NoStamp} \cup ({"write", "copy"} \X (0..MaxWrites) \X {0})
                   \cup ({"node"} \X Node \X Nat)
NoFile  == [stamp |-> NoStamp, bytes |-> 0, id |-> 0]
NoEntry == [node |-> 0, rev |-> 0, stamp |-> NoStamp]
NoJob   == [path |-> 0, stamp |-> NoStamp, bytes |-> 0, copy |-> 0,
            ret |-> "none"]
NoEvents == [paths |-> {}, renames |-> {}, lost |-> FALSE]
Nowhere == [p \in Path |-> NoEntry]
Nothing == [p \in Path |-> NoFile]

Here(p) == disk[p] # NoFile
In(w, p) == w[p].node # 0
Written(k) == <<"write", k, 0>>
At(k, p) == disk[p].stamp = Written(k)
RenamedFrom(e) == {m[1] : m \in e.renames}
First(S) == CHOOSE p \in S : \A q \in S : p =< q
PathsOf(w, n) == {p \in Path : In(w, p) /\ w[p].node = n}

LiveAt(p) == {n \in Node : node[n].live /\ node[n].path = p}
\* What a client sees of a node, in a listing or in the journal.
Change(n) == [node |-> n, path |-> node[n].path, rev |-> node[n].rev,
              bytes |-> node[n].bytes, live |-> node[n].live]
Nobody == [node |-> 0, path |-> 0, rev |-> 0, bytes |-> 0, live |-> FALSE]
View == [p \in Path |-> IF LiveAt(p) = {} THEN Nobody
                        ELSE Change(CHOOSE n \in LiveAt(p) : TRUE)]

Placeholder(c) == [stamp |-> <<"node", c.node, c.rev>>, bytes |-> c.bytes,
                   id |-> c.node]
Entry(c, stamp) == [node |-> c.node, rev |-> c.rev, stamp |-> stamp]
Fresh(c) == Entry(c, Placeholder(c).stamp)

-----------------------------------------------------------------------------
(* Requests *)

\* Appended, and taken out of where it was.
Listed(s) == {s[i] : i \in DOMAIN s}
Logged(s, n) ==
  IF n \in Listed(s)
  THEN LET at == CHOOSE i \in DOMAIN s : s[i] = n IN
       [i \in DOMAIN s |-> IF i < at THEN s[i]
                           ELSE IF i < Len(s) THEN s[i + 1] ELSE n]
  ELSE Append(s, n)
Put(n, r) ==
  /\ r.rev =< MaxRev
  /\ node' = [node EXCEPT ![n] = r]
  /\ journal' = Logged(journal, n)
  /\ late' = IF advance THEN Logged(late, n) ELSE <<>>

\* createNode: the first unused id, revision 1.
Unused == {n \in Node : node[n].rev = 0}
Create(n, p, bytes) ==
  /\ Unused # {} /\ n = First(Unused)
  /\ LiveAt(p) = {}
  /\ Put(n, [path |-> p, rev |-> 1, bytes |-> bytes, live |-> TRUE])
  /\ stored' = stored \cup {bytes}

\* Mutant: the revision of the request is not compared.
CurrentAtAnyRev(n, r) == node[n].live

Current(n, r) == node[n].live /\ node[n].rev = r

\* updateNode
CanMove(n, r, p) == Current(n, r) /\ LiveAt(p) \subseteq {n}
\* Mutant: a rename does not advance the revision.
MoveQuietly(n, p) ==
  /\ Put(n, [node[n] EXCEPT !.path = p])
  /\ UNCHANGED <<receipts, stored>>

MoveTo(n, p) ==
  /\ Put(n, [node[n] EXCEPT !.path = p, !.rev = @ + 1])
  /\ UNCHANGED <<receipts, stored>>

\* deleteNode
Trash(n) ==
  /\ Put(n, [node[n] EXCEPT !.live = FALSE, !.rev = @ + 1])
  /\ UNCHANGED <<receipts, stored>>

\* A finalized session of the same content and target answers a new upload.
NewKey(p, bytes) == <<"new", p, 0, bytes>>
OverKey(n, r, bytes) == <<"over", n, r, bytes>>
Receipts(key) == {r \in receipts : r.key = key}

Lost == faults < MaxFaults /\ faults' = faults + 1

-----------------------------------------------------------------------------
(* Passes: how they begin, how they end *)

\* The watcher is started when the first pass of a mount has succeeded.
Watching == pc # "off" /\ why # "start"
Noted(ps) == IF Watching THEN [events EXCEPT !.paths = @ \cup ps] ELSE events
Merged(e, b) == [paths |-> e.paths \cup b.paths,
                 renames |-> e.renames \cup b.renames,
                 lost |-> e.lost \/ b.lost]

Enter(step, w) ==
  /\ pc' = step /\ why' = w
  /\ batch' = NoEvents /\ work' = Nowhere /\ moves' = {} /\ todo' = {}
  /\ gone' = {} /\ scan' = Nothing /\ snap' = [p \in Path |-> Nobody]
  /\ page' = <<>> /\ advance' = FALSE /\ job' = NoJob

\* What follows a flush that succeeded.
Proceed ==
  \/ why = "flush" /\ Enter("idle", "none")
  \/ why = "poll" /\ Enter("poll", "poll")
  \/ why = "audit" /\ Enter("scan", "audit")

\* The step a pass is at when a file has been sent.
Pass == IF job = NoJob THEN pc ELSE job.ret
Auditing == Pass \in {"scan", "add", "edit", "missing", "walk", "pull"}

\* An audit forgets its copy of the baseline, the other passes store it.
Fail(ps) ==
  /\ base' = IF Auditing THEN base ELSE work
  /\ UNCHANGED <<known, tracked>>
  /\ IF why = "start"
     THEN Enter("off", "none") /\ events' = NoEvents
     ELSE Enter("idle", "none") /\ events' = Merged(Noted(ps), batch)

\* The step that follows a request, or the failure of a pass whose request
\* was carried out without an answer.
Answered(Then) == \/ Then /\ UNCHANGED faults
                  \/ Lost /\ Fail({}) /\ UNCHANGED disk

Wake(w) ==
  /\ pc = "idle"
  /\ w \in Ticks
  /\ w = "flush" => events # NoEvents
  /\ due' = watched
  /\ IF events = NoEvents
     THEN /\ Enter(IF w = "poll" THEN "poll" ELSE "scan", w)
          /\ UNCHANGED events
     ELSE /\ batch' = events /\ events' = NoEvents
          /\ why' = w
          /\ IF events.lost
             THEN pc' = "scan" /\ UNCHANGED <<work, moves, todo>>
             ELSE /\ pc' = "local" /\ work' = base
                  /\ moves' = events.renames
                  /\ todo' = events.paths \ {m[1] : m \in events.renames}
          /\ UNCHANGED <<gone, scan, snap, page, advance, job>>
  /\ UNCHANGED <<server, disk, mount, watched, dropped, counts, faults>>

-----------------------------------------------------------------------------
(* The flush: reconcileLocalChanges *)

Flushing == pc = "local"

\* applyLocalRename, in the order of the old names.
SendRename ==
  /\ Flushing
  /\ \E m \in moves :
       LET from == m[1]  to == m[2]  e == work[from]
           Next == /\ moves' = moves \ {m}
                   /\ UNCHANGED <<folder, mount, pc, why, batch, gone, scan,
                                  snap, page, advance, job>>
       IN
       /\ \A other \in moves : from =< other[1]
       /\ IF In(work, from) /\ Here(to) /\ CanMove(e.node, e.rev, to)
          THEN /\ MoveTo(e.node, to)
               /\ Answered(
                    /\ Next
                    /\ work' = [work EXCEPT ![from] = NoEntry,
                                            ![to] = [e EXCEPT !.rev = @ + 1]]
                    /\ UNCHANGED todo)
          ELSE /\ Next
               /\ todo' = todo \cup {from, to}
               /\ UNCHANGED <<server, work, faults>>
  /\ UNCHANGED <<history, counts>>

\* A placeholder that the baseline knows by another name.
MovedFrom(p) == IF Here(p) /\ disk[p].id # 0
                THEN PathsOf(work, disk[p].id) \ {p} ELSE {}

\* reconcileMovedPlaceholder, of a flush and of an audit: every error ends the
\* pass.  The file is taken for unchanged, whatever the user wrote into it.
SendMoved ==
  /\ \/ pc = "local" /\ moves = {}
     \/ pc = "add"
  /\ todo # {}
  /\ LET p == First(todo)  from == First(MovedFrom(p))  e == work[from] IN
     /\ ~In(work, p) /\ MovedFrom(p) # {}
     /\ IF CanMove(e.node, e.rev, p)
        THEN /\ MoveTo(e.node, p)
             /\ Answered(
                  /\ work' = [work EXCEPT ![from] = NoEntry,
                                ![p] = [node |-> e.node, rev |-> e.rev + 1,
                                        stamp |-> disk[p].stamp]]
                  /\ todo' = todo \ {p}
                  /\ UNCHANGED <<folder, mount, pc, why, batch, moves, gone,
                                 scan, snap, page, advance, job>>)
        ELSE Fail({}) /\ UNCHANGED <<server, disk, faults>>
     /\ LET taken == {p} \cup ({from} \ todo) IN
        /\ watched' = {k \in watched : \A q \in taken : ~At(k, q)}
        /\ due' = {k \in due : \A q \in taken : ~At(k, q)}
  /\ UNCHANGED <<dropped, counts>>

\* Reads the file that is going to be sent.
Send(step, p, stamp) ==
  /\ pc' = step
  /\ job' = [path |-> p, stamp |-> stamp, bytes |-> disk[p].bytes, copy |-> 0,
             ret |-> IF pc = "slow" THEN "sent" ELSE pc]
  /\ UNCHANGED <<server, folder, mount, why, batch, work, moves, gone, scan,
                 snap, advance, faults>>

\* A changed file that was fetched just now ends the pass, which is retried:
\* errWindowsHydrationSettling.
VisitPath ==
  /\ Flushing /\ moves = {} /\ todo # {}
  /\ LET p == First(todo) IN
     \/ /\ IF Here(p) THEN In(work, p) /\ disk[p].stamp = work[p].stamp ELSE TRUE
        /\ todo' = todo \ {p}
        /\ gone' = IF ~Here(p) /\ In(work, p) THEN gone \cup {p} ELSE gone
        /\ UNCHANGED <<server, folder, mount, pc, why, batch, work, moves,
                       scan, snap, page, advance, job, faults>>
     \/ /\ Here(p) /\ ~In(work, p) /\ MovedFrom(p) = {}
        /\ Send("upload", p, disk[p].stamp)
        /\ todo' = todo \ {p} /\ UNCHANGED page
     \/ /\ Here(p) /\ In(work, p) /\ disk[p].stamp # work[p].stamp
        /\ \/ /\ Send("overwrite", p, disk[p].stamp)
              /\ todo' = todo \ {p} /\ UNCHANGED page
           \/ Fail({}) /\ UNCHANGED <<server, disk, faults>>
  /\ UNCHANGED <<history, counts>>

\* 404 and 409 leave the entry in the baseline.
SendDelete ==
  /\ Flushing /\ moves = {} /\ todo = {} /\ gone # {}
  /\ LET p == First(gone)  e == work[p]
         Next == /\ gone' = gone \ {p}
                 /\ UNCHANGED <<folder, mount, pc, why, batch, moves, todo,
                                scan, snap, page, advance, job>>
     IN IF In(work, p) /\ Current(e.node, e.rev)
        THEN /\ Trash(e.node)
             /\ Answered(Next /\ work' = [work EXCEPT ![p] = NoEntry])
        ELSE Next /\ UNCHANGED <<server, work, faults>>
  /\ UNCHANGED <<history, counts>>

EndFlush ==
  /\ Flushing /\ moves = {} /\ todo = {} /\ gone = {}
  /\ base' = work
  /\ Proceed
  /\ UNCHANGED <<server, folder, known, tracked, history, counts, faults>>

-----------------------------------------------------------------------------
(* Sending one file: syncLocalFile, and the uploads of an audit *)

Target == job.path
Base   == work[Target]

\* Back to the loop of the pass, with the baseline entry of the file.
Back(w) ==
  /\ work' = w
  /\ pc' = job.ret
  /\ job' = NoJob
  /\ UNCHANGED <<mount, why, batch, moves, todo, gone, snap, page, advance>>

\* The file becomes a placeholder of its node; it may have gone meanwhile.
Uploaded(c) ==
  IF Here(Target)
  THEN Answered(/\ disk' = [disk EXCEPT ![Target].id = c.node]
                /\ Back([work EXCEPT ![Target] = Entry(c, job.stamp)])
                /\ UNCHANGED <<events, scan>>)
  ELSE Fail({}) /\ UNCHANGED <<disk, faults>>

Upload ==
  /\ pc = "upload"
  /\ LET key == NewKey(Target, job.bytes)
         old == {r \in Receipts(key) : node[r.node].live}
     IN \/ /\ old # {}
           /\ \E r \in old : Uploaded(Change(r.node))
           /\ UNCHANGED server
        \/ /\ Receipts(key) = {}
           /\ \E n \in Node :
                /\ Create(n, Target, job.bytes)
                /\ receipts' = receipts \cup {[key |-> key, node |-> n]}
                /\ Uploaded([node |-> n, path |-> Target, rev |-> 1,
                             bytes |-> job.bytes, live |-> TRUE])
        \/ \* the session has ended without a file, or the name is taken
           /\ old = {}
           /\ Receipts(key) # {} \/ LiveAt(Target) # {}
           /\ Fail({}) /\ UNCHANGED <<server, disk, faults>>
  /\ UNCHANGED <<history, counts>>

Overwritten(c) ==
  IF Here(Target)
  THEN Answered(/\ Back([work EXCEPT ![Target] = Entry(c, job.stamp)])
                /\ UNCHANGED <<folder, scan>>)
  ELSE Fail({}) /\ UNCHANGED <<disk, faults>>

\* Mutant: the server's file replaces the local one without a copy.
TooLateNoCopy == pc' = "refresh"

\* A write that lost against another is kept as a conflict copy.
TooLate == pc' = "copy"

Overwrite ==
  /\ pc = "overwrite"
  /\ LET n == Base.node  r == Base.rev
         key == OverKey(n, r, job.bytes)
     IN IF ~node[n].live
        THEN Fail({}) /\ UNCHANGED <<server, disk, faults>>
        ELSE \/ /\ Receipts(key) # {}
                /\ Overwritten(Change(n))
                /\ UNCHANGED server
             \/ /\ Receipts(key) = {} /\ node[n].rev = r
                /\ Put(n, [node[n] EXCEPT !.bytes = job.bytes, !.rev = r + 1])
                /\ stored' = stored \cup {job.bytes}
                /\ receipts' = receipts \cup {[key |-> key, node |-> n]}
                /\ Overwritten([Change(n) EXCEPT !.rev = r + 1,
                                                 !.bytes = job.bytes])
             \/ /\ Receipts(key) = {} /\ node[n].rev # r
                /\ TooLate
                /\ UNCHANGED <<server, folder, mount, why, locals, faults>>
  /\ UNCHANGED <<history, counts>>

\* copyLocalFile
\* Names with the present time: nothing has one of them yet.
FreeCopies == {c \in Copy : ~Here(c) /\ LiveAt(c) = {} /\ ~In(work, c)
                              /\ c \notin gone
                              /\ Receipts(NewKey(c, disk[Target].bytes)) = {}}
CopyConflict ==
  /\ pc = "copy"
  /\ IF Here(Target)
     THEN /\ FreeCopies # {}
          /\ LET c == First(FreeCopies)  b == disk[Target].bytes IN
             /\ disk' = [disk EXCEPT ![c] = [stamp |-> <<"copy", b, 0>>,
                                             bytes |-> b, id |-> 0]]
             /\ events' = Noted({c})
             /\ job' = [job EXCEPT !.copy = c, !.bytes = b]
          /\ pc' = "sendCopy"
          /\ UNCHANGED <<mount, why, batch, work, moves, todo, gone, scan,
                         snap, page, advance>>
     ELSE Fail({}) /\ UNCHANGED disk
  /\ UNCHANGED <<server, history, counts, faults>>

SendCopy ==
  /\ pc = "sendCopy"
  /\ LET c == job.copy IN
     \/ \E n \in Node :
          /\ Here(c)
          /\ Create(n, c, disk[c].bytes)
          /\ receipts' = receipts \cup {[key |-> NewKey(c, disk[c].bytes),
                                        node |-> n]}
          /\ Answered(
               /\ disk' = [disk EXCEPT ![c].id = n]
               /\ work' = [work EXCEPT ![c] = [node |-> n, rev |-> 1,
                                               stamp |-> disk[c].stamp]]
               /\ scan' = IF Auditing THEN [scan EXCEPT ![c] = disk[c]] ELSE scan
               /\ pc' = "refresh"
               /\ UNCHANGED <<events, mount, why, batch, moves, todo, gone,
                              snap, page, advance, job>>)
     \/ /\ ~Here(c) \/ LiveAt(c) # {}
        /\ Fail({}) /\ UNCHANGED <<server, disk, faults>>
  /\ UNCHANGED <<history, counts>>

\* refreshConflictSourceNode; then the file gives way to the server's.
Refresh ==
  /\ pc = "refresh"
  /\ IF node[Base.node].live
     THEN LET c == Change(Base.node) IN
          /\ disk' = [disk EXCEPT ![Target] = Placeholder(c)]
          /\ events' = Noted({Target})
          /\ Back([work EXCEPT ![Target] = Fresh(c)])
          /\ UNCHANGED scan
     ELSE Fail({}) /\ UNCHANGED disk
  /\ UNCHANGED <<server, history, counts, faults>>

-----------------------------------------------------------------------------
(* The audit: reconcile *)

\* scanLocal
Scan ==
  /\ pc = "scan"
  /\ scan' = disk
  /\ work' = base
  /\ todo' = {p \in Path : Here(p)}
  /\ pc' = "add"
  /\ LET seen == {k \in 1..MaxWrites :
                    \E p \in Path : At(k, p) /\ disk[p].stamp # base[p].stamp}
     IN due' = due \cup seen
  /\ UNCHANGED <<server, folder, mount, why, batch, moves, gone, snap, page,
                 advance, job, watched, dropped, counts, faults>>

\* An audit goes on with the next loop when nothing is left to visit.
NextLoop(step, paths) ==
  /\ todo = {}
  /\ pc' = step
  /\ todo' = paths
  /\ UNCHANGED <<server, folder, mount, why, batch, work, moves, gone, scan,
                 snap, page, advance, job, history, counts, faults>>

\* New files, in the order of their names.
Add ==
  /\ pc = "add" /\ todo # {}
  /\ LET p == First(todo) IN
     \/ /\ In(work, p)
        /\ todo' = todo \ {p}
        /\ UNCHANGED <<server, folder, mount, pc, why, batch, work, moves,
                       gone, scan, snap, page, advance, job, faults>>
     \/ /\ ~In(work, p) /\ MovedFrom(p) = {}
        /\ IF Here(p)
           THEN /\ Send("upload", p, scan[p].stamp)
                /\ todo' = todo \ {p} /\ UNCHANGED page
           ELSE Fail({}) /\ UNCHANGED <<server, disk, faults>>
  /\ UNCHANGED <<history, counts>>
EndAdd == pc = "add" /\ NextLoop("edit",
  {p \in Path : /\ scan[p] # NoFile /\ In(work, p)
                /\ scan[p].stamp # work[p].stamp})

\* Changed files, in any order.  One that was fetched just now is passed over:
\* what was written into it is no longer due, nor is it watched when events
\* does not have its report.
PassOver(p) ==
  /\ todo' = todo \ {p}
  /\ due' = {k \in due : ~At(k, p)}
  /\ watched' = {k \in watched : At(k, p) => events.lost \/ p \in events.paths}
  /\ UNCHANGED <<server, folder, mount, pc, why, batch, work, moves, gone, scan,
                 snap, page, advance, job, faults>>
Edit ==
  /\ pc = "edit"
  /\ \E p \in todo :
       \/ PassOver(p)
       \/ /\ IF Here(p)
             THEN /\ Send("overwrite", p, scan[p].stamp)
                  /\ todo' = todo \ {p} /\ UNCHANGED page
             ELSE Fail({}) /\ UNCHANGED <<server, disk, faults>>
          /\ UNCHANGED <<watched, due>>
  /\ UNCHANGED <<dropped, counts>>
EndEdit == pc = "edit" /\ NextLoop("missing",
  {p \in Path : In(work, p) /\ scan[p] = NoFile})

\* Deleted files.  A node that is gone already leaves the baseline, a newer
\* one stays.
Missing ==
  /\ pc = "missing" /\ todo # {}
  /\ LET p == First(todo)  e == work[p]
         Next == /\ todo' = todo \ {p}
                 /\ UNCHANGED <<folder, mount, pc, why, batch, moves, gone,
                                scan, snap, page, advance, job>>
         Forget == work' = [work EXCEPT ![p] = NoEntry]
     IN \/ /\ Current(e.node, e.rev)
           /\ Trash(e.node)
           /\ Answered(Next /\ Forget)
        \/ /\ ~Current(e.node, e.rev)
           /\ IF node[e.node].live THEN UNCHANGED work ELSE Forget
           /\ Next
           /\ UNCHANGED <<server, faults>>
  /\ UNCHANGED <<history, counts>>
EndMissing == pc = "missing" /\ NextLoop("walk", {})

Walk(step, w, paths) ==
  /\ snap' = View
  /\ work' = w
  /\ todo' = paths
  /\ pc' = step
  /\ UNCHANGED <<server, folder, mount, why, batch, moves, gone, scan, page,
                 advance, job, history, counts, faults>>
WalkAudit == pc = "walk" /\ Walk("pull", work, {})

\* A listed file takes its place in the folder when it is missing there or
\* has another revision; the nodes are not compared.
Seen(p) == snap[p] # Nobody
Taken(p) == Here(p) /\ In(work, p) /\ work[p].rev = snap[p].rev
\* A placeholder cannot be created where a file is.
Blocked == {p \in Path : Seen(p) /\ Here(p) /\ ~In(work, p)}
Pulled(ps) == [p \in Path |->
  CASE p \in ps /\ Seen(p) /\ ~Taken(p) -> Placeholder(snap[p])
    [] p \in ps /\ ~Seen(p) /\ In(work, p) -> NoFile
    [] OTHER -> disk[p]]
Matched == [p \in Path |->
  CASE Seen(p) /\ Taken(p)  -> Entry(snap[p], work[p].stamp)
    [] Seen(p) /\ ~Taken(p) -> Fresh(snap[p])
    [] OTHER -> NoEntry]
Altered(ps) == {p \in ps : Pulled(ps)[p] # disk[p]}
\* Those it has come to before it stops.
Reached == IF Blocked = {} THEN Path
           ELSE {p \in Path : Seen(p) /\ p < First(Blocked)}

Pull ==
  /\ pc = "pull"
  /\ IF Blocked = {}
     THEN /\ disk' = Pulled(Path)
          /\ base' = Matched
          /\ UNCHANGED <<known, tracked>>
          /\ events' = Noted(Altered(Path))
          /\ IF batch.lost THEN Proceed ELSE Enter("idle", "none")
     ELSE /\ disk' = Pulled(Reached)
          /\ Fail(Altered(Reached))
  /\ UNCHANGED <<server, history, counts, faults>>

-----------------------------------------------------------------------------
(* The poll: reconcileRemote *)

Request ==
  /\ pc = "poll"
  /\ \/ /\ tracked /\ journal = <<>>
        /\ Enter("idle", "none")
        /\ UNCHANGED faults
     \/ /\ tracked /\ journal # <<>>
        /\ page' = [i \in 1..Len(journal) |-> Change(journal[i])]
        /\ advance' = TRUE
        /\ pc' = "apply"
        /\ UNCHANGED <<why, batch, work, moves, todo, gone, scan, snap, job,
                       faults>>
     \/ /\ IF tracked THEN Lost ELSE UNCHANGED faults
        /\ pc' = "list"
        /\ UNCHANGED <<why, locals>>
  /\ late' = <<>>
  /\ UNCHANGED <<node, journal, receipts, stored, folder, mount, history,
                 counts>>

\* The end of a poll; the cursor moves past the page it began with.
Polled(w) ==
  /\ base' = w
  /\ journal' = IF advance THEN late ELSE journal
  /\ late' = <<>>
  /\ UNCHANGED <<node, receipts, stored, known, tracked, history, counts,
                 faults>>
  /\ Enter("idle", "none")

Calm(w, p) == Here(p) => disk[p].stamp = w[p].stamp
OnPage(p) == \E i \in DOMAIN page : page[i].path = p
ChangeOf(p) == page[CHOOSE i \in DOMAIN page : page[i].path = p]

\* applyRemoteFileUpsertPageFast; a changed file passes for unchanged while it
\* was fetched just now, else the page is applied change by change.
Upserts == \A c \in Listed(page) : c.live /\ base[c.path].node = c.node
Incoming(p) == OnPage(p) /\ ~(Here(p) /\ base[p].rev = ChangeOf(p).rev)
Upserted == [p \in Path |-> IF Incoming(p) THEN Placeholder(ChangeOf(p)) ELSE disk[p]]
FastUpserts ==
  /\ pc = "apply" /\ Upserts
  /\ disk' = Upserted
  /\ Polled([p \in Path |-> IF Incoming(p) THEN Fresh(ChangeOf(p)) ELSE base[p]])
  /\ events' = Noted({p \in Path : Incoming(p)})

\* applyRemoteFileDeletePageFast, with the same exception.
Deletes == \A c \in Listed(page) : ~c.live /\ base[c.path].node = c.node
Without(ps) == [p \in Path |-> IF p \in ps THEN NoFile ELSE disk[p]]
FastDeletes ==
  /\ pc = "apply" /\ Deletes
  /\ LET ps == {p \in Path : OnPage(p)} IN
     \/ /\ disk' = Without(ps)
        /\ Polled([p \in Path |-> IF p \in ps THEN NoEntry ELSE base[p]])
        /\ events' = Noted({p \in ps : Here(p)})
     \/ /\ \E p \in ps : ~Calm(base, p)
        /\ Enter("idle", "none")
        /\ UNCHANGED <<server, folder, mount, history, counts, faults>>

Slow ==
  /\ pc = "apply" /\ ~Deletes
  /\ Upserts => \E p \in Path : OnPage(p) /\ ~Calm(base, p)
  /\ pc' = "slow" /\ work' = base
  /\ UNCHANGED <<server, folder, mount, why, batch, moves, todo, gone, scan,
                 snap, page, advance, job, history, counts, faults>>

-----------------------------------------------------------------------------
(* Applying changes one by one: the loop of applyRemoteChangePage *)

Applying == pc = "slow" /\ page # <<>>
Now  == Head(page)
\* The paths the baseline has for the node of the change; its own path first.
Olds == IF work[Now.path].node = Now.node THEN {Now.path}
        ELSE PathsOf(work, Now.node)

\* The change is done, with this folder and this copy of the baseline.
Done(d, w) ==
  /\ disk' = d
  /\ events' = Noted({p \in Path : d[p] # disk[p]})
  /\ work' = w
  /\ page' = Tail(page)
  /\ pc' = "slow"
  /\ UNCHANGED <<server, mount, why, batch, moves, todo, gone, scan, snap,
                 advance, job, faults>>

ApplyDelete ==
  /\ Applying /\ ~Now.live
  /\ LET of == PathsOf(work, Now.node) IN
     \/ of = {} /\ Done(disk, work)
     \/ \E o \in of :
          \/ Done(Without({o}), [work EXCEPT ![o] = NoEntry])
          \/ ~Calm(work, o) /\ Fail({}) /\ UNCHANGED <<server, disk, faults>>
  /\ UNCHANGED <<history, counts>>

\* The file is renamed first; the rest of the change comes as a next step.  The
\* watcher reports the rename like one of the user.
ApplyMove ==
  /\ Applying /\ Now.live
  /\ \E o \in Olds \ {Now.path} :
       IF Here(o) /\ Here(Now.path)
       THEN \* applied so far, then everything is compared
            /\ base' = work
            /\ pc' = "list"
            /\ UNCHANGED <<disk, events, known, tracked, why, locals, watched>>
       ELSE /\ work' = [work EXCEPT ![o] = NoEntry, ![Now.path] = work[o]]
            /\ IF Here(o)
               THEN /\ disk' = [disk EXCEPT ![o] = NoFile,
                                            ![Now.path] = disk[o]]
                    /\ events' = [events EXCEPT !.renames =
                                    @ \cup {<<o, Now.path>>}]
                    /\ watched' = {k \in watched : ~At(k, o)}
               ELSE UNCHANGED <<folder, watched>>
            /\ UNCHANGED <<mount, pc, why, batch, moves, todo, gone, scan,
                           snap, page, advance, job>>
  /\ UNCHANGED <<server, due, dropped, counts, faults>>

Placed(p, c) == [disk EXCEPT ![p] = Placeholder(c)]
Changed(w, p) == In(w, p) /\ Here(p) /\ disk[p].stamp # w[p].stamp
\* A changed file is sent, unless it was fetched just now.
ApplyUpsert ==
  /\ Applying /\ Now.live /\ Olds \subseteq {Now.path}
  /\ LET p == Now.path IN
     \/ /\ Changed(work, p)
        /\ Send("overwrite", p, disk[p].stamp) /\ UNCHANGED <<todo, page>>
     \/ IF In(work, p) /\ Here(p) /\ work[p].rev = Now.rev
        THEN Done(disk, [work EXCEPT ![p] = Entry(Now, work[p].stamp)])
        ELSE Done(Placed(p, Now), [work EXCEPT ![p] = Fresh(Now)])
  /\ UNCHANGED <<history, counts>>

\* The edited file has been sent; it is replaced when the change is newer.
ApplySent ==
  /\ pc = "sent"
  /\ LET p == Now.path IN
     IF work[p].rev >= Now.rev THEN Done(disk, work)
     ELSE IF Here(p) THEN Done(Placed(p, Now), [work EXCEPT ![p] = Fresh(Now)])
     ELSE Fail({}) /\ UNCHANGED <<server, disk, faults>>
  /\ UNCHANGED <<history, counts>>

EndPage ==
  /\ pc = "slow" /\ page = <<>>
  /\ Polled(work)
  /\ UNCHANGED folder

-----------------------------------------------------------------------------
(* Comparing everything: reconcileRemoteFull *)

List == pc = "list" /\ Walk("match", base, {p \in Path : View[p] # Nobody})

\* The path is done, with this folder and this entry of the baseline.
Settle(p, d, entry) ==
  /\ todo' = todo \ {p}
  /\ disk' = d
  /\ events' = Noted(IF d[p] = disk[p] THEN {} ELSE {p})
  /\ work' = [work EXCEPT ![p] = entry]
  /\ UNCHANGED <<mount, pc, why, batch, moves, gone, scan, snap, page,
                 advance, job>>
Replace(p) == Settle(p, Placed(p, snap[p]), Fresh(snap[p]))

Match ==
  /\ pc = "match" /\ todo # {}
  /\ LET p == First(todo)  e == work[p]  c == snap[p] IN
     IF In(work, p) /\ ~Here(p) /\ c.rev = e.rev /\ Current(e.node, e.rev)
     THEN /\ Trash(e.node)
          /\ \/ Settle(p, disk, NoEntry) /\ UNCHANGED faults
             \/ Lost /\ Replace(p)
     ELSE \/ /\ Changed(work, p)
             /\ Send("overwrite", p, disk[p].stamp)
             /\ todo' = todo \ {p} /\ UNCHANGED page
          \/ /\ IF Here(p) /\ ~In(work, p)
                THEN Fail({}) /\ UNCHANGED disk
                ELSE IF Here(p) /\ c.rev = e.rev
                THEN Settle(p, disk, Entry(c, e.stamp))
                ELSE Replace(p)
             /\ UNCHANGED <<server, faults>>
  /\ UNCHANGED <<history, counts>>

\* pruneRemoteDeletedBaseline, without a look at the files it removes.
Pruned == {p \in Path : In(work, p) /\ ~Seen(p)}
Prune ==
  /\ pc = "match" /\ todo = {}
  /\ disk' = Without(Pruned)
  /\ events' = Noted({p \in Pruned : Here(p)})
  /\ Polled([p \in Path |-> IF p \in Pruned THEN NoEntry ELSE work[p]])

-----------------------------------------------------------------------------
(* Starting and stopping the mount *)

\* bootstrapRemoteJournal takes the newest cursor; without it every poll
\* compares everything.
Start ==
  /\ pc = "off"
  /\ \/ tracked' = TRUE /\ UNCHANGED faults
     \/ tracked' = FALSE /\ Lost
  /\ journal' = <<>> /\ late' = <<>>
  /\ pc' = IF known THEN "scan" ELSE "first"
  /\ why' = "start"
  /\ watched' = {} /\ due' = {}
  /\ UNCHANGED <<node, receipts, stored, folder, base, known, locals, dropped,
                 counts>>

\* initialSync of a folder that was never mounted.
ListFirst == pc = "first" /\ Walk("place", base, {})
Adopted == [p \in Path |-> IF Seen(p) /\ ~Here(p) THEN Placeholder(snap[p])
                           ELSE disk[p]]
Adopt ==
  /\ pc = "place"
  /\ disk' = Adopted
  /\ base' = [p \in Path |-> IF Seen(p) THEN Entry(snap[p], Adopted[p].stamp)
                             ELSE NoEntry]
  /\ known' = TRUE
  /\ Enter("idle", "none")
  /\ UNCHANGED <<server, events, tracked, history, counts, faults>>

\* The folder the step at hand leaves when it is the server's files it brings.
After ==
  CASE pc = "refresh" /\ node[Base.node].live -> Placed(Target, Change(Base.node))
    [] pc = "place" -> Adopted
    [] pc = "pull" -> Pulled(Reached)
    [] pc = "apply" /\ Upserts -> Upserted
    [] pc = "apply" /\ Deletes /\ ~Upserts -> Without({p \in Path : OnPage(p)})
    [] Applying /\ ~Now.live -> Without(PathsOf(work, Now.node))
    [] Applying /\ Now.live /\ Olds \subseteq {Now.path} ->
         IF /\ In(work, Now.path) /\ Here(Now.path)
            /\ work[Now.path].rev = Now.rev
         THEN disk ELSE Placed(Now.path, Now)
    [] pc = "sent" /\ work[Now.path].rev < Now.rev -> Placed(Now.path, Now)
    [] pc = "match" /\ todo # {} ->
         LET p == First(todo) IN
         IF Here(p) /\ (~In(work, p) \/ snap[p].rev = work[p].rev)
         THEN disk ELSE Placed(p, snap[p])
    [] pc = "match" /\ todo = {} -> Without(Pruned)
    [] OTHER -> disk

\* A file is removed before it is created again, and the baseline is persisted
\* at the end.
Crash ==
  /\ pc # "off"
  /\ Lost
  /\ Enter("off", "none")
  /\ events' = NoEvents
  /\ \E done, half \in SUBSET {p \in Path : After[p] # disk[p]} :
       disk' = [p \in Path |-> IF p \in done THEN After[p]
                               ELSE IF p \in half THEN NoFile ELSE disk[p]]
  /\ UNCHANGED <<server, mount, history, counts>>

-----------------------------------------------------------------------------
(* The user in the folder, and other clients of the server *)

User ==
  /\ userSteps < MaxUserSteps
  /\ userSteps' = userSteps + 1
  /\ UNCHANGED <<server, mount, run, webSteps, faults>>

\* The nodes a file of the folder stands for.
NodesAt(p) == {base[p].node, work[p].node, disk[p].id} \ {0}

UserWrite ==
  /\ User
  /\ writes < MaxWrites /\ writes' = writes + 1
  /\ \E p \in Name, b \in {writes'} \cup (IF Copying THEN 0..writes ELSE {}) :
       /\ disk' = [disk EXCEPT ![p].stamp = Written(writes'),
                               ![p].bytes = b]
       /\ events' = Noted({p})
       /\ watched' = IF Watching /\ p \notin RenamedFrom(events) \cup RenamedFrom(batch)
                     THEN watched \cup {writes'} ELSE watched
  /\ UNCHANGED <<due, dropped>>

UserRemove ==
  /\ User
  /\ \E p \in Name :
       /\ Here(p)
       /\ disk' = [disk EXCEPT ![p] = NoFile]
       /\ events' = Noted({p})
       /\ dropped' = dropped \cup NodesAt(p)
  /\ UNCHANGED <<writes, watched, due>>

UserRename ==
  /\ User
  /\ \E p, q \in Name :
       /\ Here(p) /\ ~Here(q)
       /\ disk' = [disk EXCEPT ![p] = NoFile, ![q] = disk[p]]
       /\ events' = IF Watching
                    THEN [events EXCEPT !.renames = @ \cup {<<p, q>>}]
                    ELSE events
       /\ dropped' = dropped \cup NodesAt(p)
       /\ watched' = {k \in watched : ~At(k, p)}
       /\ due' = {k \in due : ~At(k, p)}
  /\ UNCHANGED writes

\* ReadDirectoryChangesW ran out of its buffer.
Overflow ==
  /\ Watching /\ ~events.lost
  /\ Lost
  /\ events' = [events EXCEPT !.lost = TRUE]
  /\ UNCHANGED <<server, disk, mount, run, history, counts>>

Web ==
  /\ webSteps < MaxWebSteps
  /\ webSteps' = webSteps + 1
  /\ UNCHANGED <<folder, mount, run, history, userSteps, faults>>

WebCreate ==
  /\ Web
  /\ writes < MaxWrites /\ writes' = writes + 1
  /\ \E n \in Node, p \in Name : Create(n, p, writes')
  /\ UNCHANGED receipts
WebWrite ==
  /\ Web
  /\ writes < MaxWrites /\ writes' = writes + 1
  /\ \E n \in Node :
       /\ node[n].live
       /\ Put(n, [node[n] EXCEPT !.bytes = writes', !.rev = @ + 1])
  /\ stored' = stored \cup {writes'}
  /\ UNCHANGED receipts
WebDelete == Web /\ UNCHANGED writes /\ \E n \in Node : node[n].live /\ Trash(n)
WebMove ==
  /\ Web /\ UNCHANGED writes
  /\ \E n \in Node, p \in Name :
       node[n].live /\ LiveAt(p) = {} /\ MoveTo(n, p)
WebRestore ==
  /\ Web /\ UNCHANGED writes
  /\ \E n \in Node :
       /\ node[n].rev # 0 /\ ~node[n].live /\ LiveAt(node[n].path) = {}
       /\ Put(n, [node[n] EXCEPT !.live = TRUE, !.rev = @ + 1])
  /\ UNCHANGED <<receipts, stored>>

-----------------------------------------------------------------------------
Init ==
  /\ node = [n \in Node |-> IF n =< InitialNodes
                            THEN [path |-> n, rev |-> 1, bytes |-> 0, live |-> TRUE]
                            ELSE [path |-> 0, rev |-> 0, bytes |-> 0, live |-> FALSE]]
  /\ journal = <<>> /\ late = <<>> /\ receipts = {} /\ stored = {0}
  /\ disk = Nothing /\ events = NoEvents
  /\ base = Nowhere /\ known = FALSE /\ tracked = TRUE
  /\ pc = "off" /\ why = "none"
  /\ batch = NoEvents /\ work = Nowhere /\ moves = {} /\ todo = {}
  /\ gone = {} /\ scan = Nothing /\ snap = [p \in Path |-> Nobody]
  /\ page = <<>> /\ advance = FALSE /\ job = NoJob
  /\ watched = {} /\ due = {} /\ dropped = {}
  /\ writes = 0 /\ userSteps = 0 /\ webSteps = 0 /\ faults = 0

Flush == SendRename \/ SendMoved \/ VisitPath \/ SendDelete \/ EndFlush
SendFile == Upload \/ Overwrite \/ CopyConflict \/ SendCopy \/ Refresh
Audit == \/ Scan \/ Add \/ EndAdd \/ Edit \/ EndEdit \/ Missing \/ EndMissing
         \/ WalkAudit \/ Pull
Poll == \/ Request \/ FastUpserts \/ FastDeletes \/ Slow
        \/ ApplyDelete \/ ApplyMove \/ ApplyUpsert \/ ApplySent \/ EndPage
        \/ List \/ Match \/ Prune
Mounting == Start \/ ListFirst \/ Adopt
Pace == Flush \/ SendFile \/ Audit \/ Poll \/ Mounting
Provider == Pace \/ \E w \in Ticks : Wake(w)
Users == UserWrite \/ UserRemove \/ UserRename
Webs == WebCreate \/ WebWrite \/ WebDelete \/ WebMove \/ WebRestore

Next == Provider \/ Users \/ Webs \/ Overflow \/ Crash

Spec == Init /\ [][Next]_vars
FairSpec == Spec /\ WF_vars(Pace) /\ \A w \in Ticks : WF_vars(Wake(w))

-----------------------------------------------------------------------------
(* The inductive invariant *)

File     == [stamp : Stamp, bytes : 0..MaxWrites, id : Node \cup {0}]
Baseline == [Path -> [node : Node \cup {0}, rev : Nat, stamp : Stamp]]
Seens    == [node : Node, path : Path, rev : Nat, bytes : 0..MaxWrites,
             live : BOOLEAN]
Reported == [paths : SUBSET Path, renames : SUBSET (Path \X Path),
             lost : BOOLEAN]

Sending == {"upload", "overwrite", "copy", "sendCopy", "refresh"}
Working == {"local", "add", "edit", "missing", "walk", "pull", "slow", "sent",
            "match"}
Steps   == Sending \cup Working
           \cup {"off", "first", "place", "idle", "scan", "poll", "apply", "list"}

\* Shapes of the state.
ServerType ==
  /\ node \in [Node -> [path : Path \cup {0}, rev : Nat, bytes : 0..MaxWrites,
                        live : BOOLEAN]]
  /\ journal \in Seq(Node) /\ late \in Seq(Node)
  /\ \A r \in receipts : r.node \in Node
  /\ stored \subseteq 0..MaxWrites
FolderType == disk \in [Path -> File] /\ events \in Reported
MountType  == base \in Baseline /\ known \in BOOLEAN /\ tracked \in BOOLEAN
LocalsType ==
  /\ batch \in Reported /\ work \in Baseline
  /\ moves \subseteq Path \X Path /\ todo \subseteq Path /\ gone \subseteq Path
  /\ scan \in [Path -> File] /\ snap \in [Path -> Seens \cup {Nobody}]
  /\ page \in Seq(Seens) /\ advance \in BOOLEAN
  /\ job \in [path : Path \cup {0}, stamp : Stamp, bytes : 0..MaxWrites,
              copy : Path \cup {0},
              ret : {"none", "local", "add", "edit", "match", "sent"}]
HistoryType == /\ watched \subseteq 1..MaxWrites /\ due \subseteq 1..MaxWrites
               /\ dropped \subseteq Node
CountType == /\ writes \in 0..MaxWrites /\ userSteps \in Nat
             /\ webSteps \in Nat /\ faults \in Nat
TypeOK ==
  /\ ServerType /\ FolderType /\ MountType /\ LocalsType /\ HistoryType /\ CountType
  /\ pc \in Steps /\ why \in {"none", "start", "flush", "poll", "audit"}

\* A name has one live node; what was never created is in no journal.
NodesInv ==
  /\ \A n \in Node : IF node[n].rev = 0 THEN ~node[n].live
                     ELSE node[n].path \in Path
  /\ \A n, m \in Node :
       node[n].live /\ node[m].live /\ node[n].path = node[m].path => n = m
  /\ \A n \in Listed(journal) \cup Listed(late) : node[n].rev # 0

\* The mount never runs ahead of the server: what it believes of a node is a
\* revision the node has had.
Had(c) == c.rev \in 1..node[c.node].rev
RevsInv ==
  /\ \A p \in Path : In(base, p) => Had(base[p])
  /\ \A p \in Path : In(work, p) => Had(work[p])
  /\ \A p \in Path : Seen(p) => /\ Had(snap[p])
                                /\ snap[p].live /\ snap[p].path = p
  /\ \A c \in Listed(page) : Had(c)

\* What the loops rely on where they are.
ControlInv ==
  /\ pc = "off" => events = NoEvents
  /\ pc \in {"off", "idle"} => page = <<>>
  /\ IF pc \in Sending THEN job.path \in Path ELSE job = NoJob
  /\ pc = "upload" => job.ret \in {"local", "add"} /\ ~In(work, Target)
  /\ pc \in Sending \ {"upload"} =>
       job.ret \in {"local", "edit", "match", "sent"} /\ In(work, Target)
  /\ pc \in {"copy", "sendCopy", "refresh"} => ~Current(Base.node, Base.rev)
  /\ pc = "sendCopy" => /\ job.copy \in Path \ gone
                        /\ ~In(work, job.copy)
  /\ Pass = "sent" => page # <<>> /\ Now.live
  /\ Pass \in {"edit", "missing"} => \A p \in todo : In(work, p)
  /\ Pass = "match" => \A p \in todo : Seen(p)

\* An entry in force: its node is live, has this revision, and is here.
Stands(w, p) == /\ In(w, p)
                /\ Current(w[p].node, w[p].rev)
                /\ node[w[p].node].path = p

\* Its file is in the folder unless the user took it away.
Present(w) == \A p \in Path : Stands(w, p) /\ ~Here(p) => w[p].node \in dropped
PresentInv == Present(base) /\ Present(work)

\* What has a current entry at a name without its file, and was not taken away
\* by the user, is not going to be reported by the server.
Pending == Listed(journal) \cup Listed(late) \cup {c.node : c \in Listed(page)}
Quiet(w) == \A p \in Path : /\ In(w, p) /\ ~Here(p)
                            /\ Current(w[p].node, w[p].rev)
                            /\ w[p].node \in Pending
                            => w[p].node \in dropped
QuietInv ==
  /\ Pass \notin {"off", "slow", "sent"} => Quiet(base)
  /\ Quiet(work)

\* A pass keeps the entries in force ...
AsBase(c, p) == c.node = base[p].node /\ c.rev = base[p].rev
WorkInv ==
  Pass \in Working =>
    \A p \in Path : Stands(base, p) /\ base[p].node \notin dropped
                      => AsBase(work[p], p)
\* ... because the page or the listing it works on has them as they are.
PageInv ==
  Pass \in {"apply", "slow", "sent"} =>
    \A p \in Path, c \in Listed(page) :
      /\ Stands(base, p)
      /\ c.node = base[p].node \/ (c.live /\ c.path = p)
      => AsBase(c, p) /\ c.live /\ c.path = p
SnapInv ==
  Pass \in {"pull", "match"} =>
    \A p \in Path : Stands(base, p) => Seen(p) /\ AsBase(snap[p], p)

\* The deletions to be sent are the user's.
UsersAt(p) == Stands(work, p) => work[p].node \in dropped
GoneInv ==
  /\ gone # {} => Pass = "local" /\ moves = {}
  /\ gone \cap todo = {}
  /\ Pass = "local" /\ pc \in Sending => Target \notin gone
  /\ Pass = "local" => \A p \in gone : UsersAt(p)
ScanInv ==
  Pass \in {"add", "edit"} =>
    /\ \A p \in todo : scan[p] # NoFile
    /\ pc \in Sending => scan[Target] # NoFile
    /\ \A p \in Path : scan[p] = NoFile => UsersAt(p)
MissingInv == Pass = "missing" => \A p \in todo : UsersAt(p)

\* All of it.
IInv ==
  /\ TypeOK /\ NodesInv /\ RevsInv /\ ControlInv
  /\ PresentInv /\ QuietInv /\ WorkInv /\ PageInv /\ SnapInv
  /\ GoneInv /\ ScanInv /\ MissingInv

-----------------------------------------------------------------------------
(* What becomes of the edits: the invariant of EarlierEditsKept *)

\* A write of which the server does not have the content.
AtRisk(k, p) == At(k, p) /\ disk[p].bytes \notin stored

\* No two files have the stamp of one write; nothing has one of a later write.
StampInv ==
  /\ \A k \in 1..MaxWrites, p, q \in Path : At(k, p) /\ At(k, q) => p = q
  /\ \A k \in 1..MaxWrites, p \in Path :
       Written(k) \in {disk[p].stamp, base[p].stamp, work[p].stamp,
                       scan[p].stamp, job.stamp} => k =< writes
  /\ \A k \in watched \cup due : k =< writes
KeyInv == \A r \in receipts : r.key[4] \in stored
StartInv == /\ why = "start" => watched = {}
            /\ pc \in {"first", "place"} => why = "start" /\ due = {}

\* A reported write does not pass for unchanged, and was read where it is.
WatchedInv ==
  \A k \in watched, p \in Path : AtRisk(k, p) =>
    /\ \A q \in Path : Written(k) \notin {base[q].stamp, work[q].stamp}
    /\ \A q \in Path : scan[q].stamp = Written(k) => q = p
    /\ job.stamp = Written(k) => p = job.path

\* Its report is at hand: what the running pass does not begin with is in events.
ReportInv ==
  /\ pc = "idle" => batch = NoEvents
  /\ pc # "off" => \A k \in watched, p \in Path : AtRisk(k, p) =>
       /\ p \notin RenamedFrom(events) \cup RenamedFrom(batch)
       /\ \/ events.lost \/ p \in events.paths
          \/ k \in due /\ (batch.lost \/ p \in batch.paths)

\* The file being sent, and its conflict copy.
JobInv ==
  /\ \A k \in watched \cup due, p \in Path :
       AtRisk(k, p) /\ p = job.path /\ job.stamp = Written(k)
         => job.bytes = disk[p].bytes
  /\ pc = "sendCopy" => /\ job.copy \in Copy
                        /\ disk[job.copy].stamp = <<"copy", job.bytes, 0>>
                        /\ disk[job.copy].bytes = job.bytes
  /\ pc \in Sending /\ Pass \in {"local", "add", "edit"} => Target \notin todo
InHand(p) ==
  /\ pc \in {"upload", "overwrite", "copy", "sendCopy"} /\ p = Target
  /\ pc \in {"upload", "overwrite"} => job.stamp = disk[p].stamp
  /\ pc = "sendCopy" => job.bytes = disk[p].bytes

\* A pass has still to visit the writes it began with or found.  When it has
\* sent the local changes, none is at risk.
DueInv ==
  \A k \in due, p \in Path : AtRisk(k, p) =>
    /\ Pass \in {"off", "idle", "local", "scan", "add", "edit"}
    /\ Pass \in {"local", "scan"} => k \in watched
    /\ Pass = "local" => p \in todo \/ InHand(p)
    /\ Pass \in {"add", "edit"} =>
         /\ scan[p].stamp = Written(k) /\ work[p].stamp # Written(k)
         /\ p \in todo \/ InHand(p) \/ (Pass = "add" /\ In(work, p))

\* All of it.
KeepInv == /\ StampInv /\ KeyInv /\ StartInv /\ WatchedInv /\ ReportInv
           /\ JobInv /\ DueInv
SyncInv == IInv /\ KeepInv

-----------------------------------------------------------------------------
\* A node that stands where the mount has it, and that it has nowhere else, is
\* moved to the trash by the mount only when the user has removed or renamed
\* its file: neither a file that was never downloaded, nor one a crash left
\* half replaced, nor one that another client changed, is mistaken for a
\* deletion of the user.
DeletesAreUsers ==
  [][\A n \in Node :
       /\ node[n].live /\ ~node'[n].live /\ UNCHANGED webSteps
       /\ PathsOf(work, n) = {node[n].path}
       => n \in dropped]_vars

\* A write the mount knows of is never lost: when a step takes the last copy of
\* it out of the folder, the write having been reported before the pass began,
\* or found by its scan, the server has been given its content.  Left out are
\* writes the code can lose: one whose file was renamed since, by the user or by
\* the mount (ApplyMove), one reported at a name that a rename still to be sent
\* leads away from, one that was taken for a moved file, or whose entry a moved file
\* took away after the loop had visited its name (SendMoved), and one that an
\* audit passed over because its file was fetched a moment ago (PassOver).
Kept(d, k) == \E p \in Path : d[p].stamp = Written(k)
EarlierEditsKept ==
  [][UNCHANGED userSteps =>
       \A p \in Path : \A k \in due :
         At(k, p) /\ ~Kept(disk', k)
           => disk[p].bytes \in stored']_vars

\* The same of every write.
EditsKept ==
  [][UNCHANGED userSteps =>
       \A p \in Path : \A k \in 1..MaxWrites :
         At(k, p) /\ ~Kept(disk', k)
           => disk[p].bytes \in stored']_vars

\* A file that passes for unchanged has content the server has been given.
InSyncIsStored ==
  \A p \in Path : Here(p) /\ In(base, p) /\ disk[p].stamp = base[p].stamp
                    => disk[p].bytes \in stored

\* The folder shows what the server has.
Agrees == \A p \in Path : IF LiveAt(p) = {} THEN ~Here(p)
                          ELSE Here(p) /\ disk[p].bytes = View[p].bytes
                                       /\ base[p].node = View[p].node
Converges == <>[](pc = "idle" => Agrees)
=============================================================================
