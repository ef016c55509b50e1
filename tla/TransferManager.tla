---------------------------- MODULE TransferManager ----------------------------
(***************************************************************************)
(* The transfer manager of the xdrive agent: the tasks it keeps, the       *)
(* workers that move the bytes and report how they ended, and the calls    *)
(* that cancel, retry and clear tasks beside them.                         *)
(*                                                                         *)
(* Every critical section of Manager.mu is one step.  Cancel, Clear and    *)
(* the Finish of an upload group call the cancel callback of a task        *)
(* outside the mutex; sync.OnceFunc runs it once and makes every caller    *)
(* wait for that run.                                                      *)
(*                                                                         *)
(* Kinds of task: "direct" is a single upload or download, "folder" a      *)
(* folder download, "file" one file of it, "mount" a transfer of a mount   *)
(* (never cancelled, may be retried), "group" an upload the desktop        *)
(* window drives by separate requests, "child" one file of it.             *)
(***************************************************************************)
EXTENDS Integers, FiniteSets

CONSTANTS
    RootKind,      \* bound: the kinds of root tasks that are started
    MaxTransfers,  \* bound: tasks that are ever started
    Limit,         \* Manager.limit, the root tasks kept as history
    ClearCall,     \* calls of Clear, each made at most once
    NoClear,
    MaxRetries     \* bound on calls of Retry

Transfer == 1..MaxTransfers
NoParent == 0

ASSUME ConstantsAssumption ==
    /\ RootKind \subseteq {"direct", "folder", "mount", "group"}
    /\ MaxTransfers \in Nat
    /\ Limit \in Nat \ {0}
    /\ NoClear \notin ClearCall
    /\ MaxRetries \in Nat

VARIABLES
    nextID,    \* the id of the next task; ids are not used again
    entries,   \* ids in Manager.entries
    kind, parent,
    state,     \* Task.State; the last one of a task that was removed
    bound,     \* entry.cancel # nil
    pending,   \* entry.pendingAgentCancel
    attached,  \* history: tasks whose I/O runs under a bound callback
    fired,     \* the callback of each task: "no", "firing" or "done"
    cancels,   \* tasks a Cancel has accepted and has not returned from
    finishes,  \* groups a Finish has settled and has not returned from
    worker,    \* where the worker of each task is
    pc,        \* where each Clear is
    take,      \* tasks whose callbacks the Clear joins
    prior,     \* the Clear it waits for
    inFlight,  \* Manager.clearInFlight
    before,    \* history: tasks that were started before the Clear
    retries

calls == <<cancels, finishes>>
clears == <<pc, take, prior, inFlight, before>>
tasks == <<entries, state, bound, pending>>
ids == <<nextID, kind, parent>>
vars == <<ids, tasks, attached, fired, calls, worker, clears, retries>>

Kind == {"none", "direct", "folder", "file", "mount", "group", "child"}
Active == {"queued", "running", "retrying", "cancelling"}
Terminal == {"completed", "partial", "failed", "cancelled"}
Worker == {"none", "starting", "scanning", "files", "closing", "driven", "admitted",
           "io", "ok", "late", "stopped", "retrying", "ended",
           "completed", "failed", "cancelled"}

TypeOK ==
    /\ nextID \in 1..(MaxTransfers + 1)
    /\ entries \subseteq Transfer
    /\ kind \in [Transfer -> Kind]
    /\ parent \in [Transfer -> Transfer \cup {NoParent}]
    /\ state \in [Transfer -> Active \cup Terminal]
    /\ bound \in [Transfer -> BOOLEAN]
    /\ pending \in [Transfer -> BOOLEAN]
    /\ attached \subseteq Transfer
    /\ fired \in [Transfer -> {"no", "firing", "done"}]
    /\ cancels \subseteq Transfer
    /\ finishes \subseteq Transfer
    /\ worker \in [Transfer -> Worker]
    /\ pc \in [ClearCall -> {"idle", "joining", "returned"}]
    /\ take \in [ClearCall -> SUBSET Transfer]
    /\ prior \in [ClearCall -> ClearCall \cup {NoClear}]
    /\ inFlight \in ClearCall \cup {NoClear}
    /\ before \in [ClearCall -> SUBSET Transfer]
    /\ retries \in 0..MaxRetries

Init ==
    /\ nextID = 1
    /\ entries = {}
    /\ kind = [t \in Transfer |-> "none"]
    /\ parent = [t \in Transfer |-> NoParent]
    /\ state = [t \in Transfer |-> "queued"]
    /\ bound = [t \in Transfer |-> FALSE]
    /\ pending = [t \in Transfer |-> FALSE]
    /\ attached = {}
    /\ fired = [t \in Transfer |-> "no"]
    /\ cancels = {}
    /\ finishes = {}
    /\ worker = [t \in Transfer |-> "none"]
    /\ pc = [c \in ClearCall |-> "idle"]
    /\ take = [c \in ClearCall |-> {}]
    /\ prior = [c \in ClearCall |-> NoClear]
    /\ inFlight = NoClear
    /\ before = [c \in ClearCall |-> {}]
    /\ retries = 0

-----------------------------------------------------------------------------
(* State predicates and helpers                                            *)

Root(t) == IF parent[t] = NoParent THEN t ELSE parent[t]
Children(t) == {c \in Transfer : parent[c] = t}
Roots(es) == {t \in es : parent[t] = NoParent}

(* Bug: a callback that is still being called does not hold its task.      *)
BusyByState(t) == state[t] \in Active

(* The task keeps its root from being trimmed or cleared.                  *)
Busy(t) == state[t] \in Active \/ pending[t]

Removable(es) ==
    {r \in Roots(es) : state[r] \in Terminal /\ \A t \in es : Root(t) = r => ~Busy(t)}

(* Bug: the limit is compared with the roots that may be removed.          *)
SurplusOfSettled(es) ==
    {r \in Removable(es) : Cardinality({q \in Removable(es) : q < r})
                             < Cardinality(Removable(es)) - Limit}

(* The oldest removable roots above the limit.                             *)
Surplus(es) ==
    {r \in Removable(es) : Cardinality({q \in Removable(es) : q < r})
                             < Cardinality(Roots(es)) - Limit}

(* trimLocked, at the end of a step that leaves the tasks left and has set *)
(* their states; es is a bound variable because a prime passes over it.    *)
Trim(left) == \E es \in {left} : entries' = {t \in es : Root(t)' \notin Surplus(es)'}

(* The context of the I/O of t: a child works under that of its group.     *)
Owner(t) == IF kind[t] \in {"file", "child"} THEN parent[t] ELSE t
Stopped(t) == Owner(t) \in attached /\ fired[Owner(t)] = "done"

(* Is the worker of t between its start and the end of its I/O?            *)
Alive(t) == worker[t] \in {"scanning", "files", "closing", "admitted", "io"}

(* I/O under a bound callback that nobody has cancelled.                   *)
Uncancelled(t) == Alive(t) /\ Owner(t) \in attached /\ fired[Owner(t)] # "done"

Room(n) == nextID + n <= MaxTransfers + 1
Fresh(n) == nextID .. nextID + n - 1

WorkerAt(t, w) == worker' = [worker EXCEPT ![t] = w]

-----------------------------------------------------------------------------
(* Starting tasks                                                          *)

(* startLocked for n tasks, then trimLocked.                               *)
Add(n, k, p, s) ==
    /\ Room(n)
    /\ nextID' = nextID + n
    /\ kind' = [t \in Transfer |-> IF t \in Fresh(n) THEN k ELSE kind[t]]
    /\ parent' = [t \in Transfer |-> IF t \in Fresh(n) THEN p ELSE parent[t]]
    /\ state' = [t \in Transfer |-> IF t \in Fresh(n) THEN s ELSE state[t]]
    /\ UNCHANGED <<bound, pending, attached, fired, calls, clears, retries>>
    /\ Trim(entries \cup Fresh(n))

Start(k) ==
    /\ Add(1, k, NoParent, "running")
    /\ WorkerAt(nextID, IF k = "mount" THEN "io" ELSE "starting")

(* StartChildrenByID: the parent is there and is not being cancelled.      *)
MayAdd(t) == t \in entries /\ state[t] \in Active \ {"cancelling"}

(* The window registers files of an upload group.                          *)
StartChildren(t, n) ==
    /\ worker[t] = "driven"
    /\ MayAdd(t)
    /\ Add(n, "child", t, "queued")
    /\ UNCHANGED worker

(* BindCancel, BindGroupCancelContext.                                     *)
MayBind(t) == MayAdd(t) /\ ~bound[t]

Bind(t) ==
    /\ worker[t] = "starting"
    /\ MayBind(t)
    /\ bound' = [bound EXCEPT ![t] = TRUE]
    /\ attached' = attached \cup {t}
    /\ WorkerAt(t, CASE kind[t] = "direct" -> "io"
                      [] kind[t] = "folder" -> "scanning"
                      [] kind[t] = "group" -> "driven")
    /\ UNCHANGED <<ids, entries, state, pending, fired, calls, clears, retries>>

(* The task is gone.  The callers of BindCancel ignore its answer and go   *)
(* on; StartTransferGroup cancels the context and finishes nothing.        *)
BindRefused(t) ==
    /\ worker[t] = "starting"
    /\ ~MayBind(t)
    /\ WorkerAt(t, CASE kind[t] = "direct" -> "io"
                      [] kind[t] = "folder" -> "scanning"
                      [] kind[t] = "group" -> "ended")
    /\ UNCHANGED <<ids, tasks, attached, fired, calls, clears, retries>>

-----------------------------------------------------------------------------
(* How workers report                                                      *)

(* Bug: a late success wins over a cancellation.                           *)
AcceptsLateSuccess(t, s) == t \in entries /\ state[t] \notin Terminal

Accepts(t, s) ==
    /\ t \in entries
    /\ state[t] \notin Terminal
    /\ ~(state[t] = "cancelling" /\ s = "completed")

(* finish, finishSkipped, finishStateResult up to its Unlock.  A callback  *)
(* that is being called stays published; a group calls its own callback.   *)
Finish(t, s) ==
    LET joins == kind[t] = "group" /\ bound[t] IN
    /\ UNCHANGED ids
    /\ IF Accepts(t, s)
       THEN /\ state' = [state EXCEPT ![t] = s]
            /\ bound' = [bound EXCEPT ![t] = joins \/ pending[t]]
            /\ pending' = [pending EXCEPT ![t] = joins \/ @]
            /\ finishes' = IF joins THEN finishes \cup {t} ELSE finishes
            /\ Trim(entries)
       ELSE UNCHANGED <<tasks, finishes>>
    /\ UNCHANGED <<attached, fired, cancels, clears>>

(* The rest of the Finish of a group: its callback has returned.           *)
FinishReturns(t) ==
    /\ t \in finishes
    /\ fired[t] = "done"
    /\ finishes' = finishes \ {t}
    /\ UNCHANGED <<ids, state, attached, fired, cancels, worker, clears, retries>>
    /\ IF t \in entries
       THEN /\ pending' = [pending EXCEPT ![t] = FALSE]
            /\ bound' = [bound EXCEPT ![t] = FALSE]
            /\ Trim(entries)
       ELSE UNCHANGED <<entries, bound, pending>>

(* The request of a direct transfer ends; "late" is a success after a      *)
(* cancellation was accepted.                                              *)
IOEnds(t) ==
    /\ kind[t] = "direct"
    /\ worker[t] = "io"
    /\ \E w \in {"ok", "failed", "stopped"} :
         WorkerAt(t, IF w = "ok" /\ state[t] = "cancelling" THEN "late" ELSE w)
    /\ UNCHANGED <<ids, tasks, attached, fired, calls, clears, retries>>

(* finishAgentCloudTransfer, CompleteSkipped, finishFolderFailure.         *)
Report(t) ==
    /\ kind[t] \in {"direct", "folder"}
    /\ worker[t] \in {"ok", "late", "failed", "stopped"}
    /\ Finish(t, CASE worker[t] = "failed" -> "failed"
                   [] worker[t] = "stopped" -> "cancelled"
                   [] OTHER -> "completed")
    /\ WorkerAt(t, IF worker[t] = "ok" THEN "completed" ELSE "ended")
    /\ UNCHANGED retries

(* finishTransfer of the mounts.                                           *)
MountEnds(t) ==
    /\ kind[t] = "mount"
    /\ worker[t] = "io"
    /\ \E s \in {"completed", "failed"} : Finish(t, s)
    /\ WorkerAt(t, "ended")
    /\ UNCHANGED retries

(* Manager.Retry up to the call of the retry function, and from its return *)
(* on; "cancelled" when the context of the request has ended.              *)
Retry(t) ==
    /\ kind[t] = "mount"
    /\ t \in entries
    /\ state[t] = "failed"
    /\ worker[t] = "ended"
    /\ retries < MaxRetries
    /\ retries' = retries + 1
    /\ state' = [state EXCEPT ![t] = "retrying"]
    /\ WorkerAt(t, "retrying")
    /\ UNCHANGED <<ids, entries, bound, pending, attached, fired, calls, clears>>

RetryEnds(t) ==
    /\ worker[t] = "retrying"
    /\ \E s \in {"completed", "failed", "cancelled"} : Finish(t, s)
    /\ WorkerAt(t, "ended")
    /\ UNCHANGED retries

-----------------------------------------------------------------------------
(* A folder download: CloudDownloadFolder                                  *)

Results == {"completed", "failed", "cancelled"}
InIO(t) == \E c \in Children(t) : worker[c] = "io"
AllEnded(t) == \A c \in Children(t) : worker[c] \in Results
Saved(t) == \E c \in Children(t) : worker[c] = "completed"
Lost(t) == \E c \in Children(t) : worker[c] = "failed"

(* The scan finds nothing, fails, or is stopped.                           *)
ScanEnds(t) ==
    /\ worker[t] = "scanning"
    /\ \E w \in {"ok", "failed", "stopped"} :
         WorkerAt(t, IF w = "ok" /\ state[t] = "cancelling" THEN "late" ELSE w)
    /\ UNCHANGED <<ids, tasks, attached, fired, calls, clears, retries>>

ScanFinds(t, n) ==
    /\ worker[t] = "scanning"
    /\ IF MayAdd(t)
       THEN Add(n, "file", t, "queued") /\ WorkerAt(t, "files")
       ELSE /\ WorkerAt(t, "failed")
            /\ UNCHANGED <<ids, tasks, attached, fired, calls, clears, retries>>

(* ctx.Err() before a file: the context of the request or of the task.     *)
FolderStops(t) ==
    /\ worker[t] = "files"
    /\ ~InIO(t)
    /\ ~AllEnded(t)
    /\ WorkerAt(t, "closing")
    /\ UNCHANGED <<ids, tasks, attached, fired, calls, clears, retries>>

(* SetPhase("transferring") of a queued task.                              *)
Begun(c) == [state EXCEPT ![c] = IF c \in entries /\ @ = "queued" THEN "running" ELSE @]

FileBegins(t, c) ==
    /\ worker[t] = "files"
    /\ c \in Children(t)
    /\ \A d \in Children(t) : worker[d] = "none" => c <= d
    /\ worker[c] = "none"
    /\ ~InIO(t)
    /\ ~Stopped(t)
    /\ state' = Begun(c)
    /\ WorkerAt(c, "io")
    /\ UNCHANGED <<ids, entries, bound, pending, attached, fired, calls, clears, retries>>

FileEnds(t, c) ==
    /\ worker[t] = "files"
    /\ c \in Children(t)
    /\ worker[c] = "io"
    /\ \E s \in Results :
         /\ Finish(c, s)
         /\ worker' = [worker EXCEPT ![c] = s,
                                     ![t] = IF s = "cancelled" THEN "closing" ELSE @]
    /\ UNCHANGED retries

(* cancelRemaining.                                                        *)
FileDropped(t, c) ==
    /\ worker[t] = "closing"
    /\ c \in Children(t)
    /\ worker[c] = "none"
    /\ Finish(c, "cancelled")
    /\ WorkerAt(c, "cancelled")
    /\ UNCHANGED retries

FolderEnds(t) ==
    /\ worker[t] \in {"files", "closing"}
    /\ AllEnded(t)
    /\ Finish(t, CASE worker[t] = "closing" -> IF Saved(t) THEN "partial" ELSE "cancelled"
                   [] ~Lost(t) -> "completed"
                   [] ~Saved(t) -> "failed"
                   [] OTHER -> "partial")
    /\ WorkerAt(t, "ended")
    /\ UNCHANGED retries

-----------------------------------------------------------------------------
(* An upload group, driven by requests of the window                       *)

(* BeginTransfer.                                                          *)
ChildBegins(c) ==
    /\ kind[c] = "child"
    /\ c \in entries
    /\ state[c] = "queued"
    /\ state' = Begun(c)
    /\ UNCHANGED <<ids, entries, bound, pending, attached, fired, calls, worker, clears,
                   retries>>

(* UploadGroupContext under the mutex; then the context is derived.        *)
ChildAdmitted(c) ==
    /\ kind[c] = "child"
    /\ worker[c] = "none"
    /\ MayAdd(c)
    /\ MayAdd(parent[c])
    /\ bound[parent[c]]
    /\ WorkerAt(c, "admitted")
    /\ UNCHANGED <<ids, tasks, attached, fired, calls, clears, retries>>

ChildUploads(c) ==
    /\ worker[c] = "admitted"
    /\ \/ ~Stopped(c) /\ WorkerAt(c, "io")
       \/ fired[parent[c]] # "no" /\ WorkerAt(c, "ended")
    /\ UNCHANGED <<ids, tasks, attached, fired, calls, clears, retries>>

ChildIOEnds(c) ==
    /\ kind[c] = "child"
    /\ worker[c] = "io"
    /\ WorkerAt(c, "ended")
    /\ UNCHANGED <<ids, tasks, attached, fired, calls, clears, retries>>

(* FinishTransfer: any outcome, at any time.                               *)
WindowFinishes(t) ==
    /\ kind[t] \in {"group", "child"}
    /\ worker[t] # "starting"
    /\ t \in entries
    /\ \E s \in Terminal : Finish(t, s)
    /\ UNCHANGED <<worker, retries>>

-----------------------------------------------------------------------------
(* Cancel, Clear, ClearHistory and the callbacks                           *)

Cancel(t) ==
    /\ t \in entries
    /\ bound[t]
    /\ state[t] \in Active \ {"cancelling"}
    /\ state' = [state EXCEPT ![t] = "cancelling"]
    /\ pending' = [pending EXCEPT ![t] = kind[t] # "group"]
    /\ cancels' = cancels \cup {t}
    /\ UNCHANGED <<ids, entries, bound, attached, fired, finishes, worker, clears, retries>>

(* Cancel from the return of the callback on.                              *)
CancelReturns(t) ==
    /\ t \in cancels
    /\ fired[t] = "done"
    /\ cancels' = cancels \ {t}
    /\ UNCHANGED <<ids, state, attached, fired, finishes, worker, clears, retries>>
    /\ IF kind[t] # "group" /\ t \in entries
       THEN /\ pending' = [pending EXCEPT ![t] = FALSE]
            /\ bound' = [bound EXCEPT ![t] = state[t] \notin Terminal]
            /\ IF state[t] \in Terminal THEN Trim(entries) ELSE UNCHANGED entries
       ELSE UNCHANGED <<entries, bound, pending>>

(* Clear under the mutex.                                                  *)
Clear(c) ==
    /\ pc[c] = "idle"
    /\ pc' = [pc EXCEPT ![c] = "joining"]
    /\ take' = [take EXCEPT ![c] = {t \in entries : bound[t]}]
    /\ prior' = [prior EXCEPT ![c] = inFlight]
    /\ before' = [before EXCEPT ![c] = 1 .. nextID - 1]
    /\ inFlight' = IF entries = {} THEN inFlight ELSE c
    /\ entries' = {}
    /\ UNCHANGED <<ids, state, bound, pending, attached, fired, calls, worker, retries>>

(* Bug: the Clear joins only the callbacks it has taken itself.            *)
JoinedOwn(c) == \A t \in take[c] : fired[t] = "done"

(* The callbacks have returned and the earlier Clear has closed its        *)
(* channel.                                                                *)
Joined(c) ==
    /\ \A t \in take[c] : fired[t] = "done"
    /\ \A d \in ClearCall : prior[c] = d => pc[d] = "returned"

(* Bug: a Clear that was superseded does not close its channel.            *)
ClearReturnsUnlessSuperseded(c) ==
    /\ inFlight \in {c, NoClear}
    /\ pc[c] = "joining"
    /\ Joined(c)
    /\ pc' = [pc EXCEPT ![c] = "returned"]
    /\ inFlight' = NoClear
    /\ UNCHANGED <<ids, tasks, attached, fired, calls, worker, take, prior, before, retries>>

(* Clear from the last join to its end.                                    *)
ClearReturns(c) ==
    /\ pc[c] = "joining"
    /\ Joined(c)
    /\ pc' = [pc EXCEPT ![c] = "returned"]
    /\ inFlight' = IF inFlight = c THEN NoClear ELSE inFlight
    /\ UNCHANGED <<ids, tasks, attached, fired, calls, worker, take, prior, before, retries>>

ClearHistory ==
    /\ Removable(entries) # {}
    /\ entries' = {t \in entries : Root(t) \notin Removable(entries)}
    /\ UNCHANGED <<ids, state, bound, pending, attached, fired, calls, worker, clears,
                   retries>>

(* Somebody calls the callback of t.                                       *)
Called(t) ==
    \/ t \in cancels
    \/ t \in finishes
    \/ \E c \in ClearCall : pc[c] = "joining" /\ t \in take[c]

CallbackStarts(t) ==
    /\ Called(t)
    /\ fired[t] = "no"
    /\ fired' = [fired EXCEPT ![t] = "firing"]
    /\ UNCHANGED <<ids, tasks, attached, calls, worker, clears, retries>>

CallbackEnds(t) ==
    /\ fired[t] = "firing"
    /\ fired' = [fired EXCEPT ![t] = "done"]
    /\ UNCHANGED <<ids, tasks, attached, calls, worker, clears, retries>>

-----------------------------------------------------------------------------
(* Specification                                                           *)

Next ==
    \/ \E k \in RootKind : Start(k)
    \/ ClearHistory
    \/ \E c \in ClearCall : Clear(c) \/ ClearReturns(c)
    \/ \E t \in Transfer :
         \/ \E n \in Transfer : StartChildren(t, n) \/ ScanFinds(t, n)
         \/ \E c \in Transfer : FileBegins(t, c) \/ FileEnds(t, c) \/ FileDropped(t, c)
         \/ Bind(t) \/ BindRefused(t) \/ FinishReturns(t) \/ IOEnds(t) \/ Report(t)
         \/ MountEnds(t) \/ Retry(t) \/ RetryEnds(t) \/ ScanEnds(t) \/ FolderStops(t)
         \/ FolderEnds(t) \/ ChildBegins(t) \/ ChildAdmitted(t) \/ ChildUploads(t)
         \/ ChildIOEnds(t) \/ WindowFinishes(t) \/ Cancel(t) \/ CancelReturns(t)
         \/ CallbackStarts(t) \/ CallbackEnds(t)

Spec == Init /\ [][Next]_vars

(* Goroutines run, and a cancel callback (a context.CancelFunc) returns.   *)
FairSpec ==
    /\ Spec
    /\ \A c \in ClearCall : WF_vars(ClearReturns(c))
    /\ \A t \in Transfer : WF_vars(CallbackStarts(t)) /\ WF_vars(CallbackEnds(t))

-----------------------------------------------------------------------------
(* Properties                                                              *)

(* When Clear returns to an account switch, no callback of a task that was *)
(* started before it is running, and no I/O under such a callback goes on  *)
(* uncancelled: Clear joins its own callbacks, those a Cancel or a Finish  *)
(* is calling, and those an earlier Clear took away.                       *)
ClearJoins ==
    \A c \in ClearCall : pc[c] = "returned" =>
        \A t \in before[c] : fired[t] # "firing" /\ ~Uncancelled(t)

(* Between steps the history is within its limit unless no root can go:    *)
(* a trim that had to wait for a callback is made up for when it returns.  *)
HistoryBounded == Cardinality(Roots(entries)) > Limit => Removable(entries) = {}

(* The first outcome of a task stands, whoever reports later; only a       *)
(* failed task may be retried, and a task whose cancellation was accepted  *)
(* never completes.                                                        *)
OutcomeStands ==
    [][\A t \in Transfer :
        /\ state[t] \in Terminal /\ t < nextID =>
             state'[t] = state[t] \/ (state[t] = "failed" /\ state'[t] = "retrying")
        /\ state[t] = "cancelling" => state'[t] # "completed"]_vars

(* Every Clear returns, also when a later one has taken its place.         *)
ClearEnds == \A c \in ClearCall : pc[c] = "joining" ~> pc[c] = "returned"

(* What the next invariant is about: the callback of t runs or is called,  *)
(* or I/O under it is alive, and it has not returned.                      *)
Unsettled(t) ==
    /\ fired[t] # "done"
    /\ \/ fired[t] = "firing"
       \/ Called(t)
       \/ t \in attached /\ \E u \in Transfer : Owner(u) = t /\ Alive(u)

(* A task that was not started yet.                                        *)
Unused(t) ==
    /\ t \notin entries \cup attached \cup cancels \cup finishes
    /\ kind[t] = "none" /\ parent[t] = NoParent /\ worker[t] = "none"
    /\ ~bound[t] /\ ~pending[t]
    /\ \A c \in ClearCall : t \notin before[c] \cup take[c]

(* Which worker a task of each kind has.                                   *)
Family(t) ==
    /\ parent[t] # NoParent <=> kind[t] \in {"file", "child"}
    /\ kind[t] = "file" => kind[parent[t]] = "folder"
    /\ kind[t] = "child" => kind[parent[t]] = "group"
    /\ kind[t] \in {"file", "child"} =>
          \A c \in ClearCall : t \in before[c] => parent[t] \in before[c]
    /\ kind[t] = "file" /\ worker[t] = "io" => worker[parent[t]] \in {"files", "closing"}
    /\ worker[t] = "starting" => kind[t] \in {"direct", "folder", "group"}
    /\ worker[t] \in {"scanning", "files", "closing"} => kind[t] = "folder"
    /\ worker[t] = "driven" => kind[t] = "group"
    /\ worker[t] = "admitted" => kind[t] = "child"
    /\ worker[t] = "io" => kind[t] \in {"direct", "mount", "file", "child"}

(* What a bound callback says of its task.                                 *)
Binding(t) ==
    /\ t \in attached => kind[t] \in {"direct", "folder", "group"} /\ worker[t] # "starting"
    /\ bound[t] => t \in attached /\ Busy(t)
    /\ kind[t] \in {"direct", "folder"} /\ (worker[t] = "starting" \/ Alive(t)) =>
          state[t] \in Active
    /\ t \in attached /\ fired[t] # "done" /\ (kind[t] = "group" \/ Alive(t)) => bound[t]
    /\ fired[t] # "done" /\ (fired[t] = "firing" \/ Called(t)) => bound[t]
    /\ t \in finishes => kind[t] = "group"
    /\ t \in cancels => kind[t] = "group" \/ pending[t]
    /\ pending[t] => bound[t]
    /\ fired[t] = "firing" => Called(t)
    /\ t \in entries => \A c \in ClearCall : t \notin take[c]

(* Every Clear that waits covers what is unsettled before it, by itself or *)
(* by the Clear it joins.                                                  *)
Chained(c) ==
    pc[c] # "idle" =>
        /\ take[c] \subseteq before[c]
        /\ before[c] \cap entries = {}
        /\ \A t \in before[c] : Unsettled(t) =>
              /\ pc[c] = "joining"
              /\ \/ t \in take[c]
                 \/ \E d \in ClearCall :
                      prior[c] = d /\ pc[d] = "joining" /\ t \in before[d]

(* What is unsettled and not a task any more is covered by the last Clear. *)
Covered ==
    /\ inFlight # NoClear => pc[inFlight] = "joining"
    /\ \A t \in Transfer \ entries : Unsettled(t) =>
          inFlight # NoClear /\ t \in before[inFlight]

LocalInv == TypeOK /\ \A t \in Transfer : (t >= nextID => Unused(t)) /\ Family(t) /\ Binding(t)

(* The inductive invariant of ClearJoins.                                  *)
IInv == LocalInv /\ Covered /\ \A c \in ClearCall : Chained(c)

(* docs/transfers-and-tasks.md:305: "A completion that already committed   *)
(* before cancellation remains a genuine completion, not a fake            *)
(* cancellation."                                                          *)
CommittedStands ==
    \A t \in entries : kind[t] = "direct" /\ worker[t] = "completed" => state[t] = "completed"

(* model.go:629: "A concurrent account switch must not return while        *)
(* old-account I/O remains alive."                                         *)
OldIOStopped ==
    \A c \in ClearCall : pc[c] = "returned" =>
        \A t \in before[c] : kind[t] = "direct" /\ worker[t] = "io" => fired[t] = "done"

=============================================================================
