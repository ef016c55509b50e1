------------------------ MODULE BackgroundScheduler ------------------------
(***************************************************************************)
(* The in-process scheduler of background work: a bounded queue per        *)
(* resource class, a pool of workers, and a registry that joins duplicate  *)
(* submissions of a task.  One resource class is modelled; classes share   *)
(* the mutex and the registry but no queue and no worker.                  *)
(*                                                                         *)
(* The mutex of the scheduler is released while a worker waits for the     *)
(* previous run of the same task, acquires a lease, runs the task, gives   *)
(* the lease back and completes the handle, so Submit, Cancel and Close    *)
(* may come between any two of these steps.                                *)
(***************************************************************************)
EXTENDS Integers, FiniteSets

CONSTANTS
  Identity,      \* scope, owner and key of a task
  Owner,         \* the owners (the system is one of them)
  OwnerOf,       \* the owner of an identity
  Leased,        \* identities whose tasks take a lease
  Series,        \* identities that share a SupersedeKey, as a set of sets
  Worker,
  NoWorker,
  Priority,      \* 0 is the most urgent
  Request,       \* the identities and priorities the program submits
  QueueCapacity,
  MaxAttempts,   \* RetryPolicy.MaxAttempts
  MaxSubmits,    \* how many submissions are accepted at most
  MaxTroubles    \* how often a lease, a run or the queueing time fails a task

ASSUME SchedulerAssumption ==
  /\ Identity # {} /\ Priority # {}
  /\ OwnerOf \in [Identity -> Owner]
  /\ Leased \subseteq Identity
  /\ Series \subseteq SUBSET Identity
  /\ NoWorker \notin Worker
  /\ IsFiniteSet(Worker)
  /\ Priority \subseteq Nat
  /\ Request \subseteq Identity \X Priority
  /\ QueueCapacity \in Nat \ {0}
  /\ MaxAttempts \in Nat \ {0}
  /\ MaxSubmits \in Nat
  /\ MaxTroubles \in Nat

\* Entries are named by their sequence number; 0 is no entry.
Entry == 1..MaxSubmits
NoBucket == <<>>  \* a bucket is a priority and an owner

VARIABLES
  submitted, \* Scheduler.sequence
  ident, prio, \* of each entry
  state,     \* itemQueued, itemRunning, itemDone; "new" before Submit
  attempt,
  cancelled, \* entries with cancelRequested
  settling,  \* entries whose lease is (or was) being given back
  result,    \* what the handle was completed with
  registry,  \* Scheduler.entries
  slot,      \* Scheduler.activeRuns: the worker that runs an identity
  queue,     \* resourceQueue.items
  delayed,   \* entries whose readyAt lies in the future
  order,     \* pairs of buckets of one priority, by ownerOrder (=<)
  turned,    \* buckets with ownerOrder =< lastOwnerOrder
  pc, cur,   \* the step each worker is at, and its entry
  cause,     \* of the context of the run
  outcome,   \* what execute returns
  dead,      \* the context of the scheduler is cancelled
  closed,    \* Scheduler.closed
  joined,    \* shutdownDone
  troubles

entries == <<ident, prio, attempt, cancelled, settling>>
turns   == <<order, turned>>
run     == <<pc, cur, cause, outcome>>
life    == <<dead, closed, joined>>
vars == <<submitted, entries, state, result, registry, slot, queue, delayed,
          turns, run, life, troubles>>

Results == {"none", "ok", "failed", "cancelled", "superseded", "expired",
            "closed"}
Steps == {"idle", "popped", "leasing", "running", "ran", "ended", "leaving",
          "exited"}

TypeOK ==
  /\ submitted \in 0..MaxSubmits
  /\ ident \in [Entry -> Identity]
  /\ prio \in [Entry -> Priority]
  /\ state \in [Entry -> {"new", "queued", "running", "done"}]
  /\ attempt \in [Entry -> 1..MaxAttempts]
  /\ cancelled \in SUBSET Entry /\ settling \in SUBSET Entry
  /\ result \in [Entry -> Results]
  /\ registry \in [Identity -> Entry \cup {0}]
  /\ slot \in [Identity -> Worker \cup {NoWorker}]
  /\ queue \in SUBSET Entry /\ delayed \in SUBSET queue
  /\ pc \in [Worker -> Steps]
  /\ cur \in [Worker -> Entry \cup {0}]
  /\ cause \in [Worker -> {"none", "cancelled", "failed", "closed"}]
  /\ outcome \in [Worker -> Results \cup {"unavailable"}]
  /\ dead \in BOOLEAN /\ closed \in BOOLEAN /\ joined \in BOOLEAN
  /\ troubles \in 0..MaxTroubles

Init ==
  /\ submitted = 0
  /\ ident \in [Entry -> {CHOOSE i \in Identity : TRUE}]
  /\ prio \in [Entry -> {CHOOSE p \in Priority : TRUE}]
  /\ state = [e \in Entry |-> "new"]
  /\ attempt = [e \in Entry |-> 1]
  /\ cancelled = {} /\ settling = {}
  /\ result = [e \in Entry |-> "none"]
  /\ registry = [i \in Identity |-> 0]
  /\ slot = [i \in Identity |-> NoWorker]
  /\ queue = {} /\ delayed = {}
  /\ order = {} /\ turned = {}
  /\ pc = [w \in Worker |-> "idle"] /\ cur = [w \in Worker |-> 0]
  /\ cause = [w \in Worker |-> "none"] /\ outcome = [w \in Worker |-> "none"]
  /\ dead = FALSE /\ closed = FALSE /\ joined = FALSE
  /\ troubles = 0

Trouble == troubles < MaxTroubles /\ troubles' = troubles + 1

----------------------------------------------------------------------------
(* The queue. *)

BucketOf(e) == <<prio[e], OwnerOf[ident[e]]>>
Buckets(S) == {BucketOf(e) : e \in S}
Ready == queue \ delayed

\* Mutant: an owner without queued tasks keeps its turn.
KeptAll(buckets) == order

\* The turns of the owners that still have a queued task.
Kept(buckets) == order \cap (buckets \X buckets)

\* An owner whose last task leaves the queue forgets its turn; one that gets
\* its first task is given the last turn (ensureOwnerOrderLocked,
\* dropOwnerOrderIfEmptyLocked).  last is how far each priority has been served.
Turns(rest, new, last) ==
  LET kept == Buckets(rest)
      before == {b \in kept : b[1] = new[1]} \cup {new}
  IN /\ order' = Kept(kept) \cup (IF new \in kept \cup {NoBucket} THEN {}
                                  ELSE before \X {new})
     /\ turned' = last \cap kept

\* The turn of e is the last one served of its priority.
ServedTo(e) ==
  {b \in turned : b[1] # prio[e]} \cup {b \in Buckets(queue) : <<b, BucketOf(e)>> \in order}

\* nextReadyIndexLocked: the most urgent ready priority, the owner whose turn
\* comes next after the last one served, the oldest task of that owner.
Foremost ==
  LET urgent == {e \in Ready : \A f \in Ready : prio[e] =< prio[f]}
      ahead == {e \in urgent : BucketOf(e) \notin turned}
      round == IF ahead = {} THEN urgent ELSE ahead
      owner == {e \in round : \A f \in round : <<BucketOf(e), BucketOf(f)>> \in order}
  IN {e \in owner : \A f \in owner : e =< f}

----------------------------------------------------------------------------
(* Submit and Cancel. *)

Live(i) == registry[i] # 0 /\ registry[i] \notin cancelled

\* A duplicate of a queued task that is more urgent promotes it.
Promote(i, p) ==
  /\ ~ closed
  /\ Live(i)
  /\ LET e == registry[i]
     IN /\ state[e] = "queued" /\ e \in queue /\ p < prio[e]
        /\ prio' = [prio EXCEPT ![e] = p]
        /\ Turns(queue \ {e}, <<p, OwnerOf[ident[e]]>>, turned)
  /\ UNCHANGED <<submitted, ident, attempt, cancelled, settling, state,
                 result, registry, slot, queue, delayed, run, life, troubles>>

Superseded(i) ==
  {e \in queue : /\ state[e] = "queued" /\ registry[ident[e]] = e
                 /\ \E s \in Series : i \in s /\ ident[e] \in s
                 /\ OwnerOf[ident[e]] = OwnerOf[i]}

\* canAdmitAfter; items is what stays in the queue.
CanAdmit(items) == Cardinality(items) < QueueCapacity

\* A new task is admitted when the queue has room, not counting the queued
\* tasks it makes obsolete.
Submit(i, p) ==
  /\ ~ closed
  /\ ~ Live(i)
  /\ submitted < MaxSubmits
  /\ LET old == Superseded(i)
         e == submitted + 1
         items == queue \ old
     IN /\ CanAdmit(items)
        /\ submitted' = e
        /\ ident' = [ident EXCEPT ![e] = i]
        /\ prio' = [prio EXCEPT ![e] = p]
        /\ state' = [f \in Entry |-> IF f = e THEN "queued"
                                     ELSE IF f \in old THEN "done"
                                     ELSE state[f]]
        /\ result' = [f \in Entry |-> IF f \in old THEN "superseded"
                                      ELSE result[f]]
        /\ registry' = [j \in Identity |-> IF j = i THEN e
                                           ELSE IF registry[j] \in old THEN 0
                                           ELSE registry[j]]
        /\ queue' = items \cup {e}
        /\ delayed' = delayed \ old
        /\ Turns(items, <<p, OwnerOf[i]>>, turned)
  /\ UNCHANGED <<attempt, cancelled, settling, slot, run, life, troubles>>

CancelAllowed(e) == state[e] # "done" /\ e \notin settling

CancelQueued(i) ==
  /\ registry[i] # 0
  /\ LET e == registry[i]
     IN /\ CancelAllowed(e)
        /\ state[e] = "queued"
        /\ queue' = queue \ {e} /\ delayed' = delayed \ {e}
        /\ Turns(queue \ {e}, NoBucket, turned)
        /\ state' = [state EXCEPT ![e] = "done"]
        /\ result' = [result EXCEPT ![e] = "cancelled"]
        /\ cancelled' = cancelled \cup {e}
        /\ registry' = [registry EXCEPT ![i] = 0]
  /\ UNCHANGED <<submitted, ident, prio, attempt, settling, slot, run, life,
                 troubles>>

\* The first cause of a context stands; execute ends the context of a run.
Caused(w, c) == IF pc[w] \in {"leasing", "running"} /\ cause[w] = "none"
                THEN c ELSE cause[w]

CancelRunning(i) ==
  /\ registry[i] # 0
  /\ LET e == registry[i]
     IN /\ CancelAllowed(e)
        /\ state[e] = "running"
        /\ cancelled' = cancelled \cup {e}
        /\ cause' = [w \in Worker |-> IF cur[w] = e THEN Caused(w, "cancelled")
                                      ELSE cause[w]]
  /\ UNCHANGED <<submitted, ident, prio, attempt, settling, state, result,
                 registry, slot, queue, delayed, turns, pc, cur, outcome,
                 life, troubles>>

----------------------------------------------------------------------------
(* A worker: next and runEntry. *)

Goto(w, l) == pc' = [pc EXCEPT ![w] = l]

Pop(w) ==
  /\ pc[w] = "idle"
  /\ ~ closed
  /\ \E e \in Foremost :
       /\ queue' = queue \ {e}
       /\ Turns(queue \ {e}, NoBucket, ServedTo(e))
       /\ cur' = [cur EXCEPT ![w] = e]
  /\ Goto(w, "popped")
  /\ UNCHANGED <<submitted, entries, state, result, registry, slot, delayed,
                 cause, outcome, life, troubles>>

\* Mutant: a worker goes on until the queue is empty.
ExitWhenEmpty(w) ==
  /\ pc[w] = "idle"
  /\ dead /\ Ready = {}
  /\ Goto(w, "exited")
  /\ UNCHANGED <<submitted, entries, state, result, registry, slot, queue,
                 delayed, turns, cur, cause, outcome, life, troubles>>

\* A stopped queue ends a worker; so does a dead context once nothing is ready.
Exit(w) ==
  /\ pc[w] = "idle"
  /\ closed \/ (dead /\ Ready = {})
  /\ Goto(w, "exited")
  /\ UNCHANGED <<submitted, entries, state, result, registry, slot, queue,
                 delayed, turns, cur, cause, outcome, life, troubles>>

\* Cancelled while it was popped, closed, or waiting when the context died.
Abandon(w) ==
  /\ pc[w] = "popped"
  /\ \/ closed
     \/ state[cur[w]] # "queued"
     \/ dead /\ slot[ident[cur[w]]] # NoWorker
  /\ Goto(w, "idle")
  /\ cur' = [cur EXCEPT ![w] = 0]
  /\ UNCHANGED <<submitted, entries, state, result, registry, slot, queue,
                 delayed, turns, cause, outcome, life, troubles>>

\* Mutant: the end of a run removes whatever is registered.
UnregisteredAny(e) == [registry EXCEPT ![ident[e]] = 0]

Unregistered(e) ==
  [registry EXCEPT ![ident[e]] = IF @ = e THEN 0 ELSE @]

\* Mutant: a replacement does not wait for the run it replaces.
StartableAtOnce(w) ==
  /\ pc[w] = "popped"
  /\ ~ closed
  /\ state[cur[w]] = "queued"

\* A cancelled run still holds the slot of its identity: its replacement
\* waits, and the worker with it.
Startable(w) ==
  /\ pc[w] = "popped"
  /\ ~ closed
  /\ state[cur[w]] = "queued"
  /\ slot[ident[cur[w]]] = NoWorker

\* NotAfter has passed.
Expire(w) ==
  /\ Startable(w)
  /\ Trouble
  /\ LET e == cur[w]
     IN /\ state' = [state EXCEPT ![e] = "done"]
        /\ result' = [result EXCEPT ![e] = "expired"]
        /\ registry' = Unregistered(e)
  /\ Goto(w, "idle")
  /\ cur' = [cur EXCEPT ![w] = 0]
  /\ UNCHANGED <<submitted, entries, slot, queue, delayed, turns, cause,
                 outcome, life>>

Start(w) ==
  /\ Startable(w)
  /\ LET e == cur[w]
     IN /\ state' = [state EXCEPT ![e] = "running"]
        /\ slot' = [slot EXCEPT ![ident[e]] = w]
  /\ cause' = [cause EXCEPT ![w] = IF dead THEN "closed" ELSE "none"]
  /\ Goto(w, "leasing")
  /\ UNCHANGED <<submitted, entries, result, registry, queue, delayed, turns,
                 cur, outcome, life, troubles>>

\* execute is left with what it returns: a task with a lease gives it back first.
Leaves(w, r) ==
  /\ outcome' = [outcome EXCEPT ![w] = r]
  /\ cause' = [cause EXCEPT ![w] = "none"]
  /\ Goto(w, IF ident[cur[w]] \in Leased THEN "ran" ELSE "ended")

\* execute acquires the lease, if the task has one; a task that was cancelled
\* meanwhile does not run, but gives the lease back.
Acquire(w) ==
  /\ pc[w] = "leasing"
  /\ IF cause[w] = "none" THEN Goto(w, "running") /\ UNCHANGED <<cause, outcome>>
     ELSE Leaves(w, cause[w])
  /\ UNCHANGED <<submitted, entries, state, result, registry, slot, queue,
                 delayed, turns, cur, life, troubles>>

LeaseRefused(w) ==
  /\ pc[w] = "leasing" /\ ident[cur[w]] \in Leased
  /\ Trouble
  /\ \E r \in {"unavailable", "failed"} : outcome' = [outcome EXCEPT ![w] = r]
  /\ cause' = [cause EXCEPT ![w] = "none"]
  /\ Goto(w, "ended")
  /\ UNCHANGED <<submitted, entries, state, result, registry, slot, queue,
                 delayed, turns, cur, life>>

\* The heartbeat fails, or RunTimeout has passed, which counts from the moment
\* the task was taken off the queue.
LoseRun(w) ==
  /\ pc[w] \in {"leasing", "running"} /\ cause[w] = "none"
  /\ Trouble
  /\ cause' = [cause EXCEPT ![w] = "failed"]
  /\ UNCHANGED <<submitted, entries, state, result, registry, slot, queue,
                 delayed, turns, pc, cur, outcome, life>>

\* The task returns.  The cause of a cancelled context stands for a nil error,
\* and for any error unless the cause is a plain cancel.
Return(w, r) ==
  /\ pc[w] = "running"
  /\ Leaves(w, IF cause[w] = "none" \/ (cause[w] = "cancelled" /\ r # "ok")
               THEN r ELSE cause[w])

RunReturns(w) ==
  /\ \/ Return(w, "ok") /\ UNCHANGED troubles
     \/ Return(w, "failed") /\ Trouble
  /\ UNCHANGED <<submitted, entries, state, result, registry, slot, queue,
                 delayed, turns, cur, life>>

\* The deferred release marks the entry as settling and tells the lease how the
\* run ended; from then on Cancel is refused.  A release that fails turns a
\* success into an error.
Settle(w) ==
  /\ pc[w] = "ran"
  /\ settling' = settling \cup {cur[w]}
  /\ \/ UNCHANGED <<outcome, troubles>>
     \/ outcome[w] = "ok" /\ Trouble /\ outcome' = [outcome EXCEPT ![w] = "failed"]
  /\ Goto(w, "ended")
  /\ UNCHANGED <<submitted, ident, prio, attempt, cancelled, state, result,
                 registry, slot, queue, delayed, turns, cur, cause, life>>

\* Mutant: the error of the run stands, cancelled or not.
VerdictOfRun(w) == outcome[w]

\* runEntry after execute: what the run counts as.
Verdict(w) ==
  IF cur[w] \in cancelled /\ ~ dead THEN "cancelled" ELSE outcome[w]

\* Whether an error may be retried is for the policy of the task to say: a
\* failed run with attempts left may be repeated and may be finished.
Retryable(w) ==
  Verdict(w) = "failed" /\ attempt[cur[w]] < MaxAttempts

\* Mutant: a closed scheduler still takes a task back.
MayRequeueClosed(w) == cur[w] \notin cancelled

MayRequeue(w) ==
  ~ closed /\ ~ dead /\ cur[w] \notin cancelled

\* A lease that is not available defers the task, a failed run is repeated
\* after a delay; neither is held to the capacity of the queue.
Requeue(w) ==
  /\ pc[w] = "ended"
  /\ MayRequeue(w)
  /\ LET e == cur[w]
     IN /\ \/ Verdict(w) = "unavailable" /\ UNCHANGED attempt
           \/ Retryable(w) /\ attempt' = [attempt EXCEPT ![e] = @ + 1]
        /\ state' = [state EXCEPT ![e] = "queued"]
        /\ queue' = queue \cup {e}
        /\ delayed' = delayed \cup {e}
        /\ Turns(queue, BucketOf(e), turned)
  /\ Goto(w, "leaving")
  /\ UNCHANGED <<submitted, ident, prio, cancelled, settling, result,
                 registry, slot, cur, cause, outcome, life, troubles>>

\* The handle is completed after the mutex is released, which only the waiters
\* can tell; a failed run with attempts left ends here if it is not retryable.
Finish(w) ==
  /\ pc[w] = "ended"
  /\ ~ (MayRequeue(w) /\ Verdict(w) = "unavailable")
  /\ state' = [state EXCEPT ![cur[w]] = "done"]
  /\ registry' = Unregistered(cur[w])
  /\ result' = [result EXCEPT ![cur[w]] =
       IF Verdict(w) = "unavailable" THEN "failed" ELSE Verdict(w)]
  /\ Goto(w, "leaving")
  /\ UNCHANGED <<submitted, entries, slot, queue, delayed, turns, cur, cause,
                 outcome, life, troubles>>

\* The deferred function gives the slot of the identity back.
Leave(w) ==
  /\ pc[w] = "leaving"
  /\ slot' = [slot EXCEPT ![ident[cur[w]]] = IF @ = w THEN NoWorker ELSE @]
  /\ Goto(w, "idle")
  /\ cur' = [cur EXCEPT ![w] = 0]
  /\ outcome' = [outcome EXCEPT ![w] = "none"]
  /\ UNCHANGED <<submitted, entries, state, result, registry, queue, delayed,
                 turns, cause, life, troubles>>

\* The delay of an entry passes.
Ripen(e) ==
  /\ e \in delayed
  /\ delayed' = delayed \ {e}
  /\ UNCHANGED <<submitted, entries, state, result, registry, slot, queue,
                 turns, run, life, troubles>>

----------------------------------------------------------------------------
(* The end: the parent context is cancelled, or Close is called. *)

Interrupted == [w \in Worker |-> Caused(w, "closed")]

ParentDies ==
  /\ ~ dead
  /\ dead' = TRUE
  /\ cause' = Interrupted
  /\ UNCHANGED <<submitted, entries, state, result, registry, slot, queue,
                 delayed, turns, pc, cur, outcome, closed, joined, troubles>>

\* Mutant: only what is in the queue, not what a worker has just taken off it.
DrainedQueue == {e \in queue : state[e] = "queued" /\ registry[ident[e]] = e}

Drained == {e \in Entry : state[e] = "queued" /\ registry[ident[e]] = e}

\* shutdown, under the mutex: queued tasks are completed, running ones are
\* cancelled and the queue is stopped.
Shutdown ==
  /\ ~ closed
  /\ closed' = TRUE /\ dead' = TRUE
  /\ state' = [e \in Entry |-> IF e \in Drained THEN "done" ELSE state[e]]
  /\ result' = [e \in Entry |-> IF e \in Drained THEN "closed" ELSE result[e]]
  /\ registry' = [i \in Identity |-> IF registry[i] \in Drained THEN 0
                                     ELSE registry[i]]
  /\ cause' = Interrupted
  /\ UNCHANGED <<submitted, entries, slot, queue, delayed, turns, pc, cur,
                 outcome, joined, troubles>>

\* Every call of Close, and the one of the parent's end, waits for the workers.
Join ==
  /\ closed /\ ~ joined
  /\ \A w \in Worker : pc[w] = "exited"
  /\ joined' = TRUE
  /\ UNCHANGED <<submitted, entries, state, result, registry, slot, queue,
                 delayed, turns, run, dead, closed, troubles>>

----------------------------------------------------------------------------
WorkerStep(w) ==
  \/ Pop(w) \/ Exit(w) \/ Abandon(w) \/ Start(w) \/ Acquire(w)
  \/ RunReturns(w) \/ Settle(w)
  \/ Requeue(w) \/ Finish(w) \/ Leave(w)

Next ==
  \/ \E i \in Identity : CancelQueued(i) \/ CancelRunning(i)
  \/ \E i \in Identity, p \in Priority :
       <<i, p>> \in Request /\ (Submit(i, p) \/ Promote(i, p))
  \/ \E w \in Worker :
       WorkerStep(w) \/ Expire(w) \/ LeaseRefused(w) \/ LoseRun(w)
  \/ \E e \in Entry : Ripen(e)
  \/ ParentDies \/ Shutdown \/ Join

Spec == Init /\ [][Next]_vars

\* A worker is a goroutine that always goes on, tasks return, delays pass, and
\* the goroutine that watches the context shuts the scheduler down.
Fairness ==
  /\ \A w \in Worker : WF_vars(WorkerStep(w))
  /\ WF_vars(\E e \in Entry : Ripen(e))
  /\ WF_vars(dead /\ Shutdown) /\ WF_vars(Join)

FairSpec == Spec /\ Fairness

----------------------------------------------------------------------------
(* Properties. *)

\* A worker that runs a task, that may still put it back or finish it, and that
\* has the slot of its identity.
Running(w) == pc[w] \in {"leasing", "running", "ran", "ended"}
Holding(w) == pc[w] = "popped" \/ Running(w)
Executing(w) == pc[w] = "leaving" \/ Running(w)

\* runEntry: a task that was cancelled and submitted again does not run before
\* its predecessor has ended, lease release included.
OneRunPerIdentity ==
  \A v, w \in Worker :
    Executing(v) /\ Executing(w) /\ ident[cur[v]] = ident[cur[w]] => v = w

\* Submit joins duplicates: of the tasks of one identity at most one is live,
\* and it is the one that Cancel and the next Submit find.
LiveIsRegistered ==
  \A e \in Entry : state[e] \in {"queued", "running"} /\ e \notin cancelled
    => registry[ident[e]] = e

\* A Cancel that returned true is what the waiters learn, unless the scheduler
\* ends first, and the task is neither deferred nor repeated.
CancelStands ==
  \A e \in cancelled : /\ state[e] # "queued"
                       /\ result[e] \in {"none", "cancelled"} \/ dead

\* Every owner with a queued task has one turn and no other owner has, turns of
\* a priority are in one order, and those served are the first ones.
TurnsMatchQueue ==
  LET B == Buckets(queue)
  IN /\ order \subseteq {bc \in B \X B : bc[1][1] = bc[2][1]}
     /\ \A b, c \in B : b[1] = c[1] => <<b, c>> \in order \/ <<c, b>> \in order
     /\ \A b, c \in B : <<b, c>> \in order /\ <<c, b>> \in order => b = c
     /\ \A b, c, d \in B : <<b, c>> \in order /\ <<c, d>> \in order => <<b, d>> \in order
     /\ turned \subseteq B
     /\ \A b, c \in B : <<b, c>> \in order /\ c \in turned => b \in turned

\* Deferred and repeated tasks bypass the capacity of the queue, but a worker
\* that may still put one back counts as well.
QueueBounded ==
  Cardinality(queue) + Cardinality({w \in Worker : Holding(w)})
    =< QueueCapacity + Cardinality(Worker)

\* Close returns when nothing runs and every handle is complete (the ones that
\* a concurrent Submit or Cancel took off the queue are completed by it).
CloseJoins ==
  joined => /\ \A w \in Worker : ~ Executing(w)
            /\ \A e \in 1..submitted : result[e] # "none"

\* Every accepted task ends, whatever is cancelled, superseded, refused,
\* repeated or closed, and every worker leaves a scheduler that ends, so Close
\* returns.  (Submissions are bounded: in the end all handles are complete.)
EveryTaskEnds ==
  []<>(/\ \A e \in 1..submitted : result[e] # "none"
       /\ dead => joined)

\* What the steps preserve, for the proofs.
QueueKnown ==
  /\ queue \subseteq 1..submitted
  /\ \A e \in Entry : state[e] = "new" <=> e > submitted
  /\ \A e \in cancelled : e =< submitted
  /\ \A i \in Identity : registry[i] =< submitted

HolderKnown ==
  \A w \in Worker :
    /\ Holding(w) \/ Executing(w) => cur[w] \in 1..submitted
    /\ Holding(w) => cur[w] \notin queue
    /\ Running(w) => state[cur[w]] = "running"
    /\ pc[w] \in {"ran", "ended"} => outcome[w] # "none"

OneHolder ==
  \A v, w \in Worker : Holding(v) /\ Holding(w) /\ cur[v] = cur[w] => v = w

SlotHeld == \A w \in Worker : Executing(w) => slot[ident[cur[w]]] = w

ResultsKnown ==
  \A e \in Entry :
    /\ state[e] = "running" => \E w \in Worker : Running(w) /\ cur[w] = e
    /\ state[e] = "done" <=> result[e] # "none"
    /\ closed => state[e] # "queued"

JoinedExited == joined => closed /\ \A w \in Worker : pc[w] = "exited"

IInv == /\ TypeOK
        /\ QueueKnown /\ HolderKnown /\ OneHolder /\ SlotHeld
        /\ ResultsKnown /\ JoinedExited
        /\ LiveIsRegistered /\ CancelStands

\* docs/background-scheduler.md, "Retry and lease deferral": "Explicit
\* cancellation suppresses retry."  A Cancel of a live task is refused only
\* while its lease is being given back.
CancelSuppressesRetry ==
  \A i \in Identity :
    LET e == registry[i]
    IN e # 0 /\ state[e] # "done" /\ ~ CancelAllowed(e)
         => \E w \in Worker : cur[w] = e /\ pc[w] = "ended"

\* scheduler_cancel_during_lease_release_race_test.go: a Cancel that comes too
\* late to be told to the lease is refused, so lease and handle agree.
SettlementAgrees ==
  [][\A w \in Worker : Settle(w) /\ outcome'[w] = "ok"
       => cur[w] \notin cancelled \/ dead]_vars
=============================================================================
