---------------------------- MODULE FileOperations ----------------------------
(***************************************************************************)
(* The file operations of one user: copies, moves, deletions, their undos  *)
(* and redos are rows of a queue that a worker in every server carries     *)
(* out, beside the requests of the user that change the tree at once.      *)
(*                                                                         *)
(* A transaction on the tree has two steps: it locks rows FOR UPDATE and   *)
(* reads what it does not lock, and later it writes and commits.  A row it *)
(* has locked keeps what was read.  A write waits for rows that others     *)
(* have locked, also for a new parent: the foreign key of parent_id takes  *)
(* a shared lock on it.  The unique index refuses two live siblings of one *)
(* name.                                                                   *)
(*                                                                         *)
(* Left out: the policy "replace", operations on several selected items    *)
(* (one transaction carries all of them out), files' contents, shares,     *)
(* managed sources and notes, progress, and the wakeup of the worker, which *)
(* looks at the queue every five seconds anyway.                           *)
(***************************************************************************)
EXTENDS Integers, FiniteSetsExt, Functions

CONSTANTS
    Node,          \* ids of rows of xd_nodes, used or not yet used
    Dir,           \* those that are directories
    Root, NoNode,
    Name, NoName,
    Tree,          \* the rows at the start
    Base, Policy,  \* sorts of operations, and what they do about a taken name
    MaxOps,        \* bound on queued operations
    MaxSubmits,    \* the first ones may be new, the others are undos and redos
    Server,        \* servers that share the database
    User,          \* requests of the user that run at the same time
    Request,       \* their kinds
    MaxRequests,   \* bound on them
    MaxCrashes,    \* bound on stops of a server
    MaxLostAcks,   \* bound on commits whose acknowledgement is lost
    MaxErrors,     \* bound on errors of the database that leave a row behind
    HistoryLimit   \* finished operations that are kept

Op == 1..MaxOps
NoOp == 0
Proc == Server \cup User
Terminal == {"cancelled", "completed", "failed"}

ASSUME ConstantsAssumption ==
    /\ IsFiniteSet(Node)
    /\ Dir \subseteq Node
    /\ NoNode \notin Node /\ Root \notin Node /\ Root # NoNode
    /\ NoName \notin Name
    /\ Base \subseteq {"copy", "move", "delete"}
    /\ Policy \subseteq {"fail", "skip", "keep_both"}
    /\ Server \cap User = {}
    /\ Request \subseteq {"relocate", "create", "trash", "restore", "purge"}
    /\ MaxSubmits <= MaxOps
    /\ {MaxOps, MaxSubmits, MaxRequests, MaxCrashes, MaxLostAcks, MaxErrors, HistoryLimit}
          \subseteq Nat

VARIABLES
    node,         \* the rows: parent (NoNode: no row), name, trash root, revision
    op,           \* rows of the queue
    tx,           \* the open transaction of a process on the tree
    pc, running,  \* a worker: where it is, with which operation
    interrupted,  \* workers whose operation's context was cancelled
    calls,        \* operations whose cancelling request has yet to interrupt the worker
    applied,      \* history: how often an operation has been carried out
    changed,      \* history: where it took the nodes from and put them
    stranded,     \* history: rows that an error has left without a worker
    requests, crashes, lostAcks, errors

worker == <<pc, running, interrupted>>
history == <<applied, changed, stranded>>
bounds == <<requests, crashes, lostAcks, errors>>
vars == <<node, op, tx, worker, calls, history, bounds>>

Absent == [parent |-> NoNode, name |-> NoName, trash |-> NoNode, rev |-> 0]

\* What an operation is about: a node, where it has been, revisions (0: none).
NoItem == [id |-> NoNode, parent |-> NoNode, name |-> NoName, nodes |-> [n \in Node |-> 0]]

NoTx == [what |-> "none", id |-> NoNode, to |-> NoNode, name |-> NoName, rev |-> 0,
         ids |-> {}, locked |-> {}]

Unused == [status |-> "none", base |-> "none", step |-> "do", item |-> NoItem,
           to |-> NoNode, policy |-> "fail", of |-> NoOp, by |-> NoOp, plan |-> NoItem]

Places == Node \cup {Root, NoNode}

Row == [parent : Places, name : Name \cup {NoName}, trash : Node \cup {NoNode}, rev : Nat]

ASSUME TreeAssumption == Tree \in [Node -> Row]

Item == [id : Node \cup {NoNode}, parent : Places, name : Name \cup {NoName},
         nodes : [Node -> Nat]]

Status == Terminal \cup {"none", "queued", "running", "cancelling", "gone"}

Operation ==
    [status : Status, base : Base \cup {"none"}, step : {"do", "undo", "redo"},
     item : Item, to : Places, policy : Policy \cup {"fail"},
     of : Op \cup {NoOp}, by : Op \cup {NoOp}, plan : Item]

Transactions ==
    [what : {"none", "relocate", "create", "trash", "restore", "purge", "copy"},
     id : Node \cup {NoNode}, to : Places, name : Name \cup {NoName}, rev : Nat,
     ids : SUBSET Node, locked : SUBSET Node]

TypeOK ==
    /\ node \in [Node -> Row]
    /\ op \in [Op -> Operation]
    /\ tx \in [Proc -> Transactions]
    /\ pc \in [Server -> {"down", "idle", "claimed", "found", "begun", "cancel", "fail"}]
    /\ running \in [Server -> Op \cup {NoOp}]
    /\ interrupted \subseteq Server
    /\ calls \subseteq Op
    /\ applied \in [Op -> Nat]
    /\ DOMAIN changed = Op /\ \A o \in Op : DOMAIN changed[o] \subseteq Node
    /\ stranded \subseteq Op
    /\ requests \in 0..MaxRequests /\ crashes \in 0..MaxCrashes
    /\ lostAcks \in 0..MaxLostAcks /\ errors \in 0..MaxErrors

Init ==
    /\ node = Tree
    /\ op = [o \in Op |-> Unused]
    /\ tx = [p \in Proc |-> NoTx]
    /\ pc = [w \in Server |-> "down"]
    /\ running = [w \in Server |-> NoOp]
    /\ interrupted = {}
    /\ calls = {}
    /\ applied = [o \in Op |-> 0]
    /\ changed = [o \in Op |-> <<>>]
    /\ stranded = {}
    /\ requests = 0 /\ crashes = 0 /\ lostAcks = 0 /\ errors = 0

-----------------------------------------------------------------------------
(* The tree                                                                *)

Exists(rows, n) == rows[n].parent # NoNode
LiveIn(rows, n) == Exists(rows, n) /\ rows[n].trash = NoNode
Live(n) == LiveIn(node, n)
LiveNodes == {n \in Node : Live(n)}
LiveDir(d) == d \in (LiveNodes \cap Dir) \cup {Root}
Spare == {n \in Node : ~Exists(node, n)}

(* The nodes of S that are reached from r by way of nodes of S: the least *)
(* set that has r and the children of its members.                         *)
Below(r, S) ==
    {m \in S \cup {r} :
        \A T \in SUBSET S :
            (\A x \in S : node[x].parent \in T \cup {r} => x \in T) => m \in T \cup {r}}

ActiveSubtree(n) == Below(n, LiveNodes)
Subtree(n) == Below(n, Node \ Spare)
Trashed(r) == {m \in Node : Exists(node, m) /\ node[m].trash = r}

Taken(rows, d, nm, n) ==
    \E m \in Node \ {n} : LiveIn(rows, m) /\ rows[m].parent = d /\ rows[m].name = nm

Locked(p) == UNION {tx[q].locked : q \in Proc \ {p}}

(* The database accepts the rows and writes them.                          *)
Write(p, rows) ==
    /\ \A n \in LiveNodes \cup {m \in Node : LiveIn(rows, m)} :
         LiveIn(rows, n) => ~Taken(rows, rows[n].parent, rows[n].name, n)
    /\ \A n \in Node : rows[n].parent \in Node => Exists(rows, rows[n].parent)
    /\ \A n \in Node : rows[n] # node[n] =>
         /\ n \notin Locked(p)
         /\ rows[n].parent # node[n].parent => rows[n].parent \notin Locked(p)
    /\ node' = rows

(* A soft delete changes the rows its transaction has read that are still  *)
(* live, a restore those with the root, a permanent delete what it read.   *)
Relocate(i, d, nm) ==
    [node EXCEPT ![i] = [parent |-> d, name |-> nm, trash |-> @.trash, rev |-> @.rev + 1]]

PutIntoTrash(t) ==
    [n \in Node |->
        IF n \in t.ids /\ Live(n)
        THEN [node[n] EXCEPT !.trash = t.id, !.rev = IF n = t.id THEN @ + 1 ELSE @]
        ELSE node[n]]

Restore(t) ==
    [n \in Node |->
        IF n \in Trashed(t.id)
        THEN [node[n] EXCEPT !.trash = NoNode, !.rev = IF n = t.id THEN @ + 1 ELSE @]
        ELSE node[n]]

Purge(t) == [n \in Node |-> IF n \in t.ids THEN Absent ELSE node[n]]

New(d, nm) == [parent |-> d, name |-> nm, trash |-> NoNode, rev |-> 1]

(* copyOf maps the new nodes to those they are copied from.                *)
Copies(t, copyOf, nm) ==
    [n \in Node |->
        IF n \notin DOMAIN copyOf THEN node[n]
        ELSE IF copyOf[n] = t.id THEN New(t.to, nm)
        ELSE New(AntiFunction(copyOf)[node[copyOf[n]].parent], node[copyOf[n]].name)]

-----------------------------------------------------------------------------
(* Requests of the user                                                    *)

MayAsk(u, what) == what \in Request /\ requests < MaxRequests /\ tx[u] = NoTx

Ask(u, t) ==
    /\ tx' = [tx EXCEPT ![u] = t]
    /\ requests' = requests + 1
    /\ UNCHANGED <<node, op, worker, calls, history, crashes, lostAcks, errors>>

(* A move or a rename checks everything before its transaction begins.     *)
CheckUpdate(u, n, d, nm) ==
    /\ MayAsk(u, "relocate")
    /\ Live(n) /\ LiveDir(d)
    /\ d \in Below(Root, Node \ (Spare \cup {n}))
    /\ ~Taken(node, d, nm, n)
    /\ Ask(u, [NoTx EXCEPT !.what = "relocate", !.id = n, !.to = d, !.name = nm,
                           !.rev = node[n].rev])

CheckCreate(u, d, nm) ==
    /\ MayAsk(u, "create")
    /\ LiveDir(d)
    /\ Ask(u, [NoTx EXCEPT !.what = "create", !.to = d, !.name = nm])

LockDelete(u, n) ==
    /\ MayAsk(u, "trash")
    /\ Live(n) /\ n \notin Locked(u)
    /\ Ask(u, [NoTx EXCEPT !.what = "trash", !.id = n, !.ids = ActiveSubtree(n),
                           !.locked = {n}])

LockRestore(u, r) ==
    /\ MayAsk(u, "restore")
    /\ r \in Trashed(r) \ Locked(u)
    /\ node[r].parent \in LiveNodes \cup {Root}
    /\ Ask(u, [NoTx EXCEPT !.what = "restore", !.id = r, !.locked = {r}])

LockPurge(u, r) ==
    /\ MayAsk(u, "purge")
    /\ r \in Trashed(r) \ Locked(u)
    /\ Ask(u, [NoTx EXCEPT !.what = "purge", !.id = r, !.ids = Subtree(r), !.locked = {r}])

Answer(u) ==
    /\ tx' = [tx EXCEPT ![u] = NoTx]
    /\ UNCHANGED <<op, worker, calls, history, bounds>>

CommitRequest(u) ==
    /\ LET t == tx[u] IN
       \/ /\ t.what = "relocate" /\ Live(t.id) /\ node[t.id].rev = t.rev
          /\ Write(u, Relocate(t.id, t.to, t.name))
       \/ t.what = "create" /\ \E n \in Spare \cap Dir : Write(u, [node EXCEPT ![n] = New(t.to, t.name)])
       \/ t.what = "trash" /\ Write(u, PutIntoTrash(t))
       \/ t.what = "restore" /\ Write(u, Restore(t))
       \/ t.what = "purge" /\ Write(u, Purge(t))
    /\ Answer(u)

Refuse(u) ==
    /\ tx[u] # NoTx
    /\ Answer(u)
    /\ UNCHANGED node

-----------------------------------------------------------------------------
(* The queue                                                               *)

Gone == [Unused EXCEPT !.status = "gone"]

(* The oldest of too many finished operations are deleted.                 *)
Pruned(rows) ==
    [o \in Op |->
        IF /\ rows[o].status \in Terminal
           /\ Cardinality({q \in Op : q > o /\ rows[q].status \in Terminal}) >= HistoryLimit
        THEN Gone ELSE rows[o]]

(* Bug: the reservation of an undo that came to nothing stays.             *)
ReleasedNothing(rows, ended) == rows

(* What an undo or a redo that came to nothing was about can be undone or  *)
(* redone again.                                                           *)
Released(rows, ended) ==
    [o \in Op |-> IF rows[o].by \in ended THEN [rows[o] EXCEPT !.by = NoOp] ELSE rows[o]]

Ended(o, status) ==
    Pruned(Released([op EXCEPT ![o].status = status], {o}))

(* An undo or a redo reserves the operation it is about.                   *)
Enqueue(row) ==
    \E o \in Op :
       /\ op[o] = Unused
       /\ \A q \in 1..(o - 1) : op[q] # Unused
       /\ op' = [q \in Op |-> IF q = o THEN row
                              ELSE IF q = row.of THEN [op[q] EXCEPT !.by = o]
                              ELSE op[q]]
       /\ UNCHANGED <<node, tx, worker, calls, history, bounds>>

(* A new operation, one that is tried again, and one whose name conflict   *)
(* is resolved by another policy.                                          *)
Submit(base, n, d, policy) ==
    /\ \E o \in 1..MaxSubmits : op[o] = Unused
    /\ Live(n) /\ \A p \in Proc : n \notin tx[p].locked
    /\ IF base = "delete" THEN d = NoNode /\ policy = "fail" ELSE LiveDir(d)
    /\ Enqueue([Unused EXCEPT
                    !.status = "queued", !.base = base, !.to = d, !.policy = policy,
                    !.item = [NoItem EXCEPT !.id = n, !.nodes[n] = node[n].rev]])

Reverting(o, step) ==
    [Unused EXCEPT !.status = "queued", !.base = op[o].base, !.step = step,
                   !.item = op[o].plan, !.to = op[o].plan.parent, !.of = o]

Undoable(o) ==
    /\ op[o].status = "completed" /\ op[o].step # "undo"
    /\ op[o].by = NoOp /\ op[o].plan # NoItem

Redoable(o) ==
    /\ op[o].status = "completed" /\ op[o].step = "undo"
    /\ op[o].by = NoOp /\ op[o].plan # NoItem

Undo(o) == Undoable(o) /\ Enqueue(Reverting(o, "undo"))
Redo(o) == Redoable(o) /\ Enqueue(Reverting(o, "redo"))

Cancel(o) ==
    /\ \/ op[o].status = "queued" /\ op' = Ended(o, "cancelled") /\ UNCHANGED calls
       \/ /\ op[o].status = "running"
          /\ op' = [op EXCEPT ![o].status = "cancelling"]
          /\ calls' = calls \cup {o}
       \/ op[o].status = "cancelling" /\ calls' = calls \cup {o} /\ UNCHANGED op
    /\ UNCHANGED <<node, tx, worker, history, bounds>>

(* The request that cancels interrupts a worker of its own server, which   *)
(* has registered the operation after the claim.                           *)
Interrupt(o, w) ==
    /\ o \in calls
    /\ calls' = calls \ {o}
    /\ interrupted' = IF running[w] = o /\ pc[w] # "claimed"
                      THEN interrupted \cup {w} ELSE interrupted
    /\ UNCHANGED <<node, op, tx, pc, running, history, bounds>>

ClearHistory ==
    /\ \E o \in Op : op[o].status \in Terminal
    /\ op' = [o \in Op |-> IF op[o].status \in Terminal THEN Gone ELSE op[o]]
    /\ UNCHANGED <<node, tx, worker, calls, history, bounds>>

-----------------------------------------------------------------------------
(* A worker                                                                *)

Goto(w, place) ==
    /\ pc' = [pc EXCEPT ![w] = place]
    /\ UNCHANGED <<running, interrupted>>

(* Bug: the cancel function of an operation stays registered.              *)
LeaveRegistered(w) ==
    /\ pc' = [pc EXCEPT ![w] = "idle"]
    /\ running' = [running EXCEPT ![w] = NoOp]
    /\ UNCHANGED interrupted

Leave(w) ==
    /\ pc' = [pc EXCEPT ![w] = "idle"]
    /\ running' = [running EXCEPT ![w] = NoOp]
    /\ interrupted' = interrupted \ {w}

Rollback(w) == tx' = [tx EXCEPT ![w] = NoTx]

Claim(w) ==
    /\ pc[w] = "idle"
    /\ \E o \in Op :
         /\ op[o].status = "queued"
         /\ \A q \in 1..(o - 1) : op[q].status # "queued"
         /\ op' = [op EXCEPT ![o].status = "running"]
         /\ running' = [running EXCEPT ![w] = o]
    /\ pc' = [pc EXCEPT ![w] = "claimed"]
    /\ UNCHANGED <<node, tx, interrupted, calls, history, bounds>>

(* An error of the database that is logged and leaves rows of the queue as *)
(* they are.                                                               *)
Unfinished == {o \in Op : op[o].status \in {"running", "cancelling"}}

Strand(rows) ==
    /\ errors < MaxErrors
    /\ errors' = errors + 1
    /\ stranded' = stranded \cup rows
    /\ UNCHANGED <<applied, changed, requests, crashes, lostAcks>>

(* The row is claimed, but the answer to the commit is lost: the worker    *)
(* does not know that it has it.                                           *)
ClaimUnacknowledged(w) ==
    /\ pc[w] = "idle"
    /\ \E o \in Op :
         /\ op[o].status = "queued"
         /\ \A q \in 1..(o - 1) : op[q].status # "queued"
         /\ op' = [op EXCEPT ![o].status = "running"]
         /\ Strand({o})
    /\ UNCHANGED <<node, tx, worker, calls>>

Effect(o) ==
    CASE op[o].base = "move" -> "relocate"
      [] op[o].base = "copy" /\ op[o].step = "do" -> "copy"
      [] <<op[o].base, op[o].step>> \in {<<"delete", "undo">>, <<"copy", "redo">>} -> "restore"
      [] OTHER -> "trash"

Seen(i) == {n \in Node : i.nodes[n] # 0}

(* Bug: an operation does not compare revisions.                          *)
AsSeenAnyRevision(i, ids) == ids \subseteq Seen(i)

(* The nodes have the revisions that the operation knows.                  *)
AsSeen(i, ids) == \A n \in ids : n \in Seen(i) /\ node[n].rev = i.nodes[n]

SameTree(i, ids) == AsSeen(i, ids) /\ Seen(i) = ids

(* A redo also finds its item where the undo left it.                      *)
StandsThere(i) == node[i.id].parent = i.parent /\ node[i.id].name = i.name

(* What a transaction checks and locks before it writes.                   *)
Transaction(w, o) ==
    LET i == op[o].item
        n == i.id
        step == op[o].step
        t == [NoTx EXCEPT !.what = Effect(o), !.id = n, !.to = op[o].to]
        Lock(ids) ==
            /\ ids \cap Locked(w) = {}
            /\ tx' = [tx EXCEPT ![w] = [t EXCEPT !.ids = ids,
                                        !.locked = IF step = "do" THEN {n} ELSE ids]]
    IN  /\ AsSeen(i, {n})
        /\ \/ /\ t.what \in {"relocate", "copy"}
              /\ Live(n) /\ LiveDir(t.to) /\ t.to \notin ActiveSubtree(n)
              /\ Lock({n})
           \/ /\ t.what = "trash"
              /\ Live(n) /\ n \notin Locked(w)
              /\ step = "redo" => StandsThere(i)
              /\ tx' = [tx EXCEPT ![w] = [t EXCEPT !.ids = ActiveSubtree(n), !.locked = {n}]]
           \/ /\ t.what = "restore"
              /\ n \in Trashed(n) /\ LiveDir(node[n].parent)
              /\ step = "redo" => StandsThere(i) /\ SameTree(i, Trashed(n))
              /\ Lock(Trashed(n))

Begin(w) ==
    /\ pc[w] = "claimed"
    /\ op[running[w]].status = "running"
    /\ Transaction(w, running[w])
    /\ Goto(w, IF Effect(running[w]) = "trash" /\ op[running[w]].step # "do"
               THEN "found" ELSE "begun")
    /\ UNCHANGED <<node, op, calls, history, bounds>>

(* The undo of a copy and the redo of a deletion have read which nodes are *)
(* below without a lock, and now lock and compare those still live.  Only  *)
(* the undo also compares how many they were.                              *)
LockTree(w) ==
    LET o == running[w]
        ids == {n \in tx[w].ids : Live(n)}
    IN  /\ pc[w] = "found"
        /\ ids \cap Locked(w) = {}
        /\ SameTree(op[o].item, ids)
        /\ op[o].step = "undo" => ids = tx[w].ids
        /\ tx' = [tx EXCEPT ![w].ids = ids, ![w].locked = ids]
        /\ Goto(w, "begun")
        /\ UNCHANGED <<node, op, calls, history, bounds>>

Place(r) == IF r.parent # NoNode /\ r.trash = NoNode THEN <<r.parent, r.name>> ELSE <<>>

(* Bug: the status is not written in the transaction of the rows.          *)
CompleteLater(w, o, rows, plan) ==
    /\ Write(w, rows)
    /\ applied' = [applied EXCEPT ![o] = @ + 1]
    /\ changed' = [changed EXCEPT ![o] =
                      [n \in {m \in Node : Place(rows[m]) # Place(node[m])} |->
                          <<Place(node[n]), Place(rows[n])>>]]
    /\ UNCHANGED op

(* The rows and the plan to revert them are written with the status.       *)
Complete(w, o, rows, plan) ==
    /\ Write(w, rows)
    /\ op' = Pruned([op EXCEPT ![o].status = "completed", ![o].plan = plan])
    /\ applied' = [applied EXCEPT ![o] = @ + 1]
    /\ changed' = [changed EXCEPT ![o] =
                      [n \in {m \in Node : Place(rows[m]) # Place(node[m])} |->
                          <<Place(node[n]), Place(rows[n])>>]]

(* What to revert: the node, where it was, and the revisions it has now.   *)
PlanOf(n, from, rows, ids) ==
    [id |-> n, parent |-> from[n].parent, name |-> from[n].name,
     nodes |-> [m \in Node |-> IF m \in ids THEN rows[m].rev ELSE 0]]

(* The names that a move or a copy may give its item.                      *)
Names(o, n) ==
    LET own == node[n].name
        free == {nm \in Name : ~Taken(node, op[o].to, nm, NoNode)}
    IN  IF own \in free THEN {own}
        ELSE IF op[o].policy = "keep_both" \/ node[n].parent = op[o].to THEN free
        ELSE {}

(* Nothing is to be done about the item.                                   *)
Skipped(o, n) ==
    /\ op[o].step = "do"
    /\ \/ op[o].base = "move" /\ node[n].parent = op[o].to
       \/ /\ op[o].base \in {"move", "copy"} /\ op[o].policy = "skip"
          /\ Taken(node, op[o].to, node[n].name, NoNode)

Relocates(w, o, t) ==
    \E nm \in IF op[o].step = "do" THEN Names(o, t.id) ELSE {op[o].item.name} :
       LET rows == Relocate(t.id, t.to, nm) IN
       Complete(w, o, rows, PlanOf(t.id, node, rows, {t.id}))

Trashes(w, o, t) ==
    LET rows == PutIntoTrash(t) IN
    Complete(w, o, rows, PlanOf(t.id, node, rows, IF op[o].base = "delete" THEN {t.id} ELSE t.ids))

Restores(w, o, t) ==
    LET rows == Restore(t) IN Complete(w, o, rows, PlanOf(t.id, node, rows, t.ids))

(* The copy of a tree has as many new nodes, of the same types.            *)
CopiesTree(w, o, t) ==
    LET from == ActiveSubtree(t.id) IN
    \E S \in kSubset(Cardinality(from), Spare) :
    \E copyOf \in Bijection(S, from), nm \in Names(o, t.id) :
       LET rows == Copies(t, copyOf, nm) IN
       /\ \A n \in S : n \in Dir <=> copyOf[n] \in Dir
       /\ Complete(w, o, rows, PlanOf(AntiFunction(copyOf)[t.id], rows, rows, S))

StillRunning(o) == op[o].status = "running"

Apply(w) ==
    LET o == running[w]
        t == tx[w]
    IN  /\ pc[w] = "begun" /\ w \notin interrupted
        /\ StillRunning(o)
        /\ \/ Skipped(o, t.id) /\ Complete(w, o, node, NoItem)
           \/ /\ ~Skipped(o, t.id)
              /\ \/ t.what = "relocate" /\ Relocates(w, o, t)
                 \/ t.what = "trash" /\ Trashes(w, o, t)
                 \/ t.what = "restore" /\ Restores(w, o, t)
                 \/ t.what = "copy" /\ CopiesTree(w, o, t)
        /\ Rollback(w)
        /\ UNCHANGED stranded

Commit(w) ==
    /\ Apply(w)
    /\ Leave(w)
    /\ UNCHANGED <<calls, bounds>>

(* The answer to the commit is lost with the connection, or is late.       *)
CommitUnacknowledged(w) ==
    /\ lostAcks < MaxLostAcks
    /\ lostAcks' = lostAcks + 1
    /\ Apply(w)
    /\ Goto(w, "fail") \/ Leave(w)
    /\ UNCHANGED <<calls, requests, crashes, errors>>

(* After an error the worker looks why.                                    *)
AfterError(w) == IF w \in interrupted THEN "cancel" ELSE "fail"

(* A conflict, a context that was cancelled, or the database fails.        *)
Fail(w) ==
    /\ pc[w] \in {"claimed", "found", "begun"}
    /\ Rollback(w)
    /\ Goto(w, AfterError(w))
    /\ UNCHANGED <<node, op, calls, history, bounds>>

(* A call to the database runs out of time, which the worker takes for a   *)
(* shutdown: it writes nothing and goes on.                                *)
GiveUp(w) ==
    /\ pc[w] \in {"claimed", "found", "begun"} /\ w \notin interrupted
    /\ Strand({running[w]} \cap Unfinished)
    /\ Rollback(w)
    /\ Leave(w)
    /\ UNCHANGED <<node, op, calls>>

(* The worker sees that its operation is no longer running.                *)
NotRunning(w) ==
    /\ pc[w] \in {"claimed", "found", "begun"}
    /\ ~StillRunning(running[w])
    /\ Rollback(w)
    /\ Goto(w, IF op[running[w]].status \in {"cancelling", "cancelled"} THEN "cancel"
               ELSE AfterError(w))
    /\ UNCHANGED <<node, op, calls, history, bounds>>

CancelRunning(w) ==
    LET o == running[w] IN
    /\ pc[w] = "cancel"
    /\ op' = IF op[o].status = "gone" THEN op
             ELSE Ended(o, IF op[o].status \in {"running", "cancelling"} THEN "cancelled"
                           ELSE op[o].status)
    /\ Leave(w)
    /\ UNCHANGED <<node, tx, calls, history, bounds>>

(* With a cancelled context it writes nothing.  Otherwise it writes over   *)
(* every status but one.                                                   *)
FailOperation(w) ==
    LET o == running[w] IN
    /\ pc[w] = "fail"
    /\ op' = IF w \in interrupted \/ op[o].status = "gone" THEN op
             ELSE Ended(o, IF op[o].status = "cancelling" THEN "cancelled" ELSE "failed")
    /\ Leave(w)
    /\ UNCHANGED <<node, tx, calls, history, bounds>>

(* The transaction that was to write the outcome fails.                    *)
OutcomeUnwritten(w) ==
    /\ pc[w] \in {"cancel", "fail"}
    /\ Strand({running[w]} \cap Unfinished)
    /\ Leave(w)
    /\ UNCHANGED <<node, op, tx, calls>>

(* A server stops: a crash, or a shutdown that cancels its context.        *)
Stop(w) ==
    /\ crashes < MaxCrashes
    /\ pc[w] # "down"
    /\ crashes' = crashes + 1
    /\ pc' = [pc EXCEPT ![w] = "down"]
    /\ running' = [running EXCEPT ![w] = NoOp]
    /\ interrupted' = interrupted \ {w}
    /\ Rollback(w)
    /\ UNCHANGED <<node, op, calls, history, requests, lostAcks, errors>>

(* Bug: it leaves the queue as it is.                                      *)
StartWithoutRecovery(w) ==
    /\ pc[w] = "down"
    /\ Goto(w, "idle")
    /\ UNCHANGED <<node, op, tx, calls, history, bounds>>

(* It queues again what is running, and ends what is being cancelled.      *)
Start(w) ==
    LET cancelling == {o \in Op : op[o].status = "cancelling"}
        rows == [o \in Op |->
                    IF op[o].status = "running" THEN [op[o] EXCEPT !.status = "queued"]
                    ELSE IF o \in cancelling THEN [op[o] EXCEPT !.status = "cancelled"]
                    ELSE op[o]]
    IN  /\ pc[w] = "down"
        /\ op' = IF cancelling = {} THEN rows ELSE Pruned(Released(rows, cancelling))
        /\ stranded' = {}
        /\ Goto(w, "idle")
        /\ UNCHANGED <<node, tx, calls, applied, changed, bounds>>

(* The recovery fails; the worker starts all the same.                     *)
StartUnrecovered(w) ==
    /\ pc[w] = "down"
    /\ Strand(Unfinished)
    /\ Goto(w, "idle")
    /\ UNCHANGED <<node, op, tx, calls>>

-----------------------------------------------------------------------------
UserRequest(u) ==
    \/ \E n \in Node, d \in Dir \cup {Root}, nm \in Name : CheckUpdate(u, n, d, nm)
    \/ \E d \in Dir \cup {Root}, nm \in Name : CheckCreate(u, d, nm)
    \/ \E n \in Node : LockDelete(u, n) \/ LockRestore(u, n) \/ LockPurge(u, n)

QueueRequest ==
    \/ \E base \in Base, n \in Node, d \in Dir \cup {Root, NoNode}, policy \in Policy :
          Submit(base, n, d, policy)
    \/ \E o \in Op : Undo(o) \/ Redo(o) \/ Cancel(o)
    \/ ClearHistory

Work(w) ==
    \/ Claim(w) \/ Begin(w) \/ LockTree(w) \/ Commit(w)
    \/ NotRunning(w) \/ Fail(w) \/ CancelRunning(w) \/ FailOperation(w)

WorkLost(w) ==
    \/ ClaimUnacknowledged(w) \/ CommitUnacknowledged(w)
    \/ GiveUp(w) \/ OutcomeUnwritten(w) \/ StartUnrecovered(w)

Next ==
    \/ \E u \in User : UserRequest(u) \/ CommitRequest(u) \/ Refuse(u)
    \/ QueueRequest
    \/ \E w \in Server :
          \/ Work(w) \/ WorkLost(w) \/ Stop(w) \/ Start(w)
          \/ \E o \in Op : Interrupt(o, w)

Spec == Init /\ [][Next]_vars

(* The worker looks at the queue every five seconds, requests and          *)
(* transactions end, a server that is down starts again.                   *)
FairSpec ==
    /\ Spec
    /\ \A u \in User : WF_vars(Refuse(u))
    /\ \A w \in Server : WF_vars(Work(w)) /\ WF_vars(Start(w))
    /\ \A o \in Op : WF_vars(\E w \in Server : Interrupt(o, w))

-----------------------------------------------------------------------------
(* A running operation is carried out by one worker, or its server is down *)
(* and will queue it again, or an error of the database has left it        *)
(* behind: the answer to its claim was lost, it timed out, its outcome or  *)
(* the recovery could not be written.  Nothing else leaves one behind; and *)
(* only a worker whose operation is being cancelled is interrupted         *)
(* (recoverFileOperations, claimNextFileOperation, processNextFileOperation, *)
(* interruptFileOperation).                                                *)
WorkersMatch ==
    /\ \A o \in Op : op[o].status = "running" =>
          \/ \E w \in Server : pc[w] = "down"
          \/ \E w \in Server : running[w] = o
          \/ o \in stranded
    /\ errors = 0 => stranded = {}
    /\ \A w, v \in Server : running[w] = running[v] /\ running[w] # NoOp => w = v
    /\ \A w \in interrupted : op[running[w]].status = "cancelling"

(* An operation is reported as completed exactly if its effect on the tree *)
(* has taken place, and that once, whatever is cancelled, fails or restarts *)
(* meanwhile (completeFileOperationTx, recoverFileOperations).             *)
OutcomeIsEffectAlways ==
    \A o \in Op :
       op[o].status # "gone" => applied[o] = IF op[o].status = "completed" THEN 1 ELSE 0

(* The same as long as the answer to every commit arrives: failFileOperation *)
(* calls an operation failed without a look at what became of it.          *)
OutcomeIsEffect == lostAcks = 0 => OutcomeIsEffectAlways

(* A completed undo or redo has taken every node that still exists from    *)
(* where the operation it reverts had put it to where that had taken it    *)
(* from, and has changed nothing else: it refuses rather than discard what *)
(* was done in between (executeUndoMoveTx, executeRedoDeleteTx, ...).      *)
Reverts ==
    [][\A u \in Op :
          LET before == changed[op[u].of] IN
          op[u].step # "do" /\ applied'[u] # applied[u] =>
             changed'[u] = [n \in {m \in DOMAIN before : node'[m].parent # NoNode} |->
                               <<before[n][2], before[n][1]>>]]_vars

(* An operation is reserved by the undo or redo that is queued, under way  *)
(* or done, by no other, and by none that came to nothing, also after a    *)
(* restart (releaseFileOperationLineageReservationTx).                     *)
ReservationsMatch ==
    \A o \in Op :
       LET u == op[o].by
           r == op[o].of
       IN  /\ u # NoOp => \/ op[u].status = "gone"
                          \/ op[u].of = o /\ op[u].status \notin {"cancelled", "failed"}
           /\ r # NoOp /\ op[o].status \notin {"cancelled", "failed"} =>
                 op[r].status = "gone" \/ op[r].by = o

(* A worker has an operation from its claim to its end, and a transaction  *)
(* while it carries it out; what it copies is locked and live.             *)
TransactionsMatch ==
    /\ \A w \in Server :
         /\ running[w] = NoOp <=> pc[w] \in {"down", "idle"}
         /\ tx[w] # NoTx <=> pc[w] \in {"found", "begun"}
         /\ pc[w] = "found" => tx[w].what = "trash"
         /\ w \in interrupted => pc[w] \in {"found", "begun", "cancel", "fail"}
    /\ \A p \in Proc :
         /\ tx[p].what \notin {"none", "create"} => tx[p].id \in Node
         /\ tx[p].what = "copy" => tx[p].id \in tx[p].locked /\ Live(tx[p].id)

(* What is interrupted or ended as cancelled has been cancelled.           *)
CancelledOps == {o \in Op : op[o].status \in {"cancelling", "cancelled", "failed", "gone"}}

CancelsMatch ==
    /\ calls \subseteq CancelledOps
    /\ \A w \in Server : w \in interrupted \/ pc[w] = "cancel" => running[w] \in CancelledOps

(* With one server: a worker's operation has not ended, unless the answer  *)
(* to its commit was lost, what has not ended has had no effect, and what  *)
(* an error left behind has not ended and no worker has it: nothing but a  *)
(* start that recovers takes it up again.                                  *)
SoleServer == \A w, v \in Server : w = v

NotEnded == {o \in Op : op[o].status \in {"none", "queued", "running", "cancelling"}}

OutcomesMatch ==
    /\ WorkersMatch
    /\ \A o \in stranded : o \in Unfinished /\ \A w \in Server : running[w] # o
    /\ \A o \in NotEnded \cup calls : applied[o] = 0
    /\ \A o \in Op : op[o].status = "completed" => applied[o] = 1
    /\ \A o \in Op : lostAcks = 0 /\ op[o].status \in {"cancelled", "failed"} => applied[o] = 0
    /\ \A w \in Server :
         LET o == running[w] IN
         o # NoOp => \/ op[o].status \in {"running", "cancelling"}
                     \/ /\ pc[w] = "fail" /\ applied[o] = 1 /\ lostAcks > 0
                        /\ op[o].status \in {"completed", "gone"}

(* The inductive invariant.  With several servers what a worker runs may   *)
(* be queued again and end without it, and only the first four parts hold. *)
IInv ==
    /\ TypeOK
    /\ TransactionsMatch
    /\ CancelsMatch
    /\ ReservationsMatch
    /\ SoleServer => OutcomesMatch

(* Of the tree: every live node is in a live directory.                    *)
LiveUnderLive == \A n \in LiveNodes : LiveDir(node[n].parent)

(* Of the tree: no directory is in itself.                                 *)
Acyclic == Node \ Spare \subseteq Subtree(Root)

(* An operation ends while its server runs.                                *)
OperationsEnd ==
    \A o \in Op : op[o].status = "cancelling" ~> op[o].status \in Terminal \cup {"gone"}

=============================================================================
