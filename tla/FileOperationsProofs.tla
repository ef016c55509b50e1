------------------------ MODULE FileOperationsProofs ------------------------
(***************************************************************************)
(* Proofs about FileOperations: the inductive invariant IInv, and from it  *)
(* that reservations match for any number of servers, and that with one    *)
(* server a worker has what is running and that an outcome is what         *)
(* happened to the tree.                                                   *)
(*                                                                         *)
(* The rows of the queue change by a few operators (Pruned, Released,      *)
(* Ended, Enqueue); what they keep is stated once, for any rows.           *)
(***************************************************************************)
EXTENDS FileOperations, TLAPS

LEMMA Bounds ==
  /\ MaxOps \in Nat /\ MaxSubmits \in Nat /\ MaxRequests \in Nat /\ MaxCrashes \in Nat
  /\ MaxLostAcks \in Nat /\ MaxErrors \in Nat /\ HistoryLimit \in Nat
  /\ Op \subseteq Nat \ {0}
BY ConstantsAssumption DEF Op

LEMMA ConstantTypes ==
  /\ NoItem \in Item /\ Unused \in Operation /\ Gone \in Operation
  /\ Absent \in Row /\ NoTx \in Transactions
BY DEF NoItem, Item, Unused, Operation, Gone, Absent, Row, NoTx, Transactions,
       Places, Status, Terminal, NoOp, Op

----------------------------------------------------------------------------
(* Rows of the queue                                                       *)

LEMMA PrunedRows ==
  ASSUME NEW rows \in [Op -> Operation]
  PROVE  /\ Pruned(rows) \in [Op -> Operation]
         /\ \A o \in Op : \/ Pruned(rows)[o] = rows[o]
                          \/ rows[o].status \in Terminal /\ Pruned(rows)[o] = Gone
BY ConstantTypes DEF Pruned

LEMMA ReleasedRows ==
  ASSUME NEW rows \in [Op -> Operation], NEW ended \in SUBSET Op
  PROVE  /\ Released(rows, ended) \in [Op -> Operation]
         /\ \A o \in Op :
              LET r == Released(rows, ended)[o] IN
              /\ r.status = rows[o].status /\ r.of = rows[o].of
              /\ r.by = IF rows[o].by \in ended THEN NoOp ELSE rows[o].by
BY DEF Released, Operation

LEMMA EndedRows ==
  ASSUME TypeOK, NEW o \in Op, NEW st \in Status
  PROVE  /\ Ended(o, st) \in [Op -> Operation]
         /\ \A q \in Op :
              LET r == Ended(o, st)[q]
                  before == IF q = o THEN st ELSE op[q].status
              IN  \/ /\ r.status = before /\ r.of = op[q].of
                     /\ r.by = IF op[q].by = o THEN NoOp ELSE op[q].by
                  \/ before \in Terminal /\ r = Gone
<1> DEFINE rows == [op EXCEPT ![o].status = st]
           rel == Released(rows, {o})
<1>1. /\ rows \in [Op -> Operation]
      /\ \A q \in Op : /\ rows[q].status = IF q = o THEN st ELSE op[q].status
                       /\ rows[q].of = op[q].of /\ rows[q].by = op[q].by
  BY DEF TypeOK, Operation
<1>2. /\ rel \in [Op -> Operation]
      /\ \A q \in Op : /\ rel[q].status = rows[q].status /\ rel[q].of = rows[q].of
                       /\ rel[q].by = IF rows[q].by \in {o} THEN NoOp ELSE rows[q].by
  <2> HIDE DEF rows
  <2>1. {o} \in SUBSET Op
    OBVIOUS
  <2> QED
    BY <1>1, <2>1, ReleasedRows
<1>3. /\ Pruned(rel) \in [Op -> Operation]
      /\ \A q \in Op : \/ Pruned(rel)[q] = rel[q]
                       \/ rel[q].status \in Terminal /\ Pruned(rel)[q] = Gone
  <2> HIDE DEF rel
  <2> QED
    BY <1>2, PrunedRows
<1>4. Ended(o, st) = Pruned(rel)
  BY DEF Ended
<1> HIDE DEF rows, rel
<1> QED
  BY <1>1, <1>2, <1>3, <1>4

\* ReservationsMatch of any rows.
Matching(rows) ==
    \A o \in Op :
       LET u == rows[o].by
           r == rows[o].of
       IN  /\ u # NoOp => \/ rows[u].status = "gone"
                          \/ rows[u].of = o /\ rows[u].status \notin {"cancelled", "failed"}
           /\ r # NoOp /\ rows[o].status \notin {"cancelled", "failed"} =>
                 rows[r].status = "gone" \/ rows[r].by = o

LEMMA GoneMatching ==
  ASSUME NEW rows \in [Op -> Operation], Matching(rows),
         NEW p, \A o \in Op : p[o] = rows[o] \/ p[o] = Gone
  PROVE  Matching(p)
<1>1. Gone.status = "gone" /\ Gone.of = NoOp /\ Gone.by = NoOp
  BY DEF Gone, Unused
<1>2. \A o \in Op : rows[o].by \in Op \cup {NoOp} /\ rows[o].of \in Op \cup {NoOp}
  BY DEF Operation
<1> QED
  BY <1>1, <1>2 DEF Matching

LEMMA PrunedMatching ==
  ASSUME NEW rows \in [Op -> Operation], Matching(rows)
  PROVE  Matching(Pruned(rows))
BY PrunedRows, GoneMatching

LEMMA SameStatusMatching ==
  ASSUME NEW old \in [Op -> Operation], Matching(old), NEW rows \in [Op -> Operation],
         \A o \in Op : rows[o].of = old[o].of /\ rows[o].by = old[o].by,
         \A o \in Op : \/ rows[o].status = old[o].status
                       \/ /\ rows[o].status \notin {"cancelled", "failed", "gone"}
                          /\ old[o].status \notin {"cancelled", "failed", "gone"}
  PROVE  Matching(rows)
<1>1. \A o \in Op : old[o].by \in Op \cup {NoOp} /\ old[o].of \in Op \cup {NoOp}
  BY DEF Operation
<1> QED
  BY <1>1 DEF Matching

\* Operations that are called cancelled or failed release what they reserve.
LEMMA ReleasedMatching ==
  ASSUME NEW rows \in [Op -> Operation], NEW ended \in SUBSET Op,
         NEW old \in [Op -> Operation], Matching(old),
         \A o \in Op : rows[o].of = old[o].of /\ rows[o].by = old[o].by,
         \A o \in ended : rows[o].status \in {"cancelled", "failed"},
         \A o \in Op \ ended :
            \/ rows[o].status = old[o].status
            \/ /\ rows[o].status \notin {"cancelled", "failed", "gone"}
               /\ old[o].status \notin {"cancelled", "failed", "gone"},
         \A o \in ended : old[o].status # "gone"
  PROVE  Matching(Released(rows, ended))
<1> DEFINE p == Released(rows, ended)
<1>1. \A o \in Op : /\ p[o].status = rows[o].status /\ p[o].of = old[o].of
                    /\ p[o].by = IF old[o].by \in ended THEN NoOp ELSE old[o].by
  BY ReleasedRows
<1>2. \A o \in Op : old[o].by \in Op \cup {NoOp} /\ old[o].of \in Op \cup {NoOp}
  BY DEF Operation
<1>3. NoOp \notin Op
  BY Bounds DEF NoOp
<1> SUFFICES ASSUME NEW o \in Op
             PROVE  /\ p[o].by # NoOp =>
                          \/ p[p[o].by].status = "gone"
                          \/ /\ p[p[o].by].of = o
                             /\ p[p[o].by].status \notin {"cancelled", "failed"}
                    /\ p[o].of # NoOp /\ p[o].status \notin {"cancelled", "failed"} =>
                          p[p[o].of].status = "gone" \/ p[p[o].of].by = o
  BY DEF Matching
<1> HIDE DEF p
<1>4. old[o].by \in Op =>
         \/ old[old[o].by].status = "gone"
         \/ /\ old[old[o].by].of = o
            /\ old[old[o].by].status \notin {"cancelled", "failed"}
  BY <1>3 DEF Matching
<1>5. old[o].of \in Op /\ old[o].status \notin {"cancelled", "failed"} =>
         old[old[o].of].status = "gone" \/ old[old[o].of].by = o
  BY <1>3 DEF Matching
<1>6. ASSUME p[o].by # NoOp
      PROVE  LET u == p[o].by IN
             \/ p[u].status = "gone"
             \/ p[u].of = o /\ p[u].status \notin {"cancelled", "failed"}
  <2>1. p[o].by = old[o].by /\ old[o].by \in Op \ ended
    BY <1>1, <1>2, <1>6
  <2> QED
    BY <1>1, <1>4, <2>1
<1>7. ASSUME p[o].of # NoOp, p[o].status \notin {"cancelled", "failed"}
      PROVE  LET r == p[o].of IN p[r].status = "gone" \/ p[r].by = o
  <2>1. o \notin ended /\ old[o].status \notin {"cancelled", "failed"}
    BY <1>1, <1>7
  <2>2. p[o].of = old[o].of /\ old[o].of \in Op
    BY <1>1, <1>2, <1>7
  <2>3. CASE old[old[o].of].status = "gone"
    BY <1>1, <2>2, <2>3
  <2>4. CASE old[old[o].of].by = o
    BY <1>1, <2>1, <2>2, <2>4
  <2> QED
    BY <1>5, <2>1, <2>2, <2>3, <2>4
<1> QED
  BY <1>6, <1>7

\* An operation that ends otherwise than by its effect.
LEMMA EndedMatching ==
  ASSUME TypeOK, ReservationsMatch, NEW o \in Op, op[o].status # "gone",
         NEW st \in {"cancelled", "failed"}
  PROVE  Matching(Ended(o, st))
<1> DEFINE rows == [op EXCEPT ![o].status = st]
<1>1. /\ rows \in [Op -> Operation]
      /\ \A q \in Op : /\ rows[q].status = IF q = o THEN st ELSE op[q].status
                       /\ rows[q].of = op[q].of /\ rows[q].by = op[q].by
  BY DEF TypeOK, Operation, Status, Terminal
<1>2. /\ op \in [Op -> Operation] /\ Matching(op)
      /\ {o} \in SUBSET Op
  BY DEF ReservationsMatch, Matching, TypeOK
<1>3. Ended(o, st) = Pruned(Released(rows, {o}))
  BY DEF Ended
<1> HIDE DEF rows
<1>4. Matching(Released(rows, {o}))
  BY <1>1, <1>2, ReleasedMatching
<1>5. Released(rows, {o}) \in [Op -> Operation]
  BY <1>1, <1>2, ReleasedRows
<1> QED
  BY <1>3, <1>4, <1>5, PrunedMatching

----------------------------------------------------------------------------
(* Types of what is written to the tree                                    *)

LEMMA SubtreesInNode ==
  ASSUME NEW n \in Node
  PROVE  ActiveSubtree(n) \subseteq Node /\ Subtree(n) \subseteq Node
BY DEF ActiveSubtree, Subtree, Below, LiveNodes, Spare

\* The children of a live node are reached through it: what its subtree has
\* besides the node has its parent there.
LEMMA ParentInSubtree ==
  ASSUME NEW n \in Node, Live(n), NEW m \in ActiveSubtree(n), m # n
  PROVE  m \in LiveNodes /\ node[m].parent \in ActiveSubtree(n)
<1> DEFINE S == LiveNodes
           Closed(T) == \A x \in S : node[x].parent \in T \cup {n} => x \in T
<1>1. n \in S /\ S \subseteq Node
  BY DEF LiveNodes
<1>2. m \in S /\ \A T \in SUBSET S : Closed(T) => m \in T \cup {n}
  BY <1>1 DEF ActiveSubtree, Below
<1>3. SUFFICES ASSUME NEW T \in SUBSET S, Closed(T), node[m].parent \notin T \cup {n}
               PROVE  FALSE
  <2>1. node[m].parent \in S
    <3>1. Closed({x \in S : node[x].parent \in S})
      BY <1>1
    <3> QED
      BY <1>1, <1>2, <3>1
  <2> QED
    BY <1>2, <1>3, <2>1 DEF ActiveSubtree, Below
<1>4. Closed(T \ {m}) /\ T \ {m} \in SUBSET S
  BY <1>3
<1> QED
  BY <1>2, <1>4

LEMMA InverseOfBijection ==
  ASSUME NEW S, NEW R, NEW f \in Bijection(S, R), NEW x \in R
  PROVE  AntiFunction(f)[x] \in S /\ f[AntiFunction(f)[x]] = x
<1>1. f \in [S -> R] /\ \A t \in R : \E s \in S : f[s] = t
  BY DEF Bijection, Injection, Surjection
<1>2. DOMAIN f = S /\ x \in Range(f)
  BY <1>1 DEF Range
<1>3. AntiFunction(f)[x] = CHOOSE s \in S : x \in Range(f) => f[s] = x
  BY <1>1, <1>2 DEF AntiFunction, Inverse
<1>4. \E s \in S : x \in Range(f) => f[s] = x
  BY <1>1
<1> QED
  BY <1>2, <1>3, <1>4

LEMMA RelocateType ==
  ASSUME TypeOK, NEW n \in Node, NEW d \in Places, NEW nm \in Name \cup {NoName}
  PROVE  Relocate(n, d, nm) \in [Node -> Row]
<1>1. node \in [Node -> Row] /\ node[n] \in Row
  BY DEF TypeOK
<1>2. [parent |-> d, name |-> nm, trash |-> node[n].trash, rev |-> node[n].rev + 1] \in Row
  BY <1>1 DEF Row
<1> QED
  BY <1>1, <1>2 DEF Relocate

LEMMA TrashType ==
  ASSUME TypeOK, NEW t \in Transactions, t.id \in Node
  PROVE  /\ PutIntoTrash(t) \in [Node -> Row]
         /\ Restore(t) \in [Node -> Row]
         /\ Purge(t) \in [Node -> Row]
<1>1. node \in [Node -> Row] /\ t.id \in Node
  BY DEF TypeOK
<1>2. ASSUME NEW n \in Node
      PROVE  /\ [node[n] EXCEPT !.trash = t.id, !.rev = IF n = t.id THEN @ + 1 ELSE @] \in Row
             /\ [node[n] EXCEPT !.trash = NoNode, !.rev = IF n = t.id THEN @ + 1 ELSE @] \in Row
  <2>1. node[n] \in Row /\ NoNode \in Node \cup {NoNode} /\ t.id \in Node \cup {NoNode}
    BY <1>1
  <2>2. \A x \in Node \cup {NoNode}, k \in Nat : [node[n] EXCEPT !.trash = x, !.rev = k] \in Row
    BY <2>1 DEF Row
  <2>3. node[n].rev \in Nat /\ node[n].rev + 1 \in Nat
    BY <2>1 DEF Row
  <2> QED
    BY <2>1, <2>2, <2>3
<1>3. PutIntoTrash(t) \in [Node -> Row]
  BY <1>1, <1>2 DEF PutIntoTrash
<1>4. Restore(t) \in [Node -> Row]
  BY <1>1, <1>2 DEF Restore
<1>5. Purge(t) \in [Node -> Row]
  BY <1>1, ConstantTypes DEF Purge
<1> QED
  BY <1>3, <1>4, <1>5

LEMMA CopiesType ==
  ASSUME TypeOK, NEW t \in Transactions, t.id \in Node, Live(t.id),
         NEW S \in SUBSET Node, NEW copyOf \in Bijection(S, ActiveSubtree(t.id)),
         NEW nm \in Name
  PROVE  Copies(t, copyOf, nm) \in [Node -> Row]
<1> DEFINE from == ActiveSubtree(t.id)
<1>1. copyOf \in [S -> from] /\ from \subseteq Node /\ DOMAIN copyOf = S
  BY SubtreesInNode DEF Bijection, Injection
<1>2. ASSUME NEW n \in S, copyOf[n] # t.id
      PROVE  /\ AntiFunction(copyOf)[node[copyOf[n]].parent] \in Places
             /\ node[copyOf[n]].name \in Name \cup {NoName}
  <2>1. copyOf[n] \in from /\ copyOf[n] \in Node
    BY <1>1
  <2>2. node[copyOf[n]].parent \in from
    BY <1>2, <2>1, ParentInSubtree
  <2>3. AntiFunction(copyOf)[node[copyOf[n]].parent] \in S
    BY <2>2, InverseOfBijection
  <2> QED
    BY <2>1, <2>3 DEF TypeOK, Row, Places
<1>3. ASSUME NEW d \in Places, NEW x \in Name \cup {NoName}
      PROVE  New(d, x) \in Row
  BY DEF New, Row
<1>4. t.to \in Places /\ node \in [Node -> Row]
  BY DEF Transactions, TypeOK
<1> QED
  BY <1>1, <1>2, <1>3, <1>4 DEF Copies

LEMMA PlanType ==
  ASSUME NEW n \in Node, NEW from \in [Node -> Row], NEW rows \in [Node -> Row], NEW ids
  PROVE  PlanOf(n, from, rows, ids) \in Item
BY DEF PlanOf, Item, Row

\* What another transaction has locked is not written.
LEMMA LockedRowsStay ==
  ASSUME NEW p \in Proc, NEW q \in Proc \ {p}, NEW rows, NEW n \in Node, n \in tx[q].locked,
         Write(p, rows)
  PROVE  node'[n] = node[n]
BY DEF Write, Locked

----------------------------------------------------------------------------
LEMMA InitEstablishes == Init => IInv
<1> SUFFICES ASSUME Init  PROVE  IInv
  OBVIOUS
<1> USE DEF Init
<1>1. TypeOK
  <2>1. DOMAIN <<>> \subseteq Node
    OBVIOUS
  <2>2. changed = [o \in Op |-> <<>>] /\ DOMAIN changed = Op
    OBVIOUS
  <2>3. 0 \in 0..MaxRequests /\ 0 \in 0..MaxCrashes /\ 0 \in 0..MaxLostAcks
        /\ 0 \in 0..MaxErrors
    BY Bounds
  <2> QED
    BY <2>1, <2>2, <2>3, ConstantTypes, TreeAssumption DEF TypeOK
<1>2. TransactionsMatch
  BY DEF TransactionsMatch, NoTx, Proc
<1>3. CancelsMatch
  BY DEF CancelsMatch
<1>4. ReservationsMatch
  BY DEF ReservationsMatch, Unused
<1>5. OutcomesMatch
  BY DEF OutcomesMatch, WorkersMatch, NotEnded, Unused, Unfinished
<1> QED
  BY <1>1, <1>2, <1>3, <1>4, <1>5 DEF IInv

LEMMA AskKeeps ==
  ASSUME IInv, NEW u \in User, NEW t \in Transactions, Ask(u, t),
         requests < MaxRequests, t.what # "copy",
         t.what \in {"none", "create"} \/ t.id \in Node
  PROVE  IInv'
<1> USE DEF Ask, worker, history
<1>1. /\ u \in Proc /\ \A w \in Server : w \in Proc /\ w # u
  BY ConstantsAssumption DEF Proc
<1>2. TypeOK'
  BY <1>1, Bounds DEF IInv, TypeOK
<1>3. TransactionsMatch'
  BY <1>1 DEF IInv, TypeOK, TransactionsMatch, Live, LiveIn, Exists
<1>4. CancelsMatch' /\ ReservationsMatch'
  BY DEF IInv, CancelsMatch, CancelledOps, ReservationsMatch
<1>5. SoleServer => OutcomesMatch'
  BY DEF IInv, OutcomesMatch, WorkersMatch, NotEnded, Unfinished
<1> QED
  BY <1>2, <1>3, <1>4, <1>5 DEF IInv

LEMMA RequestKeeps ==
  ASSUME IInv, NEW u \in User, UserRequest(u)
  PROVE  IInv'
<1> USE DEF IInv
<1>1. NoTx \in Transactions /\ NoTx.what = "none" /\ Dir \cup {Root} \subseteq Places
  BY ConstantTypes, ConstantsAssumption DEF NoTx, Places
<1>2. ASSUME NEW n \in Node, NEW d \in Dir \cup {Root}, NEW nm \in Name, CheckUpdate(u, n, d, nm)
      PROVE  IInv'
  <2> DEFINE t == [NoTx EXCEPT !.what = "relocate", !.id = n, !.to = d, !.name = nm,
                               !.rev = node[n].rev]
  <2>1. t \in Transactions /\ t.what = "relocate" /\ t.id = n
    BY <1>1, ConstantsAssumption DEF Transactions, TypeOK, Row, NoTx
  <2>2. requests < MaxRequests /\ Ask(u, t)
    BY <1>2 DEF CheckUpdate, MayAsk
  <2> HIDE DEF t
  <2> QED
    BY <2>1, <2>2, AskKeeps
<1>3. ASSUME NEW d \in Dir \cup {Root}, NEW nm \in Name, CheckCreate(u, d, nm)
      PROVE  IInv'
  <2> DEFINE t == [NoTx EXCEPT !.what = "create", !.to = d, !.name = nm]
  <2>1. t \in Transactions /\ t.what = "create"
    BY <1>1 DEF Transactions, NoTx
  <2>2. requests < MaxRequests /\ Ask(u, t)
    BY <1>3 DEF CheckCreate, MayAsk
  <2> HIDE DEF t
  <2> QED
    BY <2>1, <2>2, AskKeeps
<1>4. ASSUME NEW n \in Node, LockDelete(u, n)
      PROVE  IInv'
  <2> DEFINE t == [NoTx EXCEPT !.what = "trash", !.id = n, !.ids = ActiveSubtree(n),
                               !.locked = {n}]
  <2>1. t \in Transactions /\ t.what = "trash" /\ t.id = n
    BY <1>1, SubtreesInNode DEF Transactions, NoTx
  <2>2. requests < MaxRequests /\ Ask(u, t)
    BY <1>4 DEF LockDelete, MayAsk
  <2> HIDE DEF t
  <2> QED
    BY <2>1, <2>2, AskKeeps
<1>5. ASSUME NEW n \in Node, LockRestore(u, n)
      PROVE  IInv'
  <2> DEFINE t == [NoTx EXCEPT !.what = "restore", !.id = n, !.locked = {n}]
  <2>1. t \in Transactions /\ t.what = "restore" /\ t.id = n
    BY <1>1 DEF Transactions, NoTx
  <2>2. requests < MaxRequests /\ Ask(u, t)
    BY <1>5 DEF LockRestore, MayAsk
  <2> HIDE DEF t
  <2> QED
    BY <2>1, <2>2, AskKeeps
<1>6. ASSUME NEW n \in Node, LockPurge(u, n)
      PROVE  IInv'
  <2> DEFINE t == [NoTx EXCEPT !.what = "purge", !.id = n, !.ids = Subtree(n), !.locked = {n}]
  <2>1. t \in Transactions /\ t.what = "purge" /\ t.id = n
    BY <1>1, SubtreesInNode DEF Transactions, NoTx
  <2>2. requests < MaxRequests /\ Ask(u, t)
    BY <1>6 DEF LockPurge, MayAsk
  <2> HIDE DEF t
  <2> QED
    BY <2>1, <2>2, AskKeeps
<1> QED
  BY <1>2, <1>3, <1>4, <1>5, <1>6 DEF UserRequest

\* A step of a user that writes the tree or not and ends the transaction.
LEMMA AnswerKeeps ==
  ASSUME IInv, NEW u \in User, Answer(u), node' \in [Node -> Row],
         \A q \in Proc \ {u} : \A n \in tx[q].locked : node'[n] = node[n]
  PROVE  IInv'
<1> USE DEF Answer, worker, history, bounds
<1>1. /\ u \in Proc /\ \A w \in Server : w \in Proc /\ w # u
  BY ConstantsAssumption DEF Proc
<1>2. TypeOK'
  BY <1>1, ConstantTypes DEF IInv, TypeOK
<1>3. TransactionsMatch'
  <2>1. \A w \in Server : tx'[w] = tx[w]
    BY <1>1 DEF IInv, TypeOK
  <2>2. ASSUME NEW p \in Proc
        PROVE  /\ tx'[p].what \notin {"none", "create"} => tx'[p].id \in Node
               /\ tx'[p].what = "copy" => tx'[p].id \in tx'[p].locked /\ Live(tx[p].id)'
    <3>1. CASE p = u
      BY <1>1, <3>1 DEF IInv, TypeOK, NoTx
    <3>2. CASE p # u
      <4>1. tx'[p] = tx[p]
        BY <3>2 DEF IInv, TypeOK
      <4>2. ASSUME tx[p].what = "copy"
            PROVE  /\ tx[p].id \in tx[p].locked /\ Live(tx[p].id)
                   /\ node'[tx[p].id] = node[tx[p].id]
        <5>1. tx[p].id \in tx[p].locked /\ Live(tx[p].id)
          BY <4>2 DEF IInv, TransactionsMatch
        <5> QED
          BY <3>2, <5>1
      <4> QED
        BY <4>1, <4>2 DEF IInv, TransactionsMatch, Live, LiveIn, Exists
    <3> QED
      BY <3>1, <3>2
  <2> QED
    BY <2>1, <2>2 DEF IInv, TransactionsMatch
<1>4. CancelsMatch' /\ ReservationsMatch'
  BY DEF IInv, CancelsMatch, CancelledOps, ReservationsMatch
<1>5. SoleServer => OutcomesMatch'
  BY DEF IInv, OutcomesMatch, WorkersMatch, NotEnded, Unfinished
<1> QED
  BY <1>2, <1>3, <1>4, <1>5 DEF IInv

LEMMA CommitRequestKeeps ==
  ASSUME IInv, NEW u \in User, CommitRequest(u)
  PROVE  IInv'
<1> DEFINE t == tx[u]
<1>1. u \in Proc /\ t \in Transactions
  BY DEF IInv, TypeOK, Proc
<1>2. t.what \notin {"none", "create"} => t.id \in Node
  BY <1>1 DEF IInv, TransactionsMatch
<1>3. TypeOK
  BY DEF IInv
<1>4. PICK rows \in [Node -> Row] : Write(u, rows)
  <2>1. CASE t.what = "relocate" /\ Write(u, Relocate(t.id, t.to, t.name))
    BY <1>1, <1>2, <1>3, <2>1, RelocateType DEF Transactions
  <2>2. ASSUME NEW n \in Spare \cap Dir, t.what = "create", Write(u, [node EXCEPT ![n] = New(t.to, t.name)])
        PROVE  \E rows \in [Node -> Row] : Write(u, rows)
    <3>1. New(t.to, t.name) \in Row
      BY <1>1 DEF New, Row, Transactions
    <3>2. [node EXCEPT ![n] = New(t.to, t.name)] \in [Node -> Row]
      BY <1>3, <3>1 DEF TypeOK
    <3> QED
      BY <2>2, <3>2
  <2>3. CASE \/ t.what = "trash" /\ Write(u, PutIntoTrash(t))
             \/ t.what = "restore" /\ Write(u, Restore(t))
             \/ t.what = "purge" /\ Write(u, Purge(t))
    BY <1>1, <1>2, <1>3, <2>3, TrashType
  <2> QED
    BY <2>1, <2>2, <2>3 DEF CommitRequest
<1>5. node' \in [Node -> Row]
  BY <1>4 DEF Write
<1>6. \A q \in Proc \ {u} : \A n \in tx[q].locked : node'[n] = node[n]
  <2>1. \A q \in Proc : tx[q].locked \subseteq Node
    BY <1>3 DEF TypeOK, Transactions
  <2> QED
    BY <1>1, <1>4, <2>1, LockedRowsStay
<1>7. Answer(u)
  BY DEF CommitRequest
<1> QED
  BY <1>5, <1>6, <1>7, AnswerKeeps

LEMMA RefuseKeeps ==
  ASSUME IInv, NEW u \in User, Refuse(u)
  PROVE  IInv'
<1>1. node' = node /\ node \in [Node -> Row] /\ Answer(u)
  BY DEF Refuse, IInv, TypeOK
<1> QED
  BY <1>1, AnswerKeeps

----------------------------------------------------------------------------
(* The queue                                                               *)

\* Steps that change rows of the queue only.
LEMMA QueueStep ==
  ASSUME IInv, op' \in [Op -> Operation], Matching(op'),
         UNCHANGED <<node, tx, worker, history, bounds>>,
         calls' \subseteq CancelledOps', calls \cap CancelledOps \subseteq calls \cap CancelledOps',
         CancelledOps \cap Op \subseteq CancelledOps',
         SoleServer => OutcomesMatch'
  PROVE  IInv'
<1> USE DEF worker, history, bounds
<1>1. TypeOK'
  BY DEF IInv, TypeOK, CancelledOps
<1>2. TransactionsMatch'
  BY DEF IInv, TransactionsMatch, Live, LiveIn, Exists
<1>3. CancelsMatch'
  BY DEF IInv, CancelsMatch, CancelledOps
<1>4. ReservationsMatch'
  BY DEF ReservationsMatch, Matching
<1> QED
  BY <1>1, <1>2, <1>3, <1>4 DEF IInv

LEMMA EnqueueKeeps ==
  ASSUME IInv, NEW row \in Operation, row.status = "queued", row.by = NoOp,
         row.of # NoOp => op[row.of].status = "completed" /\ op[row.of].by = NoOp,
         Enqueue(row)
  PROVE  IInv'
<1> USE DEF worker, history, bounds
<1>1. PICK o \in Op :
         /\ op[o] = Unused
         /\ op' = [q \in Op |-> IF q = o THEN row
                                ELSE IF q = row.of THEN [op[q] EXCEPT !.by = o]
                                ELSE op[q]]
         /\ UNCHANGED <<node, tx, worker, calls, history, bounds>>
  BY DEF Enqueue
<1>2. op \in [Op -> Operation] /\ NoOp \notin Op /\ row.of \in Op \cup {NoOp}
  BY Bounds DEF IInv, TypeOK, Operation, NoOp
<1>3. op[o].status = "none" /\ op[o].of = NoOp /\ op[o].by = NoOp
  BY <1>1 DEF Unused
<1>4. /\ op' \in [Op -> Operation]
      /\ op'[o] = row /\ row.of # o
      /\ \A q \in Op \ {o} : /\ op'[q].status = op[q].status /\ op'[q].of = op[q].of
                             /\ op'[q].by = IF q = row.of THEN o ELSE op[q].by
  BY <1>1, <1>2, <1>3 DEF Operation
<1>5. Matching(op')
  <2>1. Matching(op)
    BY DEF IInv, ReservationsMatch, Matching
  <2>2. \A q \in Op : op[q].by \in Op \cup {NoOp} /\ op[q].of \in Op \cup {NoOp}
    BY <1>2 DEF Operation
  <2>3. \A q \in Op : op[q].by # o
    BY <1>2, <1>3, <2>1, <2>2 DEF Matching
  <2>4. \A q \in Op : op[q].of = o => op[q].status \in {"cancelled", "failed"}
    BY <1>2, <1>3, <2>1, <2>2 DEF Matching
  <2>5. ASSUME NEW q \in Op
        PROVE  LET u == op'[q].by
               IN  u # NoOp => \/ op'[u].status = "gone"
                               \/ op'[u].of = q /\ op'[u].status \notin {"cancelled", "failed"}
    <3>1. CASE q = o
      BY <1>4, <3>1
    <3>2. CASE q # o /\ q = row.of
      BY <1>4, <3>2
    <3>3. CASE q # o /\ q # row.of
      BY <1>4, <2>1, <2>2, <2>3, <3>3 DEF Matching
    <3> QED
      BY <3>1, <3>2, <3>3
  <2>6. ASSUME NEW q \in Op
        PROVE  LET r == op'[q].of
               IN  r # NoOp /\ op'[q].status \notin {"cancelled", "failed"} =>
                      op'[r].status = "gone" \/ op'[r].by = q
    <3>1. CASE q = o
      BY <1>2, <1>4, <3>1
    <3>2. CASE q # o /\ op[q].of = row.of
      BY <1>2, <1>4, <2>1, <2>2, <3>2 DEF Matching
    <3>3. CASE q # o /\ op[q].of # row.of
      BY <1>4, <2>1, <2>2, <2>4, <3>3 DEF Matching
    <3> QED
      BY <3>1, <3>2, <3>3
  <2> QED
    BY <2>5, <2>6 DEF Matching
<1>6. CancelledOps' = CancelledOps
  BY <1>3, <1>4 DEF CancelledOps
<1>7. ASSUME SoleServer  PROVE OutcomesMatch'
  <2> USE <1>7
  <2>1. OutcomesMatch
    BY DEF IInv
  <2>2. NotEnded' = NotEnded /\ Unfinished' = Unfinished
    BY <1>3, <1>4 DEF NotEnded, Unfinished
  <2>3. \A w \in Server : running[w] # NoOp => running[w] \in Op \ {o}
    BY <1>3, <2>1 DEF OutcomesMatch, IInv, TypeOK
  <2>4. \A w \in interrupted : running[w] \in Op \ {o}
    BY <1>2, <1>3, <2>1, <2>3 DEF OutcomesMatch, WorkersMatch, IInv, TypeOK, TransactionsMatch
  <2>5. WorkersMatch'
    BY <1>1, <1>4, <2>1, <2>4 DEF OutcomesMatch, WorkersMatch
  <2>6. \A q \in NotEnded' \cup calls' : applied'[q] = 0
    BY <1>1, <2>1, <2>2 DEF OutcomesMatch
  <2> QED
    BY <1>1, <1>4, <2>1, <2>2, <2>3, <2>5, <2>6 DEF OutcomesMatch
<1> QED
  BY <1>1, <1>4, <1>5, <1>6, <1>7, QueueStep DEF IInv, CancelsMatch

LEMMA SubmitKeeps ==
  ASSUME IInv, NEW base \in Base, NEW n \in Node, NEW d \in Dir \cup {Root, NoNode},
         NEW policy \in Policy, Submit(base, n, d, policy)
  PROVE  IInv'
<1> DEFINE i == [NoItem EXCEPT !.id = n, !.nodes[n] = node[n].rev]
           row == [Unused EXCEPT !.status = "queued", !.base = base, !.to = d,
                                 !.policy = policy, !.item = i]
<1>1. i \in Item
  <2>1. node[n].rev \in Nat
    BY DEF IInv, TypeOK, Row
  <2>2. [[x \in Node |-> 0] EXCEPT ![n] = node[n].rev] \in [Node -> Nat]
    BY <2>1
  <2> QED
    BY <2>2 DEF NoItem, Item, Places
<1>2. row \in Operation
  <2> HIDE DEF i
  <2>1. d \in Places
    BY ConstantsAssumption DEF Places
  <2> QED
    BY <1>1, <2>1, ConstantTypes DEF Unused, Operation, Status
<1>3. row.status = "queued" /\ row.by = NoOp /\ row.of = NoOp
  BY DEF Unused
<1>4. Enqueue(row)
  BY DEF Submit
<1> HIDE DEF row
<1> QED
  BY <1>2, <1>3, <1>4, EnqueueKeeps

LEMMA RevertKeeps ==
  ASSUME IInv, NEW o \in Op, Undo(o) \/ Redo(o)
  PROVE  IInv'
<1> SUFFICES ASSUME NEW step \in {"undo", "redo"}, op[o].status = "completed", op[o].by = NoOp,
                    Enqueue(Reverting(o, step))
             PROVE  IInv'
  BY DEF Undo, Redo, Undoable, Redoable
<1>1. op[o] \in Operation
  BY DEF IInv, TypeOK
<1>2. Reverting(o, step) \in Operation
  <2>1. /\ op[o].plan \in Item /\ op[o].plan.parent \in Places
        /\ op[o].base \in Base \cup {"none"} /\ "queued" \in Status
    BY <1>1 DEF Operation, Item, Status
  <2>2. Unused \in Operation
    BY ConstantTypes
  <2> QED
    BY <2>1, <2>2 DEF Reverting, Operation
<1>3. /\ Reverting(o, step).status = "queued" /\ Reverting(o, step).by = NoOp
      /\ Reverting(o, step).of = o
  BY DEF Reverting, Unused
<1> QED
  BY <1>2, <1>3, EnqueueKeeps

\* With one server: rows that keep their status, or end and become Gone, or
\* are cancelled before or while they run.
LEMMA OutcomesKept ==
  ASSUME IInv, SoleServer, op' \in [Op -> Operation],
         UNCHANGED <<node, tx, worker, history, bounds>>, calls' \subseteq calls \cup NotEnded,
         \A o \in Op : \/ op'[o].status = op[o].status
                       \/ op[o].status \in Terminal /\ op'[o].status = "gone"
                       \/ op[o].status = "running" /\ op'[o].status = "cancelling"
                       \/ op[o].status = "queued" /\ op'[o].status \in {"cancelled", "gone"}
  PROVE  OutcomesMatch'
<1> USE DEF worker, history, bounds, Terminal
<1>1. OutcomesMatch
  BY DEF IInv
<1>2. NotEnded' \subseteq NotEnded
  BY DEF NotEnded
<1>3. \A w \in interrupted : running[w] \in Op
  BY DEF IInv, TypeOK, TransactionsMatch
<1>4. WorkersMatch'
  BY <1>1, <1>3 DEF OutcomesMatch, WorkersMatch
<1>5. \A o \in NotEnded' \cup calls' : applied'[o] = 0
  BY <1>1, <1>2 DEF OutcomesMatch
<1>6. \A o \in Op : op'[o].status = "completed" => applied'[o] = 1
  BY <1>1 DEF OutcomesMatch
<1>7. \A o \in Op : lostAcks' = 0 /\ op'[o].status \in {"cancelled", "failed"} => applied'[o] = 0
  BY <1>1 DEF OutcomesMatch, NotEnded
<1>8. ASSUME NEW w \in Server, running[w] # NoOp
      PROVE  LET o == running[w] IN
             \/ op'[o].status \in {"running", "cancelling"}
             \/ /\ pc'[w] = "fail" /\ applied'[o] = 1 /\ lostAcks' > 0
                /\ op'[o].status \in {"completed", "gone"}
  <2>1. running[w] \in Op
    BY <1>8 DEF IInv, TypeOK
  <2> QED
    BY <1>1, <1>8, <2>1 DEF OutcomesMatch
<1>9. Unfinished \subseteq Unfinished'
  BY DEF Unfinished
<1> QED
  BY <1>1, <1>4, <1>5, <1>6, <1>7, <1>8, <1>9 DEF OutcomesMatch

LEMMA ClearHistoryKeeps ==
  ASSUME IInv, ClearHistory
  PROVE  IInv'
<1>1. op \in [Op -> Operation] /\ op' \in [Op -> Operation]
  BY ConstantTypes DEF IInv, TypeOK, ClearHistory
<1>2. \A o \in Op : \/ op'[o] = op[o]
                    \/ op[o].status \in Terminal /\ op'[o] = Gone
  BY DEF ClearHistory
<1>3. Gone.status = "gone"
  BY DEF Gone, Unused
<1>4. Matching(op')
  BY <1>1, <1>2, GoneMatching DEF IInv, ReservationsMatch, Matching
<1>5. CancelledOps \subseteq CancelledOps'
  BY <1>1, <1>2, <1>3 DEF CancelledOps
<1>6. UNCHANGED <<node, tx, worker, calls, history, bounds>>
  BY DEF ClearHistory
<1>7. SoleServer => OutcomesMatch'
  BY <1>1, <1>2, <1>3, <1>6, OutcomesKept
<1> QED
  BY <1>1, <1>4, <1>5, <1>6, <1>7, QueueStep DEF IInv, CancelsMatch

LEMMA CancelKeeps ==
  ASSUME IInv, NEW o \in Op, Cancel(o)
  PROVE  IInv'
<1>1. TypeOK /\ op \in [Op -> Operation] /\ Matching(op) /\ ReservationsMatch
  BY DEF IInv, TypeOK, ReservationsMatch, Matching
<1>2. UNCHANGED <<node, tx, worker, history, bounds>>
  BY DEF Cancel
<1>3. CASE op[o].status = "queued" /\ op' = Ended(o, "cancelled") /\ UNCHANGED calls
  <2>1. "cancelled" \in Status /\ Gone.status = "gone"
    BY DEF Status, Terminal, Gone, Unused
  <2>2. /\ op' \in [Op -> Operation]
        /\ \A q \in Op : \/ op'[q].status = IF q = o THEN "cancelled" ELSE op[q].status
                         \/ /\ q = o \/ op[q].status \in Terminal
                            /\ op'[q].status = "gone"
    BY <1>1, <1>3, <2>1, EndedRows
  <2>3. Matching(op')
    BY <1>1, <1>3, EndedMatching
  <2>4. CancelledOps \subseteq CancelledOps'
    BY <2>2 DEF CancelledOps
  <2>5. SoleServer => OutcomesMatch'
    BY <1>2, <1>3, <2>2, OutcomesKept
  <2> QED
    BY <1>2, <1>3, <2>2, <2>3, <2>4, <2>5, QueueStep DEF IInv, CancelsMatch
<1>4. CASE /\ op[o].status = "running" /\ op' = [op EXCEPT ![o].status = "cancelling"]
           /\ calls' = calls \cup {o}
  <2>1. /\ op' \in [Op -> Operation]
        /\ \A q \in Op : /\ op'[q].status = IF q = o THEN "cancelling" ELSE op[q].status
                         /\ op'[q].of = op[q].of /\ op'[q].by = op[q].by
    BY <1>1, <1>4 DEF Operation, Status
  <2>2. Matching(op')
    <3>1. \A q \in Op : \/ op'[q].status = op[q].status
                       \/ /\ op'[q].status \notin {"cancelled", "failed", "gone"}
                          /\ op[q].status \notin {"cancelled", "failed", "gone"}
      BY <1>4, <2>1
    <3>2. \A q \in Op : op'[q].of = op[q].of /\ op'[q].by = op[q].by
      BY <2>1
    <3> QED
      BY <1>1, <2>1, <3>1, <3>2, SameStatusMatching
  <2>3. CancelledOps \subseteq CancelledOps' /\ o \in CancelledOps' /\ o \in NotEnded
    BY <1>4, <2>1 DEF CancelledOps, NotEnded
  <2>4. calls' \subseteq calls \cup NotEnded
    BY <1>4, <2>3
  <2>5. SoleServer => OutcomesMatch'
    BY <1>2, <1>4, <2>1, <2>4, OutcomesKept
  <2> QED
    BY <1>2, <1>4, <2>1, <2>2, <2>3, <2>5, QueueStep DEF IInv, CancelsMatch
<1>5. CASE op[o].status = "cancelling" /\ calls' = calls \cup {o} /\ UNCHANGED op
  <2>1. CancelledOps = CancelledOps' /\ o \in CancelledOps' /\ o \in NotEnded
    BY <1>5 DEF CancelledOps, NotEnded
  <2>2. SoleServer => OutcomesMatch'
    BY <1>1, <1>2, <1>5, <2>1, OutcomesKept
  <2> QED
    BY <1>1, <1>2, <1>5, <2>1, <2>2, QueueStep DEF IInv, CancelsMatch
<1> QED
  BY <1>3, <1>4, <1>5 DEF Cancel

LEMMA InterruptKeeps ==
  ASSUME IInv, NEW o \in Op, NEW w \in Server, Interrupt(o, w)
  PROVE  IInv'
<1> USE DEF Interrupt, history, bounds
<1>1. o # NoOp /\ running[w] \in Op \cup {NoOp}
  BY Bounds DEF IInv, TypeOK, NoOp
<1>2. TypeOK'
  BY DEF IInv, TypeOK
<1>3. TransactionsMatch'
  <2>1. \A v \in Server : v \in interrupted' => pc[v] \in {"found", "begun", "cancel", "fail"}
    BY <1>1 DEF IInv, TypeOK, TransactionsMatch
  <2> QED
    BY <2>1 DEF IInv, TransactionsMatch, Live, LiveIn, Exists
<1>4. CancelsMatch'
  BY DEF IInv, CancelsMatch, CancelledOps
<1>5. ReservationsMatch'
  BY DEF IInv, ReservationsMatch
<1>6. ASSUME SoleServer  PROVE OutcomesMatch'
  <2>1. OutcomesMatch
    BY <1>6 DEF IInv
  <2>2. running[w] = o => op[o].status = "cancelling"
    BY <1>1, <2>1 DEF IInv, CancelsMatch, CancelledOps, OutcomesMatch
  <2>3. WorkersMatch'
    BY <2>1, <2>2 DEF OutcomesMatch, WorkersMatch
  <2> QED
    BY <2>1, <2>3 DEF OutcomesMatch, NotEnded, Unfinished
<1> QED
  BY <1>2, <1>3, <1>4, <1>5, <1>6 DEF IInv

----------------------------------------------------------------------------
(* A worker                                                                *)

LEMMA ClaimedRows ==
  ASSUME op \in [Op -> Operation], NEW o \in Op, op' = [op EXCEPT ![o].status = "running"]
  PROVE  /\ op' \in [Op -> Operation]
         /\ \A q \in Op : /\ op'[q].status = IF q = o THEN "running" ELSE op[q].status
                          /\ op'[q].of = op[q].of /\ op'[q].by = op[q].by
<1>1. [op[o] EXCEPT !.status = "running"] \in Operation
  BY DEF Operation, Status
<1>2. op[o] \in Operation
  OBVIOUS
<1> QED
  BY <1>1, <1>2 DEF Operation

LEMMA ClaimKeeps ==
  ASSUME IInv, NEW w \in Server, Claim(w)
  PROVE  IInv'
<1> USE DEF history, bounds
<1>1. PICK o \in Op :
         /\ op[o].status = "queued"
         /\ op' = [op EXCEPT ![o].status = "running"]
         /\ running' = [running EXCEPT ![w] = o]
         /\ pc[w] = "idle" /\ pc' = [pc EXCEPT ![w] = "claimed"]
         /\ UNCHANGED <<node, tx, interrupted, calls, history, bounds>>
  BY DEF Claim
<1>2. /\ op \in [Op -> Operation] /\ op' \in [Op -> Operation]
      /\ \A q \in Op : /\ op'[q].status = IF q = o THEN "running" ELSE op[q].status
                       /\ op'[q].of = op[q].of /\ op'[q].by = op[q].by
  BY <1>1, ClaimedRows DEF IInv, TypeOK
<1>3. TypeOK'
  BY <1>1, <1>2 DEF IInv, TypeOK
<1>4. o # NoOp
  BY Bounds DEF NoOp
<1>5. TransactionsMatch'
  BY <1>1, <1>4 DEF IInv, TypeOK, TransactionsMatch, Live, LiveIn, Exists
<1>6. CancelsMatch'
  <2>1. o \notin CancelledOps /\ CancelledOps \subseteq CancelledOps'
    BY <1>1, <1>2 DEF CancelledOps
  <2> QED
    BY <1>1, <2>1 DEF IInv, TypeOK, CancelsMatch, TransactionsMatch
<1>7. ReservationsMatch'
  <2>1. \A q \in Op : \/ op'[q].status = op[q].status
                     \/ /\ op'[q].status \notin {"cancelled", "failed", "gone"}
                        /\ op[q].status \notin {"cancelled", "failed", "gone"}
    BY <1>1, <1>2
  <2>2. Matching(op)
    BY DEF IInv, ReservationsMatch, Matching
  <2>3. Matching(op')
    BY <1>2, <2>1, <2>2, SameStatusMatching
  <2> QED
    BY <2>3 DEF ReservationsMatch, Matching
<1>8. ASSUME SoleServer  PROVE OutcomesMatch'
  <2>1. OutcomesMatch /\ \A v \in Server : v = w
    BY <1>8 DEF IInv, SoleServer
  <2>2. w \notin interrupted /\ running[w] = NoOp
    BY <1>1 DEF IInv, TransactionsMatch
  <2>3. running'[w] = o
    BY <1>1 DEF IInv, TypeOK
  <2>4. WorkersMatch'
    <3>1. interrupted' = {}
      BY <1>1, <2>1, <2>2 DEF IInv, TypeOK
    <3>2. ASSUME NEW q \in Op, op'[q].status = "running"
          PROVE  q = o \/ q \in stranded
      BY <1>1, <1>2, <2>1, <2>2, <3>2, Bounds DEF OutcomesMatch, WorkersMatch, NoOp
    <3> QED
      BY <1>1, <2>1, <2>3, <3>1, <3>2 DEF OutcomesMatch, WorkersMatch
  <2>5. NotEnded' = NotEnded /\ Unfinished \subseteq Unfinished' /\ o \notin Unfinished
    BY <1>1, <1>2 DEF NotEnded, Unfinished
  <2> QED
    BY <1>1, <1>2, <2>1, <2>3, <2>4, <2>5 DEF OutcomesMatch
<1> QED
  BY <1>3, <1>5, <1>6, <1>7, <1>8 DEF IInv

\* What a transaction that begins is about and has locked.
LEMMA TransactionFacts ==
  ASSUME TypeOK, NEW w \in Server, NEW o \in Op, Transaction(w, o)
  PROVE  /\ tx' = [tx EXCEPT ![w] = tx'[w]]
         /\ tx'[w] \in Transactions /\ tx'[w].what \notin {"none", "create"}
         /\ tx'[w].id \in Node
         /\ tx'[w].what = "copy" => tx'[w].id \in tx'[w].locked /\ Live(tx'[w].id)
         /\ tx'[w].what = Effect(o)
<1> DEFINE i == op[o].item
           n == i.id
           t == [NoTx EXCEPT !.what = Effect(o), !.id = n, !.to = op[o].to]
           L(ids, locked) == [t EXCEPT !.ids = ids, !.locked = locked]
           Lock(ids) == IF op[o].step = "do" THEN {n} ELSE ids
<1>1. n \in Node /\ op[o].to \in Places /\ w \in Proc
  BY DEF Transaction, AsSeen, Seen, TypeOK, Operation, Proc
<1>2. Effect(o) \in {"relocate", "copy", "restore", "trash"}
  BY DEF Effect
<1>3. t \in Transactions /\ t.what = Effect(o) /\ t.id = n
  BY <1>1, <1>2, ConstantTypes DEF Transactions, NoTx
<1>4. Effect(o) = "copy" => op[o].step = "do"
  BY DEF Effect
<1>5. PICK ids \in SUBSET Node, locked \in SUBSET Node :
         /\ tx' = [tx EXCEPT ![w] = L(ids, locked)]
         /\ Effect(o) = "copy" => Live(n) /\ locked = {n}
  <2>1. ActiveSubtree(n) \subseteq Node /\ Trashed(n) \subseteq Node
    BY <1>1, SubtreesInNode DEF Trashed
  <2>2. \/ Live(n) /\ tx' = [tx EXCEPT ![w] = L({n}, Lock({n}))]
        \/ Effect(o) = "trash" /\ tx' = [tx EXCEPT ![w] = L(ActiveSubtree(n), {n})]
        \/ Effect(o) = "restore" /\ tx' = [tx EXCEPT ![w] = L(Trashed(n), Lock(Trashed(n)))]
    <3>1. \/ /\ t.what \in {"relocate", "copy"} /\ Live(n)
             /\ tx' = [tx EXCEPT ![w] = L({n}, Lock({n}))]
          \/ t.what = "trash" /\ tx' = [tx EXCEPT ![w] = L(ActiveSubtree(n), {n})]
          \/ t.what = "restore" /\ tx' = [tx EXCEPT ![w] = L(Trashed(n), Lock(Trashed(n)))]
      BY DEF Transaction
    <3> QED
      BY <1>3, <3>1
  <2>3. Lock({n}) = {n} /\ Lock(Trashed(n)) \in SUBSET Node
    BY <1>1, <2>1
  <2> HIDE DEF L, n, t, Lock
  <2> QED
    BY <1>1, <2>1, <2>2, <2>3
<1>6. /\ L(ids, locked) \in Transactions /\ L(ids, locked).what = Effect(o)
      /\ L(ids, locked).id = n /\ L(ids, locked).locked = locked
  <2> HIDE DEF t
  <2> QED
    BY <1>1, <1>3 DEF Transactions
<1>7. tx'[w] = L(ids, locked)
  BY <1>1, <1>5 DEF TypeOK
<1> HIDE DEF L, n
<1> QED
  BY <1>1, <1>2, <1>5, <1>6, <1>7

LEMMA BeginKeeps ==
  ASSUME IInv, NEW w \in Server, Begin(w)
  PROVE  IInv'
<1> USE DEF Goto, history, bounds
<1>1. TypeOK /\ running[w] \in Op /\ w \in Proc
  BY DEF IInv, TypeOK, TransactionsMatch, Begin, Proc, NoOp
<1>2. /\ tx' = [tx EXCEPT ![w] = tx'[w]]
      /\ tx'[w] \in Transactions /\ tx'[w].what \notin {"none", "create"}
      /\ tx'[w].id \in Node
      /\ tx'[w].what = "copy" => tx'[w].id \in tx'[w].locked /\ Live(tx'[w].id)
      /\ tx'[w].what = Effect(running[w])
  BY <1>1, TransactionFacts DEF Begin
<1>3. TypeOK'
  BY <1>1, <1>2 DEF Begin, TypeOK
<1>4. TransactionsMatch'
  <2>1. tx'[w] # NoTx
    BY <1>2 DEF NoTx
  <2>2. \A p \in Proc \ {w} : tx'[p] = tx[p]
    BY <1>1, <1>2 DEF TypeOK
  <2>3. \A v \in Server : v \in Proc
    BY DEF Proc
  <2>4. ASSUME NEW v \in Server
        PROVE  /\ running'[v] = NoOp <=> pc'[v] \in {"down", "idle"}
               /\ tx'[v] # NoTx <=> pc'[v] \in {"found", "begun"}
               /\ pc'[v] = "found" => tx'[v].what = "trash"
               /\ v \in interrupted' => pc'[v] \in {"found", "begun", "cancel", "fail"}
    BY <1>1, <1>2, <2>1, <2>2, <2>3 DEF Begin, IInv, TypeOK, TransactionsMatch
  <2>5. ASSUME NEW p \in Proc
        PROVE  /\ tx'[p].what \notin {"none", "create"} => tx'[p].id \in Node
               /\ tx'[p].what = "copy" => tx'[p].id \in tx'[p].locked /\ Live(tx[p].id)'
    BY <1>2, <2>2 DEF Begin, IInv, TransactionsMatch, Live, LiveIn, Exists
  <2> QED
    BY <2>4, <2>5 DEF TransactionsMatch
<1>5. CancelsMatch'
  BY <1>1 DEF Begin, IInv, TypeOK, CancelsMatch, CancelledOps
<1>6. ReservationsMatch'
  BY DEF Begin, IInv, ReservationsMatch
<1>7. ASSUME SoleServer  PROVE OutcomesMatch'
  <2>1. OutcomesMatch
    BY <1>7 DEF IInv
  <2>2. WorkersMatch'
    BY <1>1, <2>1 DEF Begin, TypeOK, OutcomesMatch, WorkersMatch
  <2> QED
    BY <1>1, <2>1, <2>2 DEF Begin, TypeOK, OutcomesMatch, NotEnded, Unfinished
<1> QED
  BY <1>3, <1>4, <1>5, <1>6, <1>7 DEF IInv

\* Steps that end a worker's transaction and leave what others have locked.
LEMMA RollbackTransactions ==
  ASSUME IInv, NEW w \in Server, tx' = [tx EXCEPT ![w] = NoTx],
         \A q \in Proc \ {w} : \A n \in tx[q].locked : node'[n] = node[n],
         NEW place \in {"down", "idle", "cancel", "fail"}, pc' = [pc EXCEPT ![w] = place],
         \/ place \in {"cancel", "fail"} /\ UNCHANGED <<running, interrupted>> /\ running[w] # NoOp
         \/ /\ place \in {"down", "idle"}
            /\ running' = [running EXCEPT ![w] = NoOp] /\ interrupted' = interrupted \ {w}
  PROVE  TransactionsMatch'
<1>1. TypeOK /\ TransactionsMatch /\ w \in Proc /\ \A v \in Server : v \in Proc
  BY DEF IInv, Proc
<1>2. tx'[w] = NoTx /\ \A p \in Proc \ {w} : tx'[p] = tx[p]
  BY <1>1 DEF TypeOK
<1>3. ASSUME NEW v \in Server
      PROVE  /\ running'[v] = NoOp <=> pc'[v] \in {"down", "idle"}
             /\ tx'[v] # NoTx <=> pc'[v] \in {"found", "begun"}
             /\ pc'[v] = "found" => tx'[v].what = "trash"
             /\ v \in interrupted' => pc'[v] \in {"found", "begun", "cancel", "fail"}
  BY <1>1, <1>2 DEF TypeOK, TransactionsMatch
<1>4. ASSUME NEW p \in Proc
      PROVE  /\ tx'[p].what \notin {"none", "create"} => tx'[p].id \in Node
             /\ tx'[p].what = "copy" => tx'[p].id \in tx'[p].locked /\ Live(tx[p].id)'
  <2>1. NoTx.what = "none"
    BY DEF NoTx
  <2>2. ASSUME p # w, tx[p].what = "copy"
        PROVE  /\ tx[p].id \in tx[p].locked /\ Live(tx[p].id)
               /\ node'[tx[p].id] = node[tx[p].id]
    BY <1>1, <2>2 DEF TransactionsMatch
  <2> QED
    BY <1>1, <1>2, <2>1, <2>2 DEF TransactionsMatch, Live, LiveIn, Exists
<1> QED
  BY <1>3, <1>4 DEF TransactionsMatch

LEMMA ErrorKeeps ==
  ASSUME IInv, NEW w \in Server, Fail(w) \/ NotRunning(w)
  PROVE  IInv'
<1> USE DEF history, bounds
<1>1. TypeOK /\ running[w] \in Op /\ running[w] # NoOp /\ w \in Proc
  BY Bounds DEF IInv, TypeOK, TransactionsMatch, Fail, NotRunning, Proc, NoOp
<1>2. PICK place \in {"cancel", "fail"} :
         /\ pc' = [pc EXCEPT ![w] = place]
         /\ tx' = [tx EXCEPT ![w] = NoTx]
         /\ place = "cancel" => \/ w \in interrupted
                                \/ op[running[w]].status \in {"cancelling", "cancelled"}
         /\ pc[w] \in {"claimed", "found", "begun"}
         /\ UNCHANGED <<node, op, running, interrupted, calls, history, bounds>>
  BY DEF Fail, NotRunning, Goto, AfterError, Rollback
<1>3. TypeOK'
  BY <1>1, <1>2, ConstantTypes DEF TypeOK
<1>4. TransactionsMatch'
  BY <1>1, <1>2, RollbackTransactions
<1>5. CancelsMatch'
  BY <1>1, <1>2 DEF IInv, TypeOK, CancelsMatch, CancelledOps
<1>6. ReservationsMatch'
  BY <1>2 DEF IInv, ReservationsMatch
<1>7. ASSUME SoleServer  PROVE OutcomesMatch'
  <2>1. OutcomesMatch
    BY <1>7 DEF IInv
  <2>2. WorkersMatch'
    BY <1>1, <1>2, <2>1 DEF TypeOK, OutcomesMatch, WorkersMatch
  <2> QED
    BY <1>1, <1>2, <2>1, <2>2 DEF TypeOK, OutcomesMatch, NotEnded, Unfinished
<1> QED
  BY <1>3, <1>4, <1>5, <1>6, <1>7 DEF IInv

\* A worker is done with an operation that has not taken effect, or whose
\* outcome others have written.
LEMMA EndKeeps ==
  ASSUME IInv, NEW w \in Server, pc[w] \in {"cancel", "fail"}, Leave(w),
         UNCHANGED <<node, tx, calls, history, bounds>>,
         \/ op' = op /\ running[w] \in CancelledOps
         \/ /\ op[running[w]].status # "gone"
            /\ \E st \in {"cancelled", "failed"} : op' = Ended(running[w], st)
  PROVE  IInv'
<1> DEFINE o == running[w]
<1> USE DEF history, bounds
<1>1. TypeOK /\ o \in Op /\ w \in Proc
  BY DEF IInv, TypeOK, TransactionsMatch, Proc, NoOp
<1>2. /\ pc' = [pc EXCEPT ![w] = "idle"]
      /\ running' = [running EXCEPT ![w] = NoOp]
      /\ interrupted' = interrupted \ {w}
      /\ UNCHANGED <<node, tx, calls, applied, changed, stranded, bounds>>
  BY DEF Leave
<1>3. /\ op' \in [Op -> Operation]
      /\ \A q \in Op : \/ op'[q].status = op[q].status /\ (q = o => q \in CancelledOps)
                       \/ q = o /\ op'[q].status \in {"cancelled", "failed", "gone"}
                       \/ op[q].status \in Terminal /\ op'[q].status = "gone"
  <2>1. CASE op' = op /\ o \in CancelledOps
    BY <1>1, <2>1 DEF TypeOK
  <2>2. ASSUME NEW st \in {"cancelled", "failed"}, op' = Ended(o, st)
        PROVE  <1>3
    <3>1. st \in Status /\ Gone.status = "gone"
      BY DEF Status, Terminal, Gone, Unused
    <3> QED
      BY <1>1, <2>2, <3>1, EndedRows
  <2> QED
    BY <2>1, <2>2
<1>4. TypeOK'
  BY <1>1, <1>2, <1>3 DEF TypeOK
<1>5. TransactionsMatch'
  <2>1. tx' = [tx EXCEPT ![w] = NoTx]
    BY <1>1, <1>2 DEF IInv, TypeOK, TransactionsMatch
  <2> QED
    BY <1>2, <2>1, RollbackTransactions
<1>6. CancelledOps \subseteq CancelledOps'
  BY <1>3 DEF CancelledOps, Terminal
<1>7. CancelsMatch'
  BY <1>1, <1>2, <1>6 DEF IInv, TypeOK, CancelsMatch
<1>8. ReservationsMatch'
  <2>1. Matching(op) /\ ReservationsMatch
    BY DEF IInv, ReservationsMatch, Matching
  <2>2. Matching(op')
    BY <1>1, <2>1, EndedMatching
  <2> QED
    BY <2>2 DEF ReservationsMatch, Matching
<1>9. ASSUME SoleServer  PROVE OutcomesMatch'
  <2>1. OutcomesMatch /\ \A v \in Server : v = w
    BY <1>9 DEF IInv, SoleServer
  <2>2. \A v \in Server : running'[v] = NoOp
    BY <1>1, <1>2, <2>1 DEF TypeOK
  <2>3. NotEnded' \subseteq NotEnded
    BY <1>3 DEF NotEnded, Terminal
  <2>4. ASSUME NEW q \in Op, op'[q].status = "running"
        PROVE  q \in stranded
    <3>1. op[q].status = "running" /\ q # o
      BY <1>3, <2>4 DEF CancelledOps
    <3> QED
      BY <2>1, <3>1 DEF OutcomesMatch, WorkersMatch
  <2>5. interrupted' = {}
    BY <1>1, <1>2, <2>1 DEF TypeOK
  <2>6. WorkersMatch'
    BY <1>2, <2>1, <2>2, <2>4, <2>5 DEF OutcomesMatch, WorkersMatch
  <2>7. \A q \in NotEnded' \cup calls' : applied'[q] = 0
    BY <1>2, <2>1, <2>3 DEF OutcomesMatch
  <2>8. \A q \in Op : op'[q].status = "completed" => applied'[q] = 1
    BY <1>2, <1>3, <2>1 DEF OutcomesMatch
  <2>9. ASSUME NEW q \in Op, lostAcks' = 0, op'[q].status \in {"cancelled", "failed"}
        PROVE  applied'[q] = 0
    <3>1. lostAcks = 0 /\ applied' = applied
      BY <1>2, <2>9
    <3>2. CASE q = o
      <4>1. op[o].status \in {"running", "cancelling"}
        BY <1>1, <2>1, <3>1 DEF OutcomesMatch, NoOp, TransactionsMatch, IInv
      <4> QED
        BY <1>1, <2>1, <3>1, <3>2, <4>1 DEF OutcomesMatch, NotEnded
    <3>3. CASE q # o
      BY <1>3, <2>1, <2>9, <3>1, <3>3 DEF OutcomesMatch
    <3> QED
      BY <3>2, <3>3
  <2>10. ASSUME NEW q \in stranded
         PROVE  q \in Unfinished' /\ \A v \in Server : running'[v] # q
    <3>1. q \in Op /\ q # o /\ op[q].status \in {"running", "cancelling"}
      BY <1>1, <2>1 DEF OutcomesMatch, Unfinished
    <3>2. op'[q].status = op[q].status
      BY <1>3, <3>1 DEF Terminal
    <3> QED
      BY <2>2, <3>1, <3>2, Bounds DEF Unfinished, NoOp
  <2> QED
    BY <1>2, <2>2, <2>6, <2>7, <2>8, <2>9, <2>10 DEF OutcomesMatch
<1> QED
  BY <1>4, <1>5, <1>7, <1>8, <1>9 DEF IInv

LEMMA CancelRunningKeeps ==
  ASSUME IInv, NEW w \in Server, CancelRunning(w)
  PROVE  IInv'
<1>1. running[w] \in CancelledOps /\ pc[w] = "cancel"
  BY DEF IInv, CancelsMatch, CancelRunning
<1>2. op[running[w]].status \in {"cancelling", "cancelled", "failed", "gone"}
  BY <1>1 DEF CancelledOps
<1> QED
  BY <1>1, <1>2, EndKeeps DEF CancelRunning

LEMMA FailOperationKeeps ==
  ASSUME IInv, NEW w \in Server, FailOperation(w)
  PROVE  IInv'
<1>1. pc[w] = "fail" /\ (w \in interrupted => running[w] \in CancelledOps)
  BY DEF IInv, CancelsMatch, FailOperation
<1>2. running[w] \in Op
  BY <1>1 DEF IInv, TypeOK, TransactionsMatch, NoOp
<1>3. op[running[w]].status = "gone" => running[w] \in CancelledOps
  BY <1>2 DEF CancelledOps
<1> QED
  BY <1>1, <1>3, EndKeeps DEF FailOperation

\* The row is running, and no worker knows.
LEMMA ClaimUnacknowledgedKeeps ==
  ASSUME IInv, NEW w \in Server, ClaimUnacknowledged(w)
  PROVE  IInv'
<1> USE DEF worker
<1>1. PICK o \in Op :
         /\ pc[w] = "idle" /\ op[o].status = "queued"
         /\ op' = [op EXCEPT ![o].status = "running"]
         /\ errors < MaxErrors /\ errors' = errors + 1
         /\ stranded' = stranded \cup {o}
         /\ UNCHANGED <<node, tx, worker, calls, applied, changed, requests, crashes, lostAcks>>
  BY DEF ClaimUnacknowledged, Strand
<1>2. /\ op \in [Op -> Operation] /\ op' \in [Op -> Operation]
      /\ \A q \in Op : /\ op'[q].status = IF q = o THEN "running" ELSE op[q].status
                       /\ op'[q].of = op[q].of /\ op'[q].by = op[q].by
  BY <1>1, ClaimedRows DEF IInv, TypeOK
<1>3. TypeOK'
  BY <1>1, <1>2, Bounds DEF IInv, TypeOK
<1>4. TransactionsMatch'
  BY <1>1 DEF IInv, TransactionsMatch, Live, LiveIn, Exists
<1>5. CancelsMatch'
  <2>1. CancelledOps \subseteq CancelledOps'
    BY <1>1, <1>2 DEF CancelledOps
  <2> QED
    BY <1>1, <2>1 DEF IInv, CancelsMatch
<1>6. ReservationsMatch'
  <2>1. \A q \in Op : \/ op'[q].status = op[q].status
                     \/ /\ op'[q].status \notin {"cancelled", "failed", "gone"}
                        /\ op[q].status \notin {"cancelled", "failed", "gone"}
    BY <1>1, <1>2
  <2>2. Matching(op)
    BY DEF IInv, ReservationsMatch, Matching
  <2>3. Matching(op')
    BY <1>2, <2>1, <2>2, SameStatusMatching
  <2> QED
    BY <2>3 DEF ReservationsMatch, Matching
<1>7. ASSUME SoleServer  PROVE OutcomesMatch'
  <2>1. OutcomesMatch /\ \A v \in Server : v = w
    BY <1>7 DEF IInv, SoleServer
  <2>2. \A v \in Server : v \notin interrupted /\ running[v] = NoOp
    BY <1>1, <2>1 DEF IInv, TransactionsMatch
  <2>3. errors' # 0
    BY <1>1, Bounds DEF IInv, TypeOK
  <2>4. ASSUME NEW q \in Op, op'[q].status = "running"
        PROVE  q \in stranded'
    BY <1>1, <1>2, <2>1, <2>2, <2>4, Bounds DEF OutcomesMatch, WorkersMatch, NoOp
  <2>5. WorkersMatch'
    BY <1>1, <2>2, <2>3, <2>4 DEF WorkersMatch, IInv, TypeOK
  <2>6. NotEnded' = NotEnded /\ Unfinished \subseteq Unfinished' /\ o \in Unfinished'
    BY <1>1, <1>2 DEF NotEnded, Unfinished
  <2>7. o # NoOp
    BY Bounds DEF NoOp
  <2> QED
    BY <1>1, <1>2, <2>1, <2>2, <2>5, <2>6, <2>7 DEF OutcomesMatch
<1> QED
  BY <1>3, <1>4, <1>5, <1>6, <1>7 DEF IInv

LEMMA LockTreeKeeps ==
  ASSUME IInv, NEW w \in Server, LockTree(w)
  PROVE  IInv'
<1> USE DEF Goto, history, bounds
<1>1. TypeOK /\ w \in Proc /\ pc[w] = "found" /\ tx[w] \in Transactions
      /\ tx[w].what = "trash"
  BY DEF IInv, TypeOK, TransactionsMatch, LockTree, Proc
<1>2. PICK ids \in SUBSET Node : tx' = [tx EXCEPT ![w].ids = ids, ![w].locked = ids]
  BY <1>1 DEF LockTree, Transactions
<1>3. /\ pc' = [pc EXCEPT ![w] = "begun"]
      /\ UNCHANGED <<node, op, running, interrupted, calls, history, bounds>>
  BY DEF LockTree
<1>4. /\ tx'[w] \in Transactions /\ tx'[w].what = "trash" /\ tx'[w].id = tx[w].id
      /\ \A p \in Proc \ {w} : tx'[p] = tx[p]
      /\ tx' \in [Proc -> Transactions]
  BY <1>1, <1>2 DEF TypeOK, Transactions
<1>5. TypeOK'
  BY <1>1, <1>3, <1>4 DEF TypeOK
<1>6. TransactionsMatch'
  <2>1. tx'[w] # NoTx
    BY <1>4 DEF NoTx
  <2>2. \A v \in Server : v \in Proc
    BY DEF Proc
  <2>3. ASSUME NEW v \in Server
        PROVE  /\ running'[v] = NoOp <=> pc'[v] \in {"down", "idle"}
               /\ tx'[v] # NoTx <=> pc'[v] \in {"found", "begun"}
               /\ pc'[v] = "found" => tx'[v].what = "trash"
               /\ v \in interrupted' => pc'[v] \in {"found", "begun", "cancel", "fail"}
    BY <1>1, <1>3, <1>4, <2>1, <2>2 DEF IInv, TypeOK, TransactionsMatch
  <2>4. ASSUME NEW p \in Proc
        PROVE  /\ tx'[p].what \notin {"none", "create"} => tx'[p].id \in Node
               /\ tx'[p].what = "copy" => tx'[p].id \in tx'[p].locked /\ Live(tx[p].id)'
    BY <1>1, <1>3, <1>4 DEF IInv, TransactionsMatch, Live, LiveIn, Exists
  <2> QED
    BY <2>3, <2>4 DEF TransactionsMatch
<1>7. CancelsMatch'
  BY <1>1, <1>3 DEF IInv, TypeOK, CancelsMatch, CancelledOps
<1>8. ReservationsMatch'
  BY <1>3 DEF IInv, ReservationsMatch
<1>9. ASSUME SoleServer  PROVE OutcomesMatch'
  <2>1. OutcomesMatch
    BY <1>9 DEF IInv
  <2>2. WorkersMatch'
    BY <1>1, <1>3, <2>1 DEF TypeOK, OutcomesMatch, WorkersMatch
  <2> QED
    BY <1>1, <1>3, <2>1, <2>2 DEF TypeOK, OutcomesMatch, NotEnded, Unfinished
<1> QED
  BY <1>5, <1>6, <1>7, <1>8, <1>9 DEF IInv

\* An error after which the worker goes on without having written an outcome.
LEMMA LossKeeps ==
  ASSUME IInv, NEW w \in Server, GiveUp(w) \/ OutcomeUnwritten(w)
  PROVE  IInv'
<1>1. TypeOK /\ running[w] \in Op /\ w \in Proc /\ pc[w] \notin {"down", "idle"}
  BY DEF IInv, TypeOK, TransactionsMatch, GiveUp, OutcomeUnwritten, Proc, NoOp
<1>2. /\ pc' = [pc EXCEPT ![w] = "idle"]
      /\ running' = [running EXCEPT ![w] = NoOp]
      /\ interrupted' = interrupted \ {w}
      /\ tx' = [tx EXCEPT ![w] = NoTx]
      /\ errors < MaxErrors /\ errors' = errors + 1
      /\ stranded' = stranded \cup ({running[w]} \cap Unfinished)
      /\ UNCHANGED <<node, op, calls, applied, changed, requests, crashes, lostAcks>>
  BY <1>1 DEF GiveUp, OutcomeUnwritten, Leave, Rollback, Strand, IInv, TypeOK, TransactionsMatch
<1>3. TypeOK'
  <2>1. stranded' \subseteq Op
    BY <1>1, <1>2 DEF TypeOK, Unfinished
  <2>2. errors' \in 0..MaxErrors
    BY <1>1, <1>2, Bounds DEF TypeOK
  <2> QED
    BY <1>1, <1>2, <2>1, <2>2, ConstantTypes DEF TypeOK
<1>4. TransactionsMatch'
  BY <1>2, RollbackTransactions
<1>5. CancelsMatch'
  BY <1>1, <1>2 DEF IInv, TypeOK, CancelsMatch, CancelledOps
<1>6. ReservationsMatch'
  BY <1>2 DEF IInv, ReservationsMatch
<1>7. ASSUME SoleServer  PROVE OutcomesMatch'
  <2>1. OutcomesMatch /\ \A v \in Server : v = w
    BY <1>7 DEF IInv, SoleServer
  <2>2. interrupted' = {} /\ \A v \in Server : running'[v] = NoOp
    BY <1>1, <1>2, <2>1 DEF TypeOK
  <2>3. errors' # 0
    BY <1>1, <1>2, Bounds DEF TypeOK
  <2>4. ASSUME NEW q \in Op, op'[q].status = "running"
        PROVE  q \in stranded'
    BY <1>1, <1>2, <2>1, <2>4 DEF OutcomesMatch, WorkersMatch, Unfinished
  <2>5. WorkersMatch'
    BY <2>2, <2>3, <2>4 DEF WorkersMatch
  <2>6. \A q \in stranded' : q \in Unfinished' /\ \A v \in Server : running'[v] # q
    BY <1>2, <2>1, <2>2, Bounds DEF OutcomesMatch, Unfinished, NoOp
  <2> QED
    BY <1>2, <2>1, <2>2, <2>5, <2>6 DEF OutcomesMatch, NotEnded
<1> QED
  BY <1>3, <1>4, <1>5, <1>6, <1>7 DEF IInv

LEMMA StartUnrecoveredKeeps ==
  ASSUME IInv, NEW w \in Server, StartUnrecovered(w)
  PROVE  IInv'
<1>1. TypeOK /\ w \in Proc
  BY DEF IInv, Proc
<1>2. /\ pc[w] = "down" /\ pc' = [pc EXCEPT ![w] = "idle"]
      /\ errors < MaxErrors /\ errors' = errors + 1
      /\ stranded' = stranded \cup Unfinished
      /\ UNCHANGED <<node, op, tx, running, interrupted, calls, applied, changed,
                     requests, crashes, lostAcks>>
  BY DEF StartUnrecovered, Strand, Goto
<1>3. TypeOK'
  <2>1. stranded' \subseteq Op
    BY <1>1, <1>2 DEF TypeOK, Unfinished
  <2>2. errors' \in 0..MaxErrors
    BY <1>1, <1>2, Bounds DEF TypeOK
  <2> QED
    BY <1>1, <1>2, <2>1, <2>2, ConstantTypes DEF TypeOK
<1>4. TransactionsMatch'
  BY <1>1, <1>2 DEF IInv, TypeOK, TransactionsMatch, Live, LiveIn, Exists
<1>5. CancelsMatch'
  BY <1>1, <1>2 DEF IInv, TypeOK, CancelsMatch, CancelledOps
<1>6. ReservationsMatch'
  BY <1>2 DEF IInv, ReservationsMatch
<1>7. ASSUME SoleServer  PROVE OutcomesMatch'
  <2>1. OutcomesMatch /\ \A v \in Server : v = w
    BY <1>7 DEF IInv, SoleServer
  <2>2. interrupted' = {} /\ \A v \in Server : running'[v] = NoOp
    BY <1>1, <1>2, <2>1 DEF IInv, TypeOK, TransactionsMatch
  <2>3. errors' # 0
    BY <1>1, <1>2, Bounds DEF TypeOK
  <2>4. \A q \in Op : op'[q].status = "running" => q \in stranded'
    BY <1>2 DEF Unfinished
  <2>5. WorkersMatch'
    BY <2>2, <2>3, <2>4 DEF WorkersMatch
  <2>6. \A q \in stranded' : q \in Unfinished' /\ \A v \in Server : running'[v] # q
    BY <1>2, <2>1, <2>2, Bounds DEF OutcomesMatch, Unfinished, NoOp
  <2> QED
    BY <1>2, <2>1, <2>2, <2>5, <2>6 DEF OutcomesMatch, NotEnded
<1> QED
  BY <1>3, <1>4, <1>5, <1>6, <1>7 DEF IInv

LEMMA StopKeeps ==
  ASSUME IInv, NEW w \in Server, Stop(w)
  PROVE  IInv'
<1> USE DEF history
<1>1. TypeOK /\ w \in Proc
  BY DEF IInv, Proc
<1>2. /\ pc' = [pc EXCEPT ![w] = "down"]
      /\ running' = [running EXCEPT ![w] = NoOp]
      /\ interrupted' = interrupted \ {w}
      /\ tx' = [tx EXCEPT ![w] = NoTx]
      /\ crashes < MaxCrashes /\ crashes' = crashes + 1
      /\ UNCHANGED <<node, op, calls, applied, changed, stranded, requests, lostAcks, errors>>
  BY DEF Stop, Rollback
<1>3. TypeOK'
  BY <1>1, <1>2, ConstantTypes, Bounds DEF TypeOK
<1>4. TransactionsMatch'
  BY <1>2, RollbackTransactions
<1>5. CancelsMatch'
  BY <1>1, <1>2 DEF IInv, TypeOK, CancelsMatch, CancelledOps
<1>6. ReservationsMatch'
  BY <1>2 DEF IInv, ReservationsMatch
<1>7. ASSUME SoleServer  PROVE OutcomesMatch'
  <2>1. OutcomesMatch /\ \A v \in Server : v = w
    BY <1>7 DEF IInv, SoleServer
  <2>2. pc'[w] = "down" /\ running'[w] = NoOp /\ interrupted' = {}
    BY <1>1, <1>2, <2>1 DEF TypeOK
  <2>3. WorkersMatch'
    BY <1>2, <2>1, <2>2 DEF OutcomesMatch, WorkersMatch
  <2>4. \A o \in stranded' : o \in Unfinished' /\ \A v \in Server : running'[v] # o
    BY <1>2, <2>1, <2>2, Bounds DEF OutcomesMatch, Unfinished, NoOp
  <2> QED
    BY <1>2, <2>1, <2>2, <2>3, <2>4 DEF OutcomesMatch, NotEnded
<1> QED
  BY <1>3, <1>4, <1>5, <1>6, <1>7 DEF IInv

\* What a server that starts makes of the rows.
LEMMA StartedRows ==
  ASSUME IInv, NEW w \in Server, Start(w)
  PROVE  /\ op' \in [Op -> Operation] /\ Matching(op')
         /\ \A o \in Op :
              \/ /\ op'[o].status = op[o].status
                 /\ op[o].status \notin {"running", "cancelling"}
              \/ op[o].status = "running" /\ op'[o].status = "queued"
              \/ op[o].status = "cancelling" /\ op'[o].status \in {"cancelled", "gone"}
              \/ op[o].status \in Terminal /\ op'[o].status = "gone"
<1> DEFINE cancelling == {o \in Op : op[o].status = "cancelling"}
           rows == [o \in Op |->
                       IF op[o].status = "running" THEN [op[o] EXCEPT !.status = "queued"]
                       ELSE IF o \in cancelling THEN [op[o] EXCEPT !.status = "cancelled"]
                       ELSE op[o]]
           rel == Released(rows, cancelling)
<1>1. op \in [Op -> Operation] /\ Matching(op)
  BY DEF IInv, TypeOK, ReservationsMatch, Matching
<1>2. op' = IF cancelling = {} THEN rows ELSE Pruned(rel)
  BY DEF Start
<1>3. /\ rows \in [Op -> Operation] /\ cancelling \in SUBSET Op
      /\ \A o \in Op : /\ rows[o].of = op[o].of /\ rows[o].by = op[o].by
                       /\ rows[o].status = IF op[o].status = "running" THEN "queued"
                                           ELSE IF o \in cancelling THEN "cancelled"
                                           ELSE op[o].status
  BY <1>1 DEF Operation, Status, Terminal
<1>4. \A o \in Op : o \in cancelling <=> op[o].status = "cancelling"
  OBVIOUS
<1>5. /\ rel \in [Op -> Operation]
      /\ \A o \in Op : rel[o].status = rows[o].status
  <2> HIDE DEF rows, cancelling
  <2> QED
    BY <1>3, ReleasedRows
<1>6. Matching(rel)
  <2> HIDE DEF rows, cancelling
  <2>1. \A o \in cancelling : rows[o].status \in {"cancelled", "failed"} /\ op[o].status # "gone"
    BY <1>3, <1>4
  <2>2. \A o \in Op \ cancelling :
           \/ rows[o].status = op[o].status
           \/ /\ rows[o].status \notin {"cancelled", "failed", "gone"}
              /\ op[o].status \notin {"cancelled", "failed", "gone"}
    BY <1>3
  <2> QED
    BY <1>1, <1>3, <2>1, <2>2, ReleasedMatching
<1> HIDE DEF rows, rel, cancelling
<1>7. CASE cancelling = {}
  <2>1. \A o \in Op : \/ rows[o].status = op[o].status
                      \/ /\ rows[o].status \notin {"cancelled", "failed", "gone"}
                         /\ op[o].status \notin {"cancelled", "failed", "gone"}
    BY <1>3, <1>7
  <2>2. Matching(rows)
    BY <1>1, <1>3, <2>1, SameStatusMatching
  <2> QED
    BY <1>2, <1>3, <1>4, <1>7, <2>2
<1>8. CASE cancelling # {}
  <2>1. Matching(Pruned(rel))
    BY <1>5, <1>6, PrunedMatching
  <2>2. /\ Pruned(rel) \in [Op -> Operation]
        /\ \A o \in Op : \/ Pruned(rel)[o] = rel[o]
                         \/ rel[o].status \in Terminal /\ Pruned(rel)[o] = Gone
    BY <1>5, PrunedRows
  <2>3. Gone.status = "gone"
    BY DEF Gone, Unused
  <2> QED
    BY <1>2, <1>3, <1>4, <1>5, <1>8, <2>1, <2>2, <2>3 DEF Terminal
<1> QED
  BY <1>7, <1>8

LEMMA StartKeeps ==
  ASSUME IInv, NEW w \in Server, Start(w)
  PROVE  IInv'
<1> USE DEF history, bounds
<1>1. TypeOK /\ w \in Proc
  BY DEF IInv, Proc
<1>2. /\ pc[w] = "down" /\ pc' = [pc EXCEPT ![w] = "idle"]
      /\ stranded' = {}
      /\ UNCHANGED <<node, tx, running, interrupted, calls, applied, changed, bounds>>
  BY DEF Start, Goto
<1>3. /\ op' \in [Op -> Operation] /\ Matching(op')
      /\ \A o \in Op :
           \/ /\ op'[o].status = op[o].status
              /\ op[o].status \notin {"running", "cancelling"}
           \/ op[o].status = "running" /\ op'[o].status = "queued"
           \/ op[o].status = "cancelling" /\ op'[o].status \in {"cancelled", "gone"}
           \/ op[o].status \in Terminal /\ op'[o].status = "gone"
  BY StartedRows
<1>4. TypeOK'
  BY <1>1, <1>2, <1>3 DEF TypeOK
<1>5. TransactionsMatch'
  BY <1>1, <1>2 DEF IInv, TypeOK, TransactionsMatch, Live, LiveIn, Exists
<1>6. CancelledOps \subseteq CancelledOps'
  BY <1>3 DEF CancelledOps, Terminal
<1>7. CancelsMatch'
  BY <1>1, <1>2, <1>6 DEF IInv, TypeOK, CancelsMatch
<1>8. ReservationsMatch'
  BY <1>3 DEF ReservationsMatch, Matching
<1>9. ASSUME SoleServer  PROVE OutcomesMatch'
  <2>1. OutcomesMatch /\ \A v \in Server : v = w
    BY <1>9 DEF IInv, SoleServer
  <2>2. running'[w] = NoOp /\ interrupted' = {}
    BY <1>1, <1>2, <2>1 DEF IInv, TypeOK, TransactionsMatch
  <2>3. \A o \in Op : op'[o].status # "running"
    BY <1>3
  <2>4. WorkersMatch'
    BY <1>2, <2>1, <2>2, <2>3 DEF WorkersMatch
  <2>5. NotEnded' \subseteq NotEnded
    BY <1>3 DEF NotEnded, Terminal
  <2>6. \A o \in NotEnded' \cup calls' : applied'[o] = 0
    BY <1>2, <2>1, <2>5 DEF OutcomesMatch
  <2>7. \A o \in Op : /\ op'[o].status = "completed" => applied'[o] = 1
                      /\ lostAcks' = 0 /\ op'[o].status \in {"cancelled", "failed"} =>
                            applied'[o] = 0
    BY <1>2, <1>3, <2>1 DEF OutcomesMatch, NotEnded
  <2> QED
    BY <1>2, <2>1, <2>2, <2>4, <2>6, <2>7 DEF OutcomesMatch
<1> QED
  BY <1>4, <1>5, <1>7, <1>8, <1>9 DEF IInv

\* What a transaction that commits has done.
LEMMA CompleteFacts ==
  ASSUME TypeOK, NEW w \in Server, NEW o \in Op, NEW rows \in [Node -> Row], NEW plan \in Item,
         Complete(w, o, rows, plan)
  PROVE  /\ Write(w, rows) /\ node' \in [Node -> Row]
         /\ applied' = [applied EXCEPT ![o] = @ + 1]
         /\ DOMAIN changed' = Op /\ \A q \in Op : DOMAIN changed'[q] \subseteq Node
         /\ \E p \in Item :
              op' = Pruned([op EXCEPT ![o].status = "completed", ![o].plan = p])
<1> DEFINE c == [n \in {m \in Node : Place(rows[m]) # Place(node[m])} |->
                    <<Place(node[n]), Place(rows[n])>>]
<1>1. DOMAIN c \subseteq Node
  OBVIOUS
<1>2. changed' = [changed EXCEPT ![o] = c]
  BY DEF Complete
<1> HIDE DEF c
<1>3. DOMAIN changed' = Op /\ \A q \in Op : DOMAIN changed'[q] \subseteq Node
  BY <1>1, <1>2 DEF TypeOK
<1> QED
  BY <1>3 DEF Complete, Write

LEMMA ApplyFacts ==
  ASSUME IInv, NEW w \in Server, Apply(w)
  PROVE  LET o == running[w] IN
         /\ o \in Op /\ pc[w] = "begun" /\ w \notin interrupted /\ op[o].status = "running"
         /\ tx' = [tx EXCEPT ![w] = NoTx]
         /\ node' \in [Node -> Row]
         /\ \A q \in Proc \ {w} : \A n \in tx[q].locked : node'[n] = node[n]
         /\ applied' = [applied EXCEPT ![o] = @ + 1]
         /\ DOMAIN changed' = Op /\ \A q \in Op : DOMAIN changed'[q] \subseteq Node
         /\ stranded' = stranded
         /\ \E p \in Item :
              op' = Pruned([op EXCEPT ![o].status = "completed", ![o].plan = p])
<1> DEFINE o == running[w]
           t == tx[w]
<1>1. TypeOK /\ o \in Op /\ w \in Proc /\ t \in Transactions
      /\ pc[w] = "begun" /\ w \notin interrupted /\ op[o].status = "running"
      /\ tx' = [tx EXCEPT ![w] = NoTx]
  BY DEF IInv, TypeOK, TransactionsMatch, Apply, StillRunning, Rollback, Proc, NoOp
<1>2. /\ t.what \notin {"none", "create"} => t.id \in Node
      /\ t.what = "copy" => Live(t.id)
  BY <1>1 DEF IInv, TransactionsMatch
<1>3. node \in [Node -> Row] /\ NoItem \in Item
  BY <1>1, ConstantTypes DEF TypeOK
<1>4. PICK rows \in [Node -> Row], plan \in Item : Complete(w, o, rows, plan)
  <2>1. CASE Complete(w, o, node, NoItem)
    BY <1>3, <2>1
  <2>2. CASE t.what = "relocate" /\ Relocates(w, o, t)
    <3>1. PICK nm \in IF op[o].step = "do" THEN Names(o, t.id) ELSE {op[o].item.name} :
             Complete(w, o, Relocate(t.id, t.to, nm),
                      PlanOf(t.id, node, Relocate(t.id, t.to, nm), {t.id}))
      BY <2>2 DEF Relocates
    <3>2. op[o].item.name \in Name \cup {NoName} /\ node[t.id].name \in Name \cup {NoName}
      BY <1>1, <1>2, <2>2 DEF TypeOK, Operation, Item, Row
    <3>3. nm \in Name \cup {NoName}
      BY <3>1, <3>2 DEF Names
    <3>4. t.to \in Places /\ t.id \in Node
      BY <1>1, <1>2, <2>2 DEF Transactions
    <3>5. Relocate(t.id, t.to, nm) \in [Node -> Row]
      BY <1>1, <3>3, <3>4, RelocateType
    <3>6. PlanOf(t.id, node, Relocate(t.id, t.to, nm), {t.id}) \in Item
      BY <1>3, <3>4, <3>5, PlanType
    <3> QED
      BY <3>1, <3>5, <3>6
  <2>3. CASE t.what = "trash" /\ Trashes(w, o, t)
    <3>1. t.id \in Node /\ PutIntoTrash(t) \in [Node -> Row]
      BY <1>1, <1>2, <2>3, TrashType
    <3>2. \A ids : PlanOf(t.id, node, PutIntoTrash(t), ids) \in Item
      BY <1>3, <3>1, PlanType
    <3> QED
      BY <2>3, <3>1, <3>2 DEF Trashes
  <2>4. CASE t.what = "restore" /\ Restores(w, o, t)
    <3>1. t.id \in Node /\ Restore(t) \in [Node -> Row]
      BY <1>1, <1>2, <2>4, TrashType
    <3>2. \A ids : PlanOf(t.id, node, Restore(t), ids) \in Item
      BY <1>3, <3>1, PlanType
    <3> QED
      BY <2>4, <3>1, <3>2 DEF Restores
  <2>5. CASE t.what = "copy" /\ CopiesTree(w, o, t)
    <3> DEFINE from == ActiveSubtree(t.id)
    <3>1. t.id \in Node /\ Live(t.id)
      BY <1>2, <2>5
    <3>2. PICK S \in kSubset(Cardinality(from), Spare) :
             \E copyOf \in Bijection(S, from), nm \in Names(o, t.id) :
                Complete(w, o, Copies(t, copyOf, nm),
                         PlanOf(AntiFunction(copyOf)[t.id], Copies(t, copyOf, nm),
                                Copies(t, copyOf, nm), S))
      BY <2>5 DEF CopiesTree
    <3>3. PICK copyOf \in Bijection(S, from), nm \in Names(o, t.id) :
             Complete(w, o, Copies(t, copyOf, nm),
                      PlanOf(AntiFunction(copyOf)[t.id], Copies(t, copyOf, nm),
                             Copies(t, copyOf, nm), S))
      BY <3>2
    <3>4. S \in SUBSET Node
      BY <3>2 DEF kSubset, Spare
    <3>5. t.id \in from
      BY <3>1 DEF ActiveSubtree, Below
    <3>6. nm \in Name
      BY <3>3 DEF Names
    <3>7. Copies(t, copyOf, nm) \in [Node -> Row]
      BY <1>1, <3>1, <3>4, <3>6, CopiesType
    <3>8. AntiFunction(copyOf)[t.id] \in Node
      BY <3>4, <3>5, InverseOfBijection
    <3>9. PlanOf(AntiFunction(copyOf)[t.id], Copies(t, copyOf, nm),
                 Copies(t, copyOf, nm), S) \in Item
      BY <3>7, <3>8, PlanType
    <3> QED
      BY <3>3, <3>7, <3>9
  <2> QED
    BY <2>1, <2>2, <2>3, <2>4, <2>5 DEF Apply
<1> HIDE DEF o, t
<1>5. /\ Write(w, rows) /\ node' \in [Node -> Row]
      /\ applied' = [applied EXCEPT ![o] = @ + 1]
      /\ DOMAIN changed' = Op /\ \A q \in Op : DOMAIN changed'[q] \subseteq Node
      /\ \E p \in Item :
           op' = Pruned([op EXCEPT ![o].status = "completed", ![o].plan = p])
  BY <1>1, <1>4, CompleteFacts
<1>6. \A q \in Proc : tx[q].locked \subseteq Node
  BY <1>1 DEF TypeOK, Transactions
<1>7. \A q \in Proc \ {w} : \A n \in tx[q].locked : node'[n] = node[n]
  BY <1>1, <1>5, <1>6, LockedRowsStay
<1>8. stranded' = stranded
  BY DEF Apply
<1> QED
  BY <1>1, <1>5, <1>7, <1>8 DEF o

\* Steps that carry an operation out: the answer to the commit arrives, or
\* it is lost.
LEMMA ApplyKeeps ==
  ASSUME IInv, NEW w \in Server, Commit(w) \/ CommitUnacknowledged(w)
  PROVE  IInv'
<1> DEFINE o == running[w]
<1> USE DEF bounds
<1>1. /\ o \in Op /\ pc[w] = "begun" /\ w \notin interrupted /\ op[o].status = "running"
      /\ tx' = [tx EXCEPT ![w] = NoTx]
      /\ node' \in [Node -> Row]
      /\ \A q \in Proc \ {w} : \A n \in tx[q].locked : node'[n] = node[n]
      /\ applied' = [applied EXCEPT ![o] = @ + 1]
      /\ DOMAIN changed' = Op /\ \A q \in Op : DOMAIN changed'[q] \subseteq Node
      /\ stranded' = stranded
      /\ \E p \in Item :
           op' = Pruned([op EXCEPT ![o].status = "completed", ![o].plan = p])
  BY ApplyFacts DEF Commit, CommitUnacknowledged
<1>2. TypeOK /\ w \in Proc /\ o # NoOp
  BY <1>1, Bounds DEF IInv, Proc, NoOp
<1>3. /\ calls' = calls /\ requests' = requests /\ crashes' = crashes /\ errors' = errors
      /\ \/ Leave(w) /\ lostAcks' = lostAcks
         \/ /\ Goto(w, "fail") \/ Leave(w)
            /\ lostAcks < MaxLostAcks /\ lostAcks' = lostAcks + 1
  BY DEF Commit, CommitUnacknowledged
<1>4. /\ op' \in [Op -> Operation] /\ Matching(op')
      /\ \A q \in Op : \/ op'[q].status = IF q = o THEN "completed" ELSE op[q].status
                       \/ /\ q = o \/ op[q].status \in Terminal
                          /\ op'[q].status = "gone"
  <2>1. PICK p \in Item :
           op' = Pruned([op EXCEPT ![o].status = "completed", ![o].plan = p])
    BY <1>1
  <2> DEFINE rows == [op EXCEPT ![o].status = "completed", ![o].plan = p]
  <2>2. /\ rows \in [Op -> Operation]
        /\ \A q \in Op : /\ rows[q].of = op[q].of /\ rows[q].by = op[q].by
                         /\ rows[q].status = IF q = o THEN "completed" ELSE op[q].status
    <3>1. op \in [Op -> Operation] /\ op[o] \in Operation
      BY <1>1, <1>2 DEF TypeOK
    <3>2. [op[o] EXCEPT !.status = "completed", !.plan = p] \in Operation
      BY <3>1 DEF Operation, Status, Terminal
    <3>3. rows = [op EXCEPT ![o] = [op[o] EXCEPT !.status = "completed", !.plan = p]]
      BY <3>1
    <3> QED
      BY <3>1, <3>2, <3>3 DEF Operation
  <2> HIDE DEF rows
  <2>3. op \in [Op -> Operation] /\ Matching(op)
    BY <1>2 DEF TypeOK, IInv, ReservationsMatch, Matching
  <2>4. \A q \in Op : \/ rows[q].status = op[q].status
                      \/ /\ rows[q].status \notin {"cancelled", "failed", "gone"}
                         /\ op[q].status \notin {"cancelled", "failed", "gone"}
    BY <1>1, <2>2
  <2>5. Matching(rows)
    BY <2>2, <2>3, <2>4, SameStatusMatching
  <2>6. op' = Pruned(rows)
    BY <2>1 DEF rows
  <2>7. Gone.status = "gone"
    BY DEF Gone, Unused
  <2>8. /\ op' \in [Op -> Operation]
        /\ \A q \in Op : op'[q] = rows[q] \/ (rows[q].status \in Terminal /\ op'[q] = Gone)
    BY <2>2, <2>6, PrunedRows
  <2>9. Matching(Pruned(rows))
    BY <2>2, <2>5, PrunedMatching
  <2>10. Matching(op')
    BY <2>6, <2>9
  <2>11. \A q \in Op : \/ op'[q].status = IF q = o THEN "completed" ELSE op[q].status
                       \/ /\ q = o \/ op[q].status \in Terminal
                          /\ op'[q].status = "gone"
    BY <2>2, <2>7, <2>8
  <2> QED
    BY <2>8, <2>10, <2>11
<1> HIDE DEF o
<1>5. TypeOK'
  <2>1. applied' \in [Op -> Nat] /\ tx' \in [Proc -> Transactions]
    BY <1>1, <1>2, ConstantTypes DEF TypeOK
  <2>2. lostAcks' \in 0..MaxLostAcks
    BY <1>2, <1>3, Bounds DEF TypeOK
  <2>3. /\ pc' \in [Server -> {"down", "idle", "claimed", "found", "begun", "cancel", "fail"}]
        /\ running' \in [Server -> Op \cup {NoOp}] /\ interrupted' \subseteq Server
    <3>1. CASE Leave(w)
      BY <1>2, <3>1 DEF TypeOK, Leave
    <3>2. CASE Goto(w, "fail")
      BY <1>2, <3>2 DEF TypeOK, Goto
    <3> QED
      BY <1>3, <3>1, <3>2
  <2> QED
    BY <1>1, <1>2, <1>3, <1>4, <2>1, <2>2, <2>3 DEF TypeOK
<1>6. TransactionsMatch'
  <2>1. running[w] # NoOp
    BY <1>2 DEF o
  <2> QED
    BY <1>1, <1>3, <2>1, RollbackTransactions DEF Leave, Goto
<1>7. CancelledOps \subseteq CancelledOps'
  BY <1>1, <1>4 DEF CancelledOps, Terminal
<1>8. CancelsMatch'
  BY <1>1, <1>2, <1>3, <1>7 DEF IInv, TypeOK, CancelsMatch, Leave, Goto
<1>9. ReservationsMatch'
  BY <1>4 DEF ReservationsMatch, Matching
<1>10. ASSUME SoleServer  PROVE OutcomesMatch'
  <2>1. OutcomesMatch /\ \A v \in Server : v = w
    BY <1>10 DEF IInv, SoleServer
  <2>2. interrupted' = {}
    BY <1>1, <1>2, <1>3, <2>1 DEF TypeOK, Leave, Goto
  <2>3. \A q \in Op : op'[q].status = "running" => q \in stranded
    <3>1. \A q \in Op : op[q].status = "running" => q = o \/ q \in stranded
      BY <1>1, <2>1 DEF OutcomesMatch, WorkersMatch, o
    <3> QED
      BY <1>4, <3>1
  <2>4. WorkersMatch'
    <3>1. errors' = 0 => stranded' = {}
      BY <1>1, <1>3, <2>1 DEF OutcomesMatch, WorkersMatch
    <3> QED
      BY <1>1, <2>1, <2>2, <2>3, <3>1 DEF WorkersMatch
  <2>5. applied[o] = 0 /\ applied'[o] = 1 /\ \A q \in Op \ {o} : applied'[q] = applied[q]
    BY <1>1, <1>2, <2>1 DEF OutcomesMatch, NotEnded, TypeOK
  <2>6. NotEnded' \subseteq NotEnded \ {o} /\ o \notin calls /\ calls \subseteq Op
    BY <1>1, <1>2, <1>4 DEF NotEnded, Terminal, IInv, CancelsMatch, CancelledOps, TypeOK
  <2>7. \A q \in NotEnded' \cup calls' : applied'[q] = 0
    BY <1>3, <2>1, <2>5, <2>6 DEF OutcomesMatch, NotEnded
  <2>8. \A q \in Op : op'[q].status = "completed" => applied'[q] = 1
    BY <1>4, <2>1, <2>5 DEF OutcomesMatch
  <2>9. \A q \in Op : lostAcks' = 0 /\ op'[q].status \in {"cancelled", "failed"} => applied'[q] = 0
    BY <1>2, <1>3, <1>4, <2>1, <2>5 DEF OutcomesMatch, TypeOK
  <2>10. running'[w] # NoOp =>
            /\ pc'[w] = "fail" /\ running'[w] = o /\ lostAcks' > 0
            /\ op'[o].status \in {"completed", "gone"}
    <3>1. op'[o].status \in {"completed", "gone"}
      BY <1>1, <1>4
    <3>2. CASE Leave(w)
      BY <1>2, <3>2 DEF TypeOK, Leave
    <3>3. CASE Goto(w, "fail") /\ lostAcks < MaxLostAcks /\ lostAcks' = lostAcks + 1
      <4>1. pc'[w] = "fail" /\ running'[w] = o
        BY <1>2, <3>3 DEF TypeOK, Goto, o
      <4>2. lostAcks' > 0
        BY <1>2, <3>3, Bounds DEF TypeOK
      <4> QED
        BY <3>1, <4>1, <4>2
    <3> QED
      BY <1>3, <3>2, <3>3
  <2>11. \A v \in Server :
            LET q == running'[v] IN
            q # NoOp => \/ op'[q].status \in {"running", "cancelling"}
                        \/ /\ pc'[v] = "fail" /\ applied'[q] = 1 /\ lostAcks' > 0
                           /\ op'[q].status \in {"completed", "gone"}
    <3> SUFFICES ASSUME running'[w] # NoOp
                 PROVE  /\ pc'[w] = "fail" /\ applied'[running'[w]] = 1 /\ lostAcks' > 0
                        /\ op'[running'[w]].status \in {"completed", "gone"}
      BY <2>1
    <3> QED
      BY <2>5, <2>10
  <2>12. ASSUME NEW q \in stranded
         PROVE  q \in Unfinished' /\ running'[w] # q
    <3>1. /\ q \in Op \ {o} /\ q # NoOp /\ op[q].status \in {"running", "cancelling"}
      BY <2>1, Bounds DEF OutcomesMatch, Unfinished, o, NoOp
    <3>2. op'[q].status = op[q].status
      BY <1>4, <3>1 DEF Terminal
    <3>3. running'[w] \in {o, NoOp}
      BY <1>2, <1>3 DEF TypeOK, Leave, Goto, o
    <3> QED
      BY <3>1, <3>2, <3>3 DEF Unfinished
  <2> QED
    BY <1>1, <2>1, <2>4, <2>7, <2>8, <2>9, <2>11, <2>12 DEF OutcomesMatch
<1> QED
  BY <1>5, <1>6, <1>8, <1>9, <1>10 DEF IInv

----------------------------------------------------------------------------
LEMMA NextKeeps ==
  IInv /\ [Next]_vars => IInv'
<1> SUFFICES ASSUME IInv, [Next]_vars  PROVE IInv'
  OBVIOUS
<1>1. ASSUME NEW u \in User, UserRequest(u) \/ CommitRequest(u) \/ Refuse(u)
      PROVE  IInv'
  BY <1>1, RequestKeeps, CommitRequestKeeps, RefuseKeeps
<1>2. CASE QueueRequest
  BY <1>2, SubmitKeeps, RevertKeeps, CancelKeeps, ClearHistoryKeeps DEF QueueRequest
<1>3. ASSUME NEW w \in Server, Work(w)
      PROVE  IInv'
  BY <1>3, ClaimKeeps, BeginKeeps, LockTreeKeeps, ApplyKeeps, ErrorKeeps,
     CancelRunningKeeps, FailOperationKeeps DEF Work
<1>6. ASSUME NEW w \in Server, WorkLost(w)
      PROVE  IInv'
  BY <1>6, ClaimUnacknowledgedKeeps, ApplyKeeps, LossKeeps, StartUnrecoveredKeeps DEF WorkLost
<1>4. ASSUME NEW w \in Server, Stop(w) \/ Start(w) \/ \E o \in Op : Interrupt(o, w)
      PROVE  IInv'
  BY <1>4, StopKeeps, StartKeeps, InterruptKeeps
<1>5. CASE UNCHANGED vars
  <2> USE <1>5 DEF vars, worker, history, bounds
  <2>1. TypeOK' /\ CancelsMatch' /\ ReservationsMatch'
    BY DEF IInv, TypeOK, CancelsMatch, CancelledOps, ReservationsMatch
  <2>2. TransactionsMatch'
    BY DEF IInv, TransactionsMatch, Live, LiveIn, Exists
  <2>3. SoleServer => OutcomesMatch'
    BY DEF IInv, OutcomesMatch, WorkersMatch, NotEnded, Unfinished
  <2> QED
    BY <2>1, <2>2, <2>3 DEF IInv
<1> QED
  BY <1>1, <1>2, <1>3, <1>4, <1>5, <1>6 DEF Next

(* What holds after every step, whatever the user asks for and whichever   *)
(* server stops: rows of their types, transactions that belong to workers  *)
(* and what they lock, reservations, and with one server outcomes          *)
(* (runFileOperationWorker, executeFileOperation).                         *)
THEOREM InvariantHolds ==
  Spec => []IInv
<1>1. Init => IInv
  BY InitEstablishes
<1>2. IInv /\ [Next]_vars => IInv'
  BY NextKeeps
<1> QED
  BY <1>1, <1>2, PTL DEF Spec

(* With any number of servers, an operation is reserved by the undo or     *)
(* redo that is queued, under way or done and by no other, and what is     *)
(* cancelled or fails gives its reservation back                           *)
(* (releaseFileOperationLineageReservationTx).                             *)
THEOREM ReservationsAreReleased ==
  Spec => []ReservationsMatch
<1>1. IInv => ReservationsMatch
  BY DEF IInv
<1> QED
  BY <1>1, InvariantHolds, PTL

(* With one server, a running operation is carried out by the worker or    *)
(* will be queued again at the next start, unless one of the errors that   *)
(* the server only logs has left it without a worker; and only a worker    *)
(* whose operation is being cancelled is interrupted                       *)
(* (recoverFileOperations, processNextFileOperation).                      *)
THEOREM RunningHasWorker ==
  SoleServer => (Spec => []WorkersMatch)
<1> SUFFICES ASSUME SoleServer  PROVE Spec => []WorkersMatch
  OBVIOUS
<1>1. IInv => WorkersMatch
  BY DEF IInv, OutcomesMatch
<1> QED
  BY <1>1, InvariantHolds, PTL

(* With one server, an operation is reported as completed exactly if its   *)
(* effect on the tree has taken place, and that once, as long as no answer *)
(* to a commit is lost, whatever is cancelled, fails, stops or starts      *)
(* meanwhile (completeFileOperationTx, failFileOperation).                 *)
THEOREM OutcomeTellsEffect ==
  SoleServer => (Spec => []OutcomeIsEffect)
<1> SUFFICES ASSUME SoleServer  PROVE Spec => []OutcomeIsEffect
  OBVIOUS
<1>1. ASSUME IInv  PROVE OutcomeIsEffect
  <2> SUFFICES ASSUME lostAcks = 0, NEW o \in Op, op[o].status # "gone"
               PROVE  applied[o] = IF op[o].status = "completed" THEN 1 ELSE 0
    BY DEF OutcomeIsEffect, OutcomeIsEffectAlways
  <2>1. op[o].status \in Status
    BY <1>1 DEF IInv, TypeOK, Operation
  <2> QED
    BY <1>1, <2>1 DEF IInv, OutcomesMatch, NotEnded, Status, Terminal
<1> QED
  BY <1>1, InvariantHolds, PTL
=============================================================================
