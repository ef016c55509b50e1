------------------------- MODULE TransferManagerProofs -------------------------
(***************************************************************************)
(* Proofs about the transfer manager: type correctness, that the first     *)
(* outcome of a task stands, that a Clear that has returned left no        *)
(* callback running and no I/O uncancelled, and that the history is within *)
(* its limit, for any number of tasks and of Clear calls that overlap.     *)
(***************************************************************************)
EXTENDS TransferManager, FiniteSetTheorems, WellFoundedInduction, TLAPS

(* A trim removes tasks of roots none of whose tasks is busy.              *)
LEMMA TrimKeeps ==
    ASSUME NEW left \in SUBSET Transfer, Trim(left)
    PROVE  /\ entries' \subseteq left
           /\ \A t \in left : state'[t] \in Active \/ pending'[t] => t \in entries'
<1>1. PICK es \in {left} : entries' = {t \in es : Root(t)' \notin Surplus(es)'}
  BY DEF Trim
<1>2. es = left
  BY <1>1
<1>3. ASSUME NEW t \in left, t \notin entries'
      PROVE  ~(state'[t] \in Active \/ pending'[t])
  <2>1. Root(t)' \in Surplus(es)'
    BY <1>1, <1>2, <1>3
  <2>2. Root(t)' \in Removable(es)'
    BY <2>1 DEF Surplus
  <2>. QED
    BY <2>2, <1>2 DEF Removable, Busy
<1>. QED
  BY <1>1, <1>2, <1>3

(* What the critical section of a Finish does.                             *)
LEMMA FinishEffect ==
    ASSUME TypeOK, NEW t \in Transfer, NEW s \in Terminal, Finish(t, s)
    PROVE  /\ UNCHANGED <<ids, attached, fired, cancels, clears>>
           /\ entries' \subseteq entries
           /\ \A u \in entries : state'[u] \in Active \/ pending'[u] => u \in entries'
           /\ \/ UNCHANGED <<tasks, finishes>>
              \/ /\ Accepts(t, s)
                 /\ state' = [state EXCEPT ![t] = s]
                 /\ bound' = [bound EXCEPT ![t] = (kind[t] = "group" /\ bound[t]) \/ pending[t]]
                 /\ pending' = [pending EXCEPT ![t] = (kind[t] = "group" /\ bound[t]) \/ @]
                 /\ finishes' = IF kind[t] = "group" /\ bound[t] THEN finishes \cup {t} ELSE finishes
<1>1. entries \in SUBSET Transfer
  BY DEF TypeOK
<1>2. CASE Accepts(t, s)
  <2>1. Trim(entries)
    BY <1>2 DEF Finish
  <2>2. /\ entries' \subseteq entries
        /\ \A u \in entries : state'[u] \in Active \/ pending'[u] => u \in entries'
    BY <1>1, <2>1, TrimKeeps
  <2>. QED
    BY <1>2, <2>2 DEF Finish
<1>3. CASE ~Accepts(t, s)
  BY <1>3 DEF Finish, tasks
<1>. QED
  BY <1>2, <1>3

(* What starting n tasks does.                                             *)
LEMMA AddEffect ==
    ASSUME TypeOK, NEW n \in Nat, NEW k, NEW p, NEW s \in Active, Add(n, k, p, s)
    PROVE  /\ nextID' = nextID + n
           /\ nextID' \in 1..(MaxTransfers + 1)
           /\ Fresh(n) \subseteq Transfer
           /\ \A t \in Fresh(n) : t >= nextID /\ t < nextID' /\ t \in entries'
           /\ \A t \in Transfer : t \in Fresh(n) \/ t < nextID \/ t >= nextID'
           /\ kind' = [t \in Transfer |-> IF t \in Fresh(n) THEN k ELSE kind[t]]
           /\ parent' = [t \in Transfer |-> IF t \in Fresh(n) THEN p ELSE parent[t]]
           /\ state' = [t \in Transfer |-> IF t \in Fresh(n) THEN s ELSE state[t]]
           /\ UNCHANGED <<bound, pending, attached, fired, calls, clears, retries>>
           /\ entries' \subseteq entries \cup Fresh(n)
           /\ \A u \in entries : state'[u] \in Active \/ pending'[u] => u \in entries'
<1>1. nextID \in 1..(MaxTransfers + 1) /\ MaxTransfers \in Nat /\ entries \in SUBSET Transfer
  BY ConstantsAssumption DEF TypeOK
<1>2. /\ Fresh(n) \subseteq Transfer
      /\ nextID + n \in 1..(MaxTransfers + 1)
      /\ \A t \in Fresh(n) : t >= nextID /\ t < nextID + n
      /\ \A t \in Transfer : t \in Fresh(n) \/ t < nextID \/ t >= nextID + n
  BY <1>1 DEF Add, Fresh, Room, Transfer
<1>3. entries \cup Fresh(n) \in SUBSET Transfer
  BY <1>1, <1>2
<1>4. Trim(entries \cup Fresh(n))
  BY DEF Add
<1>5. /\ entries' \subseteq entries \cup Fresh(n)
      /\ \A u \in entries \cup Fresh(n) : state'[u] \in Active \/ pending'[u] => u \in entries'
  BY <1>3, <1>4, TrimKeeps
<1>6. \A u \in Fresh(n) : state'[u] = s
  BY <1>2 DEF Add
<1>. QED
  BY <1>2, <1>5, <1>6 DEF Add

-------------------------------------------------------------------------------
(* Every step keeps what is local to a task.                               *)
LEMMA BindLocal ==
    ASSUME LocalInv, NEW t \in Transfer, Bind(t)
    PROVE  LocalInv'
<1>. USE DEF Bind, ids, tasks, calls, clears, WorkerAt
<1>0. /\ kind[t] \in {"direct", "folder", "group"}
      /\ t \notin attached
      /\ worker'[t] = "io" => kind[t] = "direct"
      /\ worker'[t] = "scanning" => kind[t] = "folder"
      /\ worker'[t] = "driven" => kind[t] = "group"
      /\ worker'[t] \in {"io", "scanning", "driven"}
      /\ \A u \in Transfer : u # t => worker'[u] = worker[u]
      /\ worker' \in [Transfer -> {"io", "scanning", "driven"} \cup Worker]
  BY DEF LocalInv, TypeOK, Family, Binding
<1>1. TypeOK'
  BY <1>0 DEF LocalInv, TypeOK, Active, Worker, MayBind, MayAdd, Family
<1>2. ASSUME NEW u \in Transfer
      PROVE  (u >= nextID => Unused(u))'
  BY <1>0 DEF LocalInv, TypeOK, Unused, MayBind, MayAdd
<1>3. ASSUME NEW u \in Transfer
      PROVE  Family(u)'
  BY <1>0 DEF LocalInv, TypeOK, Family, Transfer, NoParent
<1>4. ASSUME NEW u \in Transfer
      PROVE  Binding(u)'
  BY <1>0 DEF LocalInv, TypeOK, Family, Binding, Busy, Called, Alive, Active, Terminal, MayBind, MayAdd
<1>. QED
  BY <1>1, <1>2, <1>3, <1>4 DEF LocalInv

LEMMA BindRefusedLocal ==
    ASSUME LocalInv, NEW t \in Transfer, BindRefused(t)
    PROVE  LocalInv'
<1>. USE DEF BindRefused, ids, tasks, calls, clears, WorkerAt
<1>0. /\ kind[t] \in {"direct", "folder", "group"}
      /\ t \notin attached
      /\ worker'[t] = "io" => kind[t] = "direct"
      /\ worker'[t] = "scanning" => kind[t] = "folder"
      /\ worker'[t] = "ended" => kind[t] = "group"
      /\ worker'[t] \in {"io", "scanning", "ended"}
      /\ \A u \in Transfer : u # t => worker'[u] = worker[u]
      /\ worker' \in [Transfer -> {"io", "scanning", "ended"} \cup Worker]
  BY DEF LocalInv, TypeOK, Family, Binding
<1>1. TypeOK'
  BY <1>0 DEF LocalInv, TypeOK, Active, Worker, MayBind, MayAdd, Family, Binding
<1>2. ASSUME NEW u \in Transfer
      PROVE  (u >= nextID => Unused(u))'
  BY <1>0 DEF LocalInv, TypeOK, Unused, MayBind, MayAdd
<1>3. ASSUME NEW u \in Transfer
      PROVE  Family(u)'
  <2>1. Family(u) /\ Family(t) /\ parent[u] \in Transfer \cup {NoParent}
    BY DEF LocalInv, TypeOK
  <2>2. UNCHANGED <<kind, parent, before>>
    OBVIOUS
  <2>3. kind[u] = "file" /\ worker'[u] = "io" =>
          worker[u] = "io" /\ worker'[parent[u]] = worker[parent[u]]
    BY <1>0, <2>1 DEF Family
  <2>4. worker'[u] = worker[u] \/ u = t
    BY <1>0
  <2>. QED
    BY <1>0, <2>1, <2>2, <2>3, <2>4 DEF Family
<1>4. ASSUME NEW u \in Transfer
      PROVE  Binding(u)'
  BY <1>0 DEF LocalInv, TypeOK, Family, Binding, Busy, Called, Alive, Active, Terminal, MayBind, MayAdd
<1>. QED
  BY <1>1, <1>2, <1>3, <1>4 DEF LocalInv

LEMMA IOEndsLocal ==
    ASSUME LocalInv, NEW t \in Transfer, IOEnds(t)
    PROVE  LocalInv'
<1>. USE DEF IOEnds, ids, tasks, calls, clears, WorkerAt
<1>1. TypeOK'
  BY DEF LocalInv, TypeOK, Active, Worker, MayBind, MayAdd
<1>2. ASSUME NEW u \in Transfer
      PROVE  (u >= nextID => Unused(u))'
  BY DEF LocalInv, TypeOK, Unused, MayBind, MayAdd
<1>3. ASSUME NEW u \in Transfer
      PROVE  Family(u)'
  BY DEF LocalInv, TypeOK, Family, Transfer, NoParent
<1>4. ASSUME NEW u \in Transfer
      PROVE  Binding(u)'
  BY DEF LocalInv, TypeOK, Family, Binding, Busy, Called, Alive, Active, Terminal, MayBind, MayAdd
<1>. QED
  BY <1>1, <1>2, <1>3, <1>4 DEF LocalInv

LEMMA RetryLocal ==
    ASSUME LocalInv, NEW t \in Transfer, Retry(t)
    PROVE  LocalInv'
<1>. USE DEF Retry, ids, tasks, calls, clears, WorkerAt
<1>1. TypeOK'
  BY ConstantsAssumption DEF LocalInv, TypeOK, Active, Worker, MayBind, MayAdd
<1>2. ASSUME NEW u \in Transfer
      PROVE  (u >= nextID => Unused(u))'
  BY DEF LocalInv, TypeOK, Unused, MayBind, MayAdd
<1>3. ASSUME NEW u \in Transfer
      PROVE  Family(u)'
  BY DEF LocalInv, TypeOK, Family, Transfer, NoParent
<1>4. ASSUME NEW u \in Transfer
      PROVE  Binding(u)'
  BY DEF LocalInv, TypeOK, Family, Binding, Busy, Called, Alive, Active, Terminal, MayBind, MayAdd
<1>. QED
  BY <1>1, <1>2, <1>3, <1>4 DEF LocalInv

LEMMA ScanEndsLocal ==
    ASSUME LocalInv, NEW t \in Transfer, ScanEnds(t)
    PROVE  LocalInv'
<1>. USE DEF ScanEnds, ids, tasks, calls, clears, WorkerAt
<1>1. TypeOK'
  BY DEF LocalInv, TypeOK, Active, Worker, MayBind, MayAdd
<1>2. ASSUME NEW u \in Transfer
      PROVE  (u >= nextID => Unused(u))'
  BY DEF LocalInv, TypeOK, Unused, MayBind, MayAdd
<1>3. ASSUME NEW u \in Transfer
      PROVE  Family(u)'
  BY DEF LocalInv, TypeOK, Family, Transfer, NoParent
<1>4. ASSUME NEW u \in Transfer
      PROVE  Binding(u)'
  BY DEF LocalInv, TypeOK, Family, Binding, Busy, Called, Alive, Active, Terminal, MayBind, MayAdd
<1>. QED
  BY <1>1, <1>2, <1>3, <1>4 DEF LocalInv

LEMMA FolderStopsLocal ==
    ASSUME LocalInv, NEW t \in Transfer, FolderStops(t)
    PROVE  LocalInv'
<1>. USE DEF FolderStops, ids, tasks, calls, clears, WorkerAt, InIO, Children
<1>1. TypeOK'
  BY DEF LocalInv, TypeOK, Active, Worker, MayBind, MayAdd
<1>2. ASSUME NEW u \in Transfer
      PROVE  (u >= nextID => Unused(u))'
  BY DEF LocalInv, TypeOK, Unused, MayBind, MayAdd
<1>3. ASSUME NEW u \in Transfer
      PROVE  Family(u)'
  BY DEF LocalInv, TypeOK, Family, Transfer, NoParent
<1>4. ASSUME NEW u \in Transfer
      PROVE  Binding(u)'
  BY DEF LocalInv, TypeOK, Family, Binding, Busy, Called, Alive, Active, Terminal, MayBind, MayAdd
<1>. QED
  BY <1>1, <1>2, <1>3, <1>4 DEF LocalInv

LEMMA ChildBeginsLocal ==
    ASSUME LocalInv, NEW t \in Transfer, ChildBegins(t)
    PROVE  LocalInv'
<1>. USE DEF ChildBegins, ids, tasks, calls, clears, WorkerAt, Begun
<1>1. TypeOK'
  BY DEF LocalInv, TypeOK, Active, Worker, MayBind, MayAdd
<1>2. ASSUME NEW u \in Transfer
      PROVE  (u >= nextID => Unused(u))'
  BY DEF LocalInv, TypeOK, Unused, MayBind, MayAdd
<1>3. ASSUME NEW u \in Transfer
      PROVE  Family(u)'
  BY DEF LocalInv, TypeOK, Family, Transfer, NoParent
<1>4. ASSUME NEW u \in Transfer
      PROVE  Binding(u)'
  BY DEF LocalInv, TypeOK, Family, Binding, Busy, Called, Alive, Active, Terminal, MayBind, MayAdd
<1>. QED
  BY <1>1, <1>2, <1>3, <1>4 DEF LocalInv

LEMMA ChildAdmittedLocal ==
    ASSUME LocalInv, NEW t \in Transfer, ChildAdmitted(t)
    PROVE  LocalInv'
<1>. USE DEF ChildAdmitted, ids, tasks, calls, clears, WorkerAt, MayAdd
<1>1. TypeOK'
  BY DEF LocalInv, TypeOK, Active, Worker, MayBind, MayAdd
<1>2. ASSUME NEW u \in Transfer
      PROVE  (u >= nextID => Unused(u))'
  BY DEF LocalInv, TypeOK, Unused, MayBind, MayAdd
<1>3. ASSUME NEW u \in Transfer
      PROVE  Family(u)'
  BY DEF LocalInv, TypeOK, Family, Transfer, NoParent
<1>4. ASSUME NEW u \in Transfer
      PROVE  Binding(u)'
  BY DEF LocalInv, TypeOK, Family, Binding, Busy, Called, Alive, Active, Terminal, MayBind, MayAdd
<1>. QED
  BY <1>1, <1>2, <1>3, <1>4 DEF LocalInv

LEMMA ChildUploadsLocal ==
    ASSUME LocalInv, NEW t \in Transfer, ChildUploads(t)
    PROVE  LocalInv'
<1>. USE DEF ChildUploads, ids, tasks, calls, clears, WorkerAt
<1>0. /\ kind[t] = "child"
      /\ worker'[t] \in {"io", "ended"}
      /\ \A u \in Transfer : u # t => worker'[u] = worker[u]
  BY DEF LocalInv, TypeOK, Family
<1>1. TypeOK'
  BY <1>0 DEF LocalInv, TypeOK, Active, Worker, MayBind, MayAdd
<1>2. ASSUME NEW u \in Transfer
      PROVE  (u >= nextID => Unused(u))'
  BY <1>0 DEF LocalInv, TypeOK, Unused, MayBind, MayAdd
<1>3. ASSUME NEW u \in Transfer
      PROVE  Family(u)'
  BY <1>0 DEF LocalInv, TypeOK, Family, Transfer, NoParent
<1>4. ASSUME NEW u \in Transfer
      PROVE  Binding(u)'
  BY <1>0 DEF LocalInv, TypeOK, Family, Binding, Busy, Called, Alive, Active, Terminal, MayBind, MayAdd
<1>. QED
  BY <1>1, <1>2, <1>3, <1>4 DEF LocalInv

LEMMA ChildIOEndsLocal ==
    ASSUME LocalInv, NEW t \in Transfer, ChildIOEnds(t)
    PROVE  LocalInv'
<1>. USE DEF ChildIOEnds, ids, tasks, calls, clears, WorkerAt
<1>1. TypeOK'
  BY DEF LocalInv, TypeOK, Active, Worker, MayBind, MayAdd
<1>2. ASSUME NEW u \in Transfer
      PROVE  (u >= nextID => Unused(u))'
  BY DEF LocalInv, TypeOK, Unused, MayBind, MayAdd
<1>3. ASSUME NEW u \in Transfer
      PROVE  Family(u)'
  BY DEF LocalInv, TypeOK, Family, Transfer, NoParent
<1>4. ASSUME NEW u \in Transfer
      PROVE  Binding(u)'
  BY DEF LocalInv, TypeOK, Family, Binding, Busy, Called, Alive, Active, Terminal, MayBind, MayAdd
<1>. QED
  BY <1>1, <1>2, <1>3, <1>4 DEF LocalInv

LEMMA CancelLocal ==
    ASSUME LocalInv, NEW t \in Transfer, Cancel(t)
    PROVE  LocalInv'
<1>. USE DEF Cancel, ids, tasks, calls, clears, WorkerAt
<1>1. TypeOK'
  BY DEF LocalInv, TypeOK, Active, Worker, MayBind, MayAdd
<1>2. ASSUME NEW u \in Transfer
      PROVE  (u >= nextID => Unused(u))'
  BY DEF LocalInv, TypeOK, Unused, MayBind, MayAdd
<1>3. ASSUME NEW u \in Transfer
      PROVE  Family(u)'
  BY DEF LocalInv, TypeOK, Family, Transfer, NoParent
<1>4. ASSUME NEW u \in Transfer
      PROVE  Binding(u)'
  BY DEF LocalInv, TypeOK, Family, Binding, Busy, Called, Alive, Active, Terminal, MayBind, MayAdd
<1>. QED
  BY <1>1, <1>2, <1>3, <1>4 DEF LocalInv

LEMMA CallbackStartsLocal ==
    ASSUME LocalInv, NEW t \in Transfer, CallbackStarts(t)
    PROVE  LocalInv'
<1>. USE DEF CallbackStarts, ids, tasks, calls, clears, WorkerAt
<1>1. TypeOK'
  BY DEF LocalInv, TypeOK, Active, Worker, MayBind, MayAdd
<1>2. ASSUME NEW u \in Transfer
      PROVE  (u >= nextID => Unused(u))'
  BY DEF LocalInv, TypeOK, Unused, MayBind, MayAdd
<1>3. ASSUME NEW u \in Transfer
      PROVE  Family(u)'
  BY DEF LocalInv, TypeOK, Family, Transfer, NoParent
<1>4. ASSUME NEW u \in Transfer
      PROVE  Binding(u)'
  BY DEF LocalInv, TypeOK, Family, Binding, Busy, Called, Alive, Active, Terminal, MayBind, MayAdd
<1>. QED
  BY <1>1, <1>2, <1>3, <1>4 DEF LocalInv

LEMMA CallbackEndsLocal ==
    ASSUME LocalInv, NEW t \in Transfer, CallbackEnds(t)
    PROVE  LocalInv'
<1>. USE DEF CallbackEnds, ids, tasks, calls, clears, WorkerAt
<1>1. TypeOK'
  BY DEF LocalInv, TypeOK, Active, Worker, MayBind, MayAdd
<1>2. ASSUME NEW u \in Transfer
      PROVE  (u >= nextID => Unused(u))'
  BY DEF LocalInv, TypeOK, Unused, MayBind, MayAdd
<1>3. ASSUME NEW u \in Transfer
      PROVE  Family(u)'
  BY DEF LocalInv, TypeOK, Family, Transfer, NoParent
<1>4. ASSUME NEW u \in Transfer
      PROVE  Binding(u)'
  BY DEF LocalInv, TypeOK, Family, Binding, Busy, Called, Alive, Active, Terminal, MayBind, MayAdd
<1>. QED
  BY <1>1, <1>2, <1>3, <1>4 DEF LocalInv

(* A Finish of t, in a step in which workers end or close.                 *)
LEMMA FinishLocal ==
    ASSUME LocalInv, NEW t \in Transfer, NEW s \in Terminal, Finish(t, s),
           t < nextID,
           UNCHANGED retries,
           worker' \in [Transfer -> Worker],
           \A u \in Transfer : worker'[u] # worker[u] =>
               /\ worker'[u] \in {"ended", "completed", "failed", "cancelled", "closing"}
               /\ worker'[u] = "closing" => worker[u] = "files"
               /\ u < nextID,
           \A u \in Transfer : kind[u] = "file" /\ worker'[u] = "io" =>
               worker'[parent[u]] \in {"files", "closing"},
           kind[t] \in {"direct", "folder"} => ~Alive(t)' /\ worker'[t] # "starting"
    PROVE  LocalInv'
<1>. USE DEF ids, tasks, calls, clears
<1>0. TypeOK
  BY DEF LocalInv
<1>1. /\ UNCHANGED <<ids, attached, fired, cancels, clears>>
      /\ entries' \subseteq entries
      /\ \/ UNCHANGED <<state, bound, pending, finishes>>
         \/ /\ Accepts(t, s)
            /\ state' = [state EXCEPT ![t] = s]
            /\ bound' = [bound EXCEPT ![t] = (kind[t] = "group" /\ bound[t]) \/ pending[t]]
            /\ pending' = [pending EXCEPT ![t] = (kind[t] = "group" /\ bound[t]) \/ @]
            /\ finishes' = IF kind[t] = "group" /\ bound[t] THEN finishes \cup {t} ELSE finishes
  BY <1>0, FinishEffect
<1>2. TypeOK'
  <2>1. CASE UNCHANGED <<state, bound, pending, finishes>>
    BY <2>1, <1>1, <1>0 DEF TypeOK
  <2>2. CASE ~UNCHANGED <<state, bound, pending, finishes>>
    BY <2>2, <1>1, <1>0 DEF TypeOK
  <2>. QED
    BY <2>1, <2>2
<1>3. ASSUME NEW u \in Transfer
      PROVE  (u >= nextID => Unused(u))'
  <2>1. u >= nextID => u # t /\ worker'[u] = worker[u]
    BY <1>0 DEF TypeOK, Transfer
  <2>2. u >= nextID => finishes' \subseteq finishes \cup {t} /\ bound'[u] = bound[u] /\ pending'[u] = pending[u]
    BY <1>0, <1>1, <2>1 DEF TypeOK
  <2>. QED
    BY <1>1, <2>1, <2>2 DEF LocalInv, Unused
<1>4. ASSUME NEW u \in Transfer
      PROVE  Family(u)'
  BY <1>1 DEF LocalInv, TypeOK, Family
<1>5. ASSUME NEW u \in Transfer
      PROVE  Binding(u)'
  <2>1. Family(u) /\ Binding(u) /\ Family(t) /\ Binding(t)
    BY DEF LocalInv
  <2>2. Called(u)' = (u \in cancels \/ u \in finishes' \/ \E c \in ClearCall : pc[c] = "joining" /\ u \in take[c])
    BY <1>1 DEF Called
  <2>3. CASE UNCHANGED <<state, bound, pending, finishes>>
    BY <2>1, <2>2, <2>3, <1>1, <1>0 DEF TypeOK, Binding, Busy, Called, Alive
  <2>4. CASE ~UNCHANGED <<state, bound, pending, finishes>> /\ u # t
    BY <2>1, <2>2, <2>4, <1>1, <1>0 DEF TypeOK, Binding, Busy, Called, Alive
  <2>5. CASE ~UNCHANGED <<state, bound, pending, finishes>> /\ u = t
    BY <2>1, <2>2, <2>5, <1>1, <1>0 DEF TypeOK, Binding, Busy, Called, Alive, Accepts, Active, Terminal
  <2>. QED
    BY <2>3, <2>4, <2>5
<1>. QED
  BY <1>2, <1>3, <1>4, <1>5 DEF LocalInv

LEMMA FinishReturnsLocal ==
    ASSUME LocalInv, NEW t \in Transfer, FinishReturns(t)
    PROVE  LocalInv'
<1>. USE DEF FinishReturns, ids, tasks, calls, clears
<1>0. entries \in SUBSET Transfer
  BY DEF LocalInv, TypeOK
<1>1. entries' \subseteq entries
  BY <1>0, TrimKeeps
<1>2. TypeOK'
  BY <1>1 DEF LocalInv, TypeOK
<1>3. ASSUME NEW u \in Transfer
      PROVE  (u >= nextID => Unused(u))'
  BY <1>1 DEF LocalInv, TypeOK, Unused
<1>4. ASSUME NEW u \in Transfer
      PROVE  Family(u)'
  BY DEF LocalInv, TypeOK, Family
<1>5. ASSUME NEW u \in Transfer
      PROVE  Binding(u)'
  <2>1. u # t => UNCHANGED <<state[u], bound[u], pending[u]>>
    BY DEF LocalInv, TypeOK
  <2>2. Called(u)' => Called(u)
    BY DEF Called
  <2>3. u # t => (Called(u)' <=> Called(u))
    BY DEF Called
  <2>4. CASE u # t
    BY <1>1, <2>1, <2>3, <2>4 DEF LocalInv, TypeOK, Binding, Busy, Alive
  <2>5. CASE u = t
    BY <1>1, <2>2, <2>5 DEF LocalInv, TypeOK, Binding, Busy, Alive, Active, Terminal
  <2>. QED
    BY <2>4, <2>5
<1>. QED
  BY <1>2, <1>3, <1>4, <1>5 DEF LocalInv

LEMMA CancelReturnsLocal ==
    ASSUME LocalInv, NEW t \in Transfer, CancelReturns(t)
    PROVE  LocalInv'
<1>. USE DEF CancelReturns, ids, tasks, calls, clears
<1>0. entries \in SUBSET Transfer
  BY DEF LocalInv, TypeOK
<1>1. entries' \subseteq entries
  BY <1>0, TrimKeeps
<1>2. TypeOK'
  BY <1>1 DEF LocalInv, TypeOK
<1>3. ASSUME NEW u \in Transfer
      PROVE  (u >= nextID => Unused(u))'
  BY <1>1 DEF LocalInv, TypeOK, Unused
<1>4. ASSUME NEW u \in Transfer
      PROVE  Family(u)'
  BY DEF LocalInv, TypeOK, Family
<1>5. ASSUME NEW u \in Transfer
      PROVE  Binding(u)'
  <2>1. u # t => UNCHANGED <<state[u], bound[u], pending[u]>>
    BY DEF LocalInv, TypeOK
  <2>2. Called(u)' => Called(u)
    BY DEF Called
  <2>3. u # t => (Called(u)' <=> Called(u))
    BY DEF Called
  <2>4. CASE u # t
    BY <1>1, <2>1, <2>3, <2>4 DEF LocalInv, TypeOK, Binding, Busy, Alive
  <2>5. CASE u = t
    BY <1>1, <2>2, <2>5 DEF LocalInv, TypeOK, Binding, Busy, Alive, Active, Terminal
  <2>. QED
    BY <2>4, <2>5
<1>. QED
  BY <1>2, <1>3, <1>4, <1>5 DEF LocalInv

LEMMA ReportLocal ==
    ASSUME LocalInv, NEW t \in Transfer, Report(t)
    PROVE  LocalInv'
<1>. USE DEF Report, WorkerAt
<1>1. PICK s \in Terminal : Finish(t, s)
  BY DEF Terminal
<1>2. t < nextID
  BY DEF LocalInv, TypeOK, Unused, Family, Transfer, NoParent, Children
<1>3. worker' \in [Transfer -> Worker]
  BY DEF LocalInv, TypeOK, Worker
<1>4. ASSUME NEW u \in Transfer, worker'[u] # worker[u]
      PROVE  /\ worker'[u] \in {"ended", "completed", "failed", "cancelled", "closing"}
             /\ worker'[u] = "closing" => worker[u] = "files"
             /\ u < nextID
  BY <1>2, <1>4 DEF LocalInv, TypeOK, Unused, Transfer
<1>5. ASSUME NEW u \in Transfer, kind[u] = "file", worker'[u] = "io"
      PROVE  worker'[parent[u]] \in {"files", "closing"}
  BY <1>5 DEF LocalInv, TypeOK, Family, NoParent, Transfer
<1>6. kind[t] \in {"direct", "folder"} => ~Alive(t)' /\ worker'[t] # "starting"
  BY DEF LocalInv, TypeOK, Alive, Family
<1>. QED
  BY <1>1, <1>2, <1>3, <1>4, <1>5, <1>6, FinishLocal

LEMMA MountEndsLocal ==
    ASSUME LocalInv, NEW t \in Transfer, MountEnds(t)
    PROVE  LocalInv'
<1>. USE DEF MountEnds, WorkerAt
<1>1. PICK s \in Terminal : Finish(t, s)
  BY DEF Terminal
<1>2. t < nextID
  BY DEF LocalInv, TypeOK, Unused, Family, Transfer, NoParent, Children
<1>3. worker' \in [Transfer -> Worker]
  BY DEF LocalInv, TypeOK, Worker
<1>4. ASSUME NEW u \in Transfer, worker'[u] # worker[u]
      PROVE  /\ worker'[u] \in {"ended", "completed", "failed", "cancelled", "closing"}
             /\ worker'[u] = "closing" => worker[u] = "files"
             /\ u < nextID
  BY <1>2, <1>4 DEF LocalInv, TypeOK, Unused, Transfer
<1>5. ASSUME NEW u \in Transfer, kind[u] = "file", worker'[u] = "io"
      PROVE  worker'[parent[u]] \in {"files", "closing"}
  BY <1>5 DEF LocalInv, TypeOK, Family, NoParent, Transfer
<1>6. kind[t] \in {"direct", "folder"} => ~Alive(t)' /\ worker'[t] # "starting"
  BY DEF LocalInv, TypeOK, Alive, Family
<1>. QED
  BY <1>1, <1>2, <1>3, <1>4, <1>5, <1>6, FinishLocal

LEMMA RetryEndsLocal ==
    ASSUME LocalInv, NEW t \in Transfer, RetryEnds(t)
    PROVE  LocalInv'
<1>. USE DEF RetryEnds, WorkerAt
<1>1. PICK s \in Terminal : Finish(t, s)
  BY DEF Terminal
<1>2. t < nextID
  BY DEF LocalInv, TypeOK, Unused, Family, Transfer, NoParent, Children
<1>3. worker' \in [Transfer -> Worker]
  BY DEF LocalInv, TypeOK, Worker
<1>4. ASSUME NEW u \in Transfer, worker'[u] # worker[u]
      PROVE  /\ worker'[u] \in {"ended", "completed", "failed", "cancelled", "closing"}
             /\ worker'[u] = "closing" => worker[u] = "files"
             /\ u < nextID
  BY <1>2, <1>4 DEF LocalInv, TypeOK, Unused, Transfer
<1>5. ASSUME NEW u \in Transfer, kind[u] = "file", worker'[u] = "io"
      PROVE  worker'[parent[u]] \in {"files", "closing"}
  BY <1>5 DEF LocalInv, TypeOK, Family, NoParent, Transfer
<1>6. kind[t] \in {"direct", "folder"} => ~Alive(t)' /\ worker'[t] # "starting"
  BY DEF LocalInv, TypeOK, Alive, Family
<1>. QED
  BY <1>1, <1>2, <1>3, <1>4, <1>5, <1>6, FinishLocal

LEMMA FolderEndsLocal ==
    ASSUME LocalInv, NEW t \in Transfer, FolderEnds(t)
    PROVE  LocalInv'
<1>. USE DEF FolderEnds, WorkerAt
<1>1. PICK s \in Terminal : Finish(t, s)
  BY DEF Terminal
<1>2. t < nextID
  BY DEF LocalInv, TypeOK, Unused, Family, Transfer, NoParent, Children
<1>3. worker' \in [Transfer -> Worker]
  BY DEF LocalInv, TypeOK, Worker
<1>4. ASSUME NEW u \in Transfer, worker'[u] # worker[u]
      PROVE  /\ worker'[u] \in {"ended", "completed", "failed", "cancelled", "closing"}
             /\ worker'[u] = "closing" => worker[u] = "files"
             /\ u < nextID
  BY <1>2, <1>4 DEF LocalInv, TypeOK, Unused, Transfer
<1>5. ASSUME NEW u \in Transfer, kind[u] = "file", worker'[u] = "io"
      PROVE  worker'[parent[u]] \in {"files", "closing"}
  BY <1>5 DEF LocalInv, TypeOK, Family, NoParent, Transfer, AllEnded, Results, Children
<1>6. kind[t] \in {"direct", "folder"} => ~Alive(t)' /\ worker'[t] # "starting"
  BY DEF LocalInv, TypeOK, Alive, Family, AllEnded, Results, Children
<1>. QED
  BY <1>1, <1>2, <1>3, <1>4, <1>5, <1>6, FinishLocal

LEMMA FileEndsLocal ==
    ASSUME LocalInv, NEW t \in Transfer, NEW c \in Transfer, FileEnds(t, c)
    PROVE  LocalInv'
<1>. USE DEF FileEnds, WorkerAt
<1>1. PICK s \in Terminal : Finish(c, s)
  BY DEF Terminal, Results
<1>2. c < nextID
  BY DEF LocalInv, TypeOK, Unused, Family, Transfer, NoParent, Children
<1>3. worker' \in [Transfer -> Worker]
  BY DEF LocalInv, TypeOK, Worker, Results
<1>4. ASSUME NEW u \in Transfer, worker'[u] # worker[u]
      PROVE  /\ worker'[u] \in {"ended", "completed", "failed", "cancelled", "closing"}
             /\ worker'[u] = "closing" => worker[u] = "files"
             /\ u < nextID
  BY <1>2, <1>4 DEF LocalInv, TypeOK, Unused, Transfer, Results
<1>5. ASSUME NEW u \in Transfer, kind[u] = "file", worker'[u] = "io"
      PROVE  worker'[parent[u]] \in {"files", "closing"}
  BY <1>5 DEF LocalInv, TypeOK, Family, NoParent, Transfer, Children, Results
<1>6. kind[c] \in {"direct", "folder"} => ~Alive(c)' /\ worker'[c] # "starting"
  BY DEF LocalInv, TypeOK, Alive, Family, Children, Results
<1>. QED
  BY <1>1, <1>2, <1>3, <1>4, <1>5, <1>6, FinishLocal

LEMMA FileDroppedLocal ==
    ASSUME LocalInv, NEW t \in Transfer, NEW c \in Transfer, FileDropped(t, c)
    PROVE  LocalInv'
<1>. USE DEF FileDropped, WorkerAt
<1>1. PICK s \in Terminal : Finish(c, s)
  BY DEF Terminal
<1>2. c < nextID
  BY DEF LocalInv, TypeOK, Unused, Family, Transfer, NoParent, Children
<1>3. worker' \in [Transfer -> Worker]
  BY DEF LocalInv, TypeOK, Worker
<1>4. ASSUME NEW u \in Transfer, worker'[u] # worker[u]
      PROVE  /\ worker'[u] \in {"ended", "completed", "failed", "cancelled", "closing"}
             /\ worker'[u] = "closing" => worker[u] = "files"
             /\ u < nextID
  BY <1>2, <1>4 DEF LocalInv, TypeOK, Unused, Transfer
<1>5. ASSUME NEW u \in Transfer, kind[u] = "file", worker'[u] = "io"
      PROVE  worker'[parent[u]] \in {"files", "closing"}
  BY <1>5 DEF LocalInv, TypeOK, Family, NoParent, Transfer, Children
<1>6. kind[c] \in {"direct", "folder"} => ~Alive(c)' /\ worker'[c] # "starting"
  BY DEF LocalInv, TypeOK, Alive, Family, Children
<1>. QED
  BY <1>1, <1>2, <1>3, <1>4, <1>5, <1>6, FinishLocal

LEMMA WindowFinishesLocal ==
    ASSUME LocalInv, NEW t \in Transfer, WindowFinishes(t)
    PROVE  LocalInv'
<1>. USE DEF WindowFinishes, WorkerAt
<1>1. PICK s \in Terminal : Finish(t, s)
  BY DEF Terminal
<1>2. t < nextID
  BY DEF LocalInv, TypeOK, Unused, Family, Transfer, NoParent, Children
<1>3. worker' \in [Transfer -> Worker]
  BY DEF LocalInv, TypeOK, Worker
<1>4. ASSUME NEW u \in Transfer, worker'[u] # worker[u]
      PROVE  /\ worker'[u] \in {"ended", "completed", "failed", "cancelled", "closing"}
             /\ worker'[u] = "closing" => worker[u] = "files"
             /\ u < nextID
  BY <1>2, <1>4 DEF LocalInv, TypeOK, Unused, Transfer
<1>5. ASSUME NEW u \in Transfer, kind[u] = "file", worker'[u] = "io"
      PROVE  worker'[parent[u]] \in {"files", "closing"}
  BY <1>5 DEF LocalInv, TypeOK, Family, NoParent, Transfer
<1>6. kind[t] \in {"direct", "folder"} => ~Alive(t)' /\ worker'[t] # "starting"
  BY DEF LocalInv, TypeOK, Alive, Family
<1>. QED
  BY <1>1, <1>2, <1>3, <1>4, <1>5, <1>6, FinishLocal

(* New tasks, in a step in which the worker of a task starts or a folder   *)
(* has found its files.                                                    *)
LEMMA AddLocal ==
    ASSUME LocalInv, NEW n \in Nat, NEW k \in {"direct", "folder", "mount", "group", "file", "child"},
           NEW p \in Transfer \cup {NoParent}, NEW s \in {"queued", "running"},
           Add(n, k, p, s),
           k = "file" => p \in Transfer /\ p < nextID /\ kind[p] = "folder",
           k = "child" => p \in Transfer /\ p < nextID /\ kind[p] = "group",
           p = NoParent <=> k \notin {"file", "child"},
           worker' \in [Transfer -> Worker],
           \A u \in Transfer : worker'[u] # worker[u] =>
               /\ u < nextID'
               /\ \/ u < nextID /\ worker[u] = "scanning" /\ worker'[u] = "files"
                  \/ u >= nextID /\ k \notin {"file", "child"}
                       /\ worker'[u] = IF k = "mount" THEN "io" ELSE "starting"
    PROVE  LocalInv'
<1>. USE DEF ids, tasks, calls, clears
<1>0. TypeOK
  BY DEF LocalInv
<1>1. /\ nextID' \in 1..(MaxTransfers + 1)
      /\ nextID' >= nextID
      /\ entries' \subseteq entries \cup Fresh(n)
      /\ \A t \in Fresh(n) : t \in Transfer /\ t >= nextID /\ t < nextID'
      /\ \A t \in Transfer : t \in Fresh(n) \/ t < nextID \/ t >= nextID'
      /\ kind' = [t \in Transfer |-> IF t \in Fresh(n) THEN k ELSE kind[t]]
      /\ parent' = [t \in Transfer |-> IF t \in Fresh(n) THEN p ELSE parent[t]]
      /\ state' = [t \in Transfer |-> IF t \in Fresh(n) THEN s ELSE state[t]]
      /\ UNCHANGED <<bound, pending, attached, fired, calls, clears, retries>>
  <2>1. s \in Active
    BY DEF Active
  <2>2. nextID \in Nat
    BY <1>0 DEF TypeOK
  <2>. QED
    BY <1>0, <2>1, <2>2, AddEffect
<1>2. TypeOK'
  BY <1>0, <1>1 DEF TypeOK, Kind, Active
<1>3. \A t \in Fresh(n) : Unused(t) /\ t >= nextID
  BY <1>1 DEF LocalInv
<1>4. ASSUME NEW u \in Transfer
      PROVE  (u >= nextID => Unused(u))'
  <2>1. u >= nextID' => u \notin Fresh(n) /\ u >= nextID /\ worker'[u] = worker[u]
    BY <1>0, <1>1 DEF TypeOK, Transfer
  <2>. QED
    BY <1>0, <1>1, <2>1 DEF LocalInv, Unused
<1>5. ASSUME NEW u \in Transfer, u \in Fresh(n)
      PROVE  Family(u)' /\ Binding(u)'
  <2>1. /\ kind'[u] = k /\ parent'[u] = p /\ state'[u] = s
        /\ worker'[u] \in {"none", IF k = "mount" THEN "io" ELSE "starting"}
        /\ k \in {"file", "child"} => worker'[u] = "none"
    BY <1>0, <1>1, <1>3, <1>5 DEF TypeOK, Unused, Transfer
  <2>2. k \in {"file", "child"} => p \in Transfer /\ p \notin Fresh(n) /\ kind'[p] = kind[p]
    BY <1>0, <1>1 DEF TypeOK, Transfer
  <2>3. Family(u)'
    BY <1>1, <1>3, <1>5, <2>1, <2>2 DEF Family, Unused
  <2>4. Unused(u) /\ Binding(u)
    BY <1>3, <1>5 DEF LocalInv
  <2>5. Binding(u)'
    BY <1>1, <2>1, <2>4 DEF Binding, Unused, Busy, Called, Alive, Active
  <2>. QED
    BY <2>3, <2>5
<1>6. ASSUME NEW u \in Transfer, u \notin Fresh(n)
      PROVE  Family(u)' /\ Binding(u)'
  <2>1. kind'[u] = kind[u] /\ parent'[u] = parent[u] /\ state'[u] = state[u]
    BY <1>1, <1>6
  <2>2. worker'[u] = worker[u] \/ (worker[u] = "scanning" /\ worker'[u] = "files")
    BY <1>0, <1>1, <1>6 DEF TypeOK, Transfer
  <2>3. Family(u) /\ Binding(u)
    BY DEF LocalInv
  <2>4. kind[u] \in {"file", "child"} => parent[u] \in Transfer /\ parent[u] \notin Fresh(n)
    BY <1>0, <1>3, <2>3 DEF TypeOK, Family, Unused
  <2>5. kind[u] \in {"file", "child"} =>
          /\ kind'[parent[u]] = kind[parent[u]]
          /\ worker'[parent[u]] = worker[parent[u]] \/ worker'[parent[u]] = "files"
    BY <1>0, <1>1, <2>4 DEF TypeOK, Transfer
  <2>6. Family(u)'
    BY <1>1, <2>1, <2>2, <2>3, <2>5 DEF Family
  <2>7. Binding(u)'
    BY <1>1, <2>1, <2>2, <2>3, <1>6 DEF Binding, Busy, Called, Alive
  <2>. QED
    BY <2>6, <2>7
<1>. QED
  BY <1>2, <1>4, <1>5, <1>6 DEF LocalInv

LEMMA StartLocal ==
    ASSUME LocalInv, NEW k \in RootKind, Start(k)
    PROVE  LocalInv'
<1>1. k \in {"direct", "folder", "mount", "group"}
  BY ConstantsAssumption
<1>2. nextID \in Transfer /\ nextID' = nextID + 1 /\ nextID \in Nat
  BY ConstantsAssumption DEF LocalInv, TypeOK, Start, Add, Room, Transfer
<1>3. worker' = [worker EXCEPT ![nextID] = IF k = "mount" THEN "io" ELSE "starting"]
  BY DEF Start, WorkerAt
<1>4. worker' \in [Transfer -> Worker]
  BY <1>3 DEF LocalInv, TypeOK, Worker
<1>5. \A u \in Transfer : worker'[u] # worker[u] =>
          /\ u < nextID'
          /\ u >= nextID
          /\ worker'[u] = IF k = "mount" THEN "io" ELSE "starting"
  BY <1>2, <1>3 DEF LocalInv, TypeOK
<1>6. Add(1, k, NoParent, "running")
  BY DEF Start
<1>. QED
  BY <1>1, <1>4, <1>5, <1>6, AddLocal

LEMMA StartChildrenLocal ==
    ASSUME LocalInv, NEW t \in Transfer, NEW n \in Transfer, StartChildren(t, n)
    PROVE  LocalInv'
<1>1. Add(n, "child", t, "queued") /\ n \in Nat
  BY DEF StartChildren, Transfer
<1>2. t < nextID /\ kind[t] = "group" /\ t # NoParent
  BY DEF LocalInv, TypeOK, Unused, Family, StartChildren, Transfer, NoParent
<1>3. worker' = worker /\ worker \in [Transfer -> Worker]
  BY DEF LocalInv, TypeOK, StartChildren
<1>. QED
  BY <1>1, <1>2, <1>3, AddLocal

LEMMA ScanFindsLocal ==
    ASSUME LocalInv, NEW t \in Transfer, NEW n \in Transfer, ScanFinds(t, n)
    PROVE  LocalInv'
<1>1. CASE MayAdd(t)
  <2>1. Add(n, "file", t, "queued") /\ n \in Nat /\ WorkerAt(t, "files")
    BY <1>1 DEF ScanFinds, Transfer
  <2>2. /\ t < nextID /\ kind[t] = "folder" /\ t # NoParent
        /\ worker[t] = "scanning"
        /\ nextID' >= nextID /\ nextID \in Nat /\ t \in Nat /\ nextID' \in Nat
    BY <2>1 DEF LocalInv, TypeOK, Unused, Family, ScanFinds, Transfer, NoParent, Add
  <2>3. worker' \in [Transfer -> Worker]
    BY <2>1 DEF LocalInv, TypeOK, Worker, WorkerAt
  <2>4. \A u \in Transfer : worker'[u] # worker[u] =>
          u < nextID' /\ u < nextID /\ worker[u] = "scanning" /\ worker'[u] = "files"
    BY <2>1, <2>2 DEF LocalInv, TypeOK, WorkerAt
  <2>. QED
    BY <2>1, <2>2, <2>3, <2>4, AddLocal
<1>2. CASE ~MayAdd(t)
  <2>. USE <1>2 DEF ScanFinds, ids, tasks, calls, clears, WorkerAt
  <2>1. TypeOK'
    BY DEF LocalInv, TypeOK, Worker
  <2>2. ASSUME NEW u \in Transfer
        PROVE  (u >= nextID => Unused(u))'
    BY DEF LocalInv, TypeOK, Unused
  <2>3. ASSUME NEW u \in Transfer
        PROVE  Family(u)'
    <3>1. Family(u)
      BY DEF LocalInv
    <3>2. /\ worker' = [worker EXCEPT ![t] = "failed"]
          /\ worker[t] = "scanning"
          /\ UNCHANGED <<kind, parent>>
      OBVIOUS
    <3>3. worker \in [Transfer -> Worker] /\ parent[u] \in Transfer \cup {NoParent}
      BY DEF LocalInv, TypeOK
    <3>4. worker'[u] = worker[u] \/ worker'[u] = "failed"
      BY <3>2, <3>3
    <3>5. kind[u] = "file" => parent[u] \in Transfer
      BY <3>1, <3>3 DEF Family
    <3>6. kind[u] = "file" /\ worker'[u] = "io" => worker'[parent[u]] = worker[parent[u]]
      BY <3>1, <3>2, <3>3, <3>4, <3>5 DEF Family
    <3>. QED
      BY <3>1, <3>2, <3>4, <3>6 DEF Family
  <2>4. ASSUME NEW u \in Transfer
        PROVE  Binding(u)'
    BY DEF LocalInv, TypeOK, Family, Binding, Busy, Called, Alive
  <2>. QED
    BY <2>1, <2>2, <2>3, <2>4 DEF LocalInv
<1>. QED
  BY <1>1, <1>2

LEMMA FileBeginsLocal ==
    ASSUME LocalInv, NEW t \in Transfer, NEW c \in Transfer, FileBegins(t, c)
    PROVE  LocalInv'
<1>. USE DEF FileBegins, ids, tasks, calls, clears, WorkerAt, Begun, InIO, Children, Stopped
<1>0. /\ kind[c] = "file" /\ c \notin attached
      /\ c < nextID
      /\ worker' = [worker EXCEPT ![c] = "io"]
      /\ worker[t] = "files" /\ parent[c] = t
      /\ \A u \in Transfer : state[u] \in Active => state'[u] \in Active
      /\ \A u \in Transfer : state'[u] \in Active => state[u] \in Active
  BY DEF LocalInv, TypeOK, Unused, Family, Binding, NoParent, Transfer, Active
<1>1. TypeOK'
  BY <1>0 DEF LocalInv, TypeOK, Active, Worker
<1>2. ASSUME NEW u \in Transfer
      PROVE  (u >= nextID => Unused(u))'
  BY <1>0 DEF LocalInv, TypeOK, Unused
<1>3. ASSUME NEW u \in Transfer
      PROVE  Family(u)'
  BY <1>0 DEF LocalInv, TypeOK, Family, NoParent, Transfer
<1>4. ASSUME NEW u \in Transfer
      PROVE  Binding(u)'
  BY <1>0 DEF LocalInv, TypeOK, Family, Binding, Busy, Called, Alive, Active, Terminal
<1>. QED
  BY <1>1, <1>2, <1>3, <1>4 DEF LocalInv

LEMMA ClearLocal ==
    ASSUME LocalInv, NEW c \in ClearCall, Clear(c)
    PROVE  LocalInv'
<1>. USE DEF Clear, ids, tasks, calls, clears, WorkerAt
<1>0. /\ 1 .. nextID - 1 \subseteq Transfer
      /\ \A u \in Transfer : kind[u] # "none" => u \in 1 .. nextID - 1
  BY ConstantsAssumption DEF LocalInv, TypeOK, Transfer, Unused
<1>1. TypeOK'
  BY <1>0, ConstantsAssumption DEF LocalInv, TypeOK, Active, Worker, Transfer
<1>2. ASSUME NEW u \in Transfer
      PROVE  (u >= nextID => Unused(u))'
  BY <1>0 DEF LocalInv, TypeOK, Unused, Transfer
<1>3. ASSUME NEW u \in Transfer
      PROVE  Family(u)'
  BY <1>0 DEF LocalInv, TypeOK, Family, NoParent, Transfer
<1>4. ASSUME NEW u \in Transfer
      PROVE  Binding(u)'
  BY <1>0 DEF LocalInv, TypeOK, Family, Binding, Busy, Called, Alive, Active, Terminal
<1>. QED
  BY <1>1, <1>2, <1>3, <1>4 DEF LocalInv

LEMMA ClearReturnsLocal ==
    ASSUME LocalInv, NEW c \in ClearCall, ClearReturns(c)
    PROVE  LocalInv'
<1>. USE DEF ClearReturns, ids, tasks, calls, clears, WorkerAt, Joined
<1>1. TypeOK'
  BY ConstantsAssumption DEF LocalInv, TypeOK, Active, Worker
<1>2. ASSUME NEW u \in Transfer
      PROVE  (u >= nextID => Unused(u))'
  BY DEF LocalInv, TypeOK, Unused
<1>3. ASSUME NEW u \in Transfer
      PROVE  Family(u)'
  BY DEF LocalInv, TypeOK, Family, NoParent, Transfer
<1>4. ASSUME NEW u \in Transfer
      PROVE  Binding(u)'
  BY DEF LocalInv, TypeOK, Family, Binding, Busy, Called, Alive, Active, Terminal
<1>. QED
  BY <1>1, <1>2, <1>3, <1>4 DEF LocalInv

LEMMA ClearHistoryLocal ==
    ASSUME LocalInv, ClearHistory
    PROVE  LocalInv'
<1>. USE DEF ClearHistory, ids, tasks, calls, clears, WorkerAt
<1>1. TypeOK'
  BY ConstantsAssumption DEF LocalInv, TypeOK, Active, Worker
<1>2. ASSUME NEW u \in Transfer
      PROVE  (u >= nextID => Unused(u))'
  BY DEF LocalInv, TypeOK, Unused
<1>3. ASSUME NEW u \in Transfer
      PROVE  Family(u)'
  BY DEF LocalInv, TypeOK, Family, NoParent, Transfer
<1>4. ASSUME NEW u \in Transfer
      PROVE  Binding(u)'
  BY DEF LocalInv, TypeOK, Family, Binding, Busy, Called, Alive, Active, Terminal
<1>. QED
  BY <1>1, <1>2, <1>3, <1>4 DEF LocalInv

(* What is unsettled has a bound callback and keeps its task busy.         *)
LEMMA UnsettledBound ==
    LocalInv => \A t \in Transfer : Unsettled(t) => bound[t] /\ Busy(t)
<1>. SUFFICES ASSUME LocalInv, NEW t \in Transfer, Unsettled(t)
              PROVE  bound[t] /\ Busy(t)
  OBVIOUS
<1>1. Binding(t) /\ Family(t)
  BY DEF LocalInv
<1>2. CASE fired[t] = "firing" \/ Called(t)
  BY <1>1, <1>2 DEF Unsettled, Binding
<1>3. ASSUME t \in attached, NEW u \in Transfer, Owner(u) = t, Alive(u)
      PROVE  bound[t] /\ Busy(t)
  <2>1. Binding(u) /\ Family(u)
    BY DEF LocalInv
  <2>2. CASE kind[u] = "file"
    BY <1>1, <1>3, <2>1, <2>2 DEF Owner, Alive, Family, Binding, Unsettled
  <2>3. CASE kind[u] = "child"
    BY <1>1, <1>3, <2>1, <2>3 DEF Owner, Alive, Family, Binding, Unsettled
  <2>4. CASE kind[u] \notin {"file", "child"}
    BY <1>1, <1>3, <2>4 DEF Owner, Binding, Unsettled
  <2>. QED
    BY <2>2, <2>3, <2>4
<1>. QED
  BY <1>2, <1>3 DEF Unsettled

(* A step that leaves the Clear calls alone, removes no busy task and      *)
(* unsettles nothing that was removed keeps the chain of Clear calls.      *)
LEMMA QuietStep ==
    ASSUME LocalInv, LocalInv', Covered, \A c \in ClearCall : Chained(c),
           UNCHANGED clears,
           \A t \in entries : Busy(t)' => t \in entries',
           \A t \in entries' : t \in entries \/ t >= nextID,
           \A t \in Transfer \ (entries \cup entries') : Unsettled(t)' => Unsettled(t)
    PROVE  Covered' /\ \A c \in ClearCall : Chained(c)'
<1>0. (LocalInv => \A t \in Transfer : Unsettled(t) => bound[t] /\ Busy(t))'
  BY UnsettledBound, PTL
<1>1. ASSUME NEW t \in Transfer \ entries', Unsettled(t)'
      PROVE  t \notin entries /\ Unsettled(t)
  BY <1>0, <1>1
<1>2. Covered'
  BY <1>1 DEF Covered, clears
<1>3. ASSUME NEW c \in ClearCall
      PROVE  Chained(c)'
  <2>1. \A t \in before[c] : t < nextID /\ t \in Transfer
    BY DEF LocalInv, TypeOK, Unused, Transfer
  <2>2. nextID \in Nat /\ \A t \in before[c] : t \in Nat
    BY <2>1 DEF LocalInv, TypeOK, Transfer
  <2>3. pc[c] # "idle" => before[c] \cap entries' = {}
    BY <2>1, <2>2 DEF Chained
  <2>4. pc[c] # "idle" => \A t \in before[c] : Unsettled(t)' => Unsettled(t)
    BY <1>1, <2>1, <2>3
  <2>. QED
    BY <2>3, <2>4 DEF Chained, clears
<1>. QED
  BY <1>2, <1>3


LEMMA BindQuiet ==
    ASSUME LocalInv, NEW t \in Transfer, Bind(t)
    PROVE  /\ UNCHANGED clears
           /\ \A u \in entries : Busy(u)' => u \in entries'
           /\ \A u \in entries' : u \in entries \/ u >= nextID
           /\ \A u \in Transfer \ (entries \cup entries') : Unsettled(u)' => Unsettled(u)
<1>. USE DEF Bind, ids, tasks, calls, clears, WorkerAt, MayBind, MayAdd
<1>1. UNCHANGED clears /\ UNCHANGED entries
  OBVIOUS
<1>2. ASSUME NEW u \in Transfer \ entries, Unsettled(u)'
      PROVE  Unsettled(u)
  BY <1>2 DEF LocalInv, TypeOK, Family, Binding, Unsettled, Called, Owner, Alive
<1>. QED
  BY <1>1, <1>2

LEMMA BindRefusedQuiet ==
    ASSUME LocalInv, NEW t \in Transfer, BindRefused(t)
    PROVE  /\ UNCHANGED clears
           /\ \A u \in entries : Busy(u)' => u \in entries'
           /\ \A u \in entries' : u \in entries \/ u >= nextID
           /\ \A u \in Transfer \ (entries \cup entries') : Unsettled(u)' => Unsettled(u)
<1>. USE DEF BindRefused, ids, tasks, calls, clears, WorkerAt
<1>1. UNCHANGED clears /\ UNCHANGED entries
  OBVIOUS
<1>2. ASSUME NEW u \in Transfer \ entries, Unsettled(u)'
      PROVE  Unsettled(u)
  BY <1>2 DEF LocalInv, TypeOK, Family, Binding, Unsettled, Called, Owner, Alive
<1>. QED
  BY <1>1, <1>2

LEMMA FinishReturnsQuiet ==
    ASSUME LocalInv, NEW t \in Transfer, FinishReturns(t)
    PROVE  /\ UNCHANGED clears
           /\ \A u \in entries : Busy(u)' => u \in entries'
           /\ \A u \in entries' : u \in entries \/ u >= nextID
           /\ \A u \in Transfer \ (entries \cup entries') : Unsettled(u)' => Unsettled(u)
<1>. USE DEF FinishReturns, ids, tasks, calls, clears
<1>1. entries \in SUBSET Transfer
  BY DEF LocalInv, TypeOK
<1>2. /\ entries' \subseteq entries
      /\ \A u \in entries : Busy(u)' => u \in entries'
  BY <1>1, TrimKeeps DEF Busy
<1>3. ASSUME NEW u \in Transfer \ entries, Unsettled(u)'
      PROVE  Unsettled(u)
  BY <1>3 DEF Unsettled, Called, Owner, Alive
<1>. QED
  BY <1>2, <1>3

LEMMA IOEndsQuiet ==
    ASSUME LocalInv, NEW t \in Transfer, IOEnds(t)
    PROVE  /\ UNCHANGED clears
           /\ \A u \in entries : Busy(u)' => u \in entries'
           /\ \A u \in entries' : u \in entries \/ u >= nextID
           /\ \A u \in Transfer \ (entries \cup entries') : Unsettled(u)' => Unsettled(u)
<1>. USE DEF IOEnds, ids, tasks, calls, clears, WorkerAt
<1>1. UNCHANGED clears /\ UNCHANGED entries
  OBVIOUS
<1>2. ASSUME NEW u \in Transfer \ entries, Unsettled(u)'
      PROVE  Unsettled(u)
  BY <1>2 DEF LocalInv, TypeOK, Family, Binding, Unsettled, Called, Owner, Alive
<1>. QED
  BY <1>1, <1>2

LEMMA ReportQuiet ==
    ASSUME LocalInv, NEW t \in Transfer, Report(t)
    PROVE  /\ UNCHANGED clears
           /\ \A u \in entries : Busy(u)' => u \in entries'
           /\ \A u \in entries' : u \in entries \/ u >= nextID
           /\ \A u \in Transfer \ (entries \cup entries') : Unsettled(u)' => Unsettled(u)
<1>. USE DEF Report, ids, tasks, calls, clears, WorkerAt
<1>1. PICK s \in Terminal : Finish(t, s)
  BY DEF Terminal
<1>2. /\ UNCHANGED <<ids, attached, fired, cancels, clears>>
      /\ entries' \subseteq entries
      /\ \A u \in entries : Busy(u)' => u \in entries'
      /\ finishes' \subseteq finishes \cup (entries \cap {t})
  BY <1>1, FinishEffect DEF LocalInv, Busy, Accepts
<1>3. ASSUME NEW u \in Transfer, Alive(u)'
      PROVE  Alive(u)
  BY <1>3 DEF LocalInv, TypeOK, Alive
<1>4. ASSUME NEW u \in Transfer \ entries, Unsettled(u)'
      PROVE  Unsettled(u)
  BY <1>2, <1>3, <1>4 DEF Unsettled, Called, Owner
<1>. QED
  BY <1>2, <1>4

LEMMA MountEndsQuiet ==
    ASSUME LocalInv, NEW t \in Transfer, MountEnds(t)
    PROVE  /\ UNCHANGED clears
           /\ \A u \in entries : Busy(u)' => u \in entries'
           /\ \A u \in entries' : u \in entries \/ u >= nextID
           /\ \A u \in Transfer \ (entries \cup entries') : Unsettled(u)' => Unsettled(u)
<1>. USE DEF MountEnds, ids, tasks, calls, clears, WorkerAt
<1>1. PICK s \in Terminal : Finish(t, s)
  BY DEF Terminal
<1>2. /\ UNCHANGED <<ids, attached, fired, cancels, clears>>
      /\ entries' \subseteq entries
      /\ \A u \in entries : Busy(u)' => u \in entries'
      /\ finishes' \subseteq finishes \cup (entries \cap {t})
  BY <1>1, FinishEffect DEF LocalInv, Busy, Accepts
<1>3. ASSUME NEW u \in Transfer, Alive(u)'
      PROVE  Alive(u)
  BY <1>3 DEF LocalInv, TypeOK, Alive
<1>4. ASSUME NEW u \in Transfer \ entries, Unsettled(u)'
      PROVE  Unsettled(u)
  BY <1>2, <1>3, <1>4 DEF Unsettled, Called, Owner
<1>. QED
  BY <1>2, <1>4

LEMMA RetryQuiet ==
    ASSUME LocalInv, NEW t \in Transfer, Retry(t)
    PROVE  /\ UNCHANGED clears
           /\ \A u \in entries : Busy(u)' => u \in entries'
           /\ \A u \in entries' : u \in entries \/ u >= nextID
           /\ \A u \in Transfer \ (entries \cup entries') : Unsettled(u)' => Unsettled(u)
<1>. USE DEF Retry, ids, tasks, calls, clears, WorkerAt
<1>1. UNCHANGED clears /\ UNCHANGED entries
  OBVIOUS
<1>2. ASSUME NEW u \in Transfer \ entries, Unsettled(u)'
      PROVE  Unsettled(u)
  BY <1>2 DEF LocalInv, TypeOK, Family, Binding, Unsettled, Called, Owner, Alive
<1>. QED
  BY <1>1, <1>2

LEMMA RetryEndsQuiet ==
    ASSUME LocalInv, NEW t \in Transfer, RetryEnds(t)
    PROVE  /\ UNCHANGED clears
           /\ \A u \in entries : Busy(u)' => u \in entries'
           /\ \A u \in entries' : u \in entries \/ u >= nextID
           /\ \A u \in Transfer \ (entries \cup entries') : Unsettled(u)' => Unsettled(u)
<1>. USE DEF RetryEnds, ids, tasks, calls, clears, WorkerAt
<1>1. PICK s \in Terminal : Finish(t, s)
  BY DEF Terminal
<1>2. /\ UNCHANGED <<ids, attached, fired, cancels, clears>>
      /\ entries' \subseteq entries
      /\ \A u \in entries : Busy(u)' => u \in entries'
      /\ finishes' \subseteq finishes \cup (entries \cap {t})
  BY <1>1, FinishEffect DEF LocalInv, Busy, Accepts
<1>3. ASSUME NEW u \in Transfer, Alive(u)'
      PROVE  Alive(u)
  BY <1>3 DEF LocalInv, TypeOK, Alive
<1>4. ASSUME NEW u \in Transfer \ entries, Unsettled(u)'
      PROVE  Unsettled(u)
  BY <1>2, <1>3, <1>4 DEF Unsettled, Called, Owner
<1>. QED
  BY <1>2, <1>4

LEMMA ScanEndsQuiet ==
    ASSUME LocalInv, NEW t \in Transfer, ScanEnds(t)
    PROVE  /\ UNCHANGED clears
           /\ \A u \in entries : Busy(u)' => u \in entries'
           /\ \A u \in entries' : u \in entries \/ u >= nextID
           /\ \A u \in Transfer \ (entries \cup entries') : Unsettled(u)' => Unsettled(u)
<1>. USE DEF ScanEnds, ids, tasks, calls, clears, WorkerAt
<1>1. UNCHANGED clears /\ UNCHANGED entries
  OBVIOUS
<1>2. ASSUME NEW u \in Transfer \ entries, Unsettled(u)'
      PROVE  Unsettled(u)
  BY <1>2 DEF LocalInv, TypeOK, Family, Binding, Unsettled, Called, Owner, Alive
<1>. QED
  BY <1>1, <1>2

LEMMA FolderStopsQuiet ==
    ASSUME LocalInv, NEW t \in Transfer, FolderStops(t)
    PROVE  /\ UNCHANGED clears
           /\ \A u \in entries : Busy(u)' => u \in entries'
           /\ \A u \in entries' : u \in entries \/ u >= nextID
           /\ \A u \in Transfer \ (entries \cup entries') : Unsettled(u)' => Unsettled(u)
<1>. USE DEF FolderStops, ids, tasks, calls, clears, WorkerAt
<1>1. UNCHANGED clears /\ UNCHANGED entries
  OBVIOUS
<1>2. ASSUME NEW u \in Transfer \ entries, Unsettled(u)'
      PROVE  Unsettled(u)
  BY <1>2 DEF LocalInv, TypeOK, Family, Binding, Unsettled, Called, Owner, Alive
<1>. QED
  BY <1>1, <1>2

LEMMA FolderEndsQuiet ==
    ASSUME LocalInv, NEW t \in Transfer, FolderEnds(t)
    PROVE  /\ UNCHANGED clears
           /\ \A u \in entries : Busy(u)' => u \in entries'
           /\ \A u \in entries' : u \in entries \/ u >= nextID
           /\ \A u \in Transfer \ (entries \cup entries') : Unsettled(u)' => Unsettled(u)
<1>. USE DEF FolderEnds, ids, tasks, calls, clears, WorkerAt
<1>1. PICK s \in Terminal : Finish(t, s)
  BY DEF Terminal
<1>2. /\ UNCHANGED <<ids, attached, fired, cancels, clears>>
      /\ entries' \subseteq entries
      /\ \A u \in entries : Busy(u)' => u \in entries'
      /\ finishes' \subseteq finishes \cup (entries \cap {t})
  BY <1>1, FinishEffect DEF LocalInv, Busy, Accepts
<1>3. ASSUME NEW u \in Transfer, Alive(u)'
      PROVE  Alive(u)
  BY <1>3 DEF LocalInv, TypeOK, Alive
<1>4. ASSUME NEW u \in Transfer \ entries, Unsettled(u)'
      PROVE  Unsettled(u)
  BY <1>2, <1>3, <1>4 DEF Unsettled, Called, Owner
<1>. QED
  BY <1>2, <1>4

LEMMA ChildBeginsQuiet ==
    ASSUME LocalInv, NEW t \in Transfer, ChildBegins(t)
    PROVE  /\ UNCHANGED clears
           /\ \A u \in entries : Busy(u)' => u \in entries'
           /\ \A u \in entries' : u \in entries \/ u >= nextID
           /\ \A u \in Transfer \ (entries \cup entries') : Unsettled(u)' => Unsettled(u)
<1>. USE DEF ChildBegins, ids, tasks, calls, clears, WorkerAt
<1>1. UNCHANGED clears /\ UNCHANGED entries
  OBVIOUS
<1>2. ASSUME NEW u \in Transfer \ entries, Unsettled(u)'
      PROVE  Unsettled(u)
  BY <1>2 DEF LocalInv, TypeOK, Family, Binding, Unsettled, Called, Owner, Alive
<1>. QED
  BY <1>1, <1>2

LEMMA ChildAdmittedQuiet ==
    ASSUME LocalInv, NEW t \in Transfer, ChildAdmitted(t)
    PROVE  /\ UNCHANGED clears
           /\ \A u \in entries : Busy(u)' => u \in entries'
           /\ \A u \in entries' : u \in entries \/ u >= nextID
           /\ \A u \in Transfer \ (entries \cup entries') : Unsettled(u)' => Unsettled(u)
<1>. USE DEF ChildAdmitted, ids, tasks, calls, clears, WorkerAt, MayAdd
<1>1. UNCHANGED clears /\ UNCHANGED entries
  OBVIOUS
<1>2. ASSUME NEW u \in Transfer \ entries, Unsettled(u)'
      PROVE  Unsettled(u)
  BY <1>2 DEF LocalInv, TypeOK, Family, Binding, Unsettled, Called, Owner, Alive
<1>. QED
  BY <1>1, <1>2

LEMMA ChildUploadsQuiet ==
    ASSUME LocalInv, NEW t \in Transfer, ChildUploads(t)
    PROVE  /\ UNCHANGED clears
           /\ \A u \in entries : Busy(u)' => u \in entries'
           /\ \A u \in entries' : u \in entries \/ u >= nextID
           /\ \A u \in Transfer \ (entries \cup entries') : Unsettled(u)' => Unsettled(u)
<1>. USE DEF ChildUploads, ids, tasks, calls, clears, WorkerAt
<1>1. UNCHANGED clears /\ UNCHANGED entries
  OBVIOUS
<1>2. ASSUME NEW u \in Transfer \ entries, Unsettled(u)'
      PROVE  Unsettled(u)
  BY <1>2 DEF LocalInv, TypeOK, Family, Binding, Unsettled, Called, Owner, Alive
<1>. QED
  BY <1>1, <1>2

LEMMA ChildIOEndsQuiet ==
    ASSUME LocalInv, NEW t \in Transfer, ChildIOEnds(t)
    PROVE  /\ UNCHANGED clears
           /\ \A u \in entries : Busy(u)' => u \in entries'
           /\ \A u \in entries' : u \in entries \/ u >= nextID
           /\ \A u \in Transfer \ (entries \cup entries') : Unsettled(u)' => Unsettled(u)
<1>. USE DEF ChildIOEnds, ids, tasks, calls, clears, WorkerAt
<1>1. UNCHANGED clears /\ UNCHANGED entries
  OBVIOUS
<1>2. ASSUME NEW u \in Transfer \ entries, Unsettled(u)'
      PROVE  Unsettled(u)
  BY <1>2 DEF LocalInv, TypeOK, Family, Binding, Unsettled, Called, Owner, Alive
<1>. QED
  BY <1>1, <1>2

LEMMA WindowFinishesQuiet ==
    ASSUME LocalInv, NEW t \in Transfer, WindowFinishes(t)
    PROVE  /\ UNCHANGED clears
           /\ \A u \in entries : Busy(u)' => u \in entries'
           /\ \A u \in entries' : u \in entries \/ u >= nextID
           /\ \A u \in Transfer \ (entries \cup entries') : Unsettled(u)' => Unsettled(u)
<1>. USE DEF WindowFinishes, ids, tasks, calls, clears, WorkerAt
<1>1. PICK s \in Terminal : Finish(t, s)
  BY DEF Terminal
<1>2. /\ UNCHANGED <<ids, attached, fired, cancels, clears>>
      /\ entries' \subseteq entries
      /\ \A u \in entries : Busy(u)' => u \in entries'
      /\ finishes' \subseteq finishes \cup (entries \cap {t})
  BY <1>1, FinishEffect DEF LocalInv, Busy, Accepts
<1>3. ASSUME NEW u \in Transfer, Alive(u)'
      PROVE  Alive(u)
  BY <1>3 DEF LocalInv, TypeOK, Alive
<1>4. ASSUME NEW u \in Transfer \ entries, Unsettled(u)'
      PROVE  Unsettled(u)
  BY <1>2, <1>3, <1>4 DEF Unsettled, Called, Owner
<1>. QED
  BY <1>2, <1>4

LEMMA CancelQuiet ==
    ASSUME LocalInv, NEW t \in Transfer, Cancel(t)
    PROVE  /\ UNCHANGED clears
           /\ \A u \in entries : Busy(u)' => u \in entries'
           /\ \A u \in entries' : u \in entries \/ u >= nextID
           /\ \A u \in Transfer \ (entries \cup entries') : Unsettled(u)' => Unsettled(u)
<1>. USE DEF Cancel, ids, tasks, calls, clears, WorkerAt
<1>1. UNCHANGED clears /\ UNCHANGED entries
  OBVIOUS
<1>2. ASSUME NEW u \in Transfer \ entries, Unsettled(u)'
      PROVE  Unsettled(u)
  BY <1>2 DEF LocalInv, TypeOK, Family, Binding, Unsettled, Called, Owner, Alive
<1>. QED
  BY <1>1, <1>2

LEMMA CancelReturnsQuiet ==
    ASSUME LocalInv, NEW t \in Transfer, CancelReturns(t)
    PROVE  /\ UNCHANGED clears
           /\ \A u \in entries : Busy(u)' => u \in entries'
           /\ \A u \in entries' : u \in entries \/ u >= nextID
           /\ \A u \in Transfer \ (entries \cup entries') : Unsettled(u)' => Unsettled(u)
<1>. USE DEF CancelReturns, ids, tasks, calls, clears
<1>1. entries \in SUBSET Transfer
  BY DEF LocalInv, TypeOK
<1>2. /\ entries' \subseteq entries
      /\ \A u \in entries : Busy(u)' => u \in entries'
  BY <1>1, TrimKeeps DEF Busy
<1>3. ASSUME NEW u \in Transfer \ entries, Unsettled(u)'
      PROVE  Unsettled(u)
  BY <1>3 DEF Unsettled, Called, Owner, Alive
<1>. QED
  BY <1>2, <1>3

LEMMA CallbackStartsQuiet ==
    ASSUME LocalInv, NEW t \in Transfer, CallbackStarts(t)
    PROVE  /\ UNCHANGED clears
           /\ \A u \in entries : Busy(u)' => u \in entries'
           /\ \A u \in entries' : u \in entries \/ u >= nextID
           /\ \A u \in Transfer \ (entries \cup entries') : Unsettled(u)' => Unsettled(u)
<1>. USE DEF CallbackStarts, ids, tasks, calls, clears, WorkerAt
<1>1. UNCHANGED clears /\ UNCHANGED entries
  OBVIOUS
<1>2. ASSUME NEW u \in Transfer \ entries, Unsettled(u)'
      PROVE  Unsettled(u)
  BY <1>2 DEF LocalInv, TypeOK, Family, Binding, Unsettled, Called, Owner, Alive
<1>. QED
  BY <1>1, <1>2

LEMMA CallbackEndsQuiet ==
    ASSUME LocalInv, NEW t \in Transfer, CallbackEnds(t)
    PROVE  /\ UNCHANGED clears
           /\ \A u \in entries : Busy(u)' => u \in entries'
           /\ \A u \in entries' : u \in entries \/ u >= nextID
           /\ \A u \in Transfer \ (entries \cup entries') : Unsettled(u)' => Unsettled(u)
<1>. USE DEF CallbackEnds, ids, tasks, calls, clears, WorkerAt
<1>1. UNCHANGED clears /\ UNCHANGED entries
  OBVIOUS
<1>2. ASSUME NEW u \in Transfer \ entries, Unsettled(u)'
      PROVE  Unsettled(u)
  BY <1>2 DEF LocalInv, TypeOK, Family, Binding, Unsettled, Called, Owner, Alive
<1>. QED
  BY <1>1, <1>2

LEMMA FileBeginsQuiet ==
    ASSUME LocalInv, NEW t \in Transfer, NEW c \in Transfer, FileBegins(t, c)
    PROVE  /\ UNCHANGED clears
           /\ \A u \in entries : Busy(u)' => u \in entries'
           /\ \A u \in entries' : u \in entries \/ u >= nextID
           /\ \A u \in Transfer \ (entries \cup entries') : Unsettled(u)' => Unsettled(u)
<1>. USE DEF FileBegins, ids, tasks, calls, clears, WorkerAt, Children
<1>1. UNCHANGED clears /\ UNCHANGED entries
  OBVIOUS
<1>2. ASSUME NEW u \in Transfer \ entries, Unsettled(u)'
      PROVE  Unsettled(u)
  <2>1. /\ parent[c] = t /\ kind[t] = "folder" /\ kind[c] = "file" /\ worker[t] = "files"
        /\ worker' = [worker EXCEPT ![c] = "io"]
    BY DEF LocalInv, TypeOK, Family, NoParent, Transfer
  <2>2. Owner(c) = t /\ Owner(t) = t /\ Alive(t)
    BY <2>1 DEF Owner, Alive
  <2>3. ASSUME NEW v \in Transfer, Owner(v)' = u, Alive(v)'
        PROVE  \E w \in Transfer : Owner(w) = u /\ Alive(w)
    BY <2>1, <2>2, <2>3 DEF LocalInv, TypeOK, Owner, Alive
  <2>. QED
    BY <1>2, <2>3 DEF Unsettled, Called
<1>. QED
  BY <1>1, <1>2

LEMMA FileEndsQuiet ==
    ASSUME LocalInv, NEW t \in Transfer, NEW c \in Transfer, FileEnds(t, c)
    PROVE  /\ UNCHANGED clears
           /\ \A u \in entries : Busy(u)' => u \in entries'
           /\ \A u \in entries' : u \in entries \/ u >= nextID
           /\ \A u \in Transfer \ (entries \cup entries') : Unsettled(u)' => Unsettled(u)
<1>. USE DEF FileEnds, ids, tasks, calls, clears, WorkerAt
<1>1. PICK s \in Terminal : Finish(c, s)
  BY DEF Terminal, Results
<1>2. /\ UNCHANGED <<ids, attached, fired, cancels, clears>>
      /\ entries' \subseteq entries
      /\ \A u \in entries : Busy(u)' => u \in entries'
      /\ finishes' \subseteq finishes \cup (entries \cap {c})
  BY <1>1, FinishEffect DEF LocalInv, Busy, Accepts
<1>3. ASSUME NEW u \in Transfer, Alive(u)'
      PROVE  Alive(u)
  BY <1>3 DEF LocalInv, TypeOK, Alive, Results
<1>4. ASSUME NEW u \in Transfer \ entries, Unsettled(u)'
      PROVE  Unsettled(u)
  BY <1>2, <1>3, <1>4 DEF Unsettled, Called, Owner
<1>. QED
  BY <1>2, <1>4

LEMMA FileDroppedQuiet ==
    ASSUME LocalInv, NEW t \in Transfer, NEW c \in Transfer, FileDropped(t, c)
    PROVE  /\ UNCHANGED clears
           /\ \A u \in entries : Busy(u)' => u \in entries'
           /\ \A u \in entries' : u \in entries \/ u >= nextID
           /\ \A u \in Transfer \ (entries \cup entries') : Unsettled(u)' => Unsettled(u)
<1>. USE DEF FileDropped, ids, tasks, calls, clears, WorkerAt
<1>1. PICK s \in Terminal : Finish(c, s)
  BY DEF Terminal
<1>2. /\ UNCHANGED <<ids, attached, fired, cancels, clears>>
      /\ entries' \subseteq entries
      /\ \A u \in entries : Busy(u)' => u \in entries'
      /\ finishes' \subseteq finishes \cup (entries \cap {c})
  BY <1>1, FinishEffect DEF LocalInv, Busy, Accepts
<1>3. ASSUME NEW u \in Transfer, Alive(u)'
      PROVE  Alive(u)
  BY <1>3 DEF LocalInv, TypeOK, Alive
<1>4. ASSUME NEW u \in Transfer \ entries, Unsettled(u)'
      PROVE  Unsettled(u)
  BY <1>2, <1>3, <1>4 DEF Unsettled, Called, Owner
<1>. QED
  BY <1>2, <1>4

LEMMA StartChildrenQuiet ==
    ASSUME LocalInv, NEW t \in Transfer, NEW n \in Transfer, StartChildren(t, n)
    PROVE  /\ UNCHANGED clears
           /\ \A u \in entries : Busy(u)' => u \in entries'
           /\ \A u \in entries' : u \in entries \/ u >= nextID
           /\ \A u \in Transfer \ (entries \cup entries') : Unsettled(u)' => Unsettled(u)
<1>1. Add(n, "child", t, "queued") /\ n \in Nat
  BY DEF StartChildren, Transfer
<1>2. /\ UNCHANGED <<attached, fired, calls, clears>>
      /\ entries' \subseteq entries \cup Fresh(n)
      /\ \A u \in entries : Busy(u)' => u \in entries'
      /\ \A u \in Fresh(n) : u >= nextID /\ u \in entries'
      /\ \A u \in Transfer \ Fresh(n) : UNCHANGED <<kind[u], parent[u]>>
  BY <1>1, AddEffect DEF LocalInv, TypeOK, Busy, Active
<1>3. ASSUME NEW u \in Transfer \ (entries \cup entries'), Unsettled(u)'
      PROVE  Unsettled(u)
  <2>1. u \notin Fresh(n) /\ UNCHANGED <<attached, fired>> /\ (Called(u)' <=> Called(u))
    BY <1>2, <1>3 DEF Called, calls, clears
  <2>2. ASSUME u \in attached, NEW v \in Transfer, Owner(v)' = u, Alive(v)'
        PROVE  Owner(v) = u /\ Alive(v)
    BY <1>1, <1>2, <2>1, <2>2, AddEffect DEF StartChildren, WorkerAt, LocalInv, TypeOK, Unused, Owner, Alive, Active, NoParent
  <2>. QED
    BY <1>3, <2>1, <2>2 DEF Unsettled
<1>. QED
  BY <1>2, <1>3 DEF LocalInv, TypeOK

LEMMA ScanFindsQuiet ==
    ASSUME LocalInv, NEW t \in Transfer, NEW n \in Transfer, ScanFinds(t, n)
    PROVE  /\ UNCHANGED clears
           /\ \A u \in entries : Busy(u)' => u \in entries'
           /\ \A u \in entries' : u \in entries \/ u >= nextID
           /\ \A u \in Transfer \ (entries \cup entries') : Unsettled(u)' => Unsettled(u)
<1>1. CASE MayAdd(t)
  <2>1. Add(n, "file", t, "queued") /\ n \in Nat
    BY <1>1 DEF ScanFinds, Transfer
  <2>2. /\ UNCHANGED <<attached, fired, calls, clears>>
        /\ entries' \subseteq entries \cup Fresh(n)
        /\ \A u \in entries : Busy(u)' => u \in entries'
        /\ \A u \in Fresh(n) : u >= nextID /\ u \in entries'
        /\ \A u \in Transfer \ Fresh(n) : UNCHANGED <<kind[u], parent[u]>>
    BY <2>1, AddEffect DEF LocalInv, TypeOK, Busy, Active
  <2>3. ASSUME NEW u \in Transfer \ (entries \cup entries'), Unsettled(u)'
        PROVE  Unsettled(u)
    <3>1. u \notin Fresh(n) /\ UNCHANGED <<attached, fired>> /\ (Called(u)' <=> Called(u))
      BY <2>2, <2>3 DEF Called, calls, clears
    <3>2. ASSUME u \in attached, NEW v \in Transfer, Owner(v)' = u, Alive(v)'
          PROVE  Owner(v) = u /\ Alive(v)
      BY <1>1, <2>1, <2>2, <3>1, <3>2, AddEffect DEF ScanFinds, WorkerAt, LocalInv, TypeOK, Unused, Owner, Alive, Active, NoParent
    <3>. QED
      BY <2>3, <3>1, <3>2 DEF Unsettled
  <2>. QED
    BY <2>2, <2>3 DEF LocalInv, TypeOK
<1>2. CASE ~MayAdd(t)
  <2>. USE <1>2 DEF ScanFinds, ids, tasks, calls, clears, WorkerAt
  <2>1. UNCHANGED clears /\ UNCHANGED entries
    OBVIOUS
  <2>2. ASSUME NEW u \in Transfer \ entries, Unsettled(u)'
        PROVE  Unsettled(u)
    BY <2>2 DEF LocalInv, TypeOK, Family, Binding, Unsettled, Called, Owner, Alive
  <2>. QED
    BY <2>1, <2>2
<1>. QED
  BY <1>1, <1>2

LEMMA StartQuiet ==
    ASSUME LocalInv, NEW k \in RootKind, Start(k)
    PROVE  /\ UNCHANGED clears
           /\ \A u \in entries : Busy(u)' => u \in entries'
           /\ \A u \in entries' : u \in entries \/ u >= nextID
           /\ \A u \in Transfer \ (entries \cup entries') : Unsettled(u)' => Unsettled(u)
<1>1. Add(1, k, NoParent, "running") /\ 1 \in Nat
  BY DEF Start, Transfer
<1>2. /\ UNCHANGED <<attached, fired, calls, clears>>
      /\ entries' \subseteq entries \cup Fresh(1)
      /\ \A u \in entries : Busy(u)' => u \in entries'
      /\ \A u \in Fresh(1) : u >= nextID /\ u \in entries'
      /\ \A u \in Transfer \ Fresh(1) : UNCHANGED <<kind[u], parent[u]>>
  BY <1>1, AddEffect DEF LocalInv, TypeOK, Busy, Active
<1>3. ASSUME NEW u \in Transfer \ (entries \cup entries'), Unsettled(u)'
      PROVE  Unsettled(u)
  <2>1. u \notin Fresh(1) /\ UNCHANGED <<attached, fired>> /\ (Called(u)' <=> Called(u))
    BY <1>2, <1>3 DEF Called, calls, clears
  <2>2. ASSUME u \in attached, NEW v \in Transfer, Owner(v)' = u, Alive(v)'
        PROVE  Owner(v) = u /\ Alive(v)
    BY <1>1, <1>2, <2>1, <2>2, AddEffect DEF Start, WorkerAt, LocalInv, TypeOK, Unused, Binding, Owner, Alive, Fresh, Active, NoParent
  <2>. QED
    BY <1>3, <2>1, <2>2 DEF Unsettled
<1>. QED
  BY <1>2, <1>3 DEF LocalInv, TypeOK

LEMMA ClearHistoryQuiet ==
    ASSUME LocalInv, ClearHistory
    PROVE  /\ UNCHANGED clears
           /\ \A u \in entries : Busy(u)' => u \in entries'
           /\ \A u \in entries' : u \in entries \/ u >= nextID
           /\ \A u \in Transfer \ (entries \cup entries') : Unsettled(u)' => Unsettled(u)
<1>. USE DEF ClearHistory, ids, tasks, calls, clears
<1>1. \A u \in entries : Busy(u)' => u \in entries'
  BY DEF Removable, Busy
<1>2. ASSUME NEW u \in Transfer \ entries, Unsettled(u)'
      PROVE  Unsettled(u)
  BY <1>2 DEF Unsettled, Called, Owner, Alive
<1>. QED
  BY <1>1, <1>2

(* Every step keeps what is local to a task.                               *)
LEMMA LocalStep ==
    LocalInv /\ [Next]_vars => LocalInv'
<1>. SUFFICES ASSUME LocalInv, [Next]_vars
              PROVE  LocalInv'
  OBVIOUS
<1>1. ASSUME NEW t \in Transfer, Bind(t)
      PROVE  LocalInv'
  BY <1>1, BindLocal
<1>2. ASSUME NEW t \in Transfer, BindRefused(t)
      PROVE  LocalInv'
  BY <1>2, BindRefusedLocal
<1>3. ASSUME NEW t \in Transfer, FinishReturns(t)
      PROVE  LocalInv'
  BY <1>3, FinishReturnsLocal
<1>4. ASSUME NEW t \in Transfer, IOEnds(t)
      PROVE  LocalInv'
  BY <1>4, IOEndsLocal
<1>5. ASSUME NEW t \in Transfer, Report(t)
      PROVE  LocalInv'
  BY <1>5, ReportLocal
<1>6. ASSUME NEW t \in Transfer, MountEnds(t)
      PROVE  LocalInv'
  BY <1>6, MountEndsLocal
<1>7. ASSUME NEW t \in Transfer, Retry(t)
      PROVE  LocalInv'
  BY <1>7, RetryLocal
<1>8. ASSUME NEW t \in Transfer, RetryEnds(t)
      PROVE  LocalInv'
  BY <1>8, RetryEndsLocal
<1>9. ASSUME NEW t \in Transfer, ScanEnds(t)
      PROVE  LocalInv'
  BY <1>9, ScanEndsLocal
<1>10. ASSUME NEW t \in Transfer, FolderStops(t)
      PROVE  LocalInv'
  BY <1>10, FolderStopsLocal
<1>11. ASSUME NEW t \in Transfer, FolderEnds(t)
      PROVE  LocalInv'
  BY <1>11, FolderEndsLocal
<1>12. ASSUME NEW t \in Transfer, ChildBegins(t)
      PROVE  LocalInv'
  BY <1>12, ChildBeginsLocal
<1>13. ASSUME NEW t \in Transfer, ChildAdmitted(t)
      PROVE  LocalInv'
  BY <1>13, ChildAdmittedLocal
<1>14. ASSUME NEW t \in Transfer, ChildUploads(t)
      PROVE  LocalInv'
  BY <1>14, ChildUploadsLocal
<1>15. ASSUME NEW t \in Transfer, ChildIOEnds(t)
      PROVE  LocalInv'
  BY <1>15, ChildIOEndsLocal
<1>16. ASSUME NEW t \in Transfer, WindowFinishes(t)
      PROVE  LocalInv'
  BY <1>16, WindowFinishesLocal
<1>17. ASSUME NEW t \in Transfer, Cancel(t)
      PROVE  LocalInv'
  BY <1>17, CancelLocal
<1>18. ASSUME NEW t \in Transfer, CancelReturns(t)
      PROVE  LocalInv'
  BY <1>18, CancelReturnsLocal
<1>19. ASSUME NEW t \in Transfer, CallbackStarts(t)
      PROVE  LocalInv'
  BY <1>19, CallbackStartsLocal
<1>20. ASSUME NEW t \in Transfer, CallbackEnds(t)
      PROVE  LocalInv'
  BY <1>20, CallbackEndsLocal
<1>21. ASSUME NEW t \in Transfer, NEW c \in Transfer, FileBegins(t, c)
      PROVE  LocalInv'
  BY <1>21, FileBeginsLocal
<1>22. ASSUME NEW t \in Transfer, NEW c \in Transfer, FileEnds(t, c)
      PROVE  LocalInv'
  BY <1>22, FileEndsLocal
<1>23. ASSUME NEW t \in Transfer, NEW c \in Transfer, FileDropped(t, c)
      PROVE  LocalInv'
  BY <1>23, FileDroppedLocal
<1>24. ASSUME NEW t \in Transfer, NEW n \in Transfer, StartChildren(t, n)
      PROVE  LocalInv'
  BY <1>24, StartChildrenLocal
<1>25. ASSUME NEW t \in Transfer, NEW n \in Transfer, ScanFinds(t, n)
      PROVE  LocalInv'
  BY <1>25, ScanFindsLocal
<1>26. ASSUME NEW k \in RootKind, Start(k)
      PROVE  LocalInv'
  BY <1>26, StartLocal
<1>27. CASE ClearHistory
  BY <1>27, ClearHistoryLocal
<1>28. ASSUME NEW c \in ClearCall, Clear(c)
      PROVE  LocalInv'
  BY <1>28, ClearLocal
<1>29. ASSUME NEW c \in ClearCall, ClearReturns(c)
      PROVE  LocalInv'
  BY <1>29, ClearReturnsLocal
<1>30. CASE UNCHANGED vars
  BY <1>30 DEF vars, ids, tasks, calls, clears, LocalInv, TypeOK, Unused, Family, Binding, Busy, Called, Alive
<1>. QED
  BY <1>1, <1>2, <1>3, <1>4, <1>5, <1>6, <1>7, <1>8, <1>9, <1>10, <1>11,
     <1>12, <1>13, <1>14, <1>15, <1>16, <1>17, <1>18, <1>19, <1>20, <1>21,
     <1>22, <1>23, <1>24, <1>25, <1>26, <1>27, <1>28, <1>29, <1>30 DEF Next

(* A Clear takes every bound callback and joins the chain before it.       *)
LEMMA ClearStep ==
    ASSUME IInv, NEW c \in ClearCall, Clear(c)
    PROVE  Covered' /\ \A d \in ClearCall : Chained(d)'
<1>1. LocalInv /\ Covered /\ \A d \in ClearCall : Chained(d)
  BY DEF IInv
<1>2. \A t \in entries : t \in Transfer /\ t \in 1 .. nextID - 1
  BY <1>1 DEF LocalInv, TypeOK, Unused, Transfer
<1>3. /\ pc \in [ClearCall -> {"idle", "joining", "returned"}]
      /\ take \in [ClearCall -> SUBSET Transfer]
      /\ prior \in [ClearCall -> ClearCall \cup {NoClear}]
      /\ before \in [ClearCall -> SUBSET Transfer]
      /\ inFlight \in ClearCall \cup {NoClear}
      /\ NoClear \notin ClearCall
  BY <1>1, ConstantsAssumption DEF LocalInv, TypeOK
<1>4. /\ pc[c] = "idle"
      /\ pc' = [pc EXCEPT ![c] = "joining"]
      /\ take' = [take EXCEPT ![c] = {t \in entries : bound[t]}]
      /\ prior' = [prior EXCEPT ![c] = inFlight]
      /\ before' = [before EXCEPT ![c] = 1 .. nextID - 1]
      /\ inFlight' = IF entries = {} THEN inFlight ELSE c
      /\ entries' = {}
      /\ UNCHANGED <<ids, state, bound, pending, attached, fired, calls, worker>>
  BY DEF Clear
<1>5. ASSUME NEW t \in Transfer, Unsettled(t)'
      PROVE  Unsettled(t) \/ (t \in entries /\ bound[t])
  BY <1>3, <1>4, <1>5 DEF Unsettled, Called, Owner, Alive, ids, calls
<1>6. ASSUME NEW t \in Transfer, Unsettled(t)'
      PROVE  (t \in entries /\ bound[t]) \/
             (t \notin entries /\ inFlight # NoClear /\ t \in before[inFlight] /\ Unsettled(t))
  BY <1>1, <1>5, <1>6, UnsettledBound DEF Covered
<1>7. inFlight # NoClear => inFlight # c /\ pc[inFlight] = "joining"
  BY <1>1, <1>4 DEF Covered
<1>8. \A t \in Transfer : Unsettled(t)' => t \in 1 .. nextID - 1
  <2>1. ASSUME NEW t \in Transfer, Unsettled(t), t \notin 1 .. nextID - 1
        PROVE  FALSE
    <3>1. Unused(t)
      BY <1>1, <2>1 DEF LocalInv, TypeOK, Transfer
    <3>2. bound[t]
      BY <1>1, <2>1, UnsettledBound
    <3>. QED
      BY <3>1, <3>2 DEF Unused
  <2>. QED
    BY <1>2, <1>5, <2>1
<1>9. Covered'
  <2>1. CASE entries = {}
    BY <1>3, <1>4, <1>6, <1>7, <2>1 DEF Covered
  <2>2. CASE entries # {}
    BY <1>3, <1>4, <1>8, <2>2 DEF Covered
  <2>. QED
    BY <2>1, <2>2
<1>10. Chained(c)'
  <2>1. take'[c] \subseteq before'[c]
    BY <1>2, <1>3, <1>4
  <2>2. ASSUME NEW t \in before'[c], Unsettled(t)'
        PROVE  \/ t \in take'[c]
               \/ \E d \in ClearCall : prior'[c] = d /\ pc'[d] = "joining" /\ t \in before'[d]
    <3>1. t \in Transfer
      BY <1>1, <1>3, <1>4, <2>2, ConstantsAssumption DEF LocalInv, TypeOK, Transfer
    <3>2. CASE t \in entries /\ bound[t]
      BY <1>3, <1>4, <3>2
    <3>3. CASE ~(t \in entries /\ bound[t])
      <4>1. inFlight \in ClearCall /\ t \in before[inFlight]
        BY <1>3, <1>6, <2>2, <3>1, <3>3
      <4>2. prior'[c] = inFlight /\ pc'[inFlight] = "joining" /\ t \in before'[inFlight]
        BY <1>3, <1>4, <1>7, <4>1
      <4>. QED
        BY <4>1, <4>2
    <3>. QED
      BY <3>2, <3>3
  <2>. QED
    BY <1>3, <1>4, <2>1, <2>2 DEF Chained
<1>11. ASSUME NEW d \in ClearCall, d # c
       PROVE  Chained(d)'
  <2>1. UNCHANGED <<pc[d], take[d], prior[d], before[d]>>
    BY <1>3, <1>4, <1>11
  <2>2. pc[d] # "idle" => \A t \in before[d] : Unsettled(t)' => Unsettled(t)
    BY <1>1, <1>3, <1>5 DEF Chained
  <2>3. \A e \in ClearCall : pc[e] = "joining" =>
           pc'[e] = "joining" /\ before'[e] = before[e]
    BY <1>3, <1>4
  <2>. QED
    BY <1>1, <1>4, <2>1, <2>2, <2>3 DEF Chained
<1>. QED
  BY <1>9, <1>10, <1>11

(* A Clear that returns covers nothing unsettled any more.                 *)
LEMMA ClearReturnsStep ==
    ASSUME IInv, NEW c \in ClearCall, ClearReturns(c)
    PROVE  Covered' /\ \A d \in ClearCall : Chained(d)'
<1>1. LocalInv /\ Covered /\ \A d \in ClearCall : Chained(d)
  BY DEF IInv
<1>2. /\ pc \in [ClearCall -> {"idle", "joining", "returned"}]
      /\ before \in [ClearCall -> SUBSET Transfer]
      /\ NoClear \notin ClearCall
  BY <1>1, ConstantsAssumption DEF LocalInv, TypeOK
<1>3. /\ pc[c] = "joining"
      /\ pc' = [pc EXCEPT ![c] = "returned"]
      /\ inFlight' = IF inFlight = c THEN NoClear ELSE inFlight
      /\ UNCHANGED <<ids, tasks, attached, fired, calls, worker, take, prior, before>>
  BY DEF ClearReturns
<1>4. \A t \in before[c] : ~Unsettled(t)
  <2>1. ASSUME NEW t \in before[c], Unsettled(t)
        PROVE  FALSE
    <3>1. t \notin take[c]
      BY <2>1 DEF ClearReturns, Joined, Unsettled
    <3>2. PICK d \in ClearCall : prior[c] = d /\ pc[d] = "joining"
      BY <1>1, <1>3, <2>1, <3>1 DEF Chained
    <3>. QED
      BY <3>2 DEF ClearReturns, Joined
  <2>. QED
    BY <2>1
<1>5. \A t \in Transfer : Unsettled(t)' => Unsettled(t)
  BY <1>2, <1>3 DEF Unsettled, Called, Owner, Alive, ids, calls
<1>6. Covered'
  BY <1>1, <1>2, <1>3, <1>4, <1>5 DEF Covered, tasks
<1>7. ASSUME NEW d \in ClearCall
      PROVE  Chained(d)'
  <2>1. \A t \in before[d] : Unsettled(t)' => Unsettled(t) /\ t \notin before[c]
    BY <1>2, <1>4, <1>5
  <2>2. \A e \in ClearCall : pc[e] = "joining" /\ e # c => pc'[e] = "joining"
    BY <1>2, <1>3
  <2>3. \A t \in before[d] : Unsettled(t)' => d # c
    BY <2>1
  <2>4. UNCHANGED <<entries, take, prior, before>>
    BY <1>3 DEF tasks
  <2>5. pc'[d] # "idle" => pc[d] # "idle"
    BY <1>2, <1>3
  <2>. QED
    BY <1>1, <2>1, <2>2, <2>3, <2>4, <2>5 DEF Chained
<1>. QED
  BY <1>6, <1>7

LEMMA InvariantStep ==
    IInv /\ [Next]_vars => IInv'
<1>. SUFFICES ASSUME IInv, [Next]_vars
              PROVE  IInv'
  OBVIOUS
<1>1. LocalInv /\ LocalInv' /\ Covered /\ \A c \in ClearCall : Chained(c)
  BY LocalStep DEF IInv
<1>. DEFINE Chain == Covered' /\ \A c \in ClearCall : Chained(c)'
<1>2. ASSUME NEW t \in Transfer, Bind(t)
      PROVE  Chain
  BY <1>1, <1>2, BindQuiet, QuietStep
<1>3. ASSUME NEW t \in Transfer, BindRefused(t)
      PROVE  Chain
  BY <1>1, <1>3, BindRefusedQuiet, QuietStep
<1>4. ASSUME NEW t \in Transfer, FinishReturns(t)
      PROVE  Chain
  BY <1>1, <1>4, FinishReturnsQuiet, QuietStep
<1>5. ASSUME NEW t \in Transfer, IOEnds(t)
      PROVE  Chain
  BY <1>1, <1>5, IOEndsQuiet, QuietStep
<1>6. ASSUME NEW t \in Transfer, Report(t)
      PROVE  Chain
  BY <1>1, <1>6, ReportQuiet, QuietStep
<1>7. ASSUME NEW t \in Transfer, MountEnds(t)
      PROVE  Chain
  BY <1>1, <1>7, MountEndsQuiet, QuietStep
<1>8. ASSUME NEW t \in Transfer, Retry(t)
      PROVE  Chain
  BY <1>1, <1>8, RetryQuiet, QuietStep
<1>9. ASSUME NEW t \in Transfer, RetryEnds(t)
      PROVE  Chain
  BY <1>1, <1>9, RetryEndsQuiet, QuietStep
<1>10. ASSUME NEW t \in Transfer, ScanEnds(t)
      PROVE  Chain
  BY <1>1, <1>10, ScanEndsQuiet, QuietStep
<1>11. ASSUME NEW t \in Transfer, FolderStops(t)
      PROVE  Chain
  BY <1>1, <1>11, FolderStopsQuiet, QuietStep
<1>12. ASSUME NEW t \in Transfer, FolderEnds(t)
      PROVE  Chain
  BY <1>1, <1>12, FolderEndsQuiet, QuietStep
<1>13. ASSUME NEW t \in Transfer, ChildBegins(t)
      PROVE  Chain
  BY <1>1, <1>13, ChildBeginsQuiet, QuietStep
<1>14. ASSUME NEW t \in Transfer, ChildAdmitted(t)
      PROVE  Chain
  BY <1>1, <1>14, ChildAdmittedQuiet, QuietStep
<1>15. ASSUME NEW t \in Transfer, ChildUploads(t)
      PROVE  Chain
  BY <1>1, <1>15, ChildUploadsQuiet, QuietStep
<1>16. ASSUME NEW t \in Transfer, ChildIOEnds(t)
      PROVE  Chain
  BY <1>1, <1>16, ChildIOEndsQuiet, QuietStep
<1>17. ASSUME NEW t \in Transfer, WindowFinishes(t)
      PROVE  Chain
  BY <1>1, <1>17, WindowFinishesQuiet, QuietStep
<1>18. ASSUME NEW t \in Transfer, Cancel(t)
      PROVE  Chain
  BY <1>1, <1>18, CancelQuiet, QuietStep
<1>19. ASSUME NEW t \in Transfer, CancelReturns(t)
      PROVE  Chain
  BY <1>1, <1>19, CancelReturnsQuiet, QuietStep
<1>20. ASSUME NEW t \in Transfer, CallbackStarts(t)
      PROVE  Chain
  BY <1>1, <1>20, CallbackStartsQuiet, QuietStep
<1>21. ASSUME NEW t \in Transfer, CallbackEnds(t)
      PROVE  Chain
  BY <1>1, <1>21, CallbackEndsQuiet, QuietStep
<1>22. ASSUME NEW t \in Transfer, NEW c \in Transfer, FileBegins(t, c)
      PROVE  Chain
  BY <1>1, <1>22, FileBeginsQuiet, QuietStep
<1>23. ASSUME NEW t \in Transfer, NEW c \in Transfer, FileEnds(t, c)
      PROVE  Chain
  BY <1>1, <1>23, FileEndsQuiet, QuietStep
<1>24. ASSUME NEW t \in Transfer, NEW c \in Transfer, FileDropped(t, c)
      PROVE  Chain
  BY <1>1, <1>24, FileDroppedQuiet, QuietStep
<1>25. ASSUME NEW t \in Transfer, NEW n \in Transfer, StartChildren(t, n)
      PROVE  Chain
  BY <1>1, <1>25, StartChildrenQuiet, QuietStep
<1>26. ASSUME NEW t \in Transfer, NEW n \in Transfer, ScanFinds(t, n)
      PROVE  Chain
  BY <1>1, <1>26, ScanFindsQuiet, QuietStep
<1>27. ASSUME NEW k \in RootKind, Start(k)
      PROVE  Chain
  BY <1>1, <1>27, StartQuiet, QuietStep
<1>28. ASSUME ClearHistory
      PROVE  Chain
  BY <1>1, <1>28, ClearHistoryQuiet, QuietStep
<1>29. ASSUME NEW c \in ClearCall, Clear(c)
      PROVE  Chain
  BY <1>29, ClearStep
<1>30. ASSUME NEW c \in ClearCall, ClearReturns(c)
      PROVE  Chain
  BY <1>30, ClearReturnsStep
<1>31. ASSUME UNCHANGED vars
       PROVE  Chain
  <2>1. UNCHANGED clears /\ UNCHANGED entries /\ \A u \in Transfer : Unsettled(u)' => Unsettled(u)
    BY <1>31 DEF vars, ids, tasks, calls, clears, Unsettled, Called, Owner, Alive
  <2>. QED
    BY <1>1, <2>1, QuietStep
<1>32. Chain
  BY <1>2, <1>3, <1>4, <1>5, <1>6, <1>7, <1>8, <1>9, <1>10, <1>11, <1>12,
     <1>13, <1>14, <1>15, <1>16, <1>17, <1>18, <1>19, <1>20, <1>21, <1>22,
     <1>23, <1>24, <1>25, <1>26, <1>27, <1>28, <1>29, <1>30, <1>31 DEF Next
<1>. QED
  BY <1>1, <1>32 DEF IInv

LEMMA InvariantInit ==
    Init => IInv
<1>. SUFFICES ASSUME Init
              PROVE  IInv
  OBVIOUS
<1>. USE ConstantsAssumption DEF Init
<1>1. TypeOK
  BY DEF TypeOK, Kind, Active, Worker
<1>2. ASSUME NEW t \in Transfer
      PROVE  Unused(t) /\ Family(t) /\ Binding(t)
  BY DEF Unused, Family, Binding, Called, Alive, Busy, NoParent
<1>3. ASSUME NEW t \in Transfer
      PROVE  ~Unsettled(t)
  BY DEF Unsettled, Called
<1>. QED
  BY <1>1, <1>2, <1>3 DEF IInv, LocalInv, Covered, Chained

-------------------------------------------------------------------------------
(* TypeOK holds in every reachable state: the records that Clear, trimming *)
(* and the workers leave behind keep their shape.                          *)
THEOREM TypeCorrect ==
    Spec => []TypeOK
<1>1. IInv => TypeOK
  BY DEF IInv, LocalInv
<1>. QED
  BY InvariantInit, InvariantStep, <1>1, PTL DEF Spec

(* IInv is inductive, for any number of tasks and of Clear calls.          *)
THEOREM InvariantHolds ==
    Spec => []IInv
  BY InvariantInit, InvariantStep, PTL DEF Spec

(* When a Clear has returned, no callback of a task started before it is   *)
(* running and no I/O under one goes on uncancelled.                       *)
THEOREM ClearJoinsAlways ==
    Spec => []ClearJoins
<1>1. IInv => ClearJoins
  <2>. SUFFICES ASSUME IInv, NEW c \in ClearCall, pc[c] = "returned", NEW t \in before[c]
                PROVE  fired[t] # "firing" /\ ~Uncancelled(t)
    BY DEF ClearJoins
  <2>1. /\ LocalInv /\ Chained(c)
        /\ t \in Transfer /\ parent[t] \in Transfer \cup {NoParent}
    BY DEF IInv, LocalInv, TypeOK
  <2>2. ~Unsettled(t)
    BY <2>1 DEF Chained
  <2>3. ASSUME Uncancelled(t)
        PROVE  FALSE
    <3>1. Owner(t) \in attached /\ fired[Owner(t)] # "done" /\ Alive(t)
      BY <2>3 DEF Uncancelled
    <3>2. Owner(t) \in Transfer
      BY <3>1, <2>1 DEF LocalInv, TypeOK
    <3>3. Unsettled(Owner(t))
      BY <2>1, <3>1, <3>2 DEF Unsettled
    <3>4. Owner(t) \in before[c]
      BY <2>1 DEF LocalInv, Family, Owner
    <3>. QED
      BY <2>1, <3>3, <3>4 DEF Chained
  <2>. QED
    BY <2>2, <2>3 DEF Unsettled
<1>. QED
  BY InvariantHolds, <1>1, PTL

LEMMA OutcomeStep ==
    ASSUME LocalInv, [Next]_vars, NEW u \in Transfer
    PROVE  /\ state[u] \in Terminal /\ u < nextID =>
                state'[u] = state[u] \/ (state[u] = "failed" /\ state'[u] = "retrying")
           /\ state[u] = "cancelling" => state'[u] # "completed"
<1>. DEFINE Stands ==
       /\ state[u] \in Terminal /\ u < nextID =>
            state'[u] = state[u] \/ (state[u] = "failed" /\ state'[u] = "retrying")
       /\ state[u] = "cancelling" => state'[u] # "completed"
<1>. USE DEF Terminal
<1>0. TypeOK
  BY DEF LocalInv
<1>1. ASSUME NEW t \in Transfer, Bind(t)
      PROVE  Stands
  BY <1>0, <1>1 DEF Bind, ids, tasks, calls, clears, Begun, TypeOK, Active
<1>2. ASSUME NEW t \in Transfer, BindRefused(t)
      PROVE  Stands
  BY <1>0, <1>2 DEF BindRefused, ids, tasks, calls, clears, Begun, TypeOK, Active
<1>3. ASSUME NEW t \in Transfer, FinishReturns(t)
      PROVE  Stands
  BY <1>0, <1>3 DEF FinishReturns, ids, tasks, calls, clears, Begun, TypeOK, Active
<1>4. ASSUME NEW t \in Transfer, IOEnds(t)
      PROVE  Stands
  BY <1>0, <1>4 DEF IOEnds, ids, tasks, calls, clears, Begun, TypeOK, Active
<1>5. ASSUME NEW t \in Transfer, Report(t)
      PROVE  Stands
  <2>1. PICK s \in Terminal : Finish(t, s)
    BY <1>5 DEF Report
  <2>2. UNCHANGED state \/ (Accepts(t, s) /\ state' = [state EXCEPT ![t] = s])
    BY <1>0, <2>1, FinishEffect DEF tasks
  <2>. QED
    BY <1>0, <2>2 DEF Accepts, TypeOK
<1>6. ASSUME NEW t \in Transfer, MountEnds(t)
      PROVE  Stands
  <2>1. PICK s \in Terminal : Finish(t, s)
    BY <1>6 DEF MountEnds
  <2>2. UNCHANGED state \/ (Accepts(t, s) /\ state' = [state EXCEPT ![t] = s])
    BY <1>0, <2>1, FinishEffect DEF tasks
  <2>. QED
    BY <1>0, <2>2 DEF Accepts, TypeOK
<1>7. ASSUME NEW t \in Transfer, Retry(t)
      PROVE  Stands
  BY <1>0, <1>7 DEF Retry, ids, tasks, calls, clears, Begun, TypeOK, Active
<1>8. ASSUME NEW t \in Transfer, RetryEnds(t)
      PROVE  Stands
  <2>1. PICK s \in Terminal : Finish(t, s)
    BY <1>8 DEF RetryEnds
  <2>2. UNCHANGED state \/ (Accepts(t, s) /\ state' = [state EXCEPT ![t] = s])
    BY <1>0, <2>1, FinishEffect DEF tasks
  <2>. QED
    BY <1>0, <2>2 DEF Accepts, TypeOK
<1>9. ASSUME NEW t \in Transfer, ScanEnds(t)
      PROVE  Stands
  BY <1>0, <1>9 DEF ScanEnds, ids, tasks, calls, clears, Begun, TypeOK, Active
<1>10. ASSUME NEW t \in Transfer, FolderStops(t)
      PROVE  Stands
  BY <1>0, <1>10 DEF FolderStops, ids, tasks, calls, clears, Begun, TypeOK, Active
<1>11. ASSUME NEW t \in Transfer, FolderEnds(t)
      PROVE  Stands
  <2>1. PICK s \in Terminal : Finish(t, s)
    BY <1>11 DEF FolderEnds
  <2>2. UNCHANGED state \/ (Accepts(t, s) /\ state' = [state EXCEPT ![t] = s])
    BY <1>0, <2>1, FinishEffect DEF tasks
  <2>. QED
    BY <1>0, <2>2 DEF Accepts, TypeOK
<1>12. ASSUME NEW t \in Transfer, ChildBegins(t)
      PROVE  Stands
  BY <1>0, <1>12 DEF ChildBegins, ids, tasks, calls, clears, Begun, TypeOK, Active
<1>13. ASSUME NEW t \in Transfer, ChildAdmitted(t)
      PROVE  Stands
  BY <1>0, <1>13 DEF ChildAdmitted, ids, tasks, calls, clears, Begun, TypeOK, Active
<1>14. ASSUME NEW t \in Transfer, ChildUploads(t)
      PROVE  Stands
  BY <1>0, <1>14 DEF ChildUploads, ids, tasks, calls, clears, Begun, TypeOK, Active
<1>15. ASSUME NEW t \in Transfer, ChildIOEnds(t)
      PROVE  Stands
  BY <1>0, <1>15 DEF ChildIOEnds, ids, tasks, calls, clears, Begun, TypeOK, Active
<1>16. ASSUME NEW t \in Transfer, WindowFinishes(t)
      PROVE  Stands
  <2>1. PICK s \in Terminal : Finish(t, s)
    BY <1>16 DEF WindowFinishes
  <2>2. UNCHANGED state \/ (Accepts(t, s) /\ state' = [state EXCEPT ![t] = s])
    BY <1>0, <2>1, FinishEffect DEF tasks
  <2>. QED
    BY <1>0, <2>2 DEF Accepts, TypeOK
<1>17. ASSUME NEW t \in Transfer, Cancel(t)
      PROVE  Stands
  BY <1>0, <1>17 DEF Cancel, ids, tasks, calls, clears, Begun, TypeOK, Active
<1>18. ASSUME NEW t \in Transfer, CancelReturns(t)
      PROVE  Stands
  BY <1>0, <1>18 DEF CancelReturns, ids, tasks, calls, clears, Begun, TypeOK, Active
<1>19. ASSUME NEW t \in Transfer, CallbackStarts(t)
      PROVE  Stands
  BY <1>0, <1>19 DEF CallbackStarts, ids, tasks, calls, clears, Begun, TypeOK, Active
<1>20. ASSUME NEW t \in Transfer, CallbackEnds(t)
      PROVE  Stands
  BY <1>0, <1>20 DEF CallbackEnds, ids, tasks, calls, clears, Begun, TypeOK, Active
<1>21. ASSUME NEW t \in Transfer, NEW c \in Transfer, FileBegins(t, c)
      PROVE  Stands
  BY <1>0, <1>21 DEF FileBegins, ids, tasks, calls, clears, Begun, TypeOK, Active
<1>22. ASSUME NEW t \in Transfer, NEW c \in Transfer, FileEnds(t, c)
      PROVE  Stands
  <2>1. PICK s \in Terminal : Finish(c, s)
    BY <1>22 DEF FileEnds, Results
  <2>2. UNCHANGED state \/ (Accepts(c, s) /\ state' = [state EXCEPT ![c] = s])
    BY <1>0, <2>1, FinishEffect DEF tasks
  <2>. QED
    BY <1>0, <2>2 DEF Accepts, TypeOK
<1>23. ASSUME NEW t \in Transfer, NEW c \in Transfer, FileDropped(t, c)
      PROVE  Stands
  <2>1. PICK s \in Terminal : Finish(c, s)
    BY <1>23 DEF FileDropped
  <2>2. UNCHANGED state \/ (Accepts(c, s) /\ state' = [state EXCEPT ![c] = s])
    BY <1>0, <2>1, FinishEffect DEF tasks
  <2>. QED
    BY <1>0, <2>2 DEF Accepts, TypeOK
<1>24. ASSUME NEW t \in Transfer, NEW n \in Transfer, StartChildren(t, n)
      PROVE  Stands
  BY <1>0, <1>24 DEF StartChildren, Add, Fresh, Active, TypeOK, Transfer, tasks, ids
<1>25. ASSUME NEW t \in Transfer, NEW n \in Transfer, ScanFinds(t, n)
      PROVE  Stands
  <2>1. CASE MayAdd(t)
    <3>1. state' = [v \in Transfer |-> IF v \in Fresh(n) THEN "queued" ELSE state[v]]
      BY <1>25, <2>1 DEF ScanFinds, Add
    <3>2. \A v \in Fresh(n) : v >= nextID
      BY <1>0 DEF Fresh, TypeOK
    <3>. QED
      BY <1>0, <3>1, <3>2 DEF TypeOK, Transfer
  <2>2. CASE ~MayAdd(t)
    BY <1>25, <2>2 DEF ScanFinds, tasks
  <2>. QED
    BY <2>1, <2>2
<1>26. ASSUME NEW k \in RootKind, Start(k)
      PROVE  Stands
  BY <1>0, <1>26 DEF Start, Add, Fresh, Active, TypeOK, Transfer, tasks, ids
<1>27. ASSUME ClearHistory
      PROVE  Stands
  BY <1>0, <1>27 DEF ClearHistory, ids, tasks, calls, clears, Begun, TypeOK, Active
<1>28. ASSUME NEW c \in ClearCall, Clear(c)
      PROVE  Stands
  BY <1>0, <1>28 DEF Clear, ids, tasks, calls, clears, Begun, TypeOK, Active
<1>29. ASSUME NEW c \in ClearCall, ClearReturns(c)
      PROVE  Stands
  BY <1>0, <1>29 DEF ClearReturns, ids, tasks, calls, clears, Begun, TypeOK, Active
<1>30. ASSUME UNCHANGED vars
       PROVE  Stands
  BY <1>30 DEF vars, tasks
<1>. QED
  BY <1>1, <1>2, <1>3, <1>4, <1>5, <1>6, <1>7, <1>8, <1>9, <1>10, <1>11,
     <1>12, <1>13, <1>14, <1>15, <1>16, <1>17, <1>18, <1>19, <1>20, <1>21,
     <1>22, <1>23, <1>24, <1>25, <1>26, <1>27, <1>28, <1>29, <1>30 DEF Next

(* The first outcome of a task stands, whoever reports later, and a task   *)
(* that is being cancelled does not complete.                              *)
THEOREM OutcomeStandsAlways ==
    Spec => OutcomeStands
<1>. DEFINE Step == \A t \in Transfer :
       /\ state[t] \in Terminal /\ t < nextID =>
            state'[t] = state[t] \/ (state[t] = "failed" /\ state'[t] = "retrying")
       /\ state[t] = "cancelling" => state'[t] # "completed"
<1>1. IInv /\ [Next]_vars => [Step]_vars
  BY OutcomeStep DEF IInv
<1>. QED
  BY InvariantHolds, <1>1, PTL DEF Spec, OutcomeStands

-----------------------------------------------------------------------------
(* The limit of the history.                                               *)

(* Every set of numbers that is not empty has a least one.                 *)
LEMMA LeastMember ==
    ASSUME NEW T \in SUBSET Nat, T # {}
    PROVE  \E n \in T : \A m \in T : n <= m
<1>. DEFINE R == {p \in Nat \X Nat : p[1] < p[2]}
<1>1. IsWellFoundedOn(R, Nat)
  BY NatLessThanWellFounded DEF OpToRel
<1>2. PICK n \in T : \A m \in T : <<m, n>> \notin R
  BY <1>1, WFMin
<1>3. ASSUME NEW m \in T
      PROVE  n <= m
  <2>1. m \in Nat /\ n \in Nat
    OBVIOUS
  <2>2. ~(m < n)
    BY <1>2, <2>1
  <2>. QED
    BY <2>1, <2>2
<1>. QED
  BY <1>3

(* A trim keeps the history within its limit, or leaves no root that may   *)
(* go: a removed root takes its whole tree and no other with it, and if a  *)
(* root stays that may go, all older ones that may go are enough.          *)
LEMMA TrimBounds ==
    ASSUME NEW left \in SUBSET Transfer, Trim(left)
    PROVE  HistoryBounded'
<1>1. PICK es \in {left} : entries' = {t \in es : Root(t)' \notin Surplus(es)'}
  BY DEF Trim
<1>. DEFINE roots == Roots(es)'
            may == Removable(es)'
            D == Surplus(es)'
<1>2. /\ es \subseteq Transfer /\ roots \subseteq es /\ may \subseteq roots /\ D \subseteq may
  BY <1>1 DEF Roots, Removable, Surplus
<1>3. D = {r \in may : Cardinality({q \in may : q < r}) < Cardinality(roots) - Limit}
  BY DEF Surplus
<1>4. \A r \in roots : Root(r)' = r
  BY DEF Roots, Root
<1>5. Roots(entries)' = roots \ D
  BY <1>1, <1>4 DEF Roots
<1>6. Removable(entries)' \subseteq may \ D
  <2>. SUFFICES ASSUME NEW r \in Removable(entries)'
                PROVE  r \in may \ D
    OBVIOUS
  <2>1. r \in roots \ D /\ state'[r] \in Terminal
    BY <1>5 DEF Removable
  <2>2. ASSUME NEW t \in es, Root(t)' = r
        PROVE  ~Busy(t)'
    <3>1. t \in entries'
      BY <1>1, <2>1, <2>2
    <3>. QED
      BY <2>2, <3>1 DEF Removable
  <2>3. r \in may
    <3>. HIDE DEF D
    <3>. QED
      BY <2>1, <2>2 DEF Removable
  <2>. QED
    BY <2>1, <2>3
<1>7. IsFiniteSet(roots) /\ roots \subseteq Nat
  <2>1. IsFiniteSet(Transfer) /\ Transfer \subseteq Nat
    BY FS_Interval, ConstantsAssumption DEF Transfer
  <2>. QED
    BY <1>2, <2>1, FS_Subset
<1>. HIDE DEF roots, may, D
<1>8. may \ D # {} => Cardinality(roots \ D) <= Limit
  <2>. SUFFICES ASSUME may \ D # {}
                PROVE  Cardinality(roots \ D) <= Limit
    OBVIOUS
  <2>1. PICK r \in may \ D : \A q \in may \ D : r <= q
    BY <1>2, <1>7, LeastMember
  <2>. DEFINE older == {q \in may : q < r}
  <2>2. older \subseteq D
    <3>. SUFFICES ASSUME NEW q \in older, q \notin D
                  PROVE  FALSE
      OBVIOUS
    <3>1. r <= q /\ q < r /\ q \in Nat /\ r \in Nat
      BY <1>2, <1>7, <2>1
    <3>. QED
      BY <3>1
  <2>3. /\ Cardinality(D) \in Nat /\ Cardinality(roots) \in Nat
        /\ Cardinality(older) \in Nat /\ Cardinality(older) <= Cardinality(D)
    <3>1. IsFiniteSet(D)
      BY <1>2, <1>7, FS_Subset
    <3>. QED
      BY <1>7, <2>2, <3>1, FS_Subset, FS_CardinalityType
  <2>4. Cardinality(older) >= Cardinality(roots) - Limit
    BY <1>3, <2>1, <2>3, ConstantsAssumption
  <2>5. Cardinality(roots \ D) = Cardinality(roots) - Cardinality(D)
    <3>1. roots \cap D = D
      BY <1>2
    <3>2. Cardinality(roots \ D) = Cardinality(roots) - Cardinality(roots \cap D)
      BY <1>7, FS_Difference
    <3>. QED
      BY <3>1, <3>2
  <2>. QED
    BY <2>3, <2>4, <2>5, ConstantsAssumption
<1>9. Cardinality(roots \ D) \in Nat
  BY <1>7, FS_Difference, FS_CardinalityType
<1>10. Cardinality(Roots(entries)') > Limit => Removable(entries)' = {}
  BY <1>5, <1>6, <1>8, <1>9, ConstantsAssumption
<1>. QED
  BY <1>10 DEF HistoryBounded

(* Without a trim, no root may go that had to stay before.                 *)
LEMMA QuietBounds ==
    ASSUME HistoryBounded, entries' = entries, parent' = parent,
           \A t \in entries : state'[t] \in Terminal => state[t] \in Terminal,
           \A t \in entries : Busy(t) => Busy(t)'
    PROVE  HistoryBounded'
<1>1. Roots(entries)' = Roots(entries)
  BY DEF Roots
<1>2. Removable(entries)' \subseteq Removable(entries)
  BY <1>1 DEF Removable, Root, Roots
<1>. QED
  BY <1>1, <1>2 DEF HistoryBounded

LEMMA FinishBounds ==
    ASSUME TypeOK, HistoryBounded, NEW t \in Transfer, NEW s \in Terminal, Finish(t, s)
    PROVE  HistoryBounded'
<1>1. CASE Accepts(t, s)
  BY <1>1, TrimBounds DEF Finish, TypeOK
<1>2. CASE ~Accepts(t, s)
  BY <1>2, QuietBounds DEF Finish, tasks, ids, Busy
<1>. QED
  BY <1>1, <1>2

LEMMA AddBounds ==
    ASSUME TypeOK, NEW n \in Transfer, NEW k, NEW p, NEW s, Add(n, k, p, s)
    PROVE  HistoryBounded'
<1>1. entries \subseteq Transfer /\ nextID \in Nat \ {0} /\ nextID + n <= MaxTransfers + 1
  BY ConstantsAssumption DEF Add, Room, TypeOK, Transfer
<1>2. Fresh(n) \subseteq Transfer
  BY <1>1, ConstantsAssumption DEF Fresh, Transfer
<1>. QED
  BY <1>1, <1>2, TrimBounds DEF Add

LEMMA HistoryStep ==
    ASSUME IInv, HistoryBounded, [Next]_vars
    PROVE  HistoryBounded'
<1>0. TypeOK
  BY DEF IInv, LocalInv
<1>1. ASSUME NEW k \in RootKind, Start(k)
      PROVE  HistoryBounded'
  <2>1. 1 \in Transfer
    BY <1>0, <1>1, ConstantsAssumption DEF Start, Add, Room, TypeOK, Transfer
  <2>. QED
    BY <1>0, <1>1, <2>1, AddBounds DEF Start
<1>2. ASSUME NEW t \in Transfer, NEW n \in Transfer, StartChildren(t, n) \/ ScanFinds(t, n)
      PROVE  HistoryBounded'
  BY <1>0, <1>2, AddBounds, QuietBounds DEF StartChildren, ScanFinds, ids, tasks, Busy
<1>3. ASSUME ClearHistory
      PROVE  HistoryBounded'
  <2>1. UNCHANGED <<parent, state, pending>>
    BY <1>3 DEF ClearHistory, ids
  <2>2. entries' = {t \in entries : Root(t) \notin Removable(entries)}
    BY <1>3 DEF ClearHistory
  <2>3. Removable(entries)' = {}
    <3>. SUFFICES ASSUME NEW r \in Removable(entries)'
                  PROVE  r \in Removable(entries)
      BY <2>1, <2>2 DEF Removable, Roots, Root
    <3>1. r \in Roots(entries) /\ state[r] \in Terminal /\ Root(r) = r /\ r \notin Removable(entries)
      BY <2>1, <2>2 DEF Removable, Roots, Root
    <3>2. ASSUME NEW t \in entries, Root(t) = r
          PROVE  ~Busy(t)
      BY <2>1, <2>2, <3>1, <3>2 DEF Removable, Root, Busy
    <3>. QED
      BY <3>1, <3>2 DEF Removable
  <2>. QED
    BY <2>3 DEF HistoryBounded
<1>4. ASSUME NEW c \in ClearCall, Clear(c)
      PROVE  HistoryBounded'
  BY <1>4 DEF Clear, HistoryBounded, Removable, Roots
<1>5. ASSUME NEW c \in ClearCall, ClearReturns(c)
      PROVE  HistoryBounded'
  BY <1>5, QuietBounds DEF ClearReturns, ids, tasks, Busy
<1>6. ASSUME NEW t \in Transfer, NEW c \in Transfer,
             FileBegins(t, c) \/ FileEnds(t, c) \/ FileDropped(t, c)
      PROVE  HistoryBounded'
  <2>1. CASE FileBegins(t, c)
    BY <1>0, <2>1, QuietBounds DEF FileBegins, Begun, ids, Busy, Active, Terminal, TypeOK
  <2>2. CASE FileEnds(t, c) \/ FileDropped(t, c)
    BY <1>0, <2>2, FinishBounds DEF FileEnds, FileDropped, Results, Terminal
  <2>. QED
    BY <1>6, <2>1, <2>2
<1>7. ASSUME NEW t \in Transfer,
             \/ Bind(t) \/ BindRefused(t) \/ IOEnds(t) \/ ScanEnds(t) \/ FolderStops(t)
             \/ ChildAdmitted(t) \/ ChildUploads(t) \/ ChildIOEnds(t)
             \/ CallbackStarts(t) \/ CallbackEnds(t)
      PROVE  HistoryBounded'
  <2>1. UNCHANGED <<entries, parent, state, pending>>
    BY <1>7 DEF Bind, BindRefused, IOEnds, ScanEnds, FolderStops, ChildAdmitted,
                ChildUploads, ChildIOEnds, CallbackStarts, CallbackEnds, ids, tasks
  <2>. QED
    BY <2>1, QuietBounds DEF Busy
<1>8. ASSUME NEW t \in Transfer,
             \/ Report(t) \/ MountEnds(t) \/ RetryEnds(t) \/ FolderEnds(t) \/ WindowFinishes(t)
      PROVE  HistoryBounded'
  <2>1. \E s \in Terminal : Finish(t, s)
    BY <1>8 DEF Report, MountEnds, RetryEnds, FolderEnds, WindowFinishes, Terminal
  <2>. QED
    BY <1>0, <2>1, FinishBounds
<1>9. ASSUME NEW t \in Transfer, Retry(t) \/ ChildBegins(t) \/ Cancel(t)
      PROVE  HistoryBounded'
  <2>1. entries' = entries /\ parent' = parent
    BY <1>9 DEF Retry, ChildBegins, Cancel, ids
  <2>2. \A u \in entries : state'[u] \in Terminal => state[u] \in Terminal
    BY <1>0, <1>9 DEF Retry, ChildBegins, Begun, Cancel, Active, Terminal, TypeOK
  <2>3. \A u \in entries : Busy(u) => Busy(u)'
    BY <1>0, <1>9 DEF Retry, ChildBegins, Begun, Cancel, Active, Terminal, TypeOK, Busy
  <2>. QED
    BY <2>1, <2>2, <2>3, QuietBounds
<1>10. ASSUME NEW t \in Transfer, FinishReturns(t)
       PROVE  HistoryBounded'
  BY <1>0, <1>10, TrimBounds, QuietBounds DEF FinishReturns, TypeOK, ids, Busy
<1>11. ASSUME NEW t \in Transfer, CancelReturns(t)
       PROVE  HistoryBounded'
  <2>1. parent' = parent /\ state' = state
    BY <1>11 DEF CancelReturns, ids
  <2>2. CASE kind[t] # "group" /\ t \in entries /\ state[t] \in Terminal
    BY <1>0, <1>11, <2>2, TrimBounds DEF CancelReturns, TypeOK
  <2>3. CASE ~(kind[t] # "group" /\ t \in entries)
    BY <1>11, <2>1, <2>3, QuietBounds DEF CancelReturns, Busy
  <2>4. CASE kind[t] # "group" /\ t \in entries /\ state[t] \notin Terminal
    <3>1. entries' = entries /\ pending' = [pending EXCEPT ![t] = FALSE]
      BY <1>11, <2>4 DEF CancelReturns
    <3>2. \A u \in entries : Busy(u) => Busy(u)'
      BY <1>0, <2>1, <2>4, <3>1 DEF Busy, TypeOK
    <3>. QED
      BY <2>1, <3>1, <3>2, QuietBounds
  <2>. QED
    BY <2>2, <2>3, <2>4
<1>12. ASSUME UNCHANGED vars
       PROVE  HistoryBounded'
  BY <1>12, QuietBounds DEF vars, tasks, ids, Busy
<1>. QED
  BY <1>1, <1>2, <1>3, <1>4, <1>5, <1>6, <1>7, <1>8, <1>9, <1>10, <1>11, <1>12 DEF Next

(* Between steps the history is within its limit unless no root can go,    *)
(* for any limit: what a trim had to keep because a callback was running   *)
(* goes when the callback returns.                                         *)
THEOREM HistoryBoundedAlways ==
    Spec => []HistoryBounded
<1>1. Init => HistoryBounded
  BY DEF Init, HistoryBounded, Removable, Roots
<1>2. IInv /\ HistoryBounded /\ [Next]_vars => HistoryBounded'
  BY HistoryStep
<1>. QED
  BY InvariantHolds, <1>1, <1>2, PTL DEF Spec

===============================================================================
