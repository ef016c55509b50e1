-------------------------- MODULE MountSyncProofs --------------------------
(***************************************************************************)
(* Proofs about MountSync: the inductive invariant IInv, and from it that  *)
(* what the mount moves to the trash the user has taken away; then KeepInv *)
(* on top of it, and from it that no edit the mount knows of is lost.      *)
(***************************************************************************)
EXTENDS MountSync, SequenceTheorems, WellFoundedInduction, TLAPS

LEMMA Bounds ==
  /\ Node \subseteq Nat /\ 0 \notin Node
  /\ Path \subseteq Nat /\ 0 \notin Path
  /\ Name \subseteq Path /\ Copy \subseteq Path
  /\ MaxWrites \in Nat /\ MaxRev \in Nat /\ InitialNodes \in Nat
  /\ InitialNodes =< NumPaths /\ InitialNodes =< NumNodes
  /\ Ticks \subseteq {"flush", "poll", "audit"}
BY MountAssumption DEF Node, Path, Name, Copy

LEMMA Stamps ==
  /\ NoStamp \in Stamp
  /\ \A n \in Node, r \in Nat : <<"node", n, r>> \in Stamp
  /\ \A b \in 0..MaxWrites : <<"write", b, 0>> \in Stamp /\ <<"copy", b, 0>> \in Stamp
BY DEF Stamp

LEMMA Empty ==
  /\ NoFile \in File /\ Nothing \in [Path -> File]
  /\ Nowhere \in Baseline /\ \A p \in Path : ~In(Nowhere, p)
  /\ NoEntry \in [node : Node \cup {0}, rev : Nat, stamp : Stamp] /\ NoEntry.node = 0
  /\ NoEvents \in Reported
  /\ NoJob \in [path : Path \cup {0}, stamp : Stamp, bytes : 0..MaxWrites,
                copy : Path \cup {0},
                ret : {"none", "local", "add", "edit", "match", "sent"}]
  /\ NoJob.path = 0
  /\ Nobody.node = 0 /\ Nobody \notin Seens
  /\ NoFile.id = 0
BY Bounds, Stamps DEF NoFile, File, Nothing, Nowhere, Baseline, In, NoEntry, NoEvents,
   Reported, NoJob, Nobody, Seens

LEMMA FirstIsIn ==
  ASSUME NEW S \in SUBSET Nat, S # {}
  PROVE  First(S) \in S
<1>1. \A x, y \in Nat : <<x, y>> \in OpToRel(<, Nat) <=> x < y
  BY DEF OpToRel
<1>2. PICK x \in S : \A y \in S : ~ (<<y, x>> \in OpToRel(<, Nat))
  <2>1. IsWellFoundedOn(OpToRel(<, Nat), Nat)
    BY NatLessThanWellFounded
  <2>. QED
    BY <2>1, WFMin
<1>3. \A y \in S : x \leq y
  <2> SUFFICES ASSUME NEW y \in S
               PROVE  x \leq y
    OBVIOUS
  <2>1. ~ (y < x)
    BY <1>1, <1>2, Bounds
  <2>. QED
    BY <2>1, Bounds
<1>4. \E z \in S : \A y \in S : z =< y
  BY <1>3, Zenon
<1>. QED
  BY <1>4, Zenon DEF First

LEMMA LoggedProperties ==
  ASSUME NEW s \in Seq(Node), NEW n \in Node
  PROVE  /\ Logged(s, n) \in Seq(Node)
         /\ Listed(Logged(s, n)) \subseteq Listed(s) \cup {n}
<1>1. CASE n \notin Listed(s)
  BY <1>1 DEF Logged, Listed
<1>2. CASE n \in Listed(s)
  <2> DEFINE at == CHOOSE i \in DOMAIN s : s[i] = n
             l == [i \in DOMAIN s |-> IF i < at THEN s[i]
                           ELSE IF i < Len(s) THEN s[i + 1] ELSE n]
  <2>1. Logged(s, n) = l
    BY <1>2 DEF Logged
  <2>2. Len(s) \in Nat /\ DOMAIN s = 1..Len(s) /\ \A i \in 1..Len(s) : s[i] \in Node
    OBVIOUS
  <2>3. \A i \in 1..Len(s) : l[i] \in Listed(s) \cup {n} /\ l[i] \in Node
    <3> SUFFICES ASSUME NEW i \in 1..Len(s)
                 PROVE  l[i] \in Listed(s) \cup {n} /\ l[i] \in Node
      OBVIOUS
    <3>1. l[i] = s[i] \/ l[i] = n \/ (i < Len(s) /\ l[i] = s[i+1])
      BY <2>2
    <3>2. i < Len(s) => i + 1 \in 1..Len(s)
      BY <2>2
    <3> HIDE DEF l
    <3>. QED
      BY <2>2, <3>1, <3>2 DEF Listed
  <2>4. l \in [1..Len(s) -> Node] /\ DOMAIN l = 1..Len(s)
    BY <2>2, <2>3
  <2> HIDE DEF l
  <2>5. l \in Seq(Node)
    BY <2>2, <2>4
  <2>. QED
    BY <2>1, <2>3, <2>4, <2>5 DEF Listed
<1>. QED
  BY <1>1, <1>2

-----------------------------------------------------------------------------
(* What a step does to the server: a node that changes gets a new revision, *)
(* and only such a node comes into the journal.                             *)

Row == [path : Path \cup {0}, rev : Nat, bytes : 0..MaxWrites, live : BOOLEAN]

Newer ==
  /\ ServerType' /\ NodesInv'
  /\ \A n \in Node : node'[n] = node[n] \/ node'[n].rev > node[n].rev
  /\ \A n \in Listed(journal') \cup Listed(late') :
       n \in Listed(journal) \cup Listed(late) \/ node'[n].rev > node[n].rev

LEMMA EmptyListed == Listed(<<>>) = {}
BY DEF Listed

LEMMA RowMoved ==
  ASSUME NEW o \in Row, NEW p \in Path, NEW k \in Nat
  PROVE  LET r == [o EXCEPT !.path = p, !.rev = k] IN
         /\ r \in Row
         /\ r.path = p /\ r.rev = k /\ r.bytes = o.bytes /\ r.live = o.live
<1>. DEFINE r == [o EXCEPT !.path = p, !.rev = k]
<1>1. r \in Row
  BY DEF Row
<1>2. r.path = p /\ r.rev = k /\ r.bytes = o.bytes /\ r.live = o.live
  BY DEF Row
<1>. QED
  BY <1>1, <1>2

LEMMA RowWritten ==
  ASSUME NEW o \in Row, NEW b \in 0..MaxWrites, NEW k \in Nat
  PROVE  LET r == [o EXCEPT !.bytes = b, !.rev = k] IN
         /\ r \in Row
         /\ r.path = o.path /\ r.rev = k /\ r.bytes = b /\ r.live = o.live
<1>. DEFINE r == [o EXCEPT !.bytes = b, !.rev = k]
<1>1. r \in Row
  BY DEF Row
<1>2. r.path = o.path /\ r.rev = k /\ r.bytes = b /\ r.live = o.live
  BY DEF Row
<1>. QED
  BY <1>1, <1>2

LEMMA RowTurned ==
  ASSUME NEW o \in Row, NEW l \in BOOLEAN, NEW k \in Nat
  PROVE  LET r == [o EXCEPT !.live = l, !.rev = k] IN
         /\ r \in Row
         /\ r.path = o.path /\ r.rev = k /\ r.bytes = o.bytes /\ r.live = l
<1>. DEFINE r == [o EXCEPT !.live = l, !.rev = k]
<1>1. r \in Row
  BY DEF Row
<1>2. r.path = o.path /\ r.rev = k /\ r.bytes = o.bytes /\ r.live = l
  BY DEF Row
<1>. QED
  BY <1>1, <1>2

LEMMA SameServer ==
  ASSUME TypeOK, NodesInv, UNCHANGED server
  PROVE  Newer
BY DEF TypeOK, ServerType, NodesInv, server, Newer, Listed, LiveAt

\* The journal is read or forgotten.
LEMMA SameNodes ==
  ASSUME TypeOK, NodesInv, UNCHANGED <<node, receipts, stored>>,
         journal' \in {<<>>, journal, late}, late' \in {<<>>, late}
  PROVE  Newer
<1>1. ServerType'
  <2>1. <<>> \in Seq(Node)
    OBVIOUS
  <2>. QED
    BY <2>1 DEF TypeOK, ServerType
<1>2. Listed(journal') \cup Listed(late') \subseteq Listed(journal) \cup Listed(late)
  <2>1. /\ journal' = <<>> => Listed(journal') = {}
        /\ journal' = journal => Listed(journal') = Listed(journal)
        /\ journal' = late => Listed(journal') = Listed(late)
        /\ late' = <<>> => Listed(late') = {}
        /\ late' = late => Listed(late') = Listed(late)
    BY EmptyListed
  <2>. QED
    BY <2>1
<1>3. NodesInv'
  BY <1>2 DEF NodesInv
<1>. QED
  BY <1>1, <1>2, <1>3 DEF Newer

LEMMA PutNewer ==
  ASSUME TypeOK, NodesInv, NEW n \in Node, NEW r \in Row,
         r.path \in Path, r.rev > node[n].rev,
         r.live => LiveAt(r.path) \subseteq {n},
         Put(n, r), \A x \in receipts' : x.node \in Node,
         stored' \subseteq 0..MaxWrites
  PROVE  Newer /\ node' = [node EXCEPT ![n] = r] /\ n \in Listed(journal')
<1>1. node \in [Node -> Row] /\ journal \in Seq(Node) /\ late \in Seq(Node)
  BY DEF TypeOK, ServerType, Row
<1>2. /\ node' = [node EXCEPT ![n] = r] /\ journal' = Logged(journal, n)
      /\ late' = Logged(late, n) \/ late' = <<>>
  BY DEF Put
<1>3. /\ node' \in [Node -> Row] /\ node'[n] = r
      /\ \A m \in Node : m # n => node'[m] = node[m]
  BY ONLY <1>1, <1>2, n \in Node, r \in Row
<1>4. /\ journal' \in Seq(Node) /\ late' \in Seq(Node)
      /\ Listed(journal') \subseteq Listed(journal) \cup {n}
      /\ Listed(late') \subseteq Listed(late) \cup {n}
  <2>1. /\ Logged(journal, n) \in Seq(Node) /\ Logged(late, n) \in Seq(Node)
        /\ Listed(Logged(journal, n)) \subseteq Listed(journal) \cup {n}
        /\ Listed(Logged(late, n)) \subseteq Listed(late) \cup {n}
    BY <1>1, LoggedProperties
  <2>2. CASE late' = <<>>
    BY <1>2, <2>1, <2>2, EmptyListed
  <2>3. CASE late' = Logged(late, n)
    BY <1>2, <2>1, <2>3
  <2>. QED
    BY <1>2, <2>2, <2>3
<1>5. ServerType'
  BY <1>3, <1>4 DEF ServerType, Row
<1>6. \A m \in Node : node[m].rev \in Nat /\ node'[m].rev \in Nat
  BY <1>1, <1>3 DEF Row
<1>7. NodesInv'
  <2>1. \A m \in Node : IF node'[m].rev = 0 THEN ~node'[m].live
                        ELSE node'[m].path \in Path
    BY <1>3, <1>6 DEF NodesInv
  <2>2. \A m, k \in Node : node'[m].live /\ node'[k].live /\ node'[m].path = node'[k].path
                             => m = k
    BY <1>3 DEF NodesInv, LiveAt
  <2>3. \A m \in Listed(journal') \cup Listed(late') : node'[m].rev # 0
    <3>1. Listed(journal) \cup Listed(late) \subseteq Node
      BY <1>1 DEF Listed
    <3>. QED
      BY <1>3, <1>4, <1>6, <3>1 DEF NodesInv
  <2>. QED
    BY <2>1, <2>2, <2>3 DEF NodesInv
<1>8. n \in Listed(journal')
  <2>1. CASE n \notin Listed(journal)
    BY <1>1, <1>2, <2>1 DEF Logged, Listed
  <2>2. CASE n \in Listed(journal)
    <3> DEFINE at == CHOOSE i \in DOMAIN journal : journal[i] = n
    <3>1. at \in DOMAIN journal /\ journal[at] = n
      BY <2>2 DEF Listed
    <3>2. Len(journal) \in Nat /\ DOMAIN journal = 1..Len(journal)
      BY <1>1
    <3>3. journal' = [i \in DOMAIN journal |-> IF i < at THEN journal[i]
                           ELSE IF i < Len(journal) THEN journal[i + 1] ELSE n]
      BY <1>2, <2>2 DEF Logged
    <3> HIDE DEF at
    <3>4. Len(journal) \in DOMAIN journal' /\ journal'[Len(journal)] = n
      BY <3>1, <3>2, <3>3
    <3>. QED
      BY <3>4 DEF Listed
  <2>. QED
    BY <2>1, <2>2
<1>. QED
  BY <1>2, <1>3, <1>4, <1>5, <1>7, <1>8 DEF Newer

LEMMA CreateNewer ==
  ASSUME TypeOK, NodesInv, NEW n \in Node, NEW p \in Path, NEW b \in 0..MaxWrites,
         Create(n, p, b), \A x \in receipts' : x.node \in Node
  PROVE  /\ Newer /\ node[n].rev = 0
         /\ node'[n] = [path |-> p, rev |-> 1, bytes |-> b, live |-> TRUE]
<1> DEFINE r == [path |-> p, rev |-> 1, bytes |-> b, live |-> TRUE]
<1>1. Unused # {} /\ n = First(Unused) /\ LiveAt(p) = {} /\ Put(n, r)
      /\ stored' = stored \cup {b}
  BY DEF Create
<1>2. node[n].rev = 0
  <2>1. Unused \in SUBSET Nat
    BY Bounds DEF Unused
  <2>3. n \in Unused
    BY <1>1, <2>1, FirstIsIn
  <2>. QED
    BY <2>3 DEF Unused
<1>3. r \in Row /\ r.path = p /\ r.rev = 1 /\ stored' \subseteq 0..MaxWrites
  BY <1>1 DEF Row, TypeOK, ServerType
<1> HIDE DEF r
<1>4. Newer /\ node' = [node EXCEPT ![n] = r]
  BY <1>1, <1>2, <1>3, PutNewer
<1>5. node \in [Node -> Row]
  BY DEF TypeOK, ServerType, Row
<1>. QED
  BY <1>2, <1>4, <1>5 DEF r

\* A new revision of a live node that stays where it is.
LEMMA WriteNewer ==
  ASSUME TypeOK, NodesInv, NEW n \in Node, node[n].live, NEW b \in 0..MaxWrites,
         Put(n, [node[n] EXCEPT !.bytes = b, !.rev = node[n].rev + 1]),
         \A x \in receipts' : x.node \in Node, stored' = stored \cup {b}
  PROVE  /\ Newer /\ node'[n].live /\ node'[n].rev = node[n].rev + 1
         /\ node'[n].path = node[n].path /\ node'[n].bytes = b
<1>1. PICK o \in Row : o = node[n]
  BY DEF TypeOK, ServerType, Row
<1> DEFINE r == [o EXCEPT !.bytes = b, !.rev = o.rev + 1]
<1>2. /\ r \in Row /\ r.path = o.path /\ r.rev = o.rev + 1 /\ r.live = o.live
      /\ r.bytes = b
  <2>1. o.rev + 1 \in Nat
    BY DEF Row
  <2>2. \A k \in Nat :
          LET q == [o EXCEPT !.bytes = b, !.rev = k] IN
          /\ q \in Row
          /\ q.path = o.path /\ q.rev = k /\ q.bytes = b /\ q.live = o.live
    BY RowWritten
  <2>. QED
    BY <2>1, <2>2
<1>3. Put(n, r)
  BY <1>1
<1> HIDE DEF r
<1>4. r.rev > node[n].rev /\ r.path \in Path
  BY <1>1, <1>2 DEF NodesInv, Row
<1>5. LiveAt(r.path) \subseteq {n}
  BY <1>1, <1>2 DEF NodesInv, LiveAt
<1>6. stored' \subseteq 0..MaxWrites
  BY DEF TypeOK, ServerType
<1>7. Newer /\ node' = [node EXCEPT ![n] = r]
  BY <1>2, <1>3, <1>4, <1>5, <1>6, PutNewer
<1>8. node'[n] = r
  <2>1. node \in [Node -> Row]
    BY DEF TypeOK, ServerType, Row
  <2>. QED
    BY <1>7, <2>1
<1>. QED
  BY <1>1, <1>2, <1>7, <1>8

LEMMA MoveNewer ==
  ASSUME TypeOK, NodesInv, NEW n \in Node, node[n].live, NEW p \in Path,
         LiveAt(p) \subseteq {n}, MoveTo(n, p)
  PROVE  /\ Newer /\ node'[n].live /\ node'[n].rev = node[n].rev + 1
         /\ node'[n].path = p
<1>1. PICK o \in Row : o = node[n]
  BY DEF TypeOK, ServerType, Row
<1> DEFINE r == [o EXCEPT !.path = p, !.rev = o.rev + 1]
<1>2. r \in Row /\ r.path = p /\ r.rev = o.rev + 1 /\ r.live = o.live
  <2>1. o.rev + 1 \in Nat
    BY DEF Row
  <2>2. \A k \in Nat :
          LET q == [o EXCEPT !.path = p, !.rev = k] IN
          /\ q \in Row
          /\ q.path = p /\ q.rev = k /\ q.bytes = o.bytes /\ q.live = o.live
    BY RowMoved
  <2>. QED
    BY <2>1, <2>2
<1>3. Put(n, r) /\ UNCHANGED <<receipts, stored>>
  BY <1>1 DEF MoveTo
<1> HIDE DEF r
<1>4. r.rev > node[n].rev
  BY <1>1, <1>2 DEF Row
<1>6. stored' \subseteq 0..MaxWrites /\ \A x \in receipts' : x.node \in Node
  BY <1>3 DEF TypeOK, ServerType
<1>7. Newer /\ node' = [node EXCEPT ![n] = r]
  BY <1>2, <1>3, <1>4, <1>6, PutNewer
<1>8. node'[n] = r
  <2>1. node \in [Node -> Row]
    BY DEF TypeOK, ServerType, Row
  <2>. QED
    BY <1>7, <2>1
<1>. QED
  BY <1>1, <1>2, <1>7, <1>8

LEMMA TrashNewer ==
  ASSUME TypeOK, NodesInv, NEW n \in Node, node[n].live, Trash(n)
  PROVE  Newer /\ ~node'[n].live
<1>1. PICK o \in Row : o = node[n]
  BY DEF TypeOK, ServerType, Row
<1> DEFINE r == [o EXCEPT !.live = FALSE, !.rev = o.rev + 1]
<1>2. r \in Row /\ r.path = o.path /\ r.rev = o.rev + 1 /\ r.live = FALSE
  <2>1. o.rev + 1 \in Nat
    BY DEF Row
  <2>. QED
    BY <2>1, RowTurned
<1>3. Put(n, r) /\ UNCHANGED <<receipts, stored>>
  BY <1>1 DEF Trash
<1> HIDE DEF r
<1>4. r.rev > node[n].rev /\ r.path \in Path
  BY <1>1, <1>2 DEF NodesInv, Row
<1>6. stored' \subseteq 0..MaxWrites /\ \A x \in receipts' : x.node \in Node
  BY <1>3 DEF TypeOK, ServerType
<1>7. Newer /\ node' = [node EXCEPT ![n] = r]
  BY <1>2, <1>3, <1>4, <1>6, PutNewer
<1>8. node'[n] = r
  <2>1. node \in [Node -> Row]
    BY DEF TypeOK, ServerType, Row
  <2>. QED
    BY <1>7, <2>1
<1>. QED
  BY <1>2, <1>7, <1>8

LEMMA RestoreNewer ==
  ASSUME TypeOK, NodesInv, NEW n \in Node, node[n].rev # 0,
         LiveAt(node[n].path) = {}, UNCHANGED <<receipts, stored>>,
         Put(n, [node[n] EXCEPT !.live = TRUE, !.rev = node[n].rev + 1])
  PROVE  Newer
<1>1. PICK o \in Row : o = node[n]
  BY DEF TypeOK, ServerType, Row
<1> DEFINE r == [o EXCEPT !.live = TRUE, !.rev = o.rev + 1]
<1>2. r \in Row /\ r.path = o.path /\ r.rev = o.rev + 1 /\ r.live = TRUE
  <2>1. o.rev + 1 \in Nat
    BY DEF Row
  <2>. QED
    BY <2>1, RowTurned
<1>3. Put(n, r)
  BY <1>1
<1> HIDE DEF r
<1>4. r.rev > node[n].rev /\ r.path \in Path
  BY <1>1, <1>2 DEF NodesInv, Row
<1>6. stored' \subseteq 0..MaxWrites /\ \A x \in receipts' : x.node \in Node
  BY DEF TypeOK, ServerType
<1>. QED
  BY <1>1, <1>2, <1>3, <1>4, <1>6, PutNewer

-----------------------------------------------------------------------------
(* Types of the parts                                                      *)

LEMMA Typed ==
  ASSUME TypeOK
  PROVE  /\ \A n \in Node : /\ node[n].path \in Path \cup {0} /\ node[n].rev \in Nat
                            /\ node[n].bytes \in 0..MaxWrites /\ node[n].live \in BOOLEAN
         /\ \A p \in Path : /\ base[p].node \in Node \cup {0} /\ base[p].rev \in Nat
                            /\ base[p].stamp \in Stamp
         /\ \A p \in Path : /\ work[p].node \in Node \cup {0} /\ work[p].rev \in Nat
                            /\ work[p].stamp \in Stamp
         /\ \A p \in Path : /\ disk[p].stamp \in Stamp /\ disk[p].bytes \in 0..MaxWrites
                            /\ disk[p].id \in Node \cup {0}
         /\ \A p \in Path : Seen(p) => snap[p] \in Seens
         /\ \A c \in Listed(page) : c \in Seens
         /\ \A c \in Seens : /\ c.node \in Node /\ c.path \in Path /\ c.rev \in Nat
                             /\ c.bytes \in 0..MaxWrites /\ c.live \in BOOLEAN
         /\ \A p \in Path : In(base, p) => base[p].node \in Node
         /\ \A p \in Path : In(work, p) => work[p].node \in Node
<1>1. \A n \in Node : /\ node[n].path \in Path \cup {0} /\ node[n].rev \in Nat
                      /\ node[n].bytes \in 0..MaxWrites /\ node[n].live \in BOOLEAN
  BY DEF TypeOK, ServerType
<1>2. \A p \in Path : /\ base[p].node \in Node \cup {0} /\ base[p].rev \in Nat
                      /\ base[p].stamp \in Stamp
  BY DEF TypeOK, MountType, Baseline
<1>3. \A p \in Path : /\ work[p].node \in Node \cup {0} /\ work[p].rev \in Nat
                      /\ work[p].stamp \in Stamp
  BY DEF TypeOK, LocalsType, Baseline
<1>4. \A p \in Path : /\ disk[p].stamp \in Stamp /\ disk[p].bytes \in 0..MaxWrites
                      /\ disk[p].id \in Node \cup {0}
  BY DEF TypeOK, FolderType, File
<1>5. \A p \in Path : Seen(p) => snap[p] \in Seens
  BY DEF TypeOK, LocalsType, Seen
<1>6. \A c \in Listed(page) : c \in Seens
  BY DEF TypeOK, LocalsType, Listed
<1>7. \A c \in Seens : /\ c.node \in Node /\ c.path \in Path /\ c.rev \in Nat
                       /\ c.bytes \in 0..MaxWrites /\ c.live \in BOOLEAN
  BY DEF Seens
<1>8. \A p \in Path : In(base, p) => base[p].node \in Node
  BY <1>2 DEF In
<1>9. \A p \in Path : In(work, p) => work[p].node \in Node
  BY <1>3 DEF In
<1>. QED
  BY <1>1, <1>2, <1>3, <1>4, <1>5, <1>6, <1>7, <1>8, <1>9

\* What had a revision still has had it; what is in force was so before.
LEMMA Later ==
  ASSUME TypeOK, Newer, NEW n \in Node, NEW r \in 1..node[n].rev
  PROVE  /\ r \in 1..node'[n].rev
         /\ node'[n].live /\ node'[n].rev = r => node'[n] = node[n]
<1>1. node[n].rev \in Nat /\ node'[n].rev \in Nat
  BY DEF TypeOK, ServerType, Newer
<1>2. node'[n] = node[n] \/ node'[n].rev > node[n].rev
  BY DEF Newer
<1>. QED
  BY <1>1, <1>2

\* What is reported has changed, or was to be reported before.
LEMMA LaterPending ==
  ASSUME TypeOK, Newer, Listed(page') \subseteq Listed(page),
         NEW n \in Node, n \in Pending', node'[n] = node[n]
  PROVE  n \in Pending
<1>1. CASE n \in Listed(journal') \cup Listed(late')
  <2>1. node[n].rev \in Nat
    BY Typed
  <2>. QED
    BY <1>1, <2>1 DEF Newer, Pending
<1>2. CASE n \in {c.node : c \in Listed(page')}
  BY <1>2 DEF Pending
<1>. QED
  BY <1>1, <1>2 DEF Pending

\* The page in hand is at most what it was, and the baseline did not change.

-----------------------------------------------------------------------------
(* Entries of the baseline over a step                                     *)

\* The entry is of a revision the node has had; in force, it has its file or
\* the user took it; without the file, the server has nothing to report of it.
Good(e, p) ==
  e.node # 0 => /\ Had(e)
                /\ \/ Here(p) \/ e.node \in dropped
                   \/ /\ Current(e.node, e.rev) => node[e.node].path # p
                      /\ Current(e.node, e.rev) => e.node \notin Pending

LEMMA GoodWork ==
  ASSUME IInv, NEW p \in Path
  PROVE  Good(work[p], p)
BY DEF IInv, RevsInv, PresentInv, Present, QuietInv, Quiet, Good, In, Stands

LEMMA GoodBase ==
  ASSUME IInv, NEW p \in Path, Pass \notin {"off", "slow", "sent"}
  PROVE  Good(base[p], p)
BY DEF IInv, RevsInv, PresentInv, Present, QuietInv, Quiet, Good, In, Stands

LEMMA GoodMeans ==
  (\A p \in Path : Good(work[p], p))
    => Present(work) /\ Quiet(work) /\ \A p \in Path : In(work, p) => Had(work[p])
BY DEF Present, Quiet, Good, In, Stands

LEMMA GoodMeansNext ==
  (\A p \in Path : Good(work[p], p)')
    => (Present(work) /\ Quiet(work) /\ \A p \in Path : In(work, p) => Had(work[p]))'
<1>1. ((\A p \in Path : Good(work[p], p))
       => Present(work) /\ Quiet(work) /\ \A p \in Path : In(work, p) => Had(work[p]))'
  BY GoodMeans, PTL
<1>. QED
  BY <1>1

LEMMA GoodMeansBase ==
  (\A p \in Path : Good(base[p], p))
    => Present(base) /\ Quiet(base) /\ \A p \in Path : In(base, p) => Had(base[p])
BY DEF Present, Quiet, Good, In, Stands

LEMMA GoodMeansBaseNext ==
  (\A p \in Path : Good(base[p], p)')
    => (Present(base) /\ Quiet(base) /\ \A p \in Path : In(base, p) => Had(base[p]))'
<1>1. ((\A p \in Path : Good(base[p], p))
       => Present(base) /\ Quiet(base) /\ \A p \in Path : In(base, p) => Had(base[p]))'
  BY GoodMeansBase, PTL
<1>. QED
  BY <1>1

\* An entry stays good as long as its file is not taken away.
LEMMA GoodLater ==
  ASSUME TypeOK, Newer, Listed(page') \subseteq Listed(page), dropped \subseteq dropped',
         NEW p \in Path, NEW e, e.node \in Node \cup {0}, Good(e, p),
         Here(p) => \/ disk'[p] # NoFile \/ e.node \in dropped'
  PROVE  Good(e, p)'
<1>1. CASE e.node = 0
  BY <1>1 DEF Good
<1>2. CASE e.node \in Node
  <2>1. e.rev \in 1..node[e.node].rev
    BY <1>2, Bounds DEF Good, Had
  <2>2. /\ e.rev \in 1..node'[e.node].rev
        /\ node'[e.node].live /\ node'[e.node].rev = e.rev => node'[e.node] = node[e.node]
    BY <1>2, <2>1, Later
  <2>3. CASE disk'[p] # NoFile \/ e.node \in dropped'
    BY <2>2, <2>3 DEF Good, Had, Here
  <2>4. CASE ~Here(p) /\ e.node \notin dropped
    <3>1. /\ Current(e.node, e.rev) => node[e.node].path # p
          /\ Current(e.node, e.rev) => e.node \notin Pending
      BY <1>2, <2>4, Bounds DEF Good
    <3>2. node'[e.node].live /\ node'[e.node].rev = e.rev => e.node \notin Pending'
      BY <1>2, <2>2, <3>1, LaterPending DEF Current
    <3>3. node'[e.node].live /\ node'[e.node].rev = e.rev => node'[e.node].path # p
      BY <1>2, <2>2, <3>1 DEF Current
    <3>. QED
      BY <2>2, <3>2, <3>3 DEF Good, Had, Current
  <2>. QED
    BY <2>3, <2>4
<1>. QED
  BY <1>1, <1>2

LEMMA BaseStands ==
  ASSUME TypeOK, RevsInv, Newer, UNCHANGED base, NEW p \in Path, Stands(base, p)'
  PROVE  /\ Stands(base, p)
         /\ base[p].node \in Node /\ node'[base[p].node] = node[base[p].node]
<1>1. base[p].node \in Node /\ base[p].rev \in 1..node[base[p].node].rev
  BY Typed DEF Stands, In, RevsInv, Had
<1>2. node'[base[p].node] = node[base[p].node]
  <2>1. node'[base[p].node].live /\ node'[base[p].node].rev = base[p].rev
    BY DEF Stands, Current
  <2>. QED
    BY <1>1, <2>1, Later
<1>. QED
  BY <1>1, <1>2 DEF Stands, In, Current

LEMMA WorkStands ==
  ASSUME TypeOK, RevsInv, Newer, NEW p \in Path, work'[p] = work[p], Stands(work, p)'
  PROVE  /\ Stands(work, p)
         /\ work[p].node \in Node /\ node'[work[p].node] = node[work[p].node]
<1>1. work[p].node \in Node /\ work[p].rev \in 1..node[work[p].node].rev
  BY Typed DEF Stands, In, RevsInv, Had
<1>2. node'[work[p].node] = node[work[p].node]
  <2>1. node'[work[p].node].live /\ node'[work[p].node].rev = work[p].rev
    BY DEF Stands, Current
  <2>. QED
    BY <1>1, <2>1, Later
<1>. QED
  BY <1>1, <1>2 DEF Stands, In, Current

LEMMA PassIs ==
  ASSUME ControlInv
  PROVE  /\ pc \in Sending => job # NoJob /\ Pass = job.ret
         /\ pc \notin Sending => Pass = pc
BY Empty, Bounds DEF ControlInv, Pass

-----------------------------------------------------------------------------
(* A step of the user, of another client or of the watcher                 *)

LEMMA OutsideStep ==
  ASSUME IInv, Newer, UNCHANGED <<mount, run>>, TypeOK',
         pc' = "off" => events' = NoEvents,
         dropped \subseteq dropped',
         \A p \in Path : Here(p) /\ disk'[p] = NoFile =>
            /\ In(base, p) => base[p].node \in dropped'
            /\ In(work, p) => work[p].node \in dropped'
  PROVE  IInv'
<1>1. /\ TypeOK /\ NodesInv /\ RevsInv /\ ControlInv
      /\ PresentInv /\ QuietInv /\ WorkInv /\ PageInv /\ SnapInv
      /\ GoneInv /\ ScanInv /\ MissingInv
  BY DEF IInv
<1>2. /\ UNCHANGED <<base, known, tracked>>
      /\ UNCHANGED <<pc, why, batch, work, moves, todo, gone, scan, snap, page, advance, job>>
  BY DEF mount, run, locals
<1>3. Pass' = Pass /\ Listed(page') = Listed(page) /\ Target' = Target
  BY <1>2 DEF Pass, Target, Listed
<1>4. RevsInv'
  <2>1. \A c : c.node \in Node /\ Had(c) => Had(c)'
    BY <1>1, Later DEF Had
  <2>. QED
    BY <1>1, <1>2, <1>3, <2>1, Typed DEF RevsInv, In, Seen
<1>5. \A p \in Path : Good(work[p], p)'
  <2> SUFFICES ASSUME NEW p \in Path PROVE Good(work[p], p)'
    OBVIOUS
  <2>1. PICK e : e = work[p]
    OBVIOUS
  <2>2. Good(e, p) /\ e.node \in Node \cup {0}
    BY <1>1, <2>1, GoodWork, Typed
  <2>3. Here(p) => disk'[p] # NoFile \/ e.node \in dropped' \/ e.node = 0
    BY <2>1 DEF In
  <2>4. Good(e, p)'
    <3>1. CASE e.node = 0
      BY <3>1 DEF Good
    <3>2. CASE e.node # 0
      BY <1>1, <1>3, <2>2, <2>3, <3>2, GoodLater
    <3>. QED
      BY <3>1, <3>2
  <2>. QED
    BY <1>2, <2>1, <2>4
<1>6. Pass \notin {"off", "slow", "sent"} => \A p \in Path : Good(base[p], p)'
  <2> SUFFICES ASSUME Pass \notin {"off", "slow", "sent"}, NEW p \in Path
               PROVE  Good(base[p], p)'
    OBVIOUS
  <2>1. PICK e : e = base[p]
    OBVIOUS
  <2>2. Good(e, p) /\ e.node \in Node \cup {0}
    BY <1>1, <2>1, GoodBase, Typed
  <2>3. Here(p) => disk'[p] # NoFile \/ e.node \in dropped' \/ e.node = 0
    BY <2>1 DEF In
  <2>4. Good(e, p)'
    <3>1. CASE e.node = 0
      BY <3>1 DEF Good
    <3>2. CASE e.node # 0
      BY <1>1, <1>3, <2>2, <2>3, <3>2, GoodLater
    <3>. QED
      BY <3>1, <3>2
  <2>. QED
    BY <1>2, <2>1, <2>4
<1>7. PresentInv' /\ QuietInv'
  <2>1. Present(work)' /\ Quiet(work)'
    BY <1>5, GoodMeansNext
  <2>2. Pass \notin {"off", "slow", "sent"} => Quiet(base)'
    BY <1>6, GoodMeansBaseNext
  <2>3. Present(base)'
    <3> SUFFICES ASSUME NEW p \in Path, Stands(base, p)', disk'[p] = NoFile
                 PROVE  base[p].node \in dropped'
      BY <1>2 DEF Present, Here
    <3>1. Stands(base, p)
      BY <1>1, <1>2, BaseStands
    <3>. QED
      BY <1>1, <3>1 DEF PresentInv, Present, Here, Stands
  <2>. QED
    BY <1>3, <2>1, <2>2, <2>3 DEF PresentInv, QuietInv
<1>8. \A p \in Path : Stands(base, p)' => Stands(base, p)
  BY <1>1, <1>2, BaseStands
<1>9. \A p \in Path : Stands(work, p)' => Stands(work, p)
  BY <1>1, <1>2, WorkStands
<1>10. WorkInv' /\ PageInv' /\ SnapInv'
  BY <1>1, <1>2, <1>3, <1>8 DEF WorkInv, PageInv, SnapInv, AsBase, Seen
<1>11. GoneInv' /\ ScanInv' /\ MissingInv'
  <2>1. \A p \in Path : UsersAt(p) => UsersAt(p)'
    BY <1>2, <1>9 DEF UsersAt
  <2>2. gone \subseteq Path /\ todo \subseteq Path
    BY <1>1 DEF TypeOK, LocalsType
  <2>3. GoneInv'
    BY <1>1, <1>2, <1>3, <2>1, <2>2 DEF GoneInv
  <2>4. ScanInv'
    BY <1>1, <1>2, <1>3, <2>1 DEF ScanInv
  <2>5. MissingInv'
    BY <1>1, <1>2, <1>3, <2>1, <2>2 DEF MissingInv
  <2>. QED
    BY <2>3, <2>4, <2>5
<1>12. ControlInv'
  <2>1. pc \in {"copy", "sendCopy", "refresh"} => ~Current(Base.node, Base.rev)'
    <3> SUFFICES ASSUME pc \in {"copy", "sendCopy", "refresh"},
                        Current(Base.node, Base.rev)'
                 PROVE  FALSE
      OBVIOUS
    <3>1. Target \in Path /\ In(work, Target) /\ ~Current(Base.node, Base.rev)
      BY <1>1 DEF ControlInv, Sending, Target
    <3>2. work[Target].node \in Node /\ work[Target].rev \in 1..node[work[Target].node].rev
      BY <1>1, <3>1, Typed DEF RevsInv, Had
    <3>3. node'[work[Target].node].live /\ node'[work[Target].node].rev = work[Target].rev
      BY <1>2, <1>3 DEF Current, Base
    <3>. QED
      BY <1>1, <3>1, <3>2, <3>3, Later DEF Current, Base
  <2>. QED
    BY <1>1, <1>2, <1>3, <2>1 DEF ControlInv, In, Seen, Sending, Now
<1>. QED
  BY <1>4, <1>7, <1>10, <1>11, <1>12 DEF IInv, Newer

LEMMA NotedType ==
  ASSUME TypeOK, NEW ps \in SUBSET Path
  PROVE  Noted(ps) \in Reported /\ (pc = "off" => Noted(ps) = events)
<1>1. events \in Reported
  BY DEF TypeOK, FolderType
<1>2. [events EXCEPT !.paths = @ \cup ps] \in Reported
  BY <1>1 DEF Reported
<1>. QED
  BY <1>1, <1>2 DEF Noted, Watching

LEMMA RenamesType ==
  ASSUME TypeOK, NEW p \in Path, NEW q \in Path
  PROVE  [events EXCEPT !.renames = @ \cup {<<p, q>>}] \in Reported
BY DEF TypeOK, FolderType, Reported

LEMMA UserStep ==
  ASSUME IInv, User, disk' \in [Path -> File], events' \in Reported,
         pc = "off" => events' = events, HistoryType', writes' \in 0..MaxWrites,
         dropped \subseteq dropped',
         \A p \in Path : Here(p) /\ disk'[p] = NoFile =>
            /\ In(base, p) => base[p].node \in dropped'
            /\ In(work, p) => work[p].node \in dropped'
  PROVE  IInv'
<1>1. TypeOK /\ NodesInv /\ ControlInv
  BY DEF IInv
<1>2. UNCHANGED <<server, mount, run, webSteps, faults>> /\ userSteps' = userSteps + 1
  BY DEF User
<1>3. Newer
  BY <1>1, <1>2, SameServer
<1>4. TypeOK'
  <2>1. MountType' /\ LocalsType' /\ pc' = pc /\ why' = why
    BY <1>1, <1>2 DEF TypeOK, MountType, LocalsType, mount, run, locals
  <2>2. FolderType' /\ CountType'
    BY <1>1, <1>2 DEF TypeOK, FolderType, CountType
  <2>. QED
    BY <1>1, <1>3, <2>1, <2>2 DEF TypeOK, Newer
<1>5. pc' = "off" => events' = NoEvents
  BY <1>1, <1>2 DEF ControlInv, run
<1>. QED
  BY <1>2, <1>3, <1>4, <1>5, OutsideStep

LEMMA StepUserWrite == IInv /\ UserWrite => IInv'
<1> SUFFICES ASSUME IInv, UserWrite PROVE IInv'
  OBVIOUS
<1>1. TypeOK /\ disk \in [Path -> File] /\ writes \in 0..MaxWrites /\ MaxWrites \in Nat
  BY Bounds DEF IInv, TypeOK, FolderType, CountType
<1>2. User /\ writes < MaxWrites /\ writes' = writes + 1 /\ UNCHANGED <<due, dropped>>
  BY DEF UserWrite
<1>3. PICK p \in Path, b \in {writes'} \cup (IF Copying THEN 0..writes ELSE {}) :
        /\ disk' = [disk EXCEPT ![p].stamp = <<"write", writes', 0>>,
                                ![p].bytes = b]
        /\ events' = Noted({p})
        /\ watched' \in {watched \cup {writes'}, watched}
  BY Bounds DEF UserWrite, Written
<1>4. writes' \in 1..MaxWrites /\ b \in 0..MaxWrites
  BY <1>1, <1>2
<1>5. PICK st \in Stamp : st = <<"write", writes', 0>> /\ st # NoStamp
  <2>1. <<"write", writes', 0>> # NoStamp
    BY DEF NoStamp
  <2>2. writes' \in 0..MaxWrites
    BY <1>4
  <2>. QED
    BY <2>1, <2>2, Stamps
<1>6. disk' = [disk EXCEPT ![p].stamp = st, ![p].bytes = b]
  BY <1>3, <1>5
<1>7. /\ disk' \in [Path -> File] /\ disk'[p].stamp = st
      /\ \A q \in Path : q # p => disk'[q] = disk[q]
  BY ONLY <1>1, <1>4, <1>6, p \in Path, st \in Stamp DEF File
<1>8. \A q \in Path : Here(q) => disk'[q] # NoFile
  BY <1>5, <1>7 DEF Here, NoFile
<1>9. events' \in Reported /\ (pc = "off" => events' = events)
  BY <1>1, <1>3, NotedType
<1>10. HistoryType'
  BY <1>1, <1>2, <1>3, <1>4 DEF TypeOK, HistoryType
<1>11. writes' \in 0..MaxWrites /\ dropped \subseteq dropped'
  BY <1>2, <1>4
<1>. QED
  BY <1>2, <1>7, <1>8, <1>9, <1>10, <1>11, UserStep

LEMMA NodesAtType ==
  ASSUME TypeOK, NEW p \in Path
  PROVE  /\ NodesAt(p) \subseteq Node
         /\ In(base, p) => base[p].node \in NodesAt(p)
         /\ In(work, p) => work[p].node \in NodesAt(p)
BY Typed, Bounds DEF NodesAt, In

LEMMA StepUserRemove == IInv /\ UserRemove => IInv'
<1> SUFFICES ASSUME IInv, UserRemove PROVE IInv'
  OBVIOUS
<1>1. TypeOK /\ disk \in [Path -> File]
  BY DEF IInv, TypeOK, FolderType
<1>2. User /\ UNCHANGED <<writes, watched, due>>
  BY DEF UserRemove
<1>3. PICK p \in Path : /\ disk' = [disk EXCEPT ![p] = NoFile]
                        /\ events' = Noted({p})
                        /\ dropped' = dropped \cup NodesAt(p)
  BY Bounds DEF UserRemove
<1>4. disk' \in [Path -> File] /\ \A q \in Path : q # p => disk'[q] = disk[q]
  BY <1>1, <1>3, Empty
<1>5. events' \in Reported /\ (pc = "off" => events' = events)
  BY <1>1, <1>3, NotedType
<1>6. HistoryType' /\ writes' \in 0..MaxWrites /\ dropped \subseteq dropped'
  BY <1>1, <1>2, <1>3, NodesAtType DEF TypeOK, HistoryType, CountType
<1>7. \A q \in Path : Here(q) /\ disk'[q] = NoFile =>
            /\ In(base, q) => base[q].node \in dropped'
            /\ In(work, q) => work[q].node \in dropped'
  BY <1>1, <1>3, <1>4, NodesAtType DEF Here
<1>. QED
  BY <1>2, <1>4, <1>5, <1>6, <1>7, UserStep

LEMMA StepUserRename == IInv /\ UserRename => IInv'
<1> SUFFICES ASSUME IInv, UserRename PROVE IInv'
  OBVIOUS
<1>1. TypeOK /\ disk \in [Path -> File]
  BY DEF IInv, TypeOK, FolderType
<1>2. User /\ UNCHANGED writes
  BY DEF UserRename
<1>3. PICK p \in Path, q \in Path :
       /\ Here(p) /\ ~Here(q)
       /\ disk' = [disk EXCEPT ![p] = NoFile, ![q] = disk[p]]
       /\ events' = IF Watching
                    THEN [events EXCEPT !.renames = @ \cup {<<p, q>>}]
                    ELSE events
       /\ dropped' = dropped \cup NodesAt(p)
       /\ watched' = {k \in watched : ~At(k, p)}
       /\ due' = {k \in due : ~At(k, p)}
  BY Bounds DEF UserRename
<1>4. /\ disk' \in [Path -> File] /\ \A r \in Path : r # p /\ r # q => disk'[r] = disk[r]
      /\ disk'[q] = disk[p]
  BY <1>1, <1>3, Empty
<1>5. events' \in Reported /\ (pc = "off" => events' = events)
  BY <1>1, <1>3, RenamesType DEF Watching, TypeOK, FolderType
<1>6. HistoryType' /\ writes' \in 0..MaxWrites /\ dropped \subseteq dropped'
  BY <1>1, <1>2, <1>3, NodesAtType DEF TypeOK, HistoryType, CountType
<1>7. \A r \in Path : Here(r) /\ disk'[r] = NoFile =>
            /\ In(base, r) => base[r].node \in dropped'
            /\ In(work, r) => work[r].node \in dropped'
  BY <1>1, <1>3, <1>4, NodesAtType DEF Here
<1>. QED
  BY <1>2, <1>4, <1>5, <1>6, <1>7, UserStep

LEMMA StepOverflow == IInv /\ Overflow => IInv'
<1> SUFFICES ASSUME IInv, Overflow PROVE IInv'
  OBVIOUS
<1>1. TypeOK /\ NodesInv /\ ControlInv
  BY DEF IInv
<1>2. /\ Watching /\ faults' = faults + 1
      /\ events' = [events EXCEPT !.lost = TRUE]
      /\ UNCHANGED <<server, disk, mount, run, history, counts>>
  BY DEF Overflow, Lost
<1>3. Newer
  BY <1>1, <1>2, SameServer
<1>4. TypeOK'
  <2>1. MountType' /\ LocalsType' /\ pc' = pc /\ why' = why /\ HistoryType'
    BY <1>1, <1>2 DEF TypeOK, MountType, LocalsType, mount, run, locals, HistoryType, history
  <2>2. FolderType'
    <3>1. events \in Reported /\ disk \in [Path -> File]
      BY <1>1 DEF TypeOK, FolderType
    <3>2. [events EXCEPT !.lost = TRUE] \in Reported
      BY <3>1 DEF Reported
    <3>. QED
      BY <1>2, <3>1, <3>2 DEF FolderType
  <2>4. CountType'
    BY <1>1, <1>2 DEF TypeOK, CountType, counts
  <2>. QED
    BY <1>1, <1>3, <2>1, <2>2, <2>4 DEF TypeOK, Newer
<1>5. pc' # "off" /\ dropped \subseteq dropped' /\ \A p \in Path : disk'[p] = disk[p]
  BY <1>2 DEF Watching, run, history
<1>. QED
  BY <1>2, <1>3, <1>4, <1>5, OutsideStep DEF Here

-----------------------------------------------------------------------------
(* Other clients of the server                                             *)

LEMMA WebStep ==
  ASSUME IInv, Web, Newer, writes' \in 0..MaxWrites
  PROVE  IInv'
<1>1. TypeOK /\ ControlInv
  BY DEF IInv
<1>2. UNCHANGED <<folder, mount, run, history, userSteps, faults>> /\ webSteps' = webSteps + 1
  BY DEF Web
<1>3. TypeOK'
  <2>1. MountType' /\ LocalsType' /\ pc' = pc /\ why' = why /\ HistoryType' /\ FolderType'
    BY <1>1, <1>2 DEF TypeOK, MountType, LocalsType, mount, run, locals, HistoryType, history,
       FolderType, folder
  <2>2. CountType'
    BY <1>1, <1>2 DEF TypeOK, CountType
  <2>. QED
    BY <1>1, <2>1, <2>2 DEF TypeOK, Newer
<1>4. /\ pc' = "off" => events' = NoEvents
      /\ dropped \subseteq dropped' /\ \A p \in Path : disk'[p] = disk[p]
  BY <1>1, <1>2 DEF ControlInv, run, history, folder
<1>. QED
  BY <1>2, <1>3, <1>4, OutsideStep DEF Here

LEMMA StepWebCreate == IInv /\ WebCreate => IInv'
<1> SUFFICES ASSUME IInv, WebCreate PROVE IInv'
  OBVIOUS
<1>1. TypeOK /\ NodesInv /\ writes \in 0..MaxWrites /\ MaxWrites \in Nat
  BY Bounds DEF IInv, TypeOK, CountType
<1>2. Web /\ writes < MaxWrites /\ writes' = writes + 1 /\ UNCHANGED receipts
  BY DEF WebCreate
<1>3. PICK n \in Node, p \in Path : Create(n, p, writes')
  BY Bounds DEF WebCreate
<1>4. writes' \in 0..MaxWrites /\ \A x \in receipts' : x.node \in Node
  BY <1>1, <1>2 DEF TypeOK, ServerType
<1>5. PICK b \in 0..MaxWrites : b = writes'
  BY <1>4
<1>6. Newer
  BY <1>1, <1>3, <1>4, <1>5, CreateNewer
<1>. QED
  BY <1>2, <1>4, <1>6, WebStep

LEMMA StepWebWrite == IInv /\ WebWrite => IInv'
<1> SUFFICES ASSUME IInv, WebWrite PROVE IInv'
  OBVIOUS
<1>1. TypeOK /\ NodesInv /\ writes \in 0..MaxWrites /\ MaxWrites \in Nat
  BY Bounds DEF IInv, TypeOK, CountType
<1>2. Web /\ writes < MaxWrites /\ writes' = writes + 1 /\ UNCHANGED receipts
      /\ stored' = stored \cup {writes'}
  BY DEF WebWrite
<1>3. PICK n \in Node : /\ node[n].live
                        /\ Put(n, [node[n] EXCEPT !.bytes = writes', !.rev = @ + 1])
  BY DEF WebWrite
<1>4. writes' \in 0..MaxWrites /\ \A x \in receipts' : x.node \in Node
  BY <1>1, <1>2 DEF TypeOK, ServerType
<1>5. PICK b \in 0..MaxWrites : b = writes'
  BY <1>4
<1>6. Put(n, [node[n] EXCEPT !.bytes = b, !.rev = node[n].rev + 1])
  BY <1>3, <1>5
<1>7. Newer
  BY <1>1, <1>2, <1>3, <1>4, <1>5, <1>6, WriteNewer
<1>. QED
  BY <1>2, <1>4, <1>7, WebStep

LEMMA StepWebDelete == IInv /\ WebDelete => IInv'
<1> SUFFICES ASSUME IInv, WebDelete PROVE IInv'
  OBVIOUS
<1>1. TypeOK /\ NodesInv /\ writes' \in 0..MaxWrites
  BY DEF IInv, TypeOK, CountType, WebDelete
<1>2. PICK n \in Node : node[n].live /\ Trash(n)
  BY DEF WebDelete
<1>3. Newer
  BY <1>1, <1>2, TrashNewer
<1>. QED
  BY <1>1, <1>3, WebStep DEF WebDelete

LEMMA StepWebMove == IInv /\ WebMove => IInv'
<1> SUFFICES ASSUME IInv, WebMove PROVE IInv'
  OBVIOUS
<1>1. TypeOK /\ NodesInv /\ writes' \in 0..MaxWrites
  BY DEF IInv, TypeOK, CountType, WebMove
<1>2. PICK n \in Node, p \in Path : node[n].live /\ LiveAt(p) = {} /\ MoveTo(n, p)
  BY Bounds DEF WebMove
<1>3. Newer
  BY <1>1, <1>2, MoveNewer
<1>. QED
  BY <1>1, <1>3, WebStep DEF WebMove

LEMMA StepWebRestore == IInv /\ WebRestore => IInv'
<1> SUFFICES ASSUME IInv, WebRestore PROVE IInv'
  OBVIOUS
<1>1. TypeOK /\ NodesInv /\ writes' \in 0..MaxWrites
  BY DEF IInv, TypeOK, CountType, WebRestore
<1>2. PICK n \in Node :
       /\ node[n].rev # 0 /\ LiveAt(node[n].path) = {}
       /\ Put(n, [node[n] EXCEPT !.live = TRUE, !.rev = node[n].rev + 1])
  BY DEF WebRestore
<1>3. Newer
  BY <1>1, <1>2, RestoreNewer DEF WebRestore
<1>. QED
  BY <1>1, <1>3, WebStep DEF WebRestore

-----------------------------------------------------------------------------
(* The end of a pass                                                       *)

LEMMA MergedType ==
  ASSUME NEW e \in Reported, NEW b \in Reported
  PROVE  Merged(e, b) \in Reported
BY DEF Merged, Reported

LEMMA EnterStep ==
  ASSUME ServerType', NodesInv', FolderType', MountType', HistoryType', CountType',
         NEW step \in {"off", "idle", "poll", "scan"},
         NEW w \in {"none", "start", "flush", "poll", "audit"},
         Enter(step, w), step = "off" => events' = NoEvents,
         \A p \in Path : In(base, p)' => Had(base[p])', Present(base)',
         step # "off" => \A p \in Path : Good(base[p], p)'
  PROVE  IInv'
<1>1. /\ pc' = step /\ why' = w
      /\ batch' = NoEvents /\ work' = Nowhere /\ moves' = {} /\ todo' = {}
      /\ gone' = {} /\ scan' = Nothing /\ snap' = [p \in Path |-> Nobody]
      /\ page' = <<>> /\ advance' = FALSE /\ job' = NoJob
  BY DEF Enter
<1>2. LocalsType'
  <2>1. <<>> \in Seq(Seens)
    OBVIOUS
  <2>. QED
    BY <1>1, <2>1, Empty DEF LocalsType
<1>3. TypeOK'
  BY <1>1, <1>2 DEF TypeOK, Steps
<1>4. Pass' = step /\ Listed(page') = {}
  BY <1>1, EmptyListed DEF Pass
<1>5. \A p \in Path : ~In(work, p)'
  BY <1>1, Empty DEF In
<1>6. RevsInv'
  BY <1>1, <1>4, <1>5 DEF RevsInv, Seen
<1>7. ControlInv'
  BY <1>1, <1>4 DEF ControlInv, Sending
<1>8. PresentInv' /\ QuietInv'
  <2>1. Present(work)' /\ Quiet(work)'
    BY <1>5 DEF Present, Quiet, Stands
  <2>2. step # "off" => Quiet(base)'
    BY GoodMeansBaseNext
  <2>. QED
    BY <1>4, <2>1, <2>2 DEF PresentInv, QuietInv
<1>9. WorkInv' /\ PageInv' /\ SnapInv' /\ ScanInv' /\ MissingInv'
  BY <1>4 DEF WorkInv, PageInv, SnapInv, ScanInv, MissingInv, Working
<1>10. GoneInv'
  BY <1>1, <1>4 DEF GoneInv
<1>. QED
  BY <1>3, <1>6, <1>7, <1>8, <1>9, <1>10 DEF IInv

\* The baseline is kept, or becomes what the pass has made of it.
LEMMA KeptBase ==
  ASSUME IInv, Newer, Listed(page') \subseteq Listed(page), dropped \subseteq dropped',
         NEW p \in Path, Here(p) => disk'[p] # NoFile,
         \/ base' = base /\ Pass \notin {"off", "slow", "sent"}
         \/ base' = work
  PROVE  Good(base[p], p)'
<1>1. TypeOK
  BY DEF IInv
<1>2. CASE base' = base /\ Pass \notin {"off", "slow", "sent"}
  <2>1. PICK e : e = base[p]
    OBVIOUS
  <2>2. Good(e, p) /\ e.node \in Node \cup {0}
    BY <1>1, <1>2, <2>1, GoodBase, Typed
  <2>3. Good(e, p)'
    BY <1>1, <2>2, GoodLater
  <2>. QED
    BY <1>2, <2>1, <2>3
<1>3. CASE base' = work
  <2>1. PICK e : e = work[p]
    OBVIOUS
  <2>2. Good(e, p) /\ e.node \in Node \cup {0}
    BY <1>1, <2>1, GoodWork, Typed
  <2>3. Good(e, p)'
    BY <1>1, <2>2, GoodLater
  <2>. QED
    BY <1>3, <2>1, <2>3
<1>. QED
  BY <1>2, <1>3

LEMMA FailStep ==
  ASSUME IInv, Newer, disk' \in [Path -> File], NEW ps \in SUBSET Path, Fail(ps),
         dropped \subseteq dropped', HistoryType', CountType',
         \A p \in Path : Here(p) => disk'[p] # NoFile
  PROVE  IInv'
<1>1. TypeOK
  BY DEF IInv
<1>2. /\ (base' = base /\ Auditing) \/ base' = work
      /\ UNCHANGED <<known, tracked>>
      /\ \/ Enter("off", "none") /\ events' = NoEvents
         \/ Enter("idle", "none") /\ events' = Merged(Noted(ps), batch)
  BY DEF Fail
<1>3. Listed(page') \subseteq Listed(page)
  BY <1>2, EmptyListed DEF Enter
<1>4. Auditing => Pass \notin {"off", "slow", "sent"}
  BY DEF Auditing
<1>5. \A p \in Path : Good(base[p], p)'
  BY <1>2, <1>3, <1>4, KeptBase
<1>6. (Present(base) /\ \A p \in Path : In(base, p) => Had(base[p]))'
  BY <1>5, GoodMeansBaseNext
<1>7. FolderType'
  <2>1. NoEvents \in Reported /\ Merged(Noted(ps), batch) \in Reported
    BY <1>1, Empty, NotedType, MergedType DEF TypeOK, LocalsType
  <2>. QED
    BY <1>2, <2>1 DEF FolderType
<1>8. MountType'
  BY <1>1, <1>2 DEF TypeOK, MountType, LocalsType
<1>9. ServerType' /\ NodesInv'
  BY DEF Newer
<1>10. CASE Enter("off", "none") /\ events' = NoEvents
  BY <1>5, <1>6, <1>7, <1>8, <1>9, <1>10, EnterStep
<1>11. CASE Enter("idle", "none")
  BY <1>5, <1>6, <1>7, <1>8, <1>9, <1>11, EnterStep
<1>. QED
  BY <1>2, <1>10, <1>11

-----------------------------------------------------------------------------
(* A step of a pass                                                        *)

\* An entry the pass has written.
EntryOK(p) ==
  /\ Good(work[p], p)'
  /\ Stands(base, p)' /\ base[p].node \notin dropped => AsBase(work[p], p)'

LEMMA WorkStep ==
  ASSUME IInv, Newer, UNCHANGED <<base, dropped, snap>>,
         Listed(page') \subseteq Listed(page),
         Pass \in Working, Pass' \in Working,
         Pass' \in {"slow", "sent"} <=> Pass \in {"slow", "sent"},
         Pass' \in {"pull", "match"} => Pass \in {"pull", "match"},
         \A p \in Path : Here(p) /\ disk'[p] = NoFile =>
            /\ Pass \in {"slow", "sent"}
            /\ Stands(base, p) => base[p].node \in dropped
            /\ work'[p] # work[p],
         \A p \in Path : work'[p] = work[p] \/ EntryOK(p)
  PROVE  RevsInv' /\ PresentInv' /\ QuietInv' /\ WorkInv' /\ PageInv' /\ SnapInv'
<1>1. /\ TypeOK /\ NodesInv /\ RevsInv /\ ControlInv
      /\ PresentInv /\ QuietInv /\ WorkInv /\ PageInv /\ SnapInv
  BY DEF IInv
<1>2. \A p \in Path : Good(work[p], p)'
  <2> SUFFICES ASSUME NEW p \in Path, work'[p] = work[p] PROVE Good(work[p], p)'
    BY DEF EntryOK
  <2>1. PICK e : e = work[p]
    OBVIOUS
  <2>2. Good(e, p) /\ e.node \in Node \cup {0}
    BY <1>1, <2>1, GoodWork, Typed
  <2>3. Good(e, p)'
    BY <1>1, <2>2, GoodLater
  <2>. QED
    BY <2>1, <2>3
<1>3. (Present(work) /\ Quiet(work) /\ \A p \in Path : In(work, p) => Had(work[p]))'
  BY <1>2, GoodMeansNext
<1>4. \A p \in Path : Stands(base, p)' => Stands(base, p)
  BY <1>1, BaseStands
<1>5. RevsInv'
  <2>1. \A c : c.node \in Node /\ Had(c) => Had(c)'
    BY <1>1, Later DEF Had
  <2>. QED
    BY <1>1, <1>3, <2>1, Typed DEF RevsInv, In, Seen
<1>6. Present(base)'
  <2> SUFFICES ASSUME NEW p \in Path, Stands(base, p)', disk'[p] = NoFile
               PROVE  base[p].node \in dropped
    BY DEF Present, Here
  <2>1. Stands(base, p)
    BY <1>4
  <2>. QED
    BY <1>1, <2>1 DEF PresentInv, Present
<1>7. Pass' \notin {"off", "slow", "sent"} => Quiet(base)'
  <2> SUFFICES ASSUME Pass' \notin {"off", "slow", "sent"} PROVE Quiet(base)'
    OBVIOUS
  <2>1. Pass \notin {"off", "slow", "sent"}
    BY DEF Working
  <2>2. \A p \in Path : Good(base[p], p)'
    BY <2>1, KeptBase
  <2>. QED
    BY <2>2, GoodMeansBaseNext
<1>8. WorkInv'
  <2> SUFFICES ASSUME NEW p \in Path, Stands(base, p)', base[p].node \notin dropped
               PROVE  AsBase(work[p], p)'
    BY DEF WorkInv
  <2>1. CASE work'[p] = work[p]
    BY <1>1, <1>4, <2>1 DEF WorkInv, AsBase
  <2>2. CASE EntryOK(p)
    BY <2>2 DEF EntryOK
  <2>. QED
    BY <2>1, <2>2
<1>9. PageInv'
  BY <1>1, <1>4 DEF PageInv, AsBase, Working
<1>10. SnapInv'
  BY <1>1, <1>4 DEF SnapInv, AsBase, Seen
<1>. QED
  BY <1>3, <1>5, <1>6, <1>7, <1>8, <1>9, <1>10 DEF PresentInv, QuietInv

\* A step that reads the file to be sent.
LEMMA SendStep ==
  ASSUME IInv, NEW p \in Path, NEW stamp \in Stamp, NEW step \in {"upload", "overwrite"},
         Send(step, p, stamp), UNCHANGED <<page, history, counts>>,
         todo' \in {todo, todo \ {p}},
         step = "upload" => pc \in {"local", "add"} /\ ~In(work, p),
         step = "overwrite" => pc \in {"local", "edit", "match", "slow"} /\ In(work, p),
         pc \in {"local", "add", "edit"} => p \in todo,
         pc = "slow" => page # <<>> /\ Now.live
  PROVE  IInv'
<1>1. /\ TypeOK /\ NodesInv /\ RevsInv /\ ControlInv
      /\ GoneInv /\ ScanInv /\ MissingInv
  BY DEF IInv
<1>2. /\ pc' = step
      /\ job' = [path |-> p, stamp |-> stamp, bytes |-> disk[p].bytes, copy |-> 0,
                 ret |-> IF pc = "slow" THEN "sent" ELSE pc]
      /\ UNCHANGED <<server, folder, mount, why, batch, work, moves, gone, scan,
                     snap, advance, faults>>
  BY DEF Send
<1>3. /\ UNCHANGED <<node, journal, late, receipts, stored, disk, events, base, known,
                     tracked, watched, due, dropped, writes, userSteps, webSteps>>
  BY <1>2 DEF server, folder, mount, history, counts
<1>4. pc \in {"local", "add", "edit", "match", "slow"}
  OBVIOUS
<1>5. Newer
  BY <1>1, <1>2, SameServer
<1>6. Pass = pc /\ job = NoJob
  BY <1>1, <1>4, PassIs DEF Sending, ControlInv
<1>7. /\ job'.path = p /\ job'.ret = (IF pc = "slow" THEN "sent" ELSE pc)
      /\ job' # NoJob
  BY <1>2, Empty, Bounds
<1>8. Pass' = (IF pc = "slow" THEN "sent" ELSE pc) /\ Target' = p
  BY <1>7 DEF Pass, Target
<1>9. TypeOK'
  <2>1. job' \in [path : Path \cup {0}, stamp : Stamp, bytes : 0..MaxWrites,
              copy : Path \cup {0},
              ret : {"none", "local", "add", "edit", "match", "sent"}]
    BY <1>1, <1>2, <1>4, Typed
  <2>2. LocalsType'
    BY <1>1, <1>2, <2>1 DEF TypeOK, LocalsType
  <2>3. ServerType' /\ FolderType' /\ MountType' /\ HistoryType' /\ CountType'
    BY <1>1, <1>2, <1>3 DEF TypeOK, ServerType, FolderType, MountType, HistoryType, CountType
  <2>. QED
    BY <1>1, <1>2, <2>2, <2>3 DEF TypeOK, Steps, Sending
<1>10. RevsInv' /\ PresentInv' /\ QuietInv' /\ WorkInv' /\ PageInv' /\ SnapInv'
  <2>1. \A q \in Path : work'[q] = work[q] /\ disk'[q] = disk[q]
    BY <1>2, <1>3
  <2>2. Listed(page') \subseteq Listed(page)
    OBVIOUS
  <2>3. /\ Pass \in Working /\ Pass' \in Working
        /\ Pass' \in {"slow", "sent"} <=> Pass \in {"slow", "sent"}
        /\ Pass' \in {"pull", "match"} => Pass \in {"pull", "match"}
    BY <1>4, <1>6, <1>8 DEF Working
  <2>. QED
    BY <1>2, <1>3, <1>5, <2>1, <2>2, <2>3, WorkStep DEF Here
<1>11. ControlInv'
  <2>1. In(work, p)' <=> In(work, p)
    BY <1>2 DEF In
  <2>2. \A q \in todo' : q \in todo
    OBVIOUS
  <2>3. Pass' \in {"edit", "missing"} => \A q \in todo' : In(work, q)'
    BY <1>1, <1>2, <1>4, <1>6, <1>8, <2>2 DEF ControlInv, In
  <2>4. Pass' = "match" => \A q \in todo' : Seen(q)'
    BY <1>1, <1>2, <1>4, <1>6, <1>8, <2>2 DEF ControlInv, Seen
  <2>5. pc' \in Sending \ {"upload"} =>
          job'.ret \in {"local", "edit", "match", "sent"} /\ In(work, Target)'
    BY <1>2, <1>7, <1>8, <2>1
  <2>6. pc' = "upload" => job'.ret \in {"local", "add"} /\ ~In(work, Target)'
    BY <1>2, <1>7, <1>8, <2>1
  <2>7. Pass' = "sent" => page' # <<>> /\ Now'.live
    BY <1>8, <1>4 DEF Now
  <2>. QED
    BY <1>2, <1>7, <2>3, <2>4, <2>5, <2>6, <2>7 DEF ControlInv, Sending
<1>12. \A q \in Path : UsersAt(q) => UsersAt(q)'
  BY <1>2, <1>3 DEF UsersAt, Stands, In, Current
<1>13. GoneInv'
  <2>1. gone \subseteq Path
    BY <1>1 DEF TypeOK, LocalsType
  <2>2. Pass' = "local" => Target' \notin gone'
    BY <1>1, <1>2, <1>4, <1>8 DEF GoneInv
  <2>3. Pass' = "local" => \A q \in gone' : UsersAt(q)'
    BY <1>1, <1>2, <1>4, <1>6, <1>8, <1>12, <2>1 DEF GoneInv
  <2>4. (gone' # {} => Pass' = "local" /\ moves' = {}) /\ gone' \cap todo' = {}
    BY <1>1, <1>2, <1>6, <1>8 DEF GoneInv
  <2>. QED
    BY <2>2, <2>3, <2>4 DEF GoneInv
<1>14. ScanInv'
  BY <1>1, <1>2, <1>4, <1>6, <1>8, <1>12 DEF ScanInv
<1>15. MissingInv'
  BY <1>4, <1>8 DEF MissingInv
<1>. QED
  BY <1>5, <1>9, <1>10, <1>11, <1>13, <1>14, <1>15 DEF IInv, Newer

\* A step that only goes on in a loop, or to the next loop.
\* A step of a loop that changes no entry; it may pass over a file.
LEMMA OverStep ==
  ASSUME IInv, UNCHANGED <<server, folder, mount, why, batch, work, scan, snap, page,
                           advance, job, faults, dropped, counts>>,
         HistoryType',
         pc \in Working, pc' \in Working,
         pc \in {"slow", "sent", "pull", "match"} => pc' = pc,
         pc' \in {"slow", "sent", "pull", "match"} => pc = pc',
         todo' \in SUBSET Path, gone' \in SUBSET Path, moves' \subseteq moves,
         pc' \in {"edit", "missing"} => \A q \in todo' : In(work, q),
         pc' = "match" => \A q \in todo' : Seen(q),
         gone' # {} => pc' = "local" /\ moves' = {}, gone' \cap todo' = {},
         pc' = "local" => \A q \in gone' : UsersAt(q),
         pc' \in {"add", "edit"} => /\ pc \in {"add", "edit"}
                                    /\ \A q \in todo' : scan[q] # NoFile,
         pc' = "missing" => \A q \in todo' : UsersAt(q)
  PROVE  IInv'
<1>1. /\ TypeOK /\ NodesInv /\ RevsInv /\ ControlInv
      /\ GoneInv /\ ScanInv /\ MissingInv
  BY DEF IInv
<1>3. /\ UNCHANGED <<node, journal, late, receipts, stored, disk, events, base, known,
                     tracked, dropped, writes, userSteps, webSteps>>
  BY DEF server, folder, mount, counts
<1>5. Newer
  BY <1>1, SameServer
<1>6. Pass = pc /\ job = NoJob /\ pc \notin Sending /\ pc' \notin Sending
  BY <1>1, PassIs DEF Sending, ControlInv, Working
<1>8. Pass' = pc'
  BY <1>6 DEF Pass
<1>9. TypeOK'
  <2>2. LocalsType'
    BY <1>1 DEF TypeOK, LocalsType
  <2>3. ServerType' /\ FolderType' /\ MountType' /\ HistoryType' /\ CountType'
    BY <1>1, <1>3 DEF TypeOK, ServerType, FolderType, MountType, CountType
  <2>. QED
    BY <1>1, <2>2, <2>3 DEF TypeOK, Steps
<1>10. RevsInv' /\ PresentInv' /\ QuietInv' /\ WorkInv' /\ PageInv' /\ SnapInv'
  <2>1. \A q \in Path : work'[q] = work[q] /\ disk'[q] = disk[q]
    BY <1>3
  <2>2. Listed(page') \subseteq Listed(page)
    OBVIOUS
  <2>3. /\ Pass \in Working /\ Pass' \in Working
        /\ Pass' \in {"slow", "sent"} <=> Pass \in {"slow", "sent"}
        /\ Pass' \in {"pull", "match"} => Pass \in {"pull", "match"}
    BY <1>6, <1>8
  <2>. QED
    BY <1>3, <1>5, <2>1, <2>2, <2>3, WorkStep DEF Here
<1>11. ControlInv'
  <2>3. Pass' \in {"edit", "missing"} => \A q \in todo' : In(work, q)'
    BY <1>8 DEF In
  <2>4. Pass' = "match" => \A q \in todo' : Seen(q)'
    BY <1>8 DEF Seen
  <2>7. Pass' = "sent" => page' # <<>> /\ Now'.live
    BY <1>1, <1>6, <1>8 DEF ControlInv, Now
  <2>. QED
    BY <1>6, <2>3, <2>4, <2>7 DEF ControlInv, Sending, Working
<1>12. \A q \in Path : UsersAt(q) => UsersAt(q)'
  BY <1>3 DEF UsersAt, Stands, In, Current
<1>13. GoneInv'
  BY <1>6, <1>8, <1>12 DEF GoneInv
<1>14. ScanInv'
  BY <1>1, <1>6, <1>8, <1>12 DEF ScanInv
<1>15. MissingInv'
  BY <1>8, <1>12 DEF MissingInv
<1>. QED
  BY <1>5, <1>9, <1>10, <1>11, <1>13, <1>14, <1>15 DEF IInv, Newer

LEMMA LoopStep ==
  ASSUME IInv, UNCHANGED <<server, folder, mount, why, batch, work, scan, snap, page,
                           advance, job, faults, history, counts>>,
         pc \in Working, pc' \in Working,
         pc \in {"slow", "sent", "pull", "match"} => pc' = pc,
         pc' \in {"slow", "sent", "pull", "match"} => pc = pc',
         todo' \in SUBSET Path, gone' \in SUBSET Path, moves' \subseteq moves,
         pc' \in {"edit", "missing"} => \A q \in todo' : In(work, q),
         pc' = "match" => \A q \in todo' : Seen(q),
         gone' # {} => pc' = "local" /\ moves' = {}, gone' \cap todo' = {},
         pc' = "local" => \A q \in gone' : UsersAt(q),
         pc' \in {"add", "edit"} => /\ pc \in {"add", "edit"}
                                    /\ \A q \in todo' : scan[q] # NoFile,
         pc' = "missing" => \A q \in todo' : UsersAt(q)
  PROVE  IInv'
<1>1. HistoryType' /\ UNCHANGED dropped
  BY DEF IInv, TypeOK, HistoryType, history
<1>. QED
  BY <1>1, OverStep

-----------------------------------------------------------------------------
(* The loops, and the files they send                                      *)

LEMMA TodoIsIn ==
  ASSUME TypeOK, todo # {}
  PROVE  First(todo) \in todo /\ First(todo) \in Path
BY FirstIsIn, Bounds DEF TypeOK, LocalsType

\* A pass that ends with an error, having done nothing.
LEMMA FailNow ==
  ASSUME IInv, Fail({}), UNCHANGED <<server, disk, dropped>>, HistoryType', CountType'
  PROVE  IInv'
<1>1. TypeOK /\ NodesInv /\ disk \in [Path -> File]
  BY DEF IInv, TypeOK, FolderType
<1>2. Newer
  BY <1>1, SameServer
<1>3. \A p \in Path : Here(p) => disk'[p] # NoFile
  BY DEF Here
<1>. QED
  BY <1>1, <1>2, <1>3, FailStep

LEMMA SameCounts ==
  ASSUME TypeOK, UNCHANGED <<history, counts>>, UNCHANGED faults \/ Lost
  PROVE  /\ HistoryType' /\ CountType' /\ UNCHANGED dropped
BY DEF TypeOK, HistoryType, CountType, history, counts, Lost

LEMMA StepVisitPath == IInv /\ VisitPath => IInv'
<1> SUFFICES ASSUME IInv, VisitPath PROVE IInv'
  OBVIOUS
<1>1. TypeOK /\ ControlInv /\ GoneInv /\ PresentInv
  BY DEF IInv
<1>2. pc = "local" /\ moves = {} /\ todo # {} /\ UNCHANGED <<history, counts>>
  BY DEF VisitPath, Flushing
<1>3. PICK p \in Path : p = First(todo) /\ p \in todo
  BY <1>1, <1>2, TodoIsIn
<1>4. Pass = "local" /\ todo \subseteq Path /\ gone \subseteq Path
  BY <1>1, <1>2, PassIs DEF Sending, TypeOK, LocalsType
<1>5. CASE /\ todo' = todo \ {p}
           /\ gone' = IF ~Here(p) /\ In(work, p) THEN gone \cup {p} ELSE gone
           /\ UNCHANGED <<server, folder, mount, pc, why, batch, work, moves,
                       scan, snap, page, advance, job, faults>>
  <2>1. \A q \in gone' : UsersAt(q)
    <3>1. ~Here(p) /\ In(work, p) => UsersAt(p)
      BY <1>1 DEF UsersAt, PresentInv, Present
    <3>. QED
      BY <1>1, <1>4, <1>5, <3>1 DEF GoneInv
  <2>2. gone' \cap todo' = {} /\ todo' \in SUBSET Path /\ gone' \in SUBSET Path
    BY <1>1, <1>4, <1>5 DEF GoneInv
  <2>. QED
    BY <1>2, <1>5, <2>1, <2>2, LoopStep DEF Working
<1>6. CASE /\ Here(p) /\ ~In(work, p)
           /\ Send("upload", p, disk[p].stamp)
           /\ todo' = todo \ {p} /\ UNCHANGED page
  <2>1. disk[p].stamp \in Stamp
    BY <1>1, Typed
  <2>. QED
    BY <1>2, <1>3, <1>6, <2>1, SendStep
<1>7. CASE /\ Here(p) /\ In(work, p)
           /\ Send("overwrite", p, disk[p].stamp)
           /\ todo' = todo \ {p} /\ UNCHANGED page
  <2>1. disk[p].stamp \in Stamp
    BY <1>1, Typed
  <2>. QED
    BY <1>2, <1>3, <1>7, <2>1, SendStep
<1>8. CASE Fail({}) /\ UNCHANGED <<server, disk, faults>>
  BY <1>1, <1>2, <1>8, SameCounts, FailNow
<1>. QED
  BY <1>3, <1>5, <1>6, <1>7, <1>8 DEF VisitPath

LEMMA SameFolder ==
  ASSUME TypeOK, UNCHANGED folder
  PROVE  FolderType' /\ \A p \in Path : Here(p) => disk'[p] # NoFile
BY DEF TypeOK, FolderType, folder, Here

LEMMA StepAdd == IInv /\ Add => IInv'
<1> SUFFICES ASSUME IInv, Add PROVE IInv'
  OBVIOUS
<1>1. TypeOK /\ ControlInv /\ GoneInv /\ ScanInv
  BY DEF IInv
<1>2. pc = "add" /\ todo # {} /\ UNCHANGED <<history, counts>>
  BY DEF Add
<1>3. PICK p \in Path : p = First(todo) /\ p \in todo
  BY <1>1, <1>2, TodoIsIn
<1>4. Pass = "add" /\ todo \subseteq Path /\ gone = {}
  BY <1>1, <1>2, PassIs DEF Sending, TypeOK, LocalsType, GoneInv
<1>5. CASE /\ todo' = todo \ {p}
           /\ UNCHANGED <<server, folder, mount, pc, why, batch, work, moves,
                       gone, scan, snap, page, advance, job, faults>>
  <2>1. \A q \in todo' : scan[q] # NoFile
    BY <1>1, <1>4, <1>5 DEF ScanInv
  <2>. QED
    BY <1>2, <1>4, <1>5, <2>1, LoopStep DEF Working
<1>6. CASE /\ ~In(work, p)
           /\ Send("upload", p, scan[p].stamp)
           /\ todo' = todo \ {p} /\ UNCHANGED page
  <2>1. scan[p].stamp \in Stamp
    BY <1>1 DEF TypeOK, LocalsType, File
  <2>. QED
    BY <1>2, <1>3, <1>6, <2>1, SendStep
<1>7. CASE Fail({}) /\ UNCHANGED <<server, disk, faults>>
  BY <1>1, <1>2, <1>7, SameCounts, FailNow
<1>. QED
  BY <1>3, <1>5, <1>6, <1>7 DEF Add

LEMMA StepPassOver ==
  ASSUME IInv, pc = "edit", NEW p \in todo, PassOver(p), UNCHANGED <<dropped, counts>>
  PROVE  IInv'
<1>1. TypeOK /\ ControlInv /\ GoneInv /\ ScanInv
  BY DEF IInv
<1>2. Pass = "edit" /\ gone = {} /\ todo \subseteq Path
  BY <1>1, PassIs DEF Sending, GoneInv, TypeOK, LocalsType
<1>3. /\ todo' = todo \ {p}
      /\ watched' \subseteq watched /\ due' \subseteq due
      /\ UNCHANGED <<server, folder, mount, pc, why, batch, work, moves, gone, scan,
                     snap, page, advance, job, faults>>
  BY DEF PassOver
<1>4. /\ Newer /\ FolderType' /\ HistoryType' /\ CountType'
      /\ UNCHANGED <<disk, base, known, tracked>>
  <2>1. Newer /\ FolderType' /\ UNCHANGED <<disk, base, known, tracked>>
    BY <1>1, <1>3, SameServer, SameFolder DEF IInv, folder, mount
  <2>2. HistoryType' /\ CountType'
    BY <1>1, <1>3 DEF TypeOK, HistoryType, CountType, counts
  <2>. QED
    BY <2>1, <2>2
<1>5. \A q \in todo' : scan[q] # NoFile /\ In(work, q)
  BY <1>1, <1>2, <1>3 DEF ScanInv, ControlInv
<1>. QED
  BY <1>2, <1>3, <1>4, <1>5, OverStep DEF Working

LEMMA StepEdit == IInv /\ Edit => IInv'
<1> SUFFICES ASSUME IInv, Edit PROVE IInv'
  OBVIOUS
<1>1. TypeOK /\ ControlInv
  BY DEF IInv
<1>2. pc = "edit" /\ UNCHANGED <<dropped, counts>>
  BY DEF Edit
<1>3. PICK p \in todo :
       \/ PassOver(p)
       \/ /\ IF Here(p)
             THEN /\ Send("overwrite", p, scan[p].stamp)
                  /\ todo' = todo \ {p} /\ UNCHANGED page
             ELSE Fail({}) /\ UNCHANGED <<server, disk, faults>>
          /\ UNCHANGED <<watched, due>>
  BY DEF Edit
<1>4. p \in Path /\ In(work, p) /\ scan[p].stamp \in Stamp
  <2>1. p \in Path
    BY <1>1 DEF TypeOK, LocalsType
  <2>2. Pass = "edit"
    BY <1>1, <1>2, PassIs DEF Sending
  <2>. QED
    BY <1>1, <2>1, <2>2 DEF ControlInv, TypeOK, LocalsType, File
<1>5. CASE PassOver(p)
  BY <1>2, <1>5, StepPassOver
<1>6. UNCHANGED <<watched, due>> => UNCHANGED <<history, counts>>
  BY <1>2 DEF history
<1>7. CASE /\ Send("overwrite", p, scan[p].stamp)
           /\ todo' = todo \ {p} /\ UNCHANGED page
           /\ UNCHANGED <<watched, due>>
  BY <1>2, <1>4, <1>6, <1>7, SendStep
<1>8. CASE /\ Fail({}) /\ UNCHANGED <<server, disk, faults>>
           /\ UNCHANGED <<watched, due>>
  BY <1>1, <1>2, <1>6, <1>8, SameCounts, FailNow
<1>. QED
  BY <1>3, <1>5, <1>7, <1>8

LEMMA StepEndAdd == IInv /\ EndAdd => IInv'
<1> SUFFICES ASSUME IInv, EndAdd PROVE IInv'
  OBVIOUS
<1>1. TypeOK /\ ControlInv /\ GoneInv
  BY DEF IInv
<1>2. /\ pc = "add" /\ pc' = "edit"
      /\ todo' = {p \in Path : /\ scan[p] # NoFile /\ In(work, p)
                               /\ scan[p].stamp # work[p].stamp}
      /\ UNCHANGED <<server, folder, mount, why, batch, work, moves, gone, scan,
                     snap, page, advance, job, history, counts, faults>>
  BY DEF EndAdd, NextLoop
<1>3. gone = {}
  BY <1>1, <1>2, PassIs DEF Sending, GoneInv
<1>. QED
  BY <1>2, <1>3, LoopStep DEF Working

LEMMA StepEndEdit == IInv /\ EndEdit => IInv'
<1> SUFFICES ASSUME IInv, EndEdit PROVE IInv'
  OBVIOUS
<1>1. TypeOK /\ ControlInv /\ GoneInv /\ ScanInv
  BY DEF IInv
<1>2. /\ pc = "edit" /\ pc' = "missing"
      /\ todo' = {p \in Path : In(work, p) /\ scan[p] = NoFile}
      /\ UNCHANGED <<server, folder, mount, why, batch, work, moves, gone, scan,
                     snap, page, advance, job, history, counts, faults>>
  BY DEF EndEdit, NextLoop
<1>3. gone = {} /\ Pass = "edit"
  BY <1>1, <1>2, PassIs DEF Sending, GoneInv
<1>4. \A q \in todo' : UsersAt(q)
  BY <1>1, <1>2, <1>3 DEF ScanInv
<1>. QED
  BY <1>2, <1>3, <1>4, LoopStep DEF Working

LEMMA StepEndMissing == IInv /\ EndMissing => IInv'
<1> SUFFICES ASSUME IInv, EndMissing PROVE IInv'
  OBVIOUS
<1>1. TypeOK /\ ControlInv /\ GoneInv
  BY DEF IInv
<1>2. /\ pc = "missing" /\ pc' = "walk" /\ todo' = {}
      /\ UNCHANGED <<server, folder, mount, why, batch, work, moves, gone, scan,
                     snap, page, advance, job, history, counts, faults>>
  BY DEF EndMissing, NextLoop
<1>3. gone = {}
  BY <1>1, <1>2, PassIs DEF Sending, GoneInv
<1>. QED
  BY <1>2, <1>3, LoopStep DEF Working

-----------------------------------------------------------------------------
(* Steps that change an entry                                              *)

\* Where the entry stays as it is, the user's deletion stays one.
LEMMA UsersStill ==
  ASSUME IInv, Newer, UNCHANGED dropped, NEW q \in Path, UsersAt(q),
         work'[q] = work[q] \/ work'[q] = NoEntry
  PROVE  UsersAt(q)'
<1>1. TypeOK /\ RevsInv
  BY DEF IInv
<1>2. CASE work'[q] = work[q]
  BY <1>1, <1>2, WorkStands DEF UsersAt
<1>3. CASE work'[q] = NoEntry
  BY <1>3, Empty DEF UsersAt, Stands, In
<1>. QED
  BY <1>2, <1>3

LEMMA KeepsLoops ==
  ASSUME IInv, Newer, UNCHANGED dropped,
         Pass' = Pass \/ (Pass = "sent" /\ Pass' = "slow"),
         gone' \subseteq gone, moves' \subseteq moves, todo' \subseteq todo,
         \A q \in Path : scan'[q] = NoFile => scan[q] = NoFile,
         pc' \in Sending => pc \in Sending /\ Target' = Target,
         \A q \in Path : \/ work'[q] = work[q] \/ work'[q] = NoEntry
                         \/ /\ q \notin gone' /\ Pass # "missing"
                            /\ Pass \in {"add", "edit"} => scan'[q] # NoFile
  PROVE  GoneInv' /\ ScanInv' /\ MissingInv'
<1>1. TypeOK /\ GoneInv /\ ScanInv /\ MissingInv
  BY DEF IInv
<1>2. gone \subseteq Path /\ todo \subseteq Path
  BY <1>1 DEF TypeOK, LocalsType
<1>3. GoneInv'
  <2>1. gone' # {} => Pass' = "local" /\ moves' = {}
    BY <1>1 DEF GoneInv
  <2>2. gone' \cap todo' = {}
    BY <1>1 DEF GoneInv
  <2>3. Pass' = "local" /\ pc' \in Sending => Target' \notin gone'
    BY <1>1 DEF GoneInv
  <2>4. Pass' = "local" => \A q \in gone' : UsersAt(q)'
    BY <1>1, <1>2, UsersStill DEF GoneInv
  <2>. QED
    BY <2>1, <2>2, <2>3, <2>4 DEF GoneInv
<1>4. ScanInv'
  <2> SUFFICES ASSUME Pass \in {"add", "edit"}, Pass' = Pass
               PROVE /\ \A q \in todo' : scan'[q] # NoFile
                     /\ pc' \in Sending => scan'[Target'] # NoFile
                     /\ \A q \in Path : scan'[q] = NoFile => UsersAt(q)'
    BY DEF ScanInv
  <2>1. \A q \in todo' : scan'[q] # NoFile
    BY <1>1, <1>2 DEF ScanInv
  <2>2. pc' \in Sending => scan'[Target'] # NoFile
    <3>1. pc \in Sending => Target \in Path
      BY DEF IInv, ControlInv, Target
    <3>. QED
      BY <1>1, <3>1 DEF ScanInv
  <2>3. \A q \in Path : scan'[q] = NoFile => UsersAt(q)'
    BY <1>1, UsersStill DEF ScanInv
  <2>. QED
    BY <2>1, <2>2, <2>3
<1>5. MissingInv'
  BY <1>1, <1>2, UsersStill DEF MissingInv
<1>. QED
  BY <1>3, <1>4, <1>5

\* What a step of a pass writes in the folder and in its copy of the baseline.
PassHow(qs) ==
  /\ \A q \in Path : Here(q) /\ disk'[q] = NoFile =>
        /\ Pass \in {"slow", "sent"}
        /\ Stands(base, q) => base[q].node \in dropped
        /\ q \in qs /\ work'[q] # work[q]
  /\ \A q \in Path \ qs : work'[q] = work[q]
  /\ \A q \in qs : EntryOK(q)
  /\ \A q \in qs : \/ work'[q] = NoEntry
                   \/ /\ In(work, q)' /\ q \notin gone' /\ Pass # "missing"
                      /\ Pass \in {"add", "edit"} => scan'[q] # NoFile

LEMMA PassStep ==
  ASSUME IInv, Newer, FolderType', HistoryType', CountType',
         UNCHANGED <<base, known, tracked, why, batch, dropped, snap, scan, advance>>,
         NEW qs \in SUBSET Path, PassHow(qs), work' \in Baseline,
         page' = page \/ (page # <<>> /\ page' = Tail(page) /\ pc' # "sent"),
         Pass \in Working, pc' \in Working, job' = NoJob,
         pc' = Pass \/ (pc' = "slow" /\ Pass = "sent"),
         gone' \subseteq gone, moves' \subseteq moves, todo' \subseteq todo,
         Pass = "edit" => \A q \in qs : In(work, q)',
         Pass = "missing" => qs \cap todo' = {}
  PROVE  IInv'
<1>1. TypeOK /\ ControlInv /\ GoneInv
  BY DEF IInv
<1>2. Pass' = pc' /\ pc' \notin Sending
  BY DEF Pass, Working, Sending
<1>3. page' \in Seq(Seens) /\ Listed(page') \subseteq Listed(page)
  <2>1. page \in Seq(Seens)
    BY <1>1 DEF TypeOK, LocalsType
  <2>2. CASE page' = Tail(page) /\ page # <<>>
    <3>1. Tail(page) \in Seq(Seens)
      BY <2>1, <2>2
    <3>2. \A i \in 1..Len(Tail(page)) : i + 1 \in 1..Len(page) /\ Tail(page)[i] = page[i + 1]
      BY <2>1, <2>2
    <3>. QED
      BY <2>1, <2>2, <3>1, <3>2 DEF Listed
  <2>. QED
    BY <2>1, <2>2
<1>4. TypeOK'
  <2>1. LocalsType'
    BY <1>1, <1>3, Empty DEF TypeOK, LocalsType
  <2>2. MountType' /\ ServerType'
    BY <1>1 DEF TypeOK, MountType, Newer
  <2>. QED
    BY <1>1, <2>1, <2>2 DEF TypeOK, Steps
<1>5. RevsInv' /\ PresentInv' /\ QuietInv' /\ WorkInv' /\ PageInv' /\ SnapInv'
  <2>1. \A p \in Path : Here(p) /\ disk'[p] = NoFile =>
            /\ Pass \in {"slow", "sent"}
            /\ Stands(base, p) => base[p].node \in dropped
            /\ work'[p] # work[p]
    BY DEF PassHow
  <2>2. \A p \in Path : work'[p] = work[p] \/ EntryOK(p)
    BY DEF PassHow
  <2>. QED
    BY <1>2, <1>3, <2>1, <2>2, WorkStep
<1>6. GoneInv' /\ ScanInv' /\ MissingInv'
  <2>1. \A q \in Path : \/ work'[q] = work[q] \/ work'[q] = NoEntry
                        \/ /\ q \notin gone' /\ Pass # "missing"
                           /\ Pass \in {"add", "edit"} => scan'[q] # NoFile
    BY DEF PassHow
  <2>. QED
    BY <1>2, <2>1, KeepsLoops
<1>7. ControlInv'
  <2>1. todo' \subseteq Path
    BY <1>1 DEF TypeOK, LocalsType
  <2>2. Pass' \in {"edit", "missing"} => \A q \in todo' : In(work, q)'
    BY <1>1, <1>2, <2>1 DEF ControlInv, PassHow, In
  <2>3. Pass' = "match" => \A q \in todo' : Seen(q)'
    BY <1>1, <1>2, <2>1 DEF ControlInv, Seen
  <2>4. Pass' = "sent" => page' # <<>> /\ Now'.live
    BY <1>1, <1>2 DEF ControlInv, Now
  <2>. QED
    BY <1>2, <2>2, <2>3, <2>4 DEF ControlInv, Working, Sending
<1>. QED
  BY <1>4, <1>5, <1>6, <1>7 DEF IInv, Newer

-----------------------------------------------------------------------------
(* Entries a step writes                                                   *)

LEMMA BaseKept ==
  ASSUME IInv, Newer, UNCHANGED base, Pass \in Working, NEW p \in Path,
         Stands(base, p)', base[p].node \notin dropped
  PROVE  /\ Stands(base, p) /\ AsBase(work[p], p) /\ In(work, p)
         /\ work[p].node \in Node /\ Current(work[p].node, work[p].rev)
         /\ node'[work[p].node] = node[work[p].node]
<1>1. TypeOK /\ RevsInv /\ WorkInv
  BY DEF IInv
<1>2. /\ Stands(base, p) /\ base[p].node \in Node
      /\ node'[base[p].node] = node[base[p].node]
  BY <1>1, BaseStands
<1>3. AsBase(work[p], p)
  BY <1>1, <1>2 DEF WorkInv
<1>. QED
  BY <1>2, <1>3, Bounds DEF AsBase, In, Stands, Current

\* The entry goes, of a node that is not as the entry has it any more.
LEMMA EntryGone ==
  ASSUME IInv, Newer, UNCHANGED <<base, dropped>>, Pass \in Working, NEW p \in Path,
         work'[p] = NoEntry,
         \/ ~Current(work[p].node, work[p].rev)
         \/ node'[work[p].node] # node[work[p].node]
  PROVE  EntryOK(p)
<1>1. Good(work[p], p)'
  BY Empty DEF Good
<1>2. ~(Stands(base, p)' /\ base[p].node \notin dropped)
  BY BaseKept
<1>. QED
  BY <1>1, <1>2 DEF EntryOK

\* The entry is of the file in the folder, and what it replaces did not stand.
LEMMA EntryNew ==
  ASSUME IInv, Newer, UNCHANGED <<base, dropped>>, Pass \in Working, NEW p \in Path,
         disk'[p] # NoFile, Had(work[p])',
         \/ ~Current(work[p].node, work[p].rev)
         \/ ~In(work, p)
         \/ node'[work[p].node] # node[work[p].node]
         \/ Stands(base, p) => AsBase(work'[p], p)
         \/ Current(work[p].node, work[p].rev) =>
              work'[p].node = work[p].node /\ work'[p].rev = work[p].rev
  PROVE  EntryOK(p)
<1>1. Good(work[p], p)'
  BY DEF Good, Here
<1>2. Stands(base, p)' /\ base[p].node \notin dropped => AsBase(work[p], p)'
  BY BaseKept DEF AsBase
<1>. QED
  BY <1>1, <1>2 DEF EntryOK

-----------------------------------------------------------------------------
(* The flush                                                               *)

\* An answer that is lost, whatever was carried out.
LEMMA LostStep ==
  ASSUME IInv, Newer, Lost, Fail({}), UNCHANGED <<disk, dropped, counts>>, HistoryType'
  PROVE  IInv'
<1>1. TypeOK /\ disk \in [Path -> File]
  BY DEF IInv, TypeOK, FolderType
<1>2. CountType'
  BY <1>1 DEF TypeOK, CountType, counts, Lost
<1>3. \A p \in Path : Here(p) => disk'[p] # NoFile
  BY DEF Here
<1>. QED
  BY <1>1, <1>2, <1>3, FailStep

LEMMA StepSendDelete == IInv /\ SendDelete => IInv'
<1> SUFFICES ASSUME IInv, SendDelete PROVE IInv'
  OBVIOUS
<1>1. TypeOK /\ NodesInv /\ ControlInv /\ GoneInv
  BY DEF IInv
<1>2. pc = "local" /\ moves = {} /\ todo = {} /\ gone # {} /\ UNCHANGED <<history, counts>>
  BY DEF SendDelete, Flushing
<1>3. gone \subseteq Path /\ work \in Baseline
  BY <1>1 DEF TypeOK, LocalsType
<1>4. PICK p \in Path : p = First(gone) /\ p \in gone
  BY <1>2, <1>3, FirstIsIn, Bounds
<1>5. Pass = "local" /\ job = NoJob
  BY <1>1, <1>2, PassIs DEF Sending, ControlInv
<1> DEFINE More == /\ gone' = gone \ {p}
                   /\ UNCHANGED <<folder, mount, pc, why, batch, moves, todo,
                                  scan, snap, page, advance, job>>
<1>6. \/ /\ In(work, p) /\ Current(work[p].node, work[p].rev)
         /\ Trash(work[p].node)
         /\ Answered(More /\ work' = [work EXCEPT ![p] = NoEntry])
      \/ More /\ UNCHANGED <<server, work, faults>>
  BY <1>4 DEF SendDelete
<1>7. CASE More /\ UNCHANGED <<server, work, faults>>
  <2>1. /\ gone' \subseteq gone /\ gone' \cap todo' = {} /\ gone' \in SUBSET Path
        /\ todo' \in SUBSET Path /\ \A q \in gone' : UsersAt(q)
    BY <1>1, <1>2, <1>3, <1>5, <1>7 DEF GoneInv
  <2>. QED
    BY <1>2, <1>7, <2>1, LoopStep DEF Working
<1>8. CASE /\ In(work, p) /\ Current(work[p].node, work[p].rev)
           /\ Trash(work[p].node)
           /\ Answered(More /\ work' = [work EXCEPT ![p] = NoEntry])
  <2>1. work[p].node \in Node /\ node[work[p].node].live
    BY <1>1, <1>8, Typed DEF Current
  <2>2. Newer /\ ~node'[work[p].node].live
    BY <1>1, <1>8, <2>1, TrashNewer
  <2>3. CASE Lost /\ Fail({}) /\ UNCHANGED disk
    BY <1>1, <1>2, <2>2, <2>3, SameCounts, LostStep
  <2>4. CASE More /\ work' = [work EXCEPT ![p] = NoEntry] /\ UNCHANGED faults
    <3>1. /\ work' \in Baseline /\ work'[p] = NoEntry
          /\ \A q \in Path : q # p => work'[q] = work[q]
      BY <1>3, <2>4, Empty DEF Baseline
    <3>2. HistoryType' /\ CountType' /\ UNCHANGED dropped /\ FolderType'
      BY <1>1, <1>2, <2>4, SameCounts, SameFolder
    <3>3. EntryOK(p)
      BY <1>5, <2>1, <2>2, <2>4, <3>1, <3>2, EntryGone DEF Working, mount
    <3>4. \A q \in Path : Here(q) => disk'[q] # NoFile
      BY <1>1, <2>4, SameFolder
    <3>5. PassHow({p})
      BY <3>1, <3>3, <3>4 DEF PassHow
    <3>6. UNCHANGED <<base, known, tracked, why, batch, dropped, snap, scan, advance, page>>
      BY <2>4, <3>2 DEF mount
    <3>. QED
      BY <1>2, <1>5, <2>2, <2>4, <3>1, <3>2, <3>5, <3>6, PassStep DEF Working
  <2>. QED
    BY <1>8, <2>3, <2>4 DEF Answered
<1>. QED
  BY <1>6, <1>7, <1>8

LEMMA StepSendRename == IInv /\ SendRename => IInv'
<1> SUFFICES ASSUME IInv, SendRename PROVE IInv'
  OBVIOUS
<1>1. TypeOK /\ NodesInv /\ ControlInv /\ GoneInv
  BY DEF IInv
<1>2. pc = "local" /\ UNCHANGED <<history, counts>>
  BY DEF SendRename, Flushing
<1>3. gone \subseteq Path /\ todo \subseteq Path /\ work \in Baseline
      /\ moves \subseteq Path \X Path
  BY <1>1 DEF TypeOK, LocalsType
<1>5. Pass = "local" /\ job = NoJob
  BY <1>1, <1>2, PassIs DEF Sending, ControlInv
<1>6. PICK m \in moves :
       LET from == m[1]  to == m[2]  e == work[from]
           Rest == /\ moves' = moves \ {m}
                   /\ UNCHANGED <<folder, mount, pc, why, batch, gone, scan,
                                  snap, page, advance, job>>
       IN
          IF In(work, from) /\ Here(to) /\ CanMove(e.node, e.rev, to)
          THEN /\ MoveTo(e.node, to)
               /\ Answered(
                    /\ Rest
                    /\ work' = [work EXCEPT ![from] = NoEntry,
                                            ![to] = [e EXCEPT !.rev = @ + 1]]
                    /\ UNCHANGED todo)
          ELSE /\ Rest
               /\ todo' = todo \cup {from, to}
               /\ UNCHANGED <<server, work, faults>>
  BY DEF SendRename
<1>7. PICK from \in Path, to \in Path : from = m[1] /\ to = m[2]
  BY <1>3
<1>8. gone = {}
  BY <1>1, <1>6 DEF GoneInv
<1> DEFINE More == /\ moves' = moves \ {m}
                   /\ UNCHANGED <<folder, mount, pc, why, batch, gone, scan,
                                  snap, page, advance, job>>
<1>9. CASE More /\ todo' = todo \cup {from, to} /\ UNCHANGED <<server, work, faults>>
  BY <1>2, <1>3, <1>8, <1>9, LoopStep DEF Working
<1>10. CASE /\ In(work, from) /\ Here(to) /\ CanMove(work[from].node, work[from].rev, to)
            /\ MoveTo(work[from].node, to)
            /\ Answered(
                    /\ More
                    /\ work' = [work EXCEPT ![from] = NoEntry,
                                            ![to] = [work[from] EXCEPT !.rev = @ + 1]]
                    /\ UNCHANGED todo)
  <2>1. PICK n \in Node, r \in Nat, s \in Stamp :
          n = work[from].node /\ r = work[from].rev /\ s = work[from].stamp
    BY <1>1, <1>10, Typed
  <2>2. node[n].live /\ node[n].rev = r /\ LiveAt(to) \subseteq {n}
    BY <1>10, <2>1 DEF CanMove, Current
  <2>3. Newer /\ node'[n].live /\ node'[n].rev = r + 1 /\ node'[n].path = to
    BY <1>1, <1>10, <2>1, <2>2, MoveNewer
  <2>4. CASE Lost /\ Fail({}) /\ UNCHANGED disk
    BY <1>1, <1>2, <2>3, <2>4, SameCounts, LostStep
  <2>5. CASE /\ More /\ UNCHANGED todo /\ UNCHANGED faults
             /\ work' = [work EXCEPT ![from] = NoEntry,
                                     ![to] = [work[from] EXCEPT !.rev = @ + 1]]
    <3>1. PICK e : e = [node |-> n, rev |-> r + 1, stamp |-> s]
      OBVIOUS
    <3>2. [work[from] EXCEPT !.rev = @ + 1] = e
      BY <1>3, <2>1, <3>1 DEF Baseline
    <3>3. PICK v : v = [work EXCEPT ![from] = NoEntry]
      OBVIOUS
    <3>4. work' = [v EXCEPT ![to] = e]
      BY <2>5, <3>2, <3>3
    <3>5. /\ work' \in Baseline /\ work'[to] = e
          /\ from # to => work'[from] = NoEntry
          /\ \A q \in Path : q # to /\ q # from => work'[q] = work[q]
      <4>1. v \in Baseline /\ v[from] = NoEntry /\ \A q \in Path : q # from => v[q] = work[q]
        BY <1>3, <3>3, Empty DEF Baseline
      <4>2. r + 1 \in Nat /\ n \in Node \cup {0}
        OBVIOUS
      <4>3. work' \in Baseline /\ work'[to] = e /\ \A q \in Path : q # to => work'[q] = v[q]
        BY <3>1, <3>4, <4>1, <4>2 DEF Baseline
      <4>. QED
        BY <4>1, <4>3
    <3>6. HistoryType' /\ CountType' /\ UNCHANGED dropped /\ FolderType'
      BY <1>1, <1>2, <2>5, SameCounts, SameFolder
    <3>7. UNCHANGED <<base, known, tracked, why, batch, dropped, snap, scan, advance, page>>
      BY <2>5, <3>6 DEF mount
    <3>8. from # to => EntryOK(from)
      <4>1. node'[work[from].node] # node[work[from].node]
        BY <2>1, <2>2, <2>3
      <4>. QED
        BY <1>5, <2>3, <3>5, <3>7, <4>1, EntryGone DEF Working
    <3>9. EntryOK(to)
      <4>1. Had(work[to])'
        BY <2>1, <2>3, <3>1, <3>5 DEF Had
      <4>2. Good(work[to], to)'
        <5>1. disk'[to] # NoFile
          BY <1>1, <1>10, <2>5, SameFolder
        <5>. QED
          BY <4>1, <5>1 DEF Good, Here
      <4>3. Stands(base, to)' => AsBase(work[to], to)'
        <5> SUFFICES ASSUME Stands(base, to)' PROVE AsBase(work[to], to)'
          OBVIOUS
        <5>1. /\ base[to].node \in Node /\ node'[base[to].node].live
              /\ node'[base[to].node].path = to /\ node'[base[to].node].rev = base[to].rev
          BY <1>1, <3>7, Typed DEF Stands, Current, In
        <5>2. base[to].node = n
          BY <2>3, <5>1 DEF Newer, NodesInv
        <5>. QED
          BY <2>3, <3>1, <3>5, <3>7, <5>1, <5>2 DEF AsBase
      <4>. QED
        BY <4>2, <4>3 DEF EntryOK
    <3>10. PassHow({from, to})
      <4>1. \A q \in Path : Here(q) => disk'[q] # NoFile
        BY <1>1, <2>5, SameFolder
      <4>2. In(work, to)' /\ to \notin gone'
        BY <1>8, <2>5, <3>1, <3>5, Bounds DEF In
      <4>. QED
        BY <1>5, <3>5, <3>8, <3>9, <4>1, <4>2 DEF PassHow
    <3>. QED
      BY <1>2, <1>5, <2>3, <2>5, <3>5, <3>6, <3>7, <3>10, PassStep DEF Working
  <2>. QED
    BY <1>10, <2>4, <2>5 DEF Answered
<1>. QED
  BY <1>6, <1>7, <1>9, <1>10

\* A placeholder taken for moved, in a flush or in an audit.
LEMMA StepSendMoved == IInv /\ SendMoved => IInv'
<1> SUFFICES ASSUME IInv, SendMoved PROVE IInv'
  OBVIOUS
<1>1. TypeOK /\ NodesInv /\ ControlInv /\ GoneInv /\ ScanInv
  BY DEF IInv
<1>2. pc \in {"local", "add"} /\ todo # {} /\ UNCHANGED <<dropped, counts>>
  BY DEF SendMoved
<1>3. gone \subseteq Path /\ todo \subseteq Path /\ work \in Baseline
  BY <1>1 DEF TypeOK, LocalsType
<1>4. Pass = pc /\ job = NoJob
  BY <1>1, <1>2, PassIs DEF Sending, ControlInv
<1>5. PICK p \in Path : p = First(todo) /\ p \in todo
  BY <1>1, <1>2, TodoIsIn
<1>6. HistoryType'
  <2>1. watched' \subseteq watched /\ due' \subseteq due
    BY DEF SendMoved
  <2>. QED
    BY <1>1, <1>2, <2>1 DEF TypeOK, HistoryType
<1>7. PICK from : from = First(MovedFrom(p))
  OBVIOUS
<1> DEFINE More == /\ todo' = todo \ {p}
                   /\ UNCHANGED <<folder, mount, pc, why, batch, moves, gone,
                                 scan, snap, page, advance, job>>
<1>8. /\ ~In(work, p) /\ MovedFrom(p) # {}
      /\ IF CanMove(work[from].node, work[from].rev, p)
         THEN /\ MoveTo(work[from].node, p)
              /\ Answered(
                   /\ work' = [work EXCEPT ![from] = NoEntry,
                                 ![p] = [node |-> work[from].node,
                                         rev |-> work[from].rev + 1,
                                         stamp |-> disk[p].stamp]]
                   /\ More)
         ELSE Fail({}) /\ UNCHANGED <<server, disk, faults>>
  BY <1>5, <1>7 DEF SendMoved
<1>9. Here(p) /\ from \in Path /\ from # p /\ In(work, from)
  <2>1. Here(p) /\ MovedFrom(p) \subseteq Path
    BY <1>8 DEF MovedFrom, PathsOf
  <2>2. from \in MovedFrom(p)
    BY <1>7, <1>8, <2>1, FirstIsIn, Bounds
  <2>. QED
    BY <2>1, <2>2 DEF MovedFrom, PathsOf
<1>10. CASE Fail({}) /\ UNCHANGED <<server, disk, faults>>
  <2>1. CountType'
    BY <1>1, <1>2, <1>10 DEF TypeOK, CountType, counts
  <2>. QED
    BY <1>2, <1>6, <1>10, <2>1, FailNow
<1>11. CASE /\ CanMove(work[from].node, work[from].rev, p)
            /\ MoveTo(work[from].node, p)
            /\ Answered(
                   /\ work' = [work EXCEPT ![from] = NoEntry,
                                 ![p] = [node |-> work[from].node,
                                         rev |-> work[from].rev + 1,
                                         stamp |-> disk[p].stamp]]
                   /\ More)
  <2>1. PICK n \in Node, r \in Nat : n = work[from].node /\ r = work[from].rev
    BY <1>1, <1>9, Typed
  <2>2. node[n].live /\ node[n].rev = r /\ LiveAt(p) \subseteq {n}
    BY <1>11, <2>1 DEF CanMove, Current
  <2>3. Newer /\ node'[n].live /\ node'[n].rev = r + 1 /\ node'[n].path = p
    BY <1>1, <1>11, <2>1, <2>2, MoveNewer
  <2>4. CASE Lost /\ Fail({}) /\ UNCHANGED disk
    BY <1>1, <1>2, <1>6, <2>3, <2>4, LostStep
  <2>5. CASE /\ work' = [work EXCEPT ![from] = NoEntry,
                                 ![p] = [node |-> work[from].node,
                                         rev |-> work[from].rev + 1,
                                         stamp |-> disk[p].stamp]]
             /\ More /\ UNCHANGED faults
    <3>1. PICK e : e = [node |-> n, rev |-> r + 1, stamp |-> disk[p].stamp]
      OBVIOUS
    <3>2. work' = [work EXCEPT ![from] = NoEntry, ![p] = e]
      BY <2>1, <2>5, <3>1
    <3>3. PICK v : v = [work EXCEPT ![from] = NoEntry]
      OBVIOUS
    <3>4. work' = [v EXCEPT ![p] = e]
      BY <3>2, <3>3
    <3>5. /\ work' \in Baseline /\ work'[p] = e /\ work'[from] = NoEntry
          /\ \A q \in Path : q # p /\ q # from => work'[q] = work[q]
      <4>1. v \in Baseline /\ v[from] = NoEntry /\ \A q \in Path : q # from => v[q] = work[q]
        BY <1>3, <1>9, <3>3, Empty DEF Baseline
      <4>2. r + 1 \in Nat /\ n \in Node \cup {0} /\ disk[p].stamp \in Stamp
        BY <1>1, Typed
      <4>3. work' \in Baseline /\ work'[p] = e /\ \A q \in Path : q # p => work'[q] = v[q]
        BY <3>1, <3>4, <4>1, <4>2 DEF Baseline
      <4>. QED
        BY <1>9, <4>1, <4>3
    <3>6. CountType' /\ UNCHANGED dropped /\ FolderType'
      BY <1>1, <1>2, <2>5, SameFolder DEF TypeOK, CountType, counts
    <3>7. UNCHANGED <<base, known, tracked, why, batch, dropped, snap, scan, advance, page>>
      BY <2>5, <3>6 DEF mount
    <3>8. EntryOK(from)
      <4>1. node'[work[from].node] # node[work[from].node]
        BY <2>1, <2>2, <2>3
      <4>. QED
        BY <1>2, <1>4, <1>9, <2>3, <3>5, <3>7, <4>1, EntryGone DEF Working
    <3>9. EntryOK(p)
      <4>1. Had(work[p])'
        BY <2>1, <2>3, <3>1, <3>5 DEF Had
      <4>2. disk'[p] # NoFile
        BY <1>1, <1>9, <2>5, SameFolder
      <4>. QED
        BY <1>2, <1>4, <1>8, <2>3, <3>7, <4>1, <4>2, EntryNew DEF Working
    <3>10. PassHow({from, p})
      <4>1. \A q \in Path : Here(q) => disk'[q] # NoFile
        BY <1>1, <2>5, SameFolder
      <4>2. In(work, p)' /\ p \notin gone'
        BY <1>1, <1>5, <2>5, <3>1, <3>5, Bounds DEF In, GoneInv
      <4>3. Pass \in {"add", "edit"} => scan[p] # NoFile
        BY <1>1, <1>5 DEF ScanInv
      <4>. QED
        BY <1>2, <1>4, <3>5, <3>7, <3>8, <3>9, <4>1, <4>2, <4>3 DEF PassHow
    <3>. QED
      BY <1>2, <1>4, <1>6, <1>9, <2>3, <2>5, <3>5, <3>6, <3>7, <3>10, PassStep DEF Working
  <2>. QED
    BY <1>11, <2>4, <2>5 DEF Answered
<1>. QED
  BY <1>8, <1>10, <1>11

-----------------------------------------------------------------------------
(* One file is sent                                                        *)

LEMMA SendingFacts ==
  ASSUME IInv, pc \in Sending
  PROVE  /\ Target \in Path /\ job.stamp \in Stamp /\ job.bytes \in 0..MaxWrites
         /\ Pass = job.ret /\ Pass \in Working
         /\ pc = "upload" => Pass \in {"local", "add"} /\ ~In(work, Target)
         /\ pc # "upload" => Pass \in {"local", "edit", "match", "sent"} /\ In(work, Target)
         /\ Target \notin gone
         /\ Pass \in {"add", "edit"} => scan[Target] # NoFile
<1>1. TypeOK /\ ControlInv /\ GoneInv /\ ScanInv
  BY DEF IInv
<1>2. Target \in Path /\ Pass = job.ret
  BY <1>1, PassIs DEF ControlInv, Target
<1>3. job.stamp \in Stamp /\ job.bytes \in 0..MaxWrites
  BY <1>1 DEF TypeOK, LocalsType
<1>4. /\ pc = "upload" => Pass \in {"local", "add"} /\ ~In(work, Target)
      /\ pc # "upload" => Pass \in {"local", "edit", "match", "sent"} /\ In(work, Target)
  BY <1>1, <1>2 DEF ControlInv
<1>5. Target \notin gone /\ (Pass \in {"add", "edit"} => scan[Target] # NoFile)
  BY <1>1 DEF GoneInv, ScanInv
<1>6. Pass \in Working
  BY <1>4 DEF Working
<1>. QED
  BY <1>2, <1>3, <1>4, <1>5, <1>6

\* The file has been sent, and its entry written.
LEMMA BackStep ==
  ASSUME IInv, Newer, pc \in Sending, FolderType', UNCHANGED <<history, counts, faults>>,
         NEW w, Back(w), UNCHANGED scan,
         NEW n \in Node, NEW r \in 1..node'[n].rev, NEW s \in Stamp, NEW e,
         e = [node |-> n, rev |-> r, stamp |-> s],
         w = [work EXCEPT ![Target] = e],
         disk'[Target] # NoFile, \A p \in Path : Here(p) => disk'[p] # NoFile,
         \/ ~Current(work[Target].node, work[Target].rev)
         \/ ~In(work, Target)
         \/ node'[work[Target].node] # node[work[Target].node]
         \/ Current(work[Target].node, work[Target].rev) =>
              n = work[Target].node /\ r = work[Target].rev
  PROVE  IInv'
<1>1. TypeOK /\ ControlInv
  BY DEF IInv
<1>2. PICK t \in Path : t = Target
  BY SendingFacts
<1>3. /\ Pass = job.ret /\ Pass \in {"local", "add", "edit", "match", "sent"}
      /\ t \notin gone /\ (Pass \in {"add", "edit"} => scan[t] # NoFile)
  BY <1>2, SendingFacts
<1>4. /\ work' = w /\ pc' = job.ret /\ job' = NoJob
      /\ UNCHANGED <<mount, why, batch, moves, todo, gone, snap, page, advance>>
  BY DEF Back
<1>5. work' \in Baseline /\ work'[t] = e /\ \A q \in Path : q # t => work'[q] = work[q]
  <2>1. work \in Baseline
    BY <1>1 DEF TypeOK, LocalsType
  <2>2. r \in Nat /\ node'[n].rev \in Nat
    BY DEF Newer, ServerType
  <2>3. work' = [work EXCEPT ![t] = e]
    BY <1>2, <1>4
  <2>. QED
    BY <2>1, <2>2, <2>3 DEF Baseline
<1>6. HistoryType' /\ CountType' /\ UNCHANGED dropped
  BY <1>1, SameCounts
<1>7. UNCHANGED <<base, known, tracked, why, batch, dropped, snap, scan, advance, page>>
  BY <1>4, <1>6 DEF mount
<1>8. Had(work[t])'
  BY <1>5 DEF Had
<1>9. EntryOK(t)
  <2>1. \/ ~Current(work[t].node, work[t].rev)
        \/ ~In(work, t)
        \/ node'[work[t].node] # node[work[t].node]
        \/ Current(work[t].node, work[t].rev) =>
              work'[t].node = work[t].node /\ work'[t].rev = work[t].rev
    BY <1>2, <1>5
  <2>2. disk'[t] # NoFile /\ Pass \in Working
    BY <1>2, <1>3 DEF Working
  <2>. QED
    BY <1>7, <1>8, <2>1, <2>2, EntryNew
<1>10. PassHow({t})
  <2>1. In(work, t)' /\ t \notin gone' /\ (Pass \in {"add", "edit"} => scan'[t] # NoFile)
        /\ Pass # "missing"
    BY <1>3, <1>4, <1>5, <1>7, Bounds DEF In
  <2>. QED
    BY <1>5, <1>9, <2>1 DEF PassHow
<1>11. In(work, t)' /\ Pass \in Working /\ pc' = Pass /\ page' = page
  BY <1>3, <1>4, <1>5, <1>7, Bounds DEF In, Working
<1>. QED
  BY <1>3, <1>4, <1>5, <1>6, <1>7, <1>10, <1>11, PassStep

LEMMA UploadedStep ==
  ASSUME IInv, Newer, pc = "upload", UNCHANGED <<history, counts>>,
         NEW n \in Node, NEW r \in 1..node'[n].rev, NEW c, c.node = n, c.rev = r,
         Uploaded(c)
  PROVE  IInv'
<1>1. TypeOK /\ pc \in Sending
  BY DEF IInv, Sending
<1>2. CASE Fail({}) /\ UNCHANGED <<disk, faults>>
  <2>1. \A p \in Path : Here(p) => disk'[p] # NoFile
    BY <1>2 DEF Here
  <2>2. disk' \in [Path -> File]
    BY <1>1, <1>2 DEF TypeOK, FolderType
  <2>. QED
    BY <1>1, <1>2, <2>1, <2>2, SameCounts, FailStep
<1>3. CASE Lost /\ Fail({}) /\ UNCHANGED disk
  BY <1>1, <1>3, SameCounts, LostStep
<1>4. CASE /\ disk' = [disk EXCEPT ![Target].id = c.node]
           /\ Back([work EXCEPT ![Target] = Entry(c, job.stamp)])
           /\ UNCHANGED <<events, scan>> /\ UNCHANGED faults
  <2>1. PICK t \in Path, s \in Stamp : t = Target /\ s = job.stamp
    BY <1>1, SendingFacts
  <2>2. PICK e : e = [node |-> n, rev |-> r, stamp |-> s]
    OBVIOUS
  <2>3. PICK w : w = [work EXCEPT ![Target] = e]
    OBVIOUS
  <2>4. Back(w)
    BY <1>4, <2>1, <2>2, <2>3 DEF Entry
  <2>5. /\ disk' \in [Path -> File] /\ disk'[t].id = n
        /\ \A q \in Path : q # t => disk'[q] = disk[q]
    <3>1. disk' = [disk EXCEPT ![t].id = n]
      BY <1>4, <2>1
    <3>2. disk \in [Path -> File]
      BY <1>1 DEF TypeOK, FolderType
    <3>. QED
      BY ONLY <3>1, <3>2, t \in Path, n \in Node DEF File
  <2>6. disk'[t] # NoFile /\ \A q \in Path : Here(q) => disk'[q] # NoFile
    BY <2>5, Empty, Bounds DEF Here
  <2>7. FolderType'
    BY <1>1, <1>4, <2>5 DEF TypeOK, FolderType
  <2>8. ~In(work, Target)
    BY <1>1, SendingFacts
  <2>. QED
    BY <1>1, <1>4, <2>1, <2>2, <2>3, <2>4, <2>6, <2>7, <2>8, BackStep
<1>. QED
  BY <1>2, <1>3, <1>4 DEF Uploaded, Answered

LEMMA LiveHad ==
  ASSUME TypeOK, NodesInv, NEW n \in Node, node[n].live
  PROVE  node[n].rev \in 1..node[n].rev
<1>1. node[n].rev \in Nat /\ node[n].rev # 0
  BY Typed DEF NodesInv
<1>. QED
  BY <1>1

LEMMA StepUpload == IInv /\ Upload => IInv'
<1> SUFFICES ASSUME IInv, Upload PROVE IInv'
  OBVIOUS
<1>1. TypeOK /\ NodesInv
  BY DEF IInv
<1>2. pc = "upload" /\ UNCHANGED <<history, counts>> /\ pc \in Sending
  BY DEF Upload, Sending
<1>3. PICK key : key = NewKey(Target, job.bytes)
  OBVIOUS
<1>4. \/ (\E r \in receipts : node[r.node].live /\ Uploaded(Change(r.node))) /\ UNCHANGED server
      \/ \E n \in Node :
                /\ Create(n, Target, job.bytes)
                /\ receipts' = receipts \cup {[key |-> key, node |-> n]}
                /\ Uploaded([node |-> n, path |-> Target, rev |-> 1,
                             bytes |-> job.bytes, live |-> TRUE])
      \/ Fail({}) /\ UNCHANGED <<server, disk, faults>>
  BY <1>3 DEF Upload, Receipts
<1>5. CASE (\E r \in receipts : node[r.node].live /\ Uploaded(Change(r.node)))
             /\ UNCHANGED server
  <2>1. PICK n \in Node : node[n].live /\ Uploaded(Change(n))
    BY <1>1, <1>5 DEF TypeOK, ServerType
  <2>2. PICK c : c = Change(n)
    OBVIOUS
  <2>3. Newer /\ node' = node
    BY <1>1, <1>5, SameServer DEF server
  <2>4. PICK r : r = node[n].rev
    OBVIOUS
  <2>5. c.node = n /\ c.rev = r /\ r \in 1..node'[n].rev
    BY <1>1, <2>1, <2>2, <2>3, <2>4, LiveHad DEF Change
  <2>. QED
    BY <1>2, <2>1, <2>2, <2>3, <2>5, UploadedStep
<1>6. ASSUME NEW n \in Node,
             Create(n, Target, job.bytes),
             receipts' = receipts \cup {[key |-> key, node |-> n]},
             Uploaded([node |-> n, path |-> Target, rev |-> 1,
                             bytes |-> job.bytes, live |-> TRUE])
      PROVE  IInv'
  <2>1. PICK t \in Path, b \in 0..MaxWrites : t = Target /\ b = job.bytes
    BY <1>2, SendingFacts
  <2>2. PICK c : c = [node |-> n, path |-> t, rev |-> 1, bytes |-> b, live |-> TRUE]
    OBVIOUS
  <2>3. \A x \in receipts' : x.node \in Node
    BY <1>1, <1>6 DEF TypeOK, ServerType
  <2>4. Newer /\ node'[n].rev = 1
    <3>1. Create(n, t, b)
      BY <1>6, <2>1
    <3>2. Newer /\ node'[n] = [path |-> t, rev |-> 1, bytes |-> b, live |-> TRUE]
      BY <1>1, <2>3, <3>1, CreateNewer
    <3>. QED
      BY <3>2
  <2>5. c.node = n /\ c.rev = 1 /\ 1 \in 1..node'[n].rev
    BY <2>2, <2>4
  <2>6. Uploaded(c)
    BY <1>6, <2>1, <2>2
  <2>. QED
    BY <1>2, <2>4, <2>5, <2>6, UploadedStep
<1>7. CASE Fail({}) /\ UNCHANGED <<server, disk, faults>>
  BY <1>1, <1>2, <1>7, SameCounts, FailNow
<1>. QED
  BY <1>4, <1>5, <1>6, <1>7

LEMMA OverwrittenStep ==
  ASSUME IInv, Newer, pc = "overwrite", UNCHANGED <<history, counts>>,
         NEW n \in Node, NEW r \in 1..node'[n].rev, NEW c, c.node = n, c.rev = r,
         Overwritten(c),
         \/ node'[work[Target].node] # node[work[Target].node]
         \/ Current(work[Target].node, work[Target].rev) =>
              n = work[Target].node /\ r = work[Target].rev
  PROVE  IInv'
<1>1. TypeOK /\ pc \in Sending
  BY DEF IInv, Sending
<1>2. CASE Fail({}) /\ UNCHANGED <<disk, faults>>
  <2>1. \A p \in Path : Here(p) => disk'[p] # NoFile
    BY <1>2 DEF Here
  <2>2. disk' \in [Path -> File]
    BY <1>1, <1>2 DEF TypeOK, FolderType
  <2>. QED
    BY <1>1, <1>2, <2>1, <2>2, SameCounts, FailStep
<1>3. CASE Lost /\ Fail({}) /\ UNCHANGED disk
  BY <1>1, <1>3, SameCounts, LostStep
<1>4. CASE /\ Here(Target)
           /\ Back([work EXCEPT ![Target] = Entry(c, job.stamp)])
           /\ UNCHANGED <<folder, scan>> /\ UNCHANGED faults
  <2>1. PICK t \in Path, s \in Stamp : t = Target /\ s = job.stamp
    BY <1>1, SendingFacts
  <2>2. PICK e : e = [node |-> n, rev |-> r, stamp |-> s]
    OBVIOUS
  <2>3. PICK w : w = [work EXCEPT ![Target] = e]
    OBVIOUS
  <2>4. Back(w)
    BY <1>4, <2>1, <2>2, <2>3 DEF Entry
  <2>5. FolderType' /\ \A q \in Path : Here(q) => disk'[q] # NoFile
    BY <1>1, <1>4, SameFolder
  <2>6. disk'[Target] # NoFile
    BY <1>4, <2>1, <2>5
  <2>. QED
    BY <1>1, <1>4, <2>1, <2>2, <2>3, <2>4, <2>5, <2>6, BackStep
<1>. QED
  BY <1>2, <1>3, <1>4 DEF Overwritten, Answered

\* From one request for the file to the next.
LEMMA SendingStep ==
  ASSUME IInv, Newer, FolderType', HistoryType', CountType',
         UNCHANGED <<base, known, tracked, why, batch, moves, todo, gone, snap,
                     page, advance, dropped>>,
         scan' \in [Path -> File], \A q \in Path : scan'[q] = NoFile => scan[q] = NoFile,
         NEW qs \in SUBSET Path, PassHow(qs), Target \notin qs, work' \in Baseline,
         \A q \in qs : In(work, q)',
         pc \in Sending \ {"upload"}, pc' \in {"copy", "sendCopy", "refresh"},
         job' \in [path : Path \cup {0}, stamp : Stamp, bytes : 0..MaxWrites,
                   copy : Path \cup {0},
                   ret : {"none", "local", "add", "edit", "match", "sent"}],
         job'.path = job.path, job'.ret = job.ret,
         ~Current(work[Target].node, work[Target].rev),
         pc' = "sendCopy" => job'.copy \in Path \ gone /\ work'[job'.copy].node = 0
  PROVE  IInv'
<1>1. TypeOK /\ ControlInv /\ RevsInv
  BY DEF IInv
<1>2. /\ Target \in Path /\ In(work, Target) /\ Pass = job.ret
      /\ Pass \in {"local", "edit", "match", "sent"}
  BY SendingFacts
<1>3. Target' = Target /\ Pass' = Pass
  BY <1>2, Empty, Bounds DEF Target, Pass
<1>4. TypeOK'
  <2>1. LocalsType'
    BY <1>1 DEF TypeOK, LocalsType
  <2>2. MountType' /\ ServerType'
    BY <1>1 DEF TypeOK, MountType, Newer
  <2>. QED
    BY <1>1, <2>1, <2>2 DEF TypeOK, Steps, Sending
<1>5. RevsInv' /\ PresentInv' /\ QuietInv' /\ WorkInv' /\ PageInv' /\ SnapInv'
  <2>1. \A p \in Path : Here(p) /\ disk'[p] = NoFile =>
            /\ Pass \in {"slow", "sent"}
            /\ Stands(base, p) => base[p].node \in dropped
            /\ work'[p] # work[p]
    BY DEF PassHow
  <2>2. \A p \in Path : work'[p] = work[p] \/ EntryOK(p)
    BY DEF PassHow
  <2>3. Pass \in Working
    BY <1>2 DEF Working
  <2>. QED
    BY <1>3, <2>1, <2>2, <2>3, WorkStep
<1>6. GoneInv' /\ ScanInv' /\ MissingInv'
  <2>1. \A q \in Path : \/ work'[q] = work[q] \/ work'[q] = NoEntry
                        \/ /\ q \notin gone' /\ Pass # "missing"
                           /\ Pass \in {"add", "edit"} => scan'[q] # NoFile
    BY DEF PassHow
  <2>. QED
    BY <1>3, <2>1, KeepsLoops
<1>7. ControlInv'
  <2>1. PICK t \in Path : t = Target
    BY <1>2
  <2>2. work'[t] = work[t]
    BY <2>1 DEF PassHow
  <2>3. ~Current(Base.node, Base.rev)'
    <3>1. t = job.path /\ job'.path = t
      BY <2>1 DEF Target
    <3>2. work[t].node \in Node /\ work[t].rev \in 1..node[work[t].node].rev
      BY <1>1, <1>2, <2>1, Typed DEF RevsInv, Had
    <3>3. ~(node'[work[t].node].live /\ node'[work[t].node].rev = work[t].rev)
      BY <1>1, <2>1, <3>2, Later DEF Current
    <3>. QED
      BY <2>2, <3>1, <3>3 DEF Base, Current, Target
  <2>4. In(work, Target)'
    BY <1>2, <1>3, <2>1, <2>2 DEF In
  <2>5. todo' = todo /\ todo \subseteq Path
    BY <1>1 DEF TypeOK, LocalsType
  <2>6. Pass' \in {"edit", "missing"} => \A q \in todo' : In(work, q)'
    <3> SUFFICES ASSUME Pass = "edit", NEW q \in todo PROVE In(work, q)'
      BY <1>2, <1>3, <2>5
    <3>1. In(work, q) /\ q \in Path
      BY <1>1, <2>5 DEF ControlInv
    <3>. QED
      BY <3>1 DEF PassHow, In
  <2>7. Pass' = "sent" => page' # <<>> /\ Now'.live
    BY <1>1, <1>3 DEF ControlInv, Now
  <2>8. Pass' = "match" => \A q \in todo' : Seen(q)'
    BY <1>1, <1>3, <2>5 DEF ControlInv, Seen
  <2>9. pc' = "sendCopy" => job'.copy \in Path \ gone' /\ ~In(work, job.copy)'
    <3>1. CASE pc' = "sendCopy"
      <4>1. ~In(work, job.copy)'
        BY <3>1 DEF In
      <4>. QED
        BY <4>1
    <3>. QED
      BY <3>1
  <2>10. job'.path \in Path /\ job'.ret \in {"local", "edit", "match", "sent"}
    BY <1>2 DEF Target
  <2>. QED
    BY <2>3, <2>4, <2>6, <2>7, <2>8, <2>9, <2>10 DEF ControlInv, Sending
<1>. QED
  BY <1>4, <1>5, <1>6, <1>7 DEF IInv, Newer

LEMMA StepOverwrite == IInv /\ Overwrite => IInv'
<1> SUFFICES ASSUME IInv, Overwrite PROVE IInv'
  OBVIOUS
<1>1. TypeOK /\ NodesInv /\ RevsInv
  BY DEF IInv
<1>2. pc = "overwrite" /\ UNCHANGED <<history, counts>> /\ pc \in Sending
  BY DEF Overwrite, Sending
<1>3. PICK t \in Path, b \in 0..MaxWrites : t = Target /\ b = job.bytes
  BY <1>2, SendingFacts
<1>4. PICK n \in Node, r \in Nat : n = work[t].node /\ r = work[t].rev
  BY <1>1, <1>2, <1>3, SendingFacts, Typed
<1>5. PICK key : key = OverKey(n, r, b)
  OBVIOUS
<1>6. Base.node = n /\ Base.rev = r
  BY <1>3, <1>4 DEF Base
<1>7. \/ Fail({}) /\ UNCHANGED <<server, disk, faults>>
      \/ node[n].live /\ Overwritten(Change(n)) /\ UNCHANGED server
      \/ /\ node[n].live /\ node[n].rev = r
         /\ Put(n, [node[n] EXCEPT !.bytes = b, !.rev = r + 1])
         /\ stored' = stored \cup {b}
         /\ receipts' = receipts \cup {[key |-> key, node |-> n]}
         /\ Overwritten([Change(n) EXCEPT !.rev = r + 1, !.bytes = b])
      \/ /\ node[n].rev # r /\ pc' = "copy"
         /\ UNCHANGED <<server, folder, mount, why, locals, faults>>
  <2>1. n = Base.node /\ r = Base.rev /\ b = job.bytes /\ key = OverKey(Base.node, Base.rev, job.bytes)
    BY <1>3, <1>5, <1>6
  <2>. QED
    BY <2>1 DEF Overwrite, TooLate
<1>8. CASE Fail({}) /\ UNCHANGED <<server, disk, faults>>
  BY <1>1, <1>2, <1>8, SameCounts, FailNow
<1>9. CASE node[n].live /\ Overwritten(Change(n)) /\ UNCHANGED server
  <2>1. PICK c : c = Change(n)
    OBVIOUS
  <2>2. Newer /\ node' = node
    BY <1>1, <1>9, SameServer DEF server
  <2>3. PICK k : k = node[n].rev
    OBVIOUS
  <2>4. c.node = n /\ c.rev = k /\ k \in 1..node'[n].rev
    BY <1>1, <1>9, <2>1, <2>2, <2>3, LiveHad DEF Change
  <2>5. Current(work[Target].node, work[Target].rev) =>
          n = work[Target].node /\ k = work[Target].rev
    BY <1>3, <1>4, <2>3 DEF Current
  <2>. QED
    BY <1>2, <1>9, <2>1, <2>2, <2>4, <2>5, OverwrittenStep
<1>10. CASE /\ node[n].live /\ node[n].rev = r
            /\ Put(n, [node[n] EXCEPT !.bytes = b, !.rev = r + 1])
            /\ stored' = stored \cup {b}
            /\ receipts' = receipts \cup {[key |-> key, node |-> n]}
            /\ Overwritten([Change(n) EXCEPT !.rev = r + 1, !.bytes = b])
  <2>1. \A x \in receipts' : x.node \in Node
    BY <1>1, <1>10 DEF TypeOK, ServerType
  <2>2. Newer /\ node'[n].rev = r + 1 /\ node'[n] # node[n]
    <3>1. Put(n, [node[n] EXCEPT !.bytes = b, !.rev = node[n].rev + 1])
      BY <1>10
    <3>2. Newer /\ node'[n].rev = node[n].rev + 1
      BY <1>1, <1>10, <2>1, <3>1, WriteNewer
    <3>. QED
      BY <1>10, <3>2
  <2>3. PICK c : c = [Change(n) EXCEPT !.rev = r + 1, !.bytes = b]
    OBVIOUS
  <2>4. PICK k : k = r + 1
    OBVIOUS
  <2>5. c.node = n /\ c.rev = k /\ k \in 1..node'[n].rev
    BY <2>2, <2>3, <2>4 DEF Change
  <2>6. node'[work[Target].node] # node[work[Target].node]
    BY <1>3, <1>4, <2>2
  <2>. QED
    BY <1>2, <1>10, <2>2, <2>3, <2>5, <2>6, OverwrittenStep
<1>11. CASE /\ node[n].rev # r /\ pc' = "copy"
            /\ UNCHANGED <<server, folder, mount, why, locals, faults>>
  <2>1. Newer /\ FolderType' /\ HistoryType' /\ CountType' /\ UNCHANGED dropped
    BY <1>1, <1>2, <1>11, SameServer, SameFolder, SameCounts
  <2>2. UNCHANGED <<base, known, tracked, why, batch, work, moves, todo, gone, scan, snap,
                    page, advance, job, dropped>>
    BY <1>11, <2>1 DEF mount, locals
  <2>3. PassHow({})
    BY <1>1, <1>11, <2>2, SameFolder DEF PassHow
  <2>4. /\ scan' \in [Path -> File] /\ work' \in Baseline
        /\ job' \in [path : Path \cup {0}, stamp : Stamp, bytes : 0..MaxWrites,
                   copy : Path \cup {0},
                   ret : {"none", "local", "add", "edit", "match", "sent"}]
    BY <1>1, <2>2 DEF TypeOK, LocalsType
  <2>5. ~Current(work[Target].node, work[Target].rev)
    BY <1>3, <1>4, <1>11 DEF Current
  <2>6. pc \in Sending \ {"upload"} /\ {} \in SUBSET Path
    BY <1>2
  <2>. QED
    BY <1>11, <2>1, <2>2, <2>3, <2>4, <2>5, <2>6, SendingStep
<1>. QED
  BY <1>7, <1>8, <1>9, <1>10, <1>11

LEMMA StepCopyConflict == IInv /\ CopyConflict => IInv'
<1> SUFFICES ASSUME IInv, CopyConflict PROVE IInv'
  OBVIOUS
<1>1. TypeOK /\ NodesInv /\ ControlInv
  BY DEF IInv
<1>2. pc = "copy" /\ UNCHANGED <<server, history, counts, faults>> /\ pc \in Sending \ {"upload"}
  BY DEF CopyConflict, Sending
<1>3. PICK t \in Path : t = Target
  BY <1>2, SendingFacts
<1>4. CASE Fail({}) /\ UNCHANGED disk
  BY <1>1, <1>2, <1>4, SameCounts, FailNow
<1>5. CASE Here(t)
  <2>1. PICK c, b : c = First(FreeCopies) /\ b = disk[t].bytes
    OBVIOUS
  <2>2. /\ FreeCopies # {}
        /\ disk' = [disk EXCEPT ![c] = [stamp |-> <<"copy", b, 0>>,
                                        bytes |-> b, id |-> 0]]
        /\ events' = Noted({c})
        /\ job' = [job EXCEPT !.copy = c, !.bytes = b]
        /\ pc' = "sendCopy"
        /\ UNCHANGED <<mount, why, batch, work, moves, todo, gone, scan,
                         snap, page, advance>>
    BY <1>3, <1>5, <2>1 DEF CopyConflict
  <2>3. c \in Path \ gone /\ ~In(work, c) /\ b \in 0..MaxWrites
    <3>1. FreeCopies \subseteq Path
      BY Bounds DEF FreeCopies
    <3>2. c \in FreeCopies
      BY <2>1, <2>2, <3>1, FirstIsIn, Bounds
    <3>. QED
      BY <1>1, <2>1, <3>1, <3>2, Typed DEF FreeCopies
  <2>4. PICK s \in Stamp : s = <<"copy", b, 0>> /\ s # NoStamp
    <3>1. <<"copy", b, 0>> # NoStamp
      BY DEF NoStamp
    <3>. QED
      BY <2>3, <3>1, Stamps
  <2>5. PICK f : f = [stamp |-> s, bytes |-> b, id |-> 0]
    OBVIOUS
  <2>6. f \in File /\ f # NoFile
    BY <2>3, <2>4, <2>5 DEF File, NoFile
  <2>7. disk' \in [Path -> File] /\ \A q \in Path : Here(q) => disk'[q] # NoFile
    <3>1. disk \in [Path -> File] /\ disk' = [disk EXCEPT ![c] = f]
      BY <1>1, <2>2, <2>4, <2>5 DEF TypeOK, FolderType
    <3>. QED
      BY <2>3, <2>6, <3>1 DEF Here
  <2>8. FolderType'
    <3>1. Noted({c}) \in Reported
      BY <1>1, <2>3, NotedType
    <3>. QED
      BY <2>2, <2>7, <3>1 DEF FolderType
  <2>9. Newer /\ HistoryType' /\ CountType' /\ UNCHANGED dropped
    BY <1>1, <1>2, SameServer, SameCounts
  <2>10. UNCHANGED <<base, known, tracked, why, batch, work, moves, todo, gone, scan, snap,
                     page, advance, dropped>>
    BY <2>2, <2>9 DEF mount
  <2>11. PassHow({})
    BY <2>7, <2>10 DEF PassHow
  <2>12. /\ scan' \in [Path -> File] /\ work' \in Baseline
         /\ job' \in [path : Path \cup {0}, stamp : Stamp, bytes : 0..MaxWrites,
                   copy : Path \cup {0},
                   ret : {"none", "local", "add", "edit", "match", "sent"}]
         /\ job'.path = job.path /\ job'.ret = job.ret /\ job'.copy = c
    <3>1. job \in [path : Path \cup {0}, stamp : Stamp, bytes : 0..MaxWrites,
                   copy : Path \cup {0},
                   ret : {"none", "local", "add", "edit", "match", "sent"}]
      BY <1>1 DEF TypeOK, LocalsType
    <3>2. job' = [job EXCEPT !.copy = c, !.bytes = b]
      BY <2>2
    <3>3. /\ job' \in [path : Path \cup {0}, stamp : Stamp, bytes : 0..MaxWrites,
                   copy : Path \cup {0},
                   ret : {"none", "local", "add", "edit", "match", "sent"}]
          /\ job'.path = job.path /\ job'.ret = job.ret /\ job'.copy = c
      BY ONLY <2>3, <3>1, <3>2
    <3>. QED
      BY <1>1, <2>10, <3>3 DEF TypeOK, LocalsType
  <2>13. ~Current(work[Target].node, work[Target].rev)
    BY <1>1, <1>2 DEF ControlInv, Base
  <2>14. work'[c].node = 0
    BY <2>3, <2>10 DEF In
  <2>15. {} \in SUBSET Path /\ Target \notin {}
    OBVIOUS
  <2>. QED
    BY <1>2, <2>2, <2>3, <2>8, <2>9, <2>10, <2>11, <2>12, <2>13, <2>14, <2>15, SendingStep
<1>. QED
  BY <1>3, <1>4, <1>5 DEF CopyConflict

LEMMA StepRefresh == IInv /\ Refresh => IInv'
<1> SUFFICES ASSUME IInv, Refresh PROVE IInv'
  OBVIOUS
<1>1. TypeOK /\ NodesInv /\ ControlInv
  BY DEF IInv
<1>2. pc = "refresh" /\ UNCHANGED <<server, history, counts, faults>> /\ pc \in Sending
  BY DEF Refresh, Sending
<1>3. PICK t \in Path : t = Target
  BY <1>2, SendingFacts
<1>4. CASE Fail({}) /\ UNCHANGED disk
  BY <1>1, <1>2, <1>4, SameCounts, FailNow
<1>5. CASE node[work[t].node].live /\ ~(Fail({}) /\ UNCHANGED disk)
  <2>1. PICK n \in Node, r \in Nat, b \in 0..MaxWrites :
          n = work[t].node /\ r = node[n].rev /\ b = node[n].bytes
    BY <1>1, <1>2, <1>3, SendingFacts, Typed
  <2>2. PICK s \in Stamp : s = <<"node", n, r>>
    BY Stamps
  <2>3. /\ Placeholder(Change(n)) = [stamp |-> s, bytes |-> b, id |-> n]
        /\ Fresh(Change(n)) = [node |-> n, rev |-> r, stamp |-> s]
    BY <2>1, <2>2 DEF Placeholder, Change, Fresh, Entry
  <2>4. PICK f, e : /\ f = [stamp |-> s, bytes |-> b, id |-> n]
                    /\ e = [node |-> n, rev |-> r, stamp |-> s]
    OBVIOUS
  <2>5. /\ disk' = [disk EXCEPT ![t] = f]
        /\ events' = Noted({t})
        /\ Back([work EXCEPT ![t] = e])
        /\ UNCHANGED scan
    BY <1>3, <1>5, <2>1, <2>3, <2>4 DEF Refresh, Base
  <2>6. f \in File /\ f # NoFile
    BY <2>4, Empty, Bounds DEF File
  <2>7. /\ disk' \in [Path -> File] /\ disk'[t] # NoFile
        /\ \A q \in Path : Here(q) => disk'[q] # NoFile
    <3>1. disk \in [Path -> File]
      BY <1>1 DEF TypeOK, FolderType
    <3>. QED
      BY <2>5, <2>6, <3>1 DEF Here
  <2>8. FolderType'
    <3>1. Noted({t}) \in Reported
      BY <1>1, NotedType
    <3>. QED
      BY <2>5, <2>7, <3>1 DEF FolderType
  <2>9. Newer /\ node' = node
    BY <1>1, <1>2, SameServer DEF server
  <2>10. ~Current(work[Target].node, work[Target].rev)
    BY <1>1, <1>2 DEF ControlInv, Base
  <2>11. PICK w : w = [work EXCEPT ![t] = e]
    OBVIOUS
  <2>12. r \in 1..node'[n].rev
    BY <1>1, <1>5, <2>1, <2>9, LiveHad
  <2>13. Back(w) /\ w = [work EXCEPT ![Target] = e] /\ disk'[Target] # NoFile
    BY <1>3, <2>5, <2>7, <2>11
  <2>14. UNCHANGED <<history, counts, faults>> /\ UNCHANGED scan
    BY <1>2, <2>5
  <2>. QED
    BY <1>2, <2>4, <2>7, <2>8, <2>9, <2>10, <2>12, <2>13, <2>14, BackStep
<1>. QED
  BY <1>3, <1>4, <1>5 DEF Refresh, Base

LEMMA StepSendCopy == IInv /\ SendCopy => IInv'
<1> SUFFICES ASSUME IInv, SendCopy PROVE IInv'
  OBVIOUS
<1>1. TypeOK /\ NodesInv /\ ControlInv
  BY DEF IInv
<1>2. pc = "sendCopy" /\ UNCHANGED <<history, counts>> /\ pc \in Sending \ {"upload"}
  BY DEF SendCopy, Sending
<1>3. PICK t \in Path, c \in Path \ gone : t = Target /\ c = job.copy /\ ~In(work, c)
  BY <1>1, <1>2, SendingFacts DEF ControlInv
<1>4. /\ Pass = job.ret /\ Pass \in Working /\ Pass \in {"local", "edit", "match", "sent"}
      /\ In(work, t) /\ t # c
  BY <1>2, <1>3, SendingFacts
<1>5. PICK b \in 0..MaxWrites, s \in Stamp : b = disk[c].bytes /\ s = disk[c].stamp
  BY <1>1, Typed
<1>6. CASE Fail({}) /\ UNCHANGED <<server, disk, faults>>
  BY <1>1, <1>2, <1>6, SameCounts, FailNow
<1>7. ASSUME NEW n \in Node, Here(c), Create(n, c, b),
             receipts' = receipts \cup {[key |-> NewKey(c, b), node |-> n]},
             Answered(
               /\ disk' = [disk EXCEPT ![c].id = n]
               /\ work' = [work EXCEPT ![c] = [node |-> n, rev |-> 1, stamp |-> s]]
               /\ scan' = IF Auditing THEN [scan EXCEPT ![c] = disk[c]] ELSE scan
               /\ pc' = "refresh"
               /\ UNCHANGED <<events, mount, why, batch, moves, todo, gone,
                              snap, page, advance, job>>)
      PROVE  IInv'
  <2>1. \A x \in receipts' : x.node \in Node
    BY <1>1, <1>7 DEF TypeOK, ServerType
  <2>2. /\ Newer
        /\ node'[n] = [path |-> c, rev |-> 1, bytes |-> b, live |-> TRUE]
    BY <1>1, <1>7, <2>1, CreateNewer
  <2>3. CASE Lost /\ Fail({}) /\ UNCHANGED disk
    BY <1>1, <1>2, <2>2, <2>3, SameCounts, LostStep
  <2>4. CASE /\ disk' = [disk EXCEPT ![c].id = n]
             /\ work' = [work EXCEPT ![c] = [node |-> n, rev |-> 1, stamp |-> s]]
             /\ scan' = IF Auditing THEN [scan EXCEPT ![c] = disk[c]] ELSE scan
             /\ pc' = "refresh"
             /\ UNCHANGED <<events, mount, why, batch, moves, todo, gone,
                            snap, page, advance, job>>
             /\ UNCHANGED faults
    <3>1. PICK e : e = [node |-> n, rev |-> 1, stamp |-> s]
      OBVIOUS
    <3>2. work' \in Baseline /\ work'[c] = e /\ \A q \in Path : q # c => work'[q] = work[q]
      <4>1. work \in Baseline /\ work' = [work EXCEPT ![c] = e]
        BY <1>1, <2>4, <3>1 DEF TypeOK, LocalsType
      <4>. QED
        BY <3>1, <4>1 DEF Baseline
    <3>3. /\ disk' \in [Path -> File] /\ disk'[c].id = n
          /\ \A q \in Path : q # c => disk'[q] = disk[q]
      <4>1. disk \in [Path -> File] /\ disk' = [disk EXCEPT ![c].id = n]
        BY <1>1, <2>4 DEF TypeOK, FolderType
      <4>. QED
        BY ONLY <4>1, c \in Path \ gone, n \in Node DEF File
    <3>4. disk'[c] # NoFile /\ \A q \in Path : Here(q) => disk'[q] # NoFile
      BY <3>3, Empty, Bounds DEF Here
    <3>5. FolderType' /\ HistoryType' /\ CountType' /\ UNCHANGED dropped
      BY <1>1, <1>2, <2>4, <3>3, SameCounts DEF TypeOK, FolderType
    <3>6. UNCHANGED <<base, known, tracked, why, batch, moves, todo, gone, snap,
                      page, advance, dropped>>
      BY <2>4, <3>5 DEF mount
    <3>7. /\ scan' \in [Path -> File] /\ \A q \in Path : scan'[q] = NoFile => scan[q] = NoFile
          /\ Pass \in {"add", "edit"} => scan'[c] # NoFile
      <4>1. scan \in [Path -> File] /\ disk \in [Path -> File]
        BY <1>1 DEF TypeOK, LocalsType, FolderType
      <4>2. CASE Auditing
        BY <1>7, <2>4, <4>1, <4>2 DEF Here
      <4>3. CASE ~Auditing
        BY <2>4, <4>1, <4>3 DEF Auditing
      <4>. QED
        BY <4>2, <4>3
    <3>8. EntryOK(c)
      <4>1. Had(work[c])'
        BY <2>2, <3>1, <3>2 DEF Had
      <4>. QED
        BY <1>3, <1>4, <2>2, <3>4, <3>6, <4>1, EntryNew
    <3>9. PassHow({c})
      <4>1. In(work, c)' /\ c \notin gone' /\ Pass # "missing"
        BY <1>3, <1>4, <3>1, <3>2, <3>6, Bounds DEF In
      <4>. QED
        BY <3>2, <3>4, <3>7, <3>8, <4>1 DEF PassHow
    <3>10. \A q \in {c} : In(work, q)'
      BY <3>1, <3>2, Bounds DEF In
    <3>11. /\ job' \in [path : Path \cup {0}, stamp : Stamp, bytes : 0..MaxWrites,
                   copy : Path \cup {0},
                   ret : {"none", "local", "add", "edit", "match", "sent"}]
           /\ job'.path = job.path /\ job'.ret = job.ret
      BY <1>1, <2>4 DEF TypeOK, LocalsType
    <3>12. ~Current(work[Target].node, work[Target].rev)
      BY <1>1, <1>2 DEF ControlInv, Base
    <3>13. {c} \in SUBSET Path /\ Target \notin {c} /\ pc' = "refresh"
      BY <1>3, <1>4, <2>4
    <3>. QED
      BY <1>2, <2>2, <3>2, <3>5, <3>6, <3>7, <3>9, <3>10, <3>11, <3>12, <3>13, SendingStep
  <2>. QED
    BY <1>7, <2>3, <2>4 DEF Answered
<1>8. \/ \E n \in Node :
          /\ Here(c)
          /\ Create(n, c, b)
          /\ receipts' = receipts \cup {[key |-> NewKey(c, b), node |-> n]}
          /\ Answered(
               /\ disk' = [disk EXCEPT ![c].id = n]
               /\ work' = [work EXCEPT ![c] = [node |-> n, rev |-> 1, stamp |-> s]]
               /\ scan' = IF Auditing THEN [scan EXCEPT ![c] = disk[c]] ELSE scan
               /\ pc' = "refresh"
               /\ UNCHANGED <<events, mount, why, batch, moves, todo, gone,
                              snap, page, advance, job>>)
      \/ Fail({}) /\ UNCHANGED <<server, disk, faults>>
  BY <1>3, <1>5 DEF SendCopy
<1>. QED
  BY <1>6, <1>7, <1>8

-----------------------------------------------------------------------------
(* The loop of missing files                                               *)

LEMMA StepMissing == IInv /\ Missing => IInv'
<1> SUFFICES ASSUME IInv, Missing PROVE IInv'
  OBVIOUS
<1>1. TypeOK /\ NodesInv /\ ControlInv /\ GoneInv /\ MissingInv
  BY DEF IInv
<1>2. pc = "missing" /\ todo # {} /\ UNCHANGED <<history, counts>>
  BY DEF Missing
<1>3. todo \subseteq Path /\ work \in Baseline
  BY <1>1 DEF TypeOK, LocalsType
<1>4. Pass = "missing" /\ job = NoJob /\ gone = {}
  BY <1>1, <1>2, PassIs DEF Sending, ControlInv, GoneInv
<1>5. PICK p \in Path : p = First(todo) /\ p \in todo
  BY <1>1, <1>2, TodoIsIn
<1>6. In(work, p) /\ work[p].node \in Node
  BY <1>1, <1>4, <1>5, Typed DEF ControlInv
<1> DEFINE More == /\ todo' = todo \ {p}
                   /\ UNCHANGED <<folder, mount, pc, why, batch, moves, gone,
                                scan, snap, page, advance, job>>
<1>7. \/ /\ Current(work[p].node, work[p].rev)
         /\ Trash(work[p].node)
         /\ Answered(More /\ work' = [work EXCEPT ![p] = NoEntry])
      \/ /\ ~Current(work[p].node, work[p].rev)
         /\ work' = [work EXCEPT ![p] = NoEntry]
         /\ More /\ UNCHANGED <<server, faults>>
      \/ UNCHANGED work /\ More /\ UNCHANGED <<server, faults>>
  BY <1>5 DEF Missing
<1>8. CASE UNCHANGED work /\ More /\ UNCHANGED <<server, faults>>
  <2>1. /\ todo' \in SUBSET Path /\ \A q \in todo' : In(work, q) /\ UsersAt(q)
        /\ gone' = {}
    BY <1>1, <1>3, <1>4, <1>8 DEF ControlInv, MissingInv
  <2>. QED
    BY <1>2, <1>8, <2>1, LoopStep DEF Working
<1>9. ASSUME More, work' = [work EXCEPT ![p] = NoEntry], UNCHANGED faults, Newer,
             \/ ~Current(work[p].node, work[p].rev)
             \/ node'[work[p].node] # node[work[p].node]
      PROVE  IInv'
  <2>1. /\ work' \in Baseline /\ work'[p] = NoEntry
        /\ \A q \in Path : q # p => work'[q] = work[q]
    BY <1>3, <1>9, Empty DEF Baseline
  <2>2. HistoryType' /\ CountType' /\ UNCHANGED dropped /\ FolderType'
    BY <1>1, <1>2, <1>9, SameCounts, SameFolder
  <2>3. EntryOK(p)
    BY <1>4, <1>9, <2>1, <2>2, EntryGone DEF Working, mount
  <2>4. \A q \in Path : Here(q) => disk'[q] # NoFile
    BY <1>1, <1>9, SameFolder
  <2>5. PassHow({p})
    BY <2>1, <2>3, <2>4 DEF PassHow
  <2>6. UNCHANGED <<base, known, tracked, why, batch, dropped, snap, scan, advance, page>>
    BY <1>9, <2>2 DEF mount
  <2>. QED
    BY <1>2, <1>4, <1>9, <2>1, <2>2, <2>5, <2>6, PassStep DEF Working
<1>10. CASE /\ ~Current(work[p].node, work[p].rev)
            /\ work' = [work EXCEPT ![p] = NoEntry]
            /\ More /\ UNCHANGED <<server, faults>>
  <2>1. Newer
    BY <1>1, <1>10, SameServer
  <2>. QED
    BY <1>9, <1>10, <2>1
<1>11. CASE /\ Current(work[p].node, work[p].rev)
            /\ Trash(work[p].node)
            /\ Answered(More /\ work' = [work EXCEPT ![p] = NoEntry])
  <2>1. node[work[p].node].live
    BY <1>11 DEF Current
  <2>2. Newer /\ ~node'[work[p].node].live
    BY <1>1, <1>6, <1>11, <2>1, TrashNewer
  <2>3. CASE Lost /\ Fail({}) /\ UNCHANGED disk
    BY <1>1, <1>2, <2>2, <2>3, SameCounts, LostStep
  <2>4. CASE More /\ work' = [work EXCEPT ![p] = NoEntry] /\ UNCHANGED faults
    BY <1>9, <2>1, <2>2, <2>4
  <2>. QED
    BY <1>11, <2>3, <2>4 DEF Answered
<1>. QED
  BY <1>7, <1>8, <1>10, <1>11

-----------------------------------------------------------------------------
(* The page of changes                                                     *)

LEMMA NowFacts ==
  ASSUME TypeOK, RevsInv, page # <<>>
  PROVE  /\ Now \in Listed(page) /\ Now \in Seens /\ Had(Now)
         /\ Now.node \in Node /\ Now.path \in Path /\ Now.rev \in Nat
         /\ Now.bytes \in 0..MaxWrites /\ Now.live \in BOOLEAN
<1>1. page \in Seq(Seens)
  BY DEF TypeOK, LocalsType
<1>2. Now = page[1] /\ 1 \in DOMAIN page
  BY <1>1 DEF Now
<1>3. Now \in Listed(page)
  BY <1>2 DEF Listed
<1>. QED
  BY <1>3, Typed DEF RevsInv

LEMMA DoneStep ==
  ASSUME IInv, pc \in {"slow", "sent"}, page # <<>>, UNCHANGED <<history, counts>>,
         NEW d \in [Path -> File], NEW w \in Baseline, Done(d, w),
         NEW qs \in SUBSET Path, PassHow(qs)
  PROVE  IInv'
<1>1. TypeOK /\ NodesInv /\ ControlInv
  BY DEF IInv
<1>2. Pass = pc /\ job = NoJob
  BY <1>1, PassIs DEF Sending, ControlInv
<1>3. /\ disk' = d
      /\ events' = Noted({p \in Path : d[p] # disk[p]})
      /\ work' = w
      /\ page' = Tail(page)
      /\ pc' = "slow"
      /\ UNCHANGED <<server, mount, why, batch, moves, todo, gone, scan, snap,
                     advance, job, faults>>
  BY DEF Done
<1>4. Newer /\ HistoryType' /\ CountType' /\ UNCHANGED dropped
  BY <1>1, <1>3, SameServer, SameCounts
<1>5. FolderType'
  <2>1. {p \in Path : d[p] # disk[p]} \in SUBSET Path
    OBVIOUS
  <2>2. Noted({p \in Path : d[p] # disk[p]}) \in Reported
    BY <1>1, <2>1, NotedType
  <2>. QED
    BY <1>3, <2>2 DEF FolderType
<1>6. UNCHANGED <<base, known, tracked, why, batch, dropped, snap, scan, advance>>
  BY <1>3, <1>4 DEF mount
<1>. QED
  BY <1>2, <1>3, <1>4, <1>5, <1>6, PassStep DEF Working

\* The page has an entry in force as it is.
LEMMA NowStands ==
  ASSUME IInv, pc \in {"slow", "sent"}, page # <<>>, NEW p \in Path,
         Stands(base, p), base[p].node \notin dropped
  PROVE  /\ AsBase(work[p], p) /\ In(work, p)
         /\ Now.node = work[p].node => Now.live /\ Now.path = p /\ Now.rev = work[p].rev
         /\ Now.live /\ Now.path = p => AsBase(Now, p)
<1>1. TypeOK /\ RevsInv /\ WorkInv /\ PageInv /\ ControlInv
  BY DEF IInv
<1>2. Pass = pc
  BY <1>1, PassIs DEF Sending
<1>3. AsBase(work[p], p)
  BY <1>1, <1>2 DEF WorkInv, Working
<1>4. Now \in Listed(page)
  BY <1>1, NowFacts
<1>5. Now.node = base[p].node => AsBase(Now, p) /\ Now.live /\ Now.path = p
  BY <1>1, <1>2, <1>4 DEF PageInv
<1>6. Now.live /\ Now.path = p => AsBase(Now, p)
  BY <1>1, <1>2, <1>4 DEF PageInv
<1>. QED
  BY <1>3, <1>5, <1>6 DEF AsBase, In, Stands

LEMMA StepApplyDelete == IInv /\ ApplyDelete => IInv'
<1> SUFFICES ASSUME IInv, ApplyDelete PROVE IInv'
  OBVIOUS
<1>1. TypeOK /\ NodesInv /\ RevsInv /\ ControlInv
  BY DEF IInv
<1>2. pc = "slow" /\ page # <<>> /\ ~Now.live /\ UNCHANGED <<history, counts>>
  BY DEF ApplyDelete, Applying
<1>3. disk \in [Path -> File] /\ work \in Baseline
  BY <1>1 DEF TypeOK, FolderType, LocalsType
<1>4. Pass = "slow"
  BY <1>1, <1>2, PassIs DEF Sending
<1>5. \/ Done(disk, work)
      \/ Fail({}) /\ UNCHANGED <<server, disk, faults>>
      \/ \E o \in Path :
           /\ In(work, o) /\ work[o].node = Now.node
           /\ Done(Without({o}), [work EXCEPT ![o] = NoEntry])
  BY DEF ApplyDelete, PathsOf
<1>6. CASE Done(disk, work)
  <2>1. disk' = disk /\ work' = work
    BY <1>6 DEF Done
  <2>2. PassHow({})
    BY <2>1 DEF PassHow, Here
  <2>3. {} \in SUBSET Path
    OBVIOUS
  <2>. QED
    BY <1>2, <1>3, <1>6, <2>2, <2>3, DoneStep
<1>7. CASE Fail({}) /\ UNCHANGED <<server, disk, faults>>
  BY <1>1, <1>2, <1>7, SameCounts, FailNow
<1>8. ASSUME NEW o \in Path, In(work, o), work[o].node = Now.node,
             Done(Without({o}), [work EXCEPT ![o] = NoEntry])
      PROVE  IInv'
  <2>1. PICK d, w : d = Without({o}) /\ w = [work EXCEPT ![o] = NoEntry]
    OBVIOUS
  <2>2. /\ d \in [Path -> File] /\ \A q \in Path : q # o => d[q] = disk[q]
        /\ w \in Baseline /\ w[o] = NoEntry /\ \A q \in Path : q # o => w[q] = work[q]
    BY <1>3, <2>1, Empty DEF Baseline, Without
  <2>3. Done(d, w) /\ disk' = d /\ work' = w
    BY <1>8, <2>1 DEF Done
  <2>4. Stands(base, o) => base[o].node \in dropped
    BY <1>2, <1>8, NowStands
  <2>5. Newer /\ UNCHANGED <<base, dropped>>
    BY <1>1, <1>2, <2>3, SameServer DEF Done, mount, history
  <2>6. EntryOK(o)
    <3>1. Good(work[o], o)'
      BY <2>2, <2>3, Empty DEF Good
    <3>2. Stands(base, o)' => Stands(base, o)
      BY <1>1, <2>5, BaseStands
    <3>. QED
      BY <2>4, <3>1, <3>2 DEF EntryOK
  <2>7. PassHow({o})
    <3>1. work'[o] # work[o]
      BY <1>8, <2>2, <2>3, Empty DEF In
    <3>. QED
      BY <1>4, <2>2, <2>3, <2>4, <2>6, <3>1 DEF PassHow, Here
  <2>. QED
    BY <1>2, <2>2, <2>3, <2>7, DoneStep
<1>. QED
  BY <1>5, <1>6, <1>7, <1>8

\* The change puts a file, and the entry of its revision, at its path.
LEMMA PlacedStep ==
  ASSUME IInv, pc \in {"slow", "sent"}, page # <<>>, Now.live,
         UNCHANGED <<history, counts>>,
         NEW d \in [Path -> File], NEW e,
         e = [node |-> Now.node, rev |-> Now.rev, stamp |-> e.stamp], e.stamp \in Stamp,
         Done(d, [work EXCEPT ![Now.path] = e]),
         d[Now.path] # NoFile, \A q \in Path : q # Now.path => d[q] = disk[q]
  PROVE  IInv'
<1>1. TypeOK /\ NodesInv /\ RevsInv /\ ControlInv
  BY DEF IInv
<1>2. PICK p \in Path, n \in Node, r \in Nat : p = Now.path /\ n = Now.node /\ r = Now.rev
  BY <1>1, NowFacts
<1>3. PICK w : w = [work EXCEPT ![p] = e]
  OBVIOUS
<1>4. w \in Baseline /\ w[p] = e /\ \A q \in Path : q # p => w[q] = work[q]
  <2>1. work \in Baseline
    BY <1>1 DEF TypeOK, LocalsType
  <2>2. e \in [node : Node \cup {0}, rev : Nat, stamp : Stamp]
    BY <1>2
  <2>. QED
    BY <1>3, <2>1, <2>2 DEF Baseline
<1>5. Done(d, w) /\ disk' = d /\ work' = w
  BY <1>2, <1>3 DEF Done
<1>6. Newer /\ UNCHANGED <<base, dropped, gone>>
  BY <1>1, <1>5, SameServer DEF Done, mount, history
<1>7. Pass = pc /\ gone = {}
  BY <1>1, PassIs DEF Sending, IInv, GoneInv
<1>8. EntryOK(p)
  <2>1. n = Now.node /\ r \in 1..node[n].rev
    BY <1>1, <1>2, NowFacts DEF Had
  <2>2. r \in 1..node'[n].rev
    BY <1>1, <1>6, <2>1, Later
  <2>3. Had(work[p])'
    BY <1>2, <1>4, <1>5, <2>2 DEF Had
  <2>4. Good(work[p], p)'
    BY <1>2, <1>5, <2>3 DEF Good, Here
  <2>5. Stands(base, p)' /\ base[p].node \notin dropped => AsBase(work[p], p)'
    <3>1. Stands(base, p)' => Stands(base, p)
      BY <1>1, <1>6, BaseStands
    <3>2. Stands(base, p) /\ base[p].node \notin dropped => AsBase(Now, p)
      BY <1>2, NowStands
    <3>. QED
      BY <1>2, <1>4, <1>5, <1>6, <3>1, <3>2 DEF AsBase
  <2>. QED
    BY <2>4, <2>5 DEF EntryOK
<1>9. PassHow({p})
  <2>1. In(work, p)' /\ p \notin gone' /\ Pass \notin {"missing", "add", "edit"}
    BY <1>2, <1>4, <1>5, <1>6, <1>7, Bounds DEF In
  <2>. QED
    BY <1>2, <1>4, <1>5, <1>8, <2>1 DEF PassHow, Here
<1>. QED
  BY <1>4, <1>5, <1>9, DoneStep

LEMMA Placeholders ==
  ASSUME NEW c \in Seens
  PROVE  /\ Placeholder(c) \in File /\ Placeholder(c) # NoFile
         /\ Fresh(c) = Entry(c, <<"node", c.node, c.rev>>)
         /\ <<"node", c.node, c.rev>> \in Stamp
<1>1. PICK n \in Node, r \in Nat, b \in 0..MaxWrites :
        n = c.node /\ r = c.rev /\ b = c.bytes
  BY DEF Seens
<1>2. PICK s \in Stamp : s = <<"node", n, r>>
  BY Stamps
<1>3. PICK f : f = [stamp |-> s, bytes |-> b, id |-> n]
  OBVIOUS
<1>4. f \in File /\ f # NoFile
  BY <1>3, Empty, Bounds DEF File
<1>5. Placeholder(c) = f
  BY <1>1, <1>2, <1>3 DEF Placeholder
<1>7. Placeholder(c).stamp = <<"node", c.node, c.rev>>
  BY DEF Placeholder
<1>. QED
  BY <1>1, <1>2, <1>4, <1>5, <1>7 DEF Fresh

LEMMA StepApplyUpsert == IInv /\ ApplyUpsert => IInv'
<1> SUFFICES ASSUME IInv, ApplyUpsert PROVE IInv'
  OBVIOUS
<1>1. TypeOK /\ NodesInv /\ RevsInv /\ ControlInv
  BY DEF IInv
<1>2. pc = "slow" /\ page # <<>> /\ Now.live /\ UNCHANGED <<history, counts>>
  BY DEF ApplyUpsert, Applying
<1>3. disk \in [Path -> File]
  BY <1>1 DEF TypeOK, FolderType
<1>4. PICK p \in Path : p = Now.path
  BY <1>1, <1>2, NowFacts
<1>5. PICK c \in Seens : c = Now
  BY <1>1, <1>2, NowFacts
<1>6. \/ /\ In(work, p)
         /\ Send("overwrite", p, disk[p].stamp) /\ UNCHANGED <<todo, page>>
      \/ Here(p) /\ Done(disk, [work EXCEPT ![p] = Entry(Now, work[p].stamp)])
      \/ Done([disk EXCEPT ![p] = Placeholder(Now)], [work EXCEPT ![p] = Fresh(Now)])
  BY <1>4 DEF ApplyUpsert, Placed, Changed
<1>7. CASE /\ In(work, p)
           /\ Send("overwrite", p, disk[p].stamp) /\ UNCHANGED <<todo, page>>
  <2>1. disk[p].stamp \in Stamp
    BY <1>1, Typed
  <2>. QED
    BY <1>2, <1>7, <2>1, SendStep
<1>8. CASE Here(p) /\ Done(disk, [work EXCEPT ![p] = Entry(Now, work[p].stamp)])
  <2>1. PICK s \in Stamp : s = work[p].stamp
    BY <1>1, Typed
  <2>2. PICK e : e = Entry(c, s)
    OBVIOUS
  <2>3. e = [node |-> Now.node, rev |-> Now.rev, stamp |-> e.stamp] /\ e.stamp \in Stamp
    BY <1>5, <2>2 DEF Entry
  <2>4. Done(disk, [work EXCEPT ![Now.path] = e])
    BY <1>4, <1>5, <1>8, <2>1, <2>2
  <2>5. disk[Now.path] # NoFile
    BY <1>4, <1>8 DEF Here
  <2>. QED
    BY <1>2, <1>3, <2>3, <2>4, <2>5, PlacedStep
<1>9. CASE Done([disk EXCEPT ![p] = Placeholder(Now)], [work EXCEPT ![p] = Fresh(Now)])
  <2>1. PICK d, e, f : d = [disk EXCEPT ![p] = f] /\ e = Fresh(c) /\ f = Placeholder(c)
    OBVIOUS
  <2>2. d \in [Path -> File] /\ d[p] # NoFile /\ \A q \in Path : q # p => d[q] = disk[q]
    <3>1. f \in File /\ f # NoFile
      BY <2>1, Placeholders
    <3>. QED
      BY <1>3, <2>1, <3>1
  <2>3. e = [node |-> Now.node, rev |-> Now.rev, stamp |-> e.stamp] /\ e.stamp \in Stamp
    <3>1. e = Entry(c, <<"node", c.node, c.rev>>) /\ <<"node", c.node, c.rev>> \in Stamp
      BY <2>1, Placeholders
    <3>. QED
      BY <1>5, <3>1 DEF Entry
  <2>4. Done(d, [work EXCEPT ![Now.path] = e])
    BY <1>4, <1>5, <1>9, <2>1
  <2>. QED
    BY <1>2, <1>4, <2>2, <2>3, <2>4, PlacedStep
<1>. QED
  BY <1>6, <1>7, <1>8, <1>9

LEMMA StepApplySent == IInv /\ ApplySent => IInv'
<1> SUFFICES ASSUME IInv, ApplySent PROVE IInv'
  OBVIOUS
<1>1. TypeOK /\ NodesInv /\ RevsInv /\ ControlInv
  BY DEF IInv
<1>2. pc = "sent" /\ UNCHANGED <<history, counts>>
  BY DEF ApplySent
<1>3. page # <<>> /\ Now.live /\ disk \in [Path -> File] /\ work \in Baseline
  <2>1. Pass = "sent"
    BY <1>1, <1>2, PassIs DEF Sending
  <2>. QED
    BY <1>1, <2>1 DEF TypeOK, FolderType, LocalsType, ControlInv
<1>4. PICK p \in Path : p = Now.path
  BY <1>1, <1>3, NowFacts
<1>5. PICK c \in Seens : c = Now
  BY <1>1, <1>3, NowFacts
<1>6. \/ Done(disk, work)
      \/ Done([disk EXCEPT ![p] = Placeholder(Now)], [work EXCEPT ![p] = Fresh(Now)])
      \/ Fail({}) /\ UNCHANGED <<server, disk, faults>>
  BY <1>4 DEF ApplySent, Placed
<1>7. CASE Done(disk, work)
  <2>1. disk' = disk /\ work' = work
    BY <1>7 DEF Done
  <2>2. PassHow({})
    BY <2>1 DEF PassHow, Here
  <2>3. {} \in SUBSET Path
    OBVIOUS
  <2>. QED
    BY <1>2, <1>3, <1>7, <2>2, <2>3, DoneStep
<1>8. CASE Done([disk EXCEPT ![p] = Placeholder(Now)], [work EXCEPT ![p] = Fresh(Now)])
  <2>1. PICK d, e, f : d = [disk EXCEPT ![p] = f] /\ e = Fresh(c) /\ f = Placeholder(c)
    OBVIOUS
  <2>2. d \in [Path -> File] /\ d[p] # NoFile /\ \A q \in Path : q # p => d[q] = disk[q]
    <3>1. f \in File /\ f # NoFile
      BY <2>1, Placeholders
    <3>. QED
      BY <1>3, <2>1, <3>1
  <2>3. e = [node |-> Now.node, rev |-> Now.rev, stamp |-> e.stamp] /\ e.stamp \in Stamp
    <3>1. e = Entry(c, <<"node", c.node, c.rev>>) /\ <<"node", c.node, c.rev>> \in Stamp
      BY <2>1, Placeholders
    <3>. QED
      BY <1>5, <3>1 DEF Entry
  <2>4. Done(d, [work EXCEPT ![Now.path] = e])
    BY <1>4, <1>5, <1>8, <2>1
  <2>. QED
    BY <1>2, <1>3, <1>4, <2>2, <2>3, <2>4, PlacedStep
<1>9. CASE Fail({}) /\ UNCHANGED <<server, disk, faults>>
  BY <1>1, <1>2, <1>9, SameCounts, FailNow
<1>. QED
  BY <1>6, <1>7, <1>8, <1>9

LEMMA StepApplyMove == IInv /\ ApplyMove => IInv'
<1> SUFFICES ASSUME IInv, ApplyMove PROVE IInv'
  OBVIOUS
<1>1. TypeOK /\ NodesInv /\ RevsInv /\ ControlInv /\ GoneInv /\ PresentInv /\ QuietInv
  BY DEF IInv
<1>2. /\ pc = "slow" /\ page # <<>> /\ Now.live
      /\ UNCHANGED <<server, due, dropped, counts, faults>>
  BY DEF ApplyMove, Applying
<1>3. disk \in [Path -> File] /\ work \in Baseline
  BY <1>1 DEF TypeOK, FolderType, LocalsType
<1>4. Pass = "slow" /\ job = NoJob /\ gone = {}
  BY <1>1, <1>2, PassIs DEF Sending, ControlInv, GoneInv
<1>5. PICK p \in Path : p = Now.path
  BY <1>1, <1>2, NowFacts
<1>6. PICK o \in Olds \ {p} :
        IF Here(o) /\ Here(p)
       THEN /\ base' = work
            /\ pc' = "list"
            /\ UNCHANGED <<disk, events, known, tracked, why, locals>>
       ELSE /\ work' = [work EXCEPT ![o] = NoEntry, ![p] = work[o]]
            /\ IF Here(o)
               THEN /\ disk' = [disk EXCEPT ![o] = NoFile, ![p] = disk[o]]
                    /\ events' = [events EXCEPT !.renames = @ \cup {<<o, p>>}]
               ELSE UNCHANGED folder
            /\ UNCHANGED <<mount, pc, why, batch, moves, todo, gone, scan,
                           snap, page, advance, job>>
  BY <1>5 DEF ApplyMove
<1>7. /\ o \in Path /\ o # p /\ In(work, o) /\ work[o].node = Now.node
      /\ work[p].node # Now.node
  BY <1>5, <1>6 DEF Olds, PathsOf
<1>8. Newer /\ HistoryType' /\ CountType' /\ UNCHANGED dropped
  <2>1. watched' \subseteq watched
    BY DEF ApplyMove
  <2>. QED
    BY <1>1, <1>2, <2>1, SameServer DEF TypeOK, HistoryType, CountType, counts
<1>9. CASE /\ base' = work
           /\ pc' = "list"
           /\ UNCHANGED <<disk, events, known, tracked, why, locals>>
  <2>1. UNCHANGED <<batch, work, moves, todo, gone, scan, snap, page, advance, job>>
    BY <1>9 DEF locals
  <2>2. Pass' = "list"
    BY <1>4, <1>9, <2>1 DEF Pass
  <2>3. TypeOK'
    <3>1. LocalsType' /\ FolderType' /\ MountType'
      BY <1>1, <1>9, <2>1 DEF TypeOK, LocalsType, FolderType, MountType
    <3>2. pc' \in Steps /\ why' \in {"none", "start", "flush", "poll", "audit"}
      BY <1>1, <1>9 DEF TypeOK, Steps
    <3>. QED
      BY <1>8, <3>1, <3>2 DEF TypeOK, Newer
  <2>4. Listed(page') = Listed(page) /\ node' = node /\ journal' = journal /\ late' = late
    BY <1>2, <2>1 DEF server
  <2>5. RevsInv'
    BY <1>1, <1>9, <2>1, <2>4 DEF RevsInv, Had, In, Seen
  <2>6. (Present(base) /\ Quiet(base))' /\ (Present(work) /\ Quiet(work))'
    BY <1>1, <1>8, <1>9, <2>1, <2>4 DEF PresentInv, QuietInv, Present, Quiet, Stands, In,
       Here, Current, Pending
  <2>7. ControlInv'
    BY <1>4, <1>9, <2>1, <2>2 DEF ControlInv, Sending
  <2>8. GoneInv'
    BY <1>4, <2>1, <2>2 DEF GoneInv
  <2>9. WorkInv' /\ PageInv' /\ SnapInv' /\ ScanInv' /\ MissingInv'
    BY <2>2 DEF WorkInv, PageInv, SnapInv, ScanInv, MissingInv, Working
  <2>. QED
    BY <1>8, <2>3, <2>5, <2>6, <2>7, <2>8, <2>9 DEF IInv, PresentInv, QuietInv, Newer
<1>10. CASE /\ ~(Here(o) /\ Here(p))
            /\ work' = [work EXCEPT ![o] = NoEntry, ![p] = work[o]]
            /\ IF Here(o)
               THEN /\ disk' = [disk EXCEPT ![o] = NoFile, ![p] = disk[o]]
                    /\ events' = [events EXCEPT !.renames = @ \cup {<<o, p>>}]
               ELSE UNCHANGED folder
            /\ UNCHANGED <<mount, pc, why, batch, moves, todo, gone, scan,
                           snap, page, advance, job>>
  <2>1. PICK e : e = work[o]
    OBVIOUS
  <2>2. /\ work' \in Baseline /\ work'[o] = NoEntry /\ work'[p] = e
        /\ \A q \in Path : q # o /\ q # p => work'[q] = work[q]
    <3>1. PICK v : v = [work EXCEPT ![o] = NoEntry]
      OBVIOUS
    <3>2. work' = [v EXCEPT ![p] = e]
      BY <1>10, <2>1, <3>1
    <3>3. /\ v \in Baseline /\ v[o] = NoEntry /\ \A q \in Path : q # o => v[q] = work[q]
          /\ e \in [node : Node \cup {0}, rev : Nat, stamp : Stamp]
      BY <1>3, <1>7, <2>1, <3>1, Empty DEF Baseline
    <3>. QED
      BY <1>7, <3>2, <3>3 DEF Baseline
  <2>3. FolderType'
    <3>1. CASE Here(o)
      <4>1. disk' = [disk EXCEPT ![o] = NoFile, ![p] = disk[o]]
        BY <1>10, <3>1
      <4>2. disk' \in [Path -> File]
        BY <1>3, <1>7, <4>1, Empty
      <4>. QED
        BY <1>1, <1>7, <1>10, <3>1, <4>2, RenamesType DEF FolderType
    <3>2. CASE ~Here(o)
      BY <1>1, <1>10, <3>2, SameFolder
    <3>. QED
      BY <3>1, <3>2
  <2>4. /\ Here(o) => disk'[p] = disk[o] /\ disk'[p] # NoFile
        /\ ~Here(o) => \A q \in Path : disk'[q] = disk[q]
        /\ \A q \in Path : q # o /\ disk'[q] = NoFile => ~Here(q) \/ (q = p /\ ~Here(o))
        /\ \A q \in Path : q # o /\ q # p => disk'[q] = disk[q]
        /\ Here(p) => disk'[p] # NoFile
    <3>1. CASE Here(o)
      <4>1. disk' = [disk EXCEPT ![o] = NoFile, ![p] = disk[o]]
        BY <1>10, <3>1
      <4>. QED
        BY <1>3, <1>7, <3>1, <4>1, Empty DEF Here
    <3>2. CASE ~Here(o)
      BY <1>10, <3>2 DEF folder, Here
    <3>. QED
      BY <3>1, <3>2
  <2>5. UNCHANGED <<base, known, tracked, why, batch, dropped, snap, scan, advance, page>>
    BY <1>8, <1>10 DEF mount
  <2>6. Stands(base, o) => base[o].node \in dropped
    BY <1>2, <1>5, <1>7, NowStands
  <2>7. Stands(base, p) => base[p].node \in dropped
    BY <1>2, <1>5, <1>7, NowStands DEF AsBase
  <2>8. \A q \in Path : Stands(base, q)' => Stands(base, q)
    BY <1>1, <1>8, <2>5, BaseStands
  <2>9. EntryOK(o)
    <3>1. Good(work[o], o)'
      BY <2>2, Empty DEF Good
    <3>. QED
      BY <1>7, <2>5, <2>6, <2>8, <3>1 DEF EntryOK
  <2>10. EntryOK(p)
    <3>1. e.node \in Node /\ Had(e) /\ Good(e, o)
      BY <1>1, <1>7, <2>1, Typed, GoodWork DEF RevsInv
    <3>2. Good(e, p)'
      <4>1. CASE Here(o)
        <5>1. Had(e)'
          <6>1. e.rev \in 1..node[e.node].rev
            BY <3>1 DEF Had
          <6>2. e.rev \in 1..node'[e.node].rev
            BY <1>1, <1>8, <3>1, <6>1, Later
          <6>. QED
            BY <6>2 DEF Had
        <5>. QED
          BY <2>4, <4>1, <5>1 DEF Good, Here
      <4>2. CASE ~Here(o)
        <5>1. e.node \in Pending
          BY <1>1, <1>2, <1>7, <2>1, NowFacts DEF Pending
        <5>2. Good(e, p)
          BY <3>1, <4>2, <5>1 DEF Good
        <5>3. Here(p) => disk'[p] # NoFile
          BY <2>4
        <5>4. Listed(page') \subseteq Listed(page) /\ dropped \subseteq dropped'
          BY <1>8, <2>5
        <5>. QED
          BY <1>1, <1>8, <3>1, <5>2, <5>3, <5>4, GoodLater
      <4>. QED
        BY <4>1, <4>2
    <3>3. Good(work[p], p)'
      BY <2>2, <3>2
    <3>. QED
      BY <2>5, <2>7, <2>8, <3>3 DEF EntryOK
  <2>11. PassHow({o, p})
    <3>1. work'[o] # work[o]
      BY <1>7, <2>2, Empty DEF In
    <3>2. In(work, p)' /\ p \notin gone' /\ Pass \notin {"missing", "add", "edit"}
      BY <1>4, <1>7, <1>10, <2>1, <2>2 DEF In
    <3>3. \A q \in Path : Here(q) /\ disk'[q] = NoFile => q = o
      BY <2>4
    <3>. QED
      BY <1>4, <2>2, <2>6, <2>9, <2>10, <3>1, <3>2, <3>3 DEF PassHow
  <2>. QED
    BY <1>2, <1>4, <1>7, <1>8, <1>10, <2>2, <2>3, <2>5, <2>11, PassStep DEF Working
<1>. QED
  BY <1>6, <1>9, <1>10

-----------------------------------------------------------------------------
(* The comparison with everything the server lists                         *)

LEMMA SettleStep ==
  ASSUME IInv, Newer, pc = "match", NEW p \in Path, HistoryType', CountType',
         UNCHANGED dropped,
         NEW d \in [Path -> File], \A q \in Path : Here(q) => d[q] # NoFile,
         NEW e \in [node : Node \cup {0}, rev : Nat, stamp : Stamp],
         Settle(p, d, e), EntryOK(p), e = NoEntry \/ e.node # 0
  PROVE  IInv'
<1>1. TypeOK /\ ControlInv /\ GoneInv
  BY DEF IInv
<1>2. Pass = "match" /\ job = NoJob /\ gone = {}
  BY <1>1, PassIs DEF Sending, ControlInv, GoneInv
<1>3. /\ todo' = todo \ {p} /\ disk' = d
      /\ events' = Noted(IF d[p] = disk[p] THEN {} ELSE {p})
      /\ work' = [work EXCEPT ![p] = e]
      /\ UNCHANGED <<mount, pc, why, batch, moves, gone, scan, snap, page,
                     advance, job>>
  BY DEF Settle
<1>4. work' \in Baseline /\ work'[p] = e /\ \A q \in Path : q # p => work'[q] = work[q]
  <2>1. work \in Baseline
    BY <1>1 DEF TypeOK, LocalsType
  <2>. QED
    BY <1>3, <2>1 DEF Baseline
<1>5. FolderType'
  <2>1. Noted({}) \in Reported /\ Noted({p}) \in Reported
    BY <1>1, NotedType
  <2>. QED
    BY <1>3, <2>1 DEF FolderType
<1>6. UNCHANGED <<base, known, tracked, why, batch, dropped, snap, scan, advance, page>>
  BY <1>3 DEF mount
<1>7. PassHow({p})
  <2>1. work'[p] = NoEntry \/ (In(work, p)' /\ p \notin gone')
    BY <1>2, <1>3, <1>4 DEF In
  <2>. QED
    BY <1>2, <1>3, <1>4, <2>1 DEF PassHow
<1>. QED
  BY <1>2, <1>3, <1>4, <1>5, <1>6, <1>7, PassStep DEF Working

LEMMA StepMatch == IInv /\ Match => IInv'
<1> SUFFICES ASSUME IInv, Match PROVE IInv'
  OBVIOUS
<1>1. TypeOK /\ NodesInv /\ RevsInv /\ ControlInv /\ SnapInv
  BY DEF IInv
<1>2. pc = "match" /\ todo # {} /\ UNCHANGED <<history, counts>>
  BY DEF Match
<1>3. disk \in [Path -> File] /\ work \in Baseline
  BY <1>1 DEF TypeOK, FolderType, LocalsType
<1>4. Pass = "match"
  BY <1>1, <1>2, PassIs DEF Sending
<1>5. PICK p \in Path : p = First(todo) /\ p \in todo
  BY <1>1, <1>2, TodoIsIn
<1>6. PICK c \in Seens : c = snap[p] /\ Had(c)
  BY <1>1, <1>4, <1>5, Typed DEF ControlInv, RevsInv
<1>7. PICK e : e = work[p]
  OBVIOUS
<1>8. \/ /\ In(work, p) /\ Current(e.node, e.rev) /\ Trash(e.node)
         /\ \/ Settle(p, disk, NoEntry) /\ UNCHANGED faults
            \/ Lost /\ Replace(p)
      \/ /\ In(work, p)
         /\ Send("overwrite", p, disk[p].stamp)
         /\ todo' = todo \ {p} /\ UNCHANGED page
      \/ Fail({}) /\ UNCHANGED disk /\ UNCHANGED <<server, faults>>
      \/ Here(p) /\ Settle(p, disk, Entry(c, e.stamp)) /\ UNCHANGED <<server, faults>>
      \/ Replace(p) /\ UNCHANGED <<server, faults>>
  BY <1>5, <1>6, <1>7 DEF Match, Changed
<1>9. \A q \in Path : Here(q) => disk[q] # NoFile
  BY DEF Here
<1>10. Stands(base, p) => AsBase(c, p)
  BY <1>1, <1>4, <1>5, <1>6 DEF SnapInv, ControlInv
<1>11. Newer => c.rev \in 1..node'[c.node].rev
  <2>1. c.rev \in 1..node[c.node].rev /\ c.node \in Node
    BY <1>6, Typed, <1>1 DEF Had
  <2>. QED
    BY <1>1, <2>1, Later
<1>12. ASSUME Newer, Settle(p, disk, Entry(c, e.stamp)), Here(p), UNCHANGED faults
       PROVE  IInv'
  <2>1. PICK s \in Stamp : s = e.stamp
    BY <1>1, <1>7, Typed
  <2>2. PICK x : x = [node |-> c.node, rev |-> c.rev, stamp |-> s]
    OBVIOUS
  <2>3. /\ x \in [node : Node \cup {0}, rev : Nat, stamp : Stamp]
        /\ x.node = c.node /\ x.rev = c.rev /\ x.node # 0
    BY <1>1, <2>2, Typed, Bounds
  <2>4. Settle(p, disk, x)
    BY <1>12, <2>1, <2>2 DEF Entry
  <2>5. HistoryType' /\ CountType' /\ UNCHANGED dropped /\ UNCHANGED base
    BY <1>1, <1>2, <2>4, <1>12, SameCounts DEF Settle, mount
  <2>6. work'[p] = x /\ disk'[p] # NoFile
    BY <1>3, <1>12, <2>4 DEF Settle, Here, Baseline
  <2>7. EntryOK(p)
    <3>1. Had(work[p])'
      BY <1>11, <1>12, <2>3, <2>6 DEF Had
    <3>2. Stands(base, p) => AsBase(work'[p], p)
      BY <1>10, <2>3, <2>6 DEF AsBase
    <3>. QED
      BY <1>4, <1>12, <2>5, <2>6, <3>1, <3>2, EntryNew DEF Working
  <2>. QED
    BY <1>2, <1>3, <1>9, <1>12, <2>3, <2>4, <2>5, <2>7, SettleStep
<1>13. ASSUME Newer, Replace(p), HistoryType', CountType', UNCHANGED dropped
       PROVE  IInv'
  <2>1. PICK f, x : f = Placeholder(c) /\ x = Fresh(c)
    OBVIOUS
  <2>2. PICK d : d = [disk EXCEPT ![p] = f]
    OBVIOUS
  <2>3. /\ d \in [Path -> File] /\ d[p] # NoFile
        /\ \A q \in Path : Here(q) => d[q] # NoFile
    <3>1. f \in File /\ f # NoFile
      BY <2>1, Placeholders
    <3>. QED
      BY <1>3, <2>2, <3>1 DEF Here
  <2>4. /\ x \in [node : Node \cup {0}, rev : Nat, stamp : Stamp]
        /\ x.node = c.node /\ x.rev = c.rev /\ x.node # 0
    <3>1. PICK s \in Stamp : x = Entry(c, s)
      BY <2>1, Placeholders
    <3>. QED
      BY <1>1, <3>1, Typed, Bounds DEF Entry
  <2>5. Settle(p, d, x)
    BY <1>6, <1>13, <2>1, <2>2 DEF Replace, Placed
  <2>6. work'[p] = x /\ disk'[p] # NoFile /\ UNCHANGED base
    BY <1>3, <2>3, <2>5 DEF Settle, Baseline, mount
  <2>7. EntryOK(p)
    <3>1. Had(work[p])'
      BY <1>11, <1>13, <2>4, <2>6 DEF Had
    <3>2. Stands(base, p) => AsBase(work'[p], p)
      BY <1>10, <2>4, <2>6 DEF AsBase
    <3>. QED
      BY <1>4, <1>13, <2>6, <3>1, <3>2, EntryNew DEF Working
  <2>. QED
    BY <1>2, <1>13, <2>3, <2>4, <2>5, <2>7, SettleStep
<1>14. CASE /\ In(work, p) /\ Current(e.node, e.rev) /\ Trash(e.node)
            /\ \/ Settle(p, disk, NoEntry) /\ UNCHANGED faults
               \/ Lost /\ Replace(p)
  <2>1. e.node \in Node /\ node[e.node].live
    BY <1>1, <1>7, <1>14, Typed DEF Current
  <2>2. Newer /\ ~node'[e.node].live
    BY <1>1, <1>14, <2>1, TrashNewer
  <2>3. CASE Settle(p, disk, NoEntry) /\ UNCHANGED faults
    <3>1. HistoryType' /\ CountType' /\ UNCHANGED dropped
      BY <1>1, <1>2, <2>3, SameCounts
    <3>2. work'[p] = NoEntry /\ UNCHANGED base
      BY <1>3, <2>3 DEF Settle, Baseline, mount
    <3>3. node'[work[p].node] # node[work[p].node]
      BY <1>7, <2>1, <2>2
    <3>4. EntryOK(p)
      BY <1>4, <2>2, <3>1, <3>2, <3>3, EntryGone DEF Working
    <3>. QED
      BY <1>2, <1>3, <1>9, <2>2, <2>3, <3>1, <3>4, Empty, SettleStep
  <2>4. CASE Lost /\ Replace(p)
    BY <1>1, <1>2, <1>13, <2>2, <2>4, SameCounts
  <2>. QED
    BY <1>14, <2>3, <2>4
<1>15. CASE /\ In(work, p)
            /\ Send("overwrite", p, disk[p].stamp)
            /\ todo' = todo \ {p} /\ UNCHANGED page
  <2>1. disk[p].stamp \in Stamp
    BY <1>1, Typed
  <2>. QED
    BY <1>2, <1>15, <2>1, SendStep
<1>16. CASE Fail({}) /\ UNCHANGED disk /\ UNCHANGED <<server, faults>>
  BY <1>1, <1>2, <1>16, SameCounts, FailNow
<1>17. UNCHANGED <<server, faults>> => Newer /\ HistoryType' /\ CountType' /\ UNCHANGED dropped
  BY <1>1, <1>2, SameServer, SameCounts
<1>. QED
  BY <1>8, <1>12, <1>13, <1>14, <1>15, <1>16, <1>17

-----------------------------------------------------------------------------
(* Passes that end                                                         *)

LEMMA EndStep ==
  ASSUME Newer, FolderType', MountType', HistoryType', CountType',
         NEW step \in {"idle", "poll", "scan"},
         NEW w \in {"none", "start", "flush", "poll", "audit"},
         Enter(step, w), \A p \in Path : Good(base[p], p)'
  PROVE  IInv'
<1>1. (Present(base) /\ Quiet(base) /\ \A p \in Path : In(base, p) => Had(base[p]))'
  BY GoodMeansBaseNext
<1>. QED
  BY <1>1, EnterStep DEF Newer

LEMMA ProceedStep ==
  ASSUME Newer, FolderType', MountType', HistoryType', CountType',
         Proceed \/ Enter("idle", "none"), \A p \in Path : Good(base[p], p)'
  PROVE  IInv'
<1>1. CASE Enter("idle", "none")
  BY <1>1, EndStep
<1>2. CASE Enter("poll", "poll")
  BY <1>2, EndStep
<1>3. CASE Enter("scan", "audit")
  BY <1>3, EndStep
<1>. QED
  BY <1>1, <1>2, <1>3 DEF Proceed

LEMMA StepEndFlush == IInv /\ EndFlush => IInv'
<1> SUFFICES ASSUME IInv, EndFlush PROVE IInv'
  OBVIOUS
<1>1. TypeOK /\ NodesInv
  BY DEF IInv
<1>2. /\ base' = work /\ Proceed
      /\ UNCHANGED <<server, folder, known, tracked, history, counts, faults>>
  BY DEF EndFlush
<1>3. Newer /\ FolderType' /\ HistoryType' /\ CountType' /\ UNCHANGED dropped
  BY <1>1, <1>2, SameServer, SameFolder, SameCounts
<1>4. MountType'
  BY <1>1, <1>2 DEF TypeOK, MountType, LocalsType
<1>5. Listed(page') \subseteq Listed(page) /\ dropped \subseteq dropped'
  BY <1>2, <1>3, EmptyListed DEF Proceed, Enter
<1>6. \A p \in Path : Here(p) => disk'[p] # NoFile
  BY <1>1, <1>2, SameFolder
<1>7. \A p \in Path : Good(base[p], p)'
  BY <1>2, <1>3, <1>5, <1>6, KeptBase
<1>. QED
  BY <1>2, <1>3, <1>4, <1>7, ProceedStep

\* A pass is over, and its page forgotten.
LEMMA PolledStep ==
  ASSUME IInv, NEW w \in Baseline, Polled(w), FolderType', \A p \in Path : Good(base[p], p)'
  PROVE  IInv'
<1>1. TypeOK /\ NodesInv
  BY DEF IInv
<1>2. /\ base' = w
      /\ journal' = (IF advance THEN late ELSE journal)
      /\ late' = <<>>
      /\ UNCHANGED <<node, receipts, stored, known, tracked, history, counts, faults>>
      /\ Enter("idle", "none")
  BY DEF Polled
<1>3. Newer
  BY <1>1, <1>2, SameNodes
<1>4. MountType' /\ HistoryType' /\ CountType'
  BY <1>1, <1>2, SameCounts DEF TypeOK, MountType
<1>. QED
  BY <1>2, <1>3, <1>4, EndStep

LEMMA PolledLater ==
  ASSUME IInv, NEW w, Polled(w)
  PROVE  /\ Newer /\ Listed(page') \subseteq Listed(page) /\ dropped \subseteq dropped'
         /\ base' = w /\ UNCHANGED node
<1>1. TypeOK /\ NodesInv
  BY DEF IInv
<1>2. /\ base' = w
      /\ journal' = (IF advance THEN late ELSE journal)
      /\ late' = <<>>
      /\ UNCHANGED <<node, receipts, stored, known, tracked, history, counts, faults>>
      /\ Enter("idle", "none")
  BY DEF Polled
<1>3. Newer
  BY <1>1, <1>2, SameNodes
<1>. QED
  BY <1>2, <1>3, EmptyListed DEF Enter, history

LEMMA GoodWorkLater ==
  ASSUME IInv, Newer, Listed(page') \subseteq Listed(page), dropped \subseteq dropped',
         NEW p \in Path, Here(p) => disk'[p] # NoFile, base'[p] = work[p]
  PROVE  Good(base[p], p)'
<1>1. TypeOK
  BY DEF IInv
<1>2. PICK e : e = work[p]
  OBVIOUS
<1>3. Good(e, p) /\ e.node \in Node \cup {0}
  BY <1>1, <1>2, GoodWork, Typed
<1>4. Good(e, p)'
  BY <1>1, <1>3, GoodLater
<1>. QED
  BY <1>2, <1>4

LEMMA GoodBaseLater ==
  ASSUME IInv, Newer, Listed(page') \subseteq Listed(page), dropped \subseteq dropped',
         Pass \notin {"off", "slow", "sent"},
         NEW p \in Path, Here(p) => disk'[p] # NoFile, base'[p] = base[p]
  PROVE  Good(base[p], p)'
<1>1. TypeOK
  BY DEF IInv
<1>2. PICK e : e = base[p]
  OBVIOUS
<1>3. Good(e, p) /\ e.node \in Node \cup {0}
  BY <1>1, <1>2, GoodBase, Typed
<1>4. Good(e, p)'
  BY <1>1, <1>3, GoodLater
<1>. QED
  BY <1>2, <1>4

LEMMA StepEndPage == IInv /\ EndPage => IInv'
<1> SUFFICES ASSUME IInv, EndPage PROVE IInv'
  OBVIOUS
<1>1. Polled(work) /\ UNCHANGED folder /\ work \in Baseline /\ TypeOK
  BY DEF EndPage, IInv, TypeOK, LocalsType
<1>2. FolderType' /\ \A p \in Path : Here(p) => disk'[p] # NoFile
  BY <1>1, SameFolder
<1>3. base' = work
  BY <1>1 DEF Polled
<1>4. Newer /\ Listed(page') \subseteq Listed(page) /\ dropped \subseteq dropped'
  <2>1. PICK w : w = work
    OBVIOUS
  <2>2. Polled(w)
    BY <1>1, <2>1
  <2>. QED
    BY <2>2, PolledLater
<1>5. \A p \in Path : Good(base[p], p)'
  BY <1>2, <1>3, <1>4, GoodWorkLater
<1>. QED
  BY <1>1, <1>2, <1>5, PolledStep

LEMMA StepPrune == IInv /\ Prune => IInv'
<1> SUFFICES ASSUME IInv, Prune PROVE IInv'
  OBVIOUS
<1>1. TypeOK /\ work \in Baseline /\ disk \in [Path -> File]
  BY DEF IInv, TypeOK, LocalsType, FolderType
<1>2. PICK w : w = [p \in Path |-> IF p \in Pruned THEN NoEntry ELSE work[p]]
  OBVIOUS
<1>3. /\ disk' = [p \in Path |-> IF p \in Pruned THEN NoFile ELSE disk[p]]
      /\ events' = Noted({p \in Pruned : Here(p)})
      /\ Polled(w)
  BY <1>2 DEF Prune, Without
<1>4. w \in Baseline
  BY <1>1, <1>2, Empty DEF Baseline
<1>5. Newer /\ Listed(page') \subseteq Listed(page) /\ dropped \subseteq dropped' /\ base' = w
  BY <1>3, PolledLater
<1>6. FolderType'
  <2>1. disk' \in [Path -> File]
    BY <1>1, <1>3, Empty
  <2>2. {p \in Pruned : Here(p)} \in SUBSET Path
    BY DEF Pruned
  <2>. QED
    BY <1>1, <1>3, <2>1, <2>2, NotedType DEF FolderType
<1>7. ASSUME NEW p \in Path PROVE Good(base[p], p)'
  <2>1. CASE p \in Pruned
    BY <1>2, <1>5, <2>1, Empty DEF Good
  <2>2. CASE p \notin Pruned
    <3>1. base'[p] = work[p] /\ disk'[p] = disk[p]
      BY <1>2, <1>3, <1>5, <2>2
    <3>. QED
      BY <1>5, <3>1, GoodWorkLater DEF Here
  <2>. QED
    BY <2>1, <2>2
<1>. QED
  BY <1>3, <1>4, <1>6, <1>7, PolledStep

LEMMA ChangeOfFacts ==
  ASSUME TypeOK, RevsInv, NEW p \in Path, OnPage(p)
  PROVE  ChangeOf(p) \in Listed(page) /\ ChangeOf(p) \in Seens /\ Had(ChangeOf(p)) /\ ChangeOf(p).path = p
<1>1. \E i \in DOMAIN page : page[i].path = p
  BY DEF OnPage
<1>2. PICK i \in DOMAIN page : ChangeOf(p) = page[i] /\ page[i].path = p
  BY <1>1 DEF ChangeOf
<1>3. ChangeOf(p) \in Listed(page)
  BY <1>2 DEF Listed
<1>. QED
  BY <1>2, <1>3, Typed DEF RevsInv

\* The file and the entry of what a client has seen of a node.
LEMMA SeenEntry ==
  ASSUME TypeOK, Newer, NEW p \in Path, NEW c \in Seens, Had(c), NEW s,
         base'[p] = Entry(c, s), disk'[p] # NoFile
  PROVE  Good(base[p], p)'
<1>1. c.node \in Node /\ c.rev \in 1..node[c.node].rev
  BY Typed DEF Had
<1>2. c.rev \in 1..node'[c.node].rev
  BY <1>1, Later
<1>3. base'[p].node = c.node /\ base'[p].rev = c.rev
  BY DEF Entry
<1>. QED
  BY <1>2, <1>3 DEF Good, Had, Here

LEMMA StepFastUpserts == IInv /\ FastUpserts => IInv'
<1> SUFFICES ASSUME IInv, FastUpserts PROVE IInv'
  OBVIOUS
<1>1. /\ TypeOK /\ base \in Baseline /\ disk \in [Path -> File] /\ RevsInv
      /\ Pass = "apply"
  BY PassIs DEF IInv, TypeOK, MountType, FolderType, FastUpserts, Sending
<1>2. PICK new : new = {p \in Path : OnPage(p) /\ ~(Here(p) /\ base[p].rev = ChangeOf(p).rev)}
  OBVIOUS
<1>3. PICK w : w = [p \in Path |-> IF p \in new THEN Fresh(ChangeOf(p)) ELSE base[p]]
  OBVIOUS
<1>4. /\ disk' = [p \in Path |-> IF p \in new THEN Placeholder(ChangeOf(p)) ELSE disk[p]]
      /\ Polled(w)
      /\ events' = Noted(new)
  <2>1. new = {p \in Path : Incoming(p)}
    BY <1>2 DEF Incoming
  <2>2. w = [p \in Path |-> IF Incoming(p) THEN Fresh(ChangeOf(p)) ELSE base[p]]
    BY <1>2, <1>3 DEF Incoming
  <2>3. Upserted = [p \in Path |-> IF p \in new THEN Placeholder(ChangeOf(p)) ELSE disk[p]]
    BY <1>2 DEF Incoming, Upserted
  <2>. QED
    BY <2>1, <2>2, <2>3 DEF FastUpserts
<1>5. \A p \in new : /\ p \in Path /\ ChangeOf(p) \in Seens /\ Had(ChangeOf(p))
                     /\ Placeholder(ChangeOf(p)) \in File /\ Placeholder(ChangeOf(p)) # NoFile
                     /\ \E s \in Stamp : Fresh(ChangeOf(p)) = Entry(ChangeOf(p), s)
  BY <1>1, <1>2, ChangeOfFacts, Placeholders
<1>6. w \in Baseline
  <2>1. \A p \in new : Fresh(ChangeOf(p)) \in [node : Node \cup {0}, rev : Nat, stamp : Stamp]
    BY <1>1, <1>5, Typed DEF Entry
  <2>. QED
    BY <1>1, <1>3, <2>1 DEF Baseline
<1>7. Newer /\ Listed(page') \subseteq Listed(page) /\ dropped \subseteq dropped' /\ base' = w
  BY <1>4, PolledLater
<1>8. FolderType'
  <2>1. disk' \in [Path -> File]
    BY <1>1, <1>4, <1>5
  <2>2. new \in SUBSET Path
    BY <1>2
  <2>. QED
    BY <1>1, <1>4, <2>1, <2>2, NotedType DEF FolderType
<1>9. ASSUME NEW p \in Path PROVE Good(base[p], p)'
  <2>1. CASE p \in new
    <3>1. PICK c \in Seens, s \in Stamp : c = ChangeOf(p) /\ Had(c) /\ Fresh(c) = Entry(c, s)
      BY <1>5, <2>1
    <3>2. base'[p] = Entry(c, s) /\ disk'[p] # NoFile
      BY <1>3, <1>4, <1>5, <1>7, <2>1, <3>1
    <3>. QED
      BY <1>1, <1>7, <3>1, <3>2, SeenEntry
  <2>2. CASE p \notin new
    <3>1. base'[p] = base[p] /\ disk'[p] = disk[p]
      BY <1>3, <1>4, <1>7, <2>2
    <3>. QED
      BY <1>1, <1>7, <3>1, GoodBaseLater DEF Here
  <2>. QED
    BY <2>1, <2>2
<1>. QED
  BY <1>4, <1>6, <1>8, <1>9, PolledStep

LEMMA StepFastDeletes == IInv /\ FastDeletes => IInv'
<1> SUFFICES ASSUME IInv, FastDeletes PROVE IInv'
  OBVIOUS
<1>1. /\ TypeOK /\ NodesInv /\ base \in Baseline /\ disk \in [Path -> File] /\ RevsInv
      /\ Pass = "apply"
  BY PassIs DEF IInv, TypeOK, MountType, FolderType, FastDeletes, Sending
<1>2. PICK w : w = [p \in Path |-> IF OnPage(p) THEN NoEntry ELSE base[p]]
  OBVIOUS
<1>3. CASE /\ disk' = [p \in Path |-> IF OnPage(p) THEN NoFile ELSE disk[p]]
           /\ Polled(w)
           /\ events' = Noted({p \in Path : OnPage(p) /\ Here(p)})
  <2>1. w \in Baseline
    BY <1>1, <1>2, Empty DEF Baseline
  <2>2. Newer /\ Listed(page') \subseteq Listed(page) /\ dropped \subseteq dropped' /\ base' = w
    BY <1>3, PolledLater
  <2>3. FolderType'
    <3>1. disk' \in [Path -> File]
      BY <1>1, <1>3, Empty
    <3>2. {p \in Path : OnPage(p) /\ Here(p)} \in SUBSET Path
      OBVIOUS
    <3>. QED
      BY <1>1, <1>3, <3>1, <3>2, NotedType DEF FolderType
  <2>4. ASSUME NEW p \in Path PROVE Good(base[p], p)'
    <3>1. CASE OnPage(p)
      BY <1>2, <2>2, <3>1, Empty DEF Good
    <3>2. CASE ~OnPage(p)
      <4>1. base'[p] = base[p] /\ disk'[p] = disk[p]
        BY <1>2, <1>3, <2>2, <3>2
      <4>. QED
        BY <1>1, <2>2, <4>1, GoodBaseLater DEF Here
    <3>. QED
      BY <3>1, <3>2
  <2>. QED
    BY <1>3, <2>1, <2>3, <2>4, PolledStep
<1>4. CASE /\ Enter("idle", "none")
           /\ UNCHANGED <<server, folder, mount, history, counts, faults>>
  <2>1. /\ Newer /\ FolderType' /\ HistoryType' /\ CountType'
        /\ dropped \subseteq dropped'
        /\ \A p \in Path : Here(p) => disk'[p] # NoFile
    BY <1>1, <1>4, SameServer, SameFolder, SameCounts
  <2>2. MountType' /\ base' = base
    BY <1>1, <1>4 DEF TypeOK, MountType, mount
  <2>3. Listed(page') \subseteq Listed(page)
    BY <1>4, EmptyListed DEF Enter
  <2>4. \A p \in Path : Good(base[p], p)'
    BY <1>1, <2>1, <2>2, <2>3, GoodBaseLater
  <2>. QED
    BY <1>4, <2>1, <2>2, <2>4, EndStep
<1>. QED
  <2>1. CASE /\ disk' = Without({p \in Path : OnPage(p)})
             /\ Polled([p \in Path |-> IF p \in {q \in Path : OnPage(q)} THEN NoEntry ELSE base[p]])
             /\ events' = Noted({p \in {q \in Path : OnPage(q)} : Here(p)})
    <3>1. disk' = [p \in Path |-> IF OnPage(p) THEN NoFile ELSE disk[p]]
      BY <2>1 DEF Without
    <3>2. w = [p \in Path |-> IF p \in {q \in Path : OnPage(q)} THEN NoEntry ELSE base[p]]
      BY <1>2
    <3>3. {p \in {q \in Path : OnPage(q)} : Here(p)} = {p \in Path : OnPage(p) /\ Here(p)}
      OBVIOUS
    <3>. QED
      BY <1>3, <2>1, <3>1, <3>2, <3>3
  <2>. QED
    BY <1>4, <2>1 DEF FastDeletes

LEMMA PulledType ==
  ASSUME TypeOK, NEW ps \in SUBSET Path
  PROVE  /\ Pulled(ps) \in [Path -> File] /\ Altered(ps) \in SUBSET Path
         /\ \A p \in Path : Seen(p) \/ p \notin ps =>
              (Here(p) \/ (p \in ps /\ ~Taken(p)) => Pulled(ps)[p] # NoFile)
<1>1. disk \in [Path -> File]
  BY DEF TypeOK, FolderType
<1>2. \A p \in Path : Seen(p) => Placeholder(snap[p]) \in File /\ Placeholder(snap[p]) # NoFile
  BY Typed, Placeholders
<1>3. \A p \in Path : Pulled(ps)[p] \in {Placeholder(snap[p]), NoFile, disk[p]}
                      /\ (p \in ps /\ Seen(p) /\ ~Taken(p) => Pulled(ps)[p] = Placeholder(snap[p]))
                      /\ (~(p \in ps /\ Seen(p) /\ ~Taken(p)) =>
                            Pulled(ps)[p] \in {NoFile, disk[p]})
                      /\ (Seen(p) /\ Taken(p) => Pulled(ps)[p] = disk[p])
                      /\ (p \notin ps => Pulled(ps)[p] = disk[p])
  BY DEF Pulled
<1>4. \A p \in Path : Pulled(ps)[p] \in File
  BY <1>1, <1>2, <1>3, Empty
<1>5. Pulled(ps) \in [Path -> File]
  BY <1>4 DEF Pulled
<1>. QED
  BY <1>2, <1>3, <1>5 DEF Altered, Here

LEMMA StepPull == IInv /\ Pull => IInv'
<1> SUFFICES ASSUME IInv, Pull PROVE IInv'
  OBVIOUS
<1>1. /\ TypeOK /\ NodesInv /\ RevsInv /\ Pass = "pull"
      /\ UNCHANGED <<server, history, counts, faults>>
  BY PassIs DEF IInv, Pull, Sending
<1>2. Newer /\ HistoryType' /\ CountType' /\ UNCHANGED dropped
  BY <1>1, SameServer, SameCounts
<1>3. CASE Blocked = {}
  <2>1. /\ disk' = Pulled(Path) /\ base' = Matched
        /\ UNCHANGED <<known, tracked>>
        /\ events' = Noted(Altered(Path))
        /\ Proceed \/ Enter("idle", "none")
    BY <1>3 DEF Pull
  <2>2. /\ disk' \in [Path -> File] /\ Altered(Path) \in SUBSET Path
        /\ \A p \in Path : Seen(p) => (Here(p) \/ ~Taken(p) => disk'[p] # NoFile)
    <3>1. Path \in SUBSET Path
      OBVIOUS
    <3>. QED
      BY <1>1, <2>1, <3>1, PulledType
  <2>3. FolderType'
    BY <1>1, <2>1, <2>2, NotedType DEF FolderType
  <2>4. \A p \in Path :
          \/ base'[p] = NoEntry
          \/ Seen(p) /\ \E s \in Stamp : base'[p] = Entry(snap[p], s)
    <3> SUFFICES ASSUME NEW p \in Path
                 PROVE \/ base'[p] = NoEntry
                       \/ Seen(p) /\ \E s \in Stamp : base'[p] = Entry(snap[p], s)
      OBVIOUS
    <3>1. CASE Seen(p) /\ Taken(p)
      <4>1. base'[p] = Entry(snap[p], work[p].stamp) /\ work[p].stamp \in Stamp
        BY <1>1, <2>1, <3>1, Typed DEF Matched
      <4>. QED
        BY <3>1, <4>1
    <3>2. CASE Seen(p) /\ ~Taken(p)
      <4>1. base'[p] = Fresh(snap[p])
        BY <2>1, <3>2 DEF Matched
      <4>2. \E s \in Stamp : Fresh(snap[p]) = Entry(snap[p], s)
        BY <1>1, <3>2, Typed, Placeholders
      <4>. QED
        BY <3>2, <4>1, <4>2
    <3>3. CASE ~Seen(p)
      BY <2>1, <3>3 DEF Matched
    <3>. QED
      BY <3>1, <3>2, <3>3
  <2>5. MountType'
    <3>1. \A p \in Path : base'[p] \in [node : Node \cup {0}, rev : Nat, stamp : Stamp]
      <4> SUFFICES ASSUME NEW p \in Path
                   PROVE base'[p] \in [node : Node \cup {0}, rev : Nat, stamp : Stamp]
        OBVIOUS
      <4>1. CASE base'[p] = NoEntry
        BY <4>1, Empty
      <4>2. ASSUME Seen(p), NEW s \in Stamp, base'[p] = Entry(snap[p], s)
            PROVE  base'[p] \in [node : Node \cup {0}, rev : Nat, stamp : Stamp]
        BY <1>1, <4>2, Typed DEF Entry
      <4>. QED
        BY <2>4, <4>1, <4>2
    <3>2. base' \in Baseline
      BY <2>1, <3>1 DEF Matched, Baseline
    <3>. QED
      BY <1>1, <2>1, <3>2 DEF TypeOK, MountType
  <2>6. ASSUME NEW p \in Path PROVE Good(base[p], p)'
    <3>1. CASE base'[p] = NoEntry
      BY <3>1, Empty DEF Good
    <3>2. CASE Seen(p) /\ \E s \in Stamp : base'[p] = Entry(snap[p], s)
      <4>1. PICK c \in Seens, s \in Stamp : c = snap[p] /\ base'[p] = Entry(c, s) /\ Had(c)
        BY <1>1, <3>2, Typed DEF RevsInv
      <4>2. disk'[p] # NoFile
        BY <2>2, <3>2 DEF Taken
      <4>. QED
        BY <1>1, <1>2, <4>1, <4>2, SeenEntry
    <3>. QED
      BY <2>4, <3>1, <3>2
  <2>. QED
    BY <1>2, <2>1, <2>3, <2>5, <2>6, ProceedStep
<1>4. CASE Blocked # {}
  <2>1. PICK before : before = Reached
    OBVIOUS
  <2>2. disk' = Pulled(before) /\ Fail(Altered(before)) /\ before \in SUBSET Path
    BY <1>4, <2>1 DEF Pull, Reached
  <2>3. /\ disk' \in [Path -> File] /\ Altered(before) \in SUBSET Path
        /\ \A p \in Path : Here(p) => disk'[p] # NoFile
    BY <1>1, <1>4, <2>1, <2>2, PulledType DEF Reached
  <2>. QED
    BY <1>2, <2>2, <2>3, FailStep
<1>. QED
  BY <1>3, <1>4

LEMMA StepAdopt == IInv /\ Adopt => IInv'
<1> SUFFICES ASSUME IInv, Adopt PROVE IInv'
  OBVIOUS
<1>1. /\ TypeOK /\ NodesInv /\ RevsInv /\ disk \in [Path -> File]
      /\ UNCHANGED <<server, events, tracked, history, counts, faults>>
      /\ known' = TRUE /\ Enter("idle", "none")
  BY DEF IInv, TypeOK, FolderType, Adopt
<1>2. Newer /\ HistoryType' /\ CountType' /\ UNCHANGED dropped
  BY <1>1, SameServer, SameCounts
<1>3. PICK d : d = [p \in Path |-> IF Seen(p) /\ ~Here(p)
                              THEN Placeholder(snap[p]) ELSE disk[p]]
  OBVIOUS
<1>4. /\ disk' = d
      /\ base' = [p \in Path |-> IF Seen(p) THEN Entry(snap[p], d[p].stamp) ELSE NoEntry]
  BY <1>3 DEF Adopt, Adopted
<1>5. \A p \in Path : d[p] \in File /\ (Seen(p) => d[p] # NoFile)
  <2>1. \A p \in Path : Seen(p) => Placeholder(snap[p]) \in File /\ Placeholder(snap[p]) # NoFile
    BY <1>1, Typed, Placeholders
  <2>. QED
    BY <1>1, <1>3, <2>1 DEF Here
<1>6. FolderType'
  <2>1. d \in [Path -> File]
    BY <1>3, <1>5
  <2>. QED
    BY <1>1, <1>4, <2>1 DEF TypeOK, FolderType
<1>7. MountType'
  <2>1. \A p \in Path : base'[p] \in [node : Node \cup {0}, rev : Nat, stamp : Stamp]
    <3> SUFFICES ASSUME NEW p \in Path
                 PROVE base'[p] \in [node : Node \cup {0}, rev : Nat, stamp : Stamp]
      OBVIOUS
    <3>1. CASE ~Seen(p)
      BY <1>4, <3>1, Empty
    <3>2. CASE Seen(p)
      <4>1. PICK s \in Stamp : s = d[p].stamp
        BY <1>5 DEF File
      <4>2. base'[p] = Entry(snap[p], s)
        BY <1>4, <3>2, <4>1
      <4>. QED
        BY <1>1, <3>2, <4>2, Typed DEF Entry
    <3>. QED
      BY <3>1, <3>2
  <2>2. base' \in Baseline
    BY <1>4, <2>1 DEF Baseline
  <2>. QED
    BY <1>1, <2>2 DEF TypeOK, MountType
<1>8. ASSUME NEW p \in Path PROVE Good(base[p], p)'
  <2>1. CASE ~Seen(p)
    BY <1>4, <2>1, Empty DEF Good
  <2>2. CASE Seen(p)
    <3>1. PICK c \in Seens : c = snap[p] /\ Had(c) /\ \E s : base'[p] = Entry(c, s)
      BY <1>1, <1>4, <2>2, Typed DEF RevsInv
    <3>3. PICK s : base'[p] = Entry(c, s)
      BY <3>1
    <3>2. disk'[p] # NoFile
      BY <1>4, <1>5, <2>2
    <3>. QED
      BY <1>1, <1>2, <3>1, <3>2, <3>3, SeenEntry
  <2>. QED
    BY <2>1, <2>2
<1>. QED
  BY <1>1, <1>2, <1>6, <1>7, <1>8, EndStep

-----------------------------------------------------------------------------
(* Passes and parts of passes that begin                                   *)

LEMMA BeginStep ==
  ASSUME IInv, Newer, TypeOK', UNCHANGED <<disk, base, dropped, node>>,
         job' = NoJob, gone' = {},
         pc' \in {"first", "place", "scan", "add", "pull", "apply", "slow", "list",
                  "match", "local"},
         work' = base \/ (work' = work /\ pc' \in Working => Pass \in Working),
         work' \in {base, work},
         \/ Pending' = {}
         \/ Pending' \subseteq Pending /\ Pass \notin {"off", "slow", "sent"},
         \A p \in Path : Seen(p)' => /\ Had(snap[p])'
                                     /\ snap'[p].live /\ snap'[p].path = p,
         \A c \in Listed(page') : c.rev \in 1..node[c.node].rev,
         pc' = "match" => \A p \in todo' : Seen(p)',
         PageInv', SnapInv', ScanInv'
  PROVE  IInv'
<1>1. /\ TypeOK /\ RevsInv /\ PresentInv /\ QuietInv /\ WorkInv
  BY DEF IInv
<1>2. Pass' = pc' /\ pc' \notin Sending
  BY DEF Pass, Sending
<1>3. RevsInv'
  <2>1. \A p \in Path : In(base, p)' => Had(base[p])'
    BY <1>1 DEF RevsInv, In, Had
  <2>2. \A p \in Path : In(work, p)' => Had(work[p])'
    BY <1>1 DEF RevsInv, In, Had
  <2>3. \A c \in Listed(page') : Had(c)'
    BY DEF Had
  <2>. QED
    BY <2>1, <2>2, <2>3 DEF RevsInv
<1>4. ControlInv'
  BY <1>2 DEF ControlInv
<1>5. PresentInv'
  BY <1>1 DEF PresentInv, Present, Stands, In, Current, Here
<1>6. QuietInv'
  <2>1. CASE Pending' = {}
    BY <2>1 DEF QuietInv, Quiet
  <2>2. CASE Pending' \subseteq Pending /\ Pass \notin {"off", "slow", "sent"}
    BY <1>1, <2>2 DEF QuietInv, Quiet, In, Current, Here
  <2>. QED
    BY <2>1, <2>2
<1>7. WorkInv'
  <2>1. CASE work' = base
    BY <2>1 DEF WorkInv, AsBase
  <2>2. CASE work' = work /\ (pc' \in Working => Pass \in Working)
    BY <1>1, <1>2, <2>2 DEF WorkInv, AsBase, Stands, In, Current
  <2>. QED
    BY <2>1, <2>2
<1>8. GoneInv' /\ MissingInv'
  BY <1>2 DEF GoneInv, MissingInv
<1>. QED
  BY <1>3, <1>4, <1>5, <1>6, <1>7, <1>8 DEF IInv, Newer

\* What a listing shows of a name.
LEMMA ViewFacts ==
  ASSUME TypeOK, NodesInv, NEW p \in Path, View[p] # Nobody
  PROVE  /\ View[p] \in Seens /\ Had(View[p]) /\ View[p].live /\ View[p].path = p
         /\ \A n \in Node : node[n].live /\ node[n].path = p
                              => View[p].node = n /\ View[p].rev = node[n].rev
<1>1. LiveAt(p) # {} /\ View[p] = Change(CHOOSE n \in LiveAt(p) : TRUE)
  BY DEF View
<1>2. PICK n \in LiveAt(p) : View[p] = Change(n)
  BY <1>1
<1>3. n \in Node /\ node[n].live /\ node[n].path = p
  BY <1>2 DEF LiveAt
<1>4. node[n].rev \in 1..node[n].rev
  BY <1>3, LiveHad
<1>5. /\ Change(n).node = n /\ Change(n).rev = node[n].rev /\ Change(n).live = node[n].live
      /\ Change(n).path = p
  BY <1>3 DEF Change
<1>6. Change(n) \in Seens
  BY <1>3, Typed DEF Change, Seens
<1>7. \A m \in Node : node[m].live /\ node[m].path = p => m = n
  BY <1>3 DEF NodesInv
<1>. QED
  BY <1>2, <1>3, <1>4, <1>5, <1>6, <1>7 DEF Had

LEMMA WalkStep ==
  ASSUME IInv, NEW step \in {"place", "pull", "match"}, NEW w \in {base, work},
         NEW ps \in SUBSET Path, Walk(step, w, ps),
         Pass \notin {"off", "slow", "sent", "local"} \cup Sending, job = NoJob,
         w = base \/ (step \in Working => Pass \in Working),
         step = "match" => ps = {p \in Path : View[p] # Nobody}
  PROVE  IInv'
<1>1. TypeOK /\ NodesInv /\ RevsInv /\ GoneInv
  BY DEF IInv
<1>2. /\ snap' = View /\ work' = w /\ todo' = ps /\ pc' = step
      /\ UNCHANGED <<server, folder, mount, why, batch, moves, gone, scan, page,
                     advance, job, history, counts, faults>>
  BY DEF Walk
<1>3. /\ Newer /\ FolderType' /\ HistoryType' /\ CountType'
      /\ UNCHANGED <<disk, base, known, tracked, dropped, node, journal, late>>
  BY <1>1, <1>2, SameServer, SameFolder, SameCounts DEF folder, mount, server
<1>4. \A p \in Path : Seen(p)' =>
        /\ View[p] \in Seens /\ Had(View[p]) /\ View[p].live /\ View[p].path = p
        /\ \A n \in Node : node[n].live /\ node[n].path = p
                              => View[p].node = n /\ View[p].rev = node[n].rev
  BY <1>1, <1>2, ViewFacts DEF Seen
<1>5. TypeOK'
  <2>1. snap' \in [Path -> Seens \cup {Nobody}]
    <3>1. \A p \in Path : View[p] \in Seens \cup {Nobody}
      BY <1>1, ViewFacts
    <3>. QED
      BY <1>2, <3>1 DEF View
  <2>2. LocalsType'
    BY <1>1, <1>2, <2>1 DEF TypeOK, LocalsType, MountType
  <2>3. MountType'
    BY <1>1, <1>3 DEF TypeOK, MountType
  <2>. QED
    BY <1>1, <1>2, <1>3, <2>2, <2>3 DEF TypeOK, Newer, Steps, Working
<1>6. Pass' = step
  BY <1>2 DEF Pass
<1>7. PageInv' /\ ScanInv'
  BY <1>6 DEF PageInv, ScanInv
<1>8. SnapInv'
  <2> SUFFICES ASSUME NEW p \in Path, Stands(base, p)'
               PROVE Seen(p)' /\ AsBase(snap[p], p)'
    BY DEF SnapInv
  <2>1. /\ base[p].node \in Node /\ node[base[p].node].live /\ node[base[p].node].path = p
        /\ node[base[p].node].rev = base[p].rev
    BY <1>1, <1>3, Typed DEF Stands, In, Current
  <2>2. Seen(p)'
    <3>1. LiveAt(p) # {}
      BY <2>1 DEF LiveAt
    <3>2. PICK n : n = CHOOSE m \in LiveAt(p) : TRUE
      OBVIOUS
    <3>3. n \in Node /\ node[n].live /\ View[p] = Change(n)
      BY <3>1, <3>2 DEF LiveAt, View
    <3>4. Change(n).live /\ ~Nobody.live
      BY <3>3 DEF Change, Nobody
    <3>. QED
      BY <1>2, <3>3, <3>4 DEF Seen
  <2>. QED
    BY <1>2, <1>3, <1>4, <2>1, <2>2 DEF AsBase
<1>9. gone' = {} /\ Pending' \subseteq Pending
  BY <1>1, <1>2, <1>3 DEF GoneInv, Pending
<1>10. /\ \A p \in Path : Seen(p)' => /\ Had(snap[p])'
                                     /\ snap'[p].live /\ snap'[p].path = p
       /\ \A c \in Listed(page') : c.rev \in 1..node[c.node].rev
  BY <1>1, <1>2, <1>3, <1>4 DEF Had, RevsInv
<1>11. pc' = "match" => \A p \in todo' : Seen(p)'
  BY <1>2 DEF Seen
<1>. QED
  BY <1>2, <1>3, <1>5, <1>7, <1>8, <1>9, <1>10, <1>11, BeginStep

LEMMA StepListFirst == IInv /\ ListFirst => IInv'
<1> SUFFICES ASSUME IInv, ListFirst PROVE IInv'
  OBVIOUS
<1>1. pc = "first" /\ Walk("place", base, {})
  BY DEF ListFirst
<1>2. Pass = "first" /\ job = NoJob
  BY <1>1, PassIs DEF Sending, IInv, ControlInv
<1>3. {} \in SUBSET Path
  OBVIOUS
<1>. QED
  BY <1>1, <1>2, <1>3, WalkStep DEF Sending

LEMMA StepWalkAudit == IInv /\ WalkAudit => IInv'
<1> SUFFICES ASSUME IInv, WalkAudit PROVE IInv'
  OBVIOUS
<1>1. pc = "walk" /\ Walk("pull", work, {})
  BY DEF WalkAudit
<1>2. Pass = "walk" /\ job = NoJob
  BY <1>1, PassIs DEF Sending, IInv, ControlInv
<1>3. {} \in SUBSET Path
  OBVIOUS
<1>. QED
  BY <1>1, <1>2, <1>3, WalkStep DEF Sending, Working

LEMMA StepList == IInv /\ List => IInv'
<1> SUFFICES ASSUME IInv, List PROVE IInv'
  OBVIOUS
<1>1. pc = "list" /\ Walk("match", base, {p \in Path : View[p] # Nobody})
  BY DEF List
<1>2. Pass = "list" /\ job = NoJob
  BY <1>1, PassIs DEF Sending, IInv, ControlInv
<1>. QED
  BY <1>1, <1>2, WalkStep DEF Sending

-----------------------------------------------------------------------------
(* The mount starts, an audit or a page begins                             *)

\* A step that leaves page and listing alone, and enters none of their loops.
LEMMA SetOut ==
  ASSUME IInv, Newer, TypeOK', UNCHANGED <<disk, base, dropped, node, snap, page>>,
         job' = NoJob, gone' = {}, work' \in {base, work},
         pc' \in {"first", "scan", "list", "local", "add"},
         pc' \in Working => work' = base,
         ScanInv',
         \/ Pending' = {}
         \/ Pending' \subseteq Pending /\ Pass \notin {"off", "slow", "sent"}
  PROVE  IInv'
<1>1. RevsInv
  BY DEF IInv
<1>2. Pass' = pc'
  BY DEF Pass
<1>3. PageInv' /\ SnapInv'
  BY <1>2 DEF PageInv, SnapInv
<1>4. /\ \A p \in Path : Seen(p)' => /\ Had(snap[p])'
                                     /\ snap'[p].live /\ snap'[p].path = p
      /\ \A c \in Listed(page') : c.rev \in 1..node[c.node].rev
  BY <1>1 DEF RevsInv, Seen, Had
<1>5. work' = base \/ (work' = work /\ pc' \in Working => Pass \in Working)
  OBVIOUS
<1>. QED
  BY <1>3, <1>4, <1>5, BeginStep

LEMMA StepStart == IInv /\ Start => IInv'
<1> SUFFICES ASSUME IInv, Start PROVE IInv'
  OBVIOUS
<1>1. TypeOK /\ NodesInv /\ ControlInv /\ GoneInv
  BY DEF IInv
<1>2. /\ pc = "off" /\ tracked' \in BOOLEAN /\ journal' = <<>> /\ late' = <<>>
      /\ pc' \in {"scan", "first"} /\ why' = "start" /\ watched' = {} /\ due' = {}
      /\ UNCHANGED <<node, receipts, stored, base, known, dropped>>
      /\ UNCHANGED folder /\ UNCHANGED counts /\ (UNCHANGED faults \/ Lost)
  BY DEF Start
<1>3. UNCHANGED <<batch, work, moves, todo, gone, scan, snap, page, advance, job>>
  BY DEF Start, locals
<1>4. Pass = "off" /\ job = NoJob /\ page = <<>> /\ gone = {}
  BY <1>1, <1>2, PassIs DEF Sending, ControlInv, GoneInv
<1>5. Newer
  BY <1>1, <1>2, SameNodes
<1>6. TypeOK'
  <2>1. FolderType' /\ MountType' /\ LocalsType'
    BY <1>1, <1>2, <1>3, SameFolder DEF TypeOK, MountType, LocalsType
  <2>2. HistoryType'
    BY <1>1, <1>2 DEF TypeOK, HistoryType
  <2>3. CountType'
    BY <1>1, <1>2 DEF TypeOK, CountType, counts, Lost
  <2>. QED
    BY <1>2, <1>5, <2>1, <2>2, <2>3 DEF TypeOK, Newer, Steps
<1>7. Pending' = {}
  BY <1>2, <1>3, <1>4, EmptyListed DEF Pending
<1>8. ScanInv'
  BY <1>2, <1>3, <1>4 DEF ScanInv, Pass
<1>9. UNCHANGED disk
  BY <1>2 DEF folder
<1>. QED
  BY <1>2, <1>3, <1>4, <1>5, <1>6, <1>7, <1>8, <1>9, SetOut DEF Working

LEMMA StepScan == IInv /\ Scan => IInv'
<1> SUFFICES ASSUME IInv, Scan PROVE IInv'
  OBVIOUS
<1>1. TypeOK /\ NodesInv /\ ControlInv /\ GoneInv /\ PresentInv
  BY DEF IInv
<1>2. /\ pc = "scan" /\ scan' = disk /\ work' = base
      /\ todo' = {p \in Path : Here(p)} /\ pc' = "add"
      /\ due' \subseteq due \cup (1..MaxWrites)
      /\ UNCHANGED <<server, folder, mount>>
      /\ UNCHANGED <<why, batch, moves, gone, snap, page, advance, job>>
      /\ UNCHANGED <<watched, dropped, counts, faults>>
  BY DEF Scan
<1>3. Pass = "scan" /\ job = NoJob /\ gone = {}
  BY <1>1, <1>2, PassIs DEF Sending, ControlInv, GoneInv
<1>4. /\ Newer /\ FolderType'
      /\ UNCHANGED <<disk, base, known, tracked, node, journal, late>>
  BY <1>1, <1>2, SameServer, SameFolder DEF server, folder, mount
<1>5. TypeOK'
  <2>1. scan' \in [Path -> File] /\ work' \in Baseline /\ todo' \subseteq Path
    BY <1>1, <1>2 DEF TypeOK, FolderType, MountType
  <2>2. LocalsType'
    BY <1>1, <1>2, <2>1 DEF TypeOK, LocalsType
  <2>3. MountType'
    BY <1>1, <1>4 DEF TypeOK, MountType
  <2>4. HistoryType'
    BY <1>1, <1>2 DEF TypeOK, HistoryType
  <2>5. CountType'
    BY <1>1, <1>2 DEF TypeOK, CountType, counts
  <2>. QED
    BY <1>1, <1>2, <1>4, <2>2, <2>3, <2>4, <2>5 DEF TypeOK, Newer, Steps, Working
<1>6. Pending' \subseteq Pending
  BY <1>2, <1>4 DEF Pending
<1>7. ScanInv'
  <2>1. \A p \in todo' : scan'[p] # NoFile
    BY <1>2 DEF Here
  <2>2. pc' \notin Sending
    BY <1>2 DEF Sending
  <2>3. \A p \in Path : scan'[p] = NoFile => UsersAt(p)'
    BY <1>1, <1>2, <1>4 DEF UsersAt, PresentInv, Present, Stands, In, Current, Here
  <2>. QED
    BY <2>1, <2>2, <2>3 DEF ScanInv
<1>. QED
  BY <1>2, <1>3, <1>4, <1>5, <1>6, <1>7, SetOut

LEMMA StepSlow == IInv /\ Slow => IInv'
<1> SUFFICES ASSUME IInv, Slow PROVE IInv'
  OBVIOUS
<1>1. TypeOK /\ NodesInv /\ RevsInv /\ ControlInv /\ GoneInv /\ PageInv
  BY DEF IInv
<1>2. /\ pc = "apply" /\ work' = base /\ pc' = "slow"
      /\ UNCHANGED <<server, folder, mount>>
      /\ UNCHANGED <<why, batch, moves, todo, gone, scan, snap, page, advance, job>>
      /\ UNCHANGED <<history, counts, faults>>
  BY DEF Slow
<1>3. Pass = "apply" /\ job = NoJob /\ gone = {} /\ Pass' = "slow"
  BY <1>1, <1>2, PassIs DEF Sending, ControlInv, GoneInv, Pass
<1>4. /\ Newer /\ FolderType' /\ HistoryType' /\ CountType'
      /\ UNCHANGED <<disk, base, known, tracked, node, journal, late, dropped>>
  BY <1>1, <1>2, SameServer, SameFolder, SameCounts DEF server, folder, mount
<1>5. TypeOK'
  <2>1. LocalsType'
    BY <1>1, <1>2 DEF TypeOK, LocalsType, MountType
  <2>2. MountType'
    BY <1>1, <1>4 DEF TypeOK, MountType
  <2>. QED
    BY <1>1, <1>2, <1>4, <2>1, <2>2 DEF TypeOK, Newer, Steps, Working
<1>6. Pending' \subseteq Pending
  BY <1>2, <1>4 DEF Pending
<1>7. PageInv' /\ SnapInv' /\ ScanInv'
  <2>1. PageInv'
    BY <1>1, <1>2, <1>3, <1>4 DEF PageInv, Stands, In, Current, AsBase
  <2>. QED
    BY <1>3, <2>1 DEF SnapInv, ScanInv
<1>8. /\ \A p \in Path : Seen(p)' => /\ Had(snap[p])'
                                     /\ snap'[p].live /\ snap'[p].path = p
      /\ \A c \in Listed(page') : c.rev \in 1..node[c.node].rev
  BY <1>1, <1>2, <1>4 DEF RevsInv, Seen, Had
<1>. QED
  BY <1>2, <1>3, <1>4, <1>5, <1>6, <1>7, <1>8, BeginStep

\* A node has one name, and what the page says of it is what the server has.
LEMMA ChangeFacts ==
  ASSUME TypeOK, NodesInv, NEW n \in Node, node[n].rev # 0
  PROVE  /\ Change(n) \in Seens /\ Change(n).rev \in 1..node[Change(n).node].rev
         /\ Change(n).node = n /\ Change(n).rev = node[n].rev
         /\ Change(n).live = node[n].live /\ Change(n).path = node[n].path
<1>1. /\ node[n].path \in Path /\ node[n].rev \in Nat /\ node[n].bytes \in 0..MaxWrites
      /\ node[n].live \in BOOLEAN
  BY Typed DEF NodesInv
<1>2. node[n].rev \in 1..node[n].rev
  BY <1>1
<1>. QED
  BY <1>1, <1>2 DEF Change, Seens

LEMMA StepRequest == IInv /\ Request => IInv'
<1> SUFFICES ASSUME IInv, Request PROVE IInv'
  OBVIOUS
<1>1. TypeOK /\ NodesInv /\ RevsInv /\ ControlInv /\ GoneInv
  BY DEF IInv
<1>2. /\ pc = "poll" /\ late' = <<>>
      /\ UNCHANGED <<node, journal, receipts, stored>>
      /\ UNCHANGED folder /\ UNCHANGED mount /\ UNCHANGED history /\ UNCHANGED counts
      /\ UNCHANGED faults \/ Lost
  BY DEF Request
<1>3. Pass = "poll" /\ job = NoJob /\ gone = {}
  BY <1>1, <1>2, PassIs DEF Sending, ControlInv, GoneInv
<1>4. /\ Newer /\ FolderType' /\ HistoryType' /\ CountType'
      /\ UNCHANGED <<disk, base, known, tracked, dropped>>
      /\ MountType'
  BY <1>1, <1>2, SameNodes, SameFolder, SameCounts DEF folder, mount, TypeOK, MountType
<1>5. CASE Enter("idle", "none")
  <2>1. page' = <<>>
    BY <1>5 DEF Enter
  <2>2. \A p \in Path : Good(base[p], p)'
    BY <1>3, <1>4, <2>1, EmptyListed, GoodBaseLater DEF Here
  <2>. QED
    BY <1>4, <1>5, <2>2, EndStep
<1>6. CASE /\ page' = [i \in 1..Len(journal) |-> Change(journal[i])]
           /\ advance' = TRUE
           /\ pc' = "apply"
           /\ UNCHANGED <<why, batch, work, moves, todo, gone, scan, snap, job>>
  <2>1. Len(journal) \in Nat /\ DOMAIN journal = 1..Len(journal)
        /\ \A i \in 1..Len(journal) : journal[i] \in Node /\ node[journal[i]].rev # 0
    BY <1>1 DEF TypeOK, ServerType, NodesInv, Listed
  <2>2. \A i \in 1..Len(journal) :
          /\ page'[i] = Change(journal[i]) /\ journal[i] \in Listed(journal)
          /\ page'[i] \in Seens /\ page'[i].rev \in 1..node[page'[i].node].rev
          /\ page'[i].node = journal[i] /\ page'[i].rev = node[page'[i].node].rev
          /\ page'[i].live = node[page'[i].node].live
          /\ page'[i].path = node[page'[i].node].path
    BY <1>1, <1>6, <2>1, ChangeFacts DEF Listed
  <2>3. page' \in Seq(Seens)
    <3>1. page' \in [1..Len(journal) -> Seens]
      BY <1>6, <2>2
    <3>. QED
      BY <2>1, <3>1
  <2>4. DOMAIN page' = 1..Len(journal)
    BY <1>6
  <2>5. \A c \in Listed(page') :
          /\ c.node \in Listed(journal) /\ c.node \in Node
          /\ c.rev \in 1..node[c.node].rev /\ c.rev = node[c.node].rev
          /\ c.live = node[c.node].live /\ c.path = node[c.node].path
    BY <2>1, <2>2, <2>4 DEF Listed
  <2>6. TypeOK'
    <3>1. LocalsType'
      BY <1>1, <1>6, <2>3 DEF TypeOK, LocalsType
    <3>. QED
      BY <1>1, <1>4, <1>6, <3>1 DEF TypeOK, Newer, Steps
  <2>7. Pending' \subseteq Pending
    BY <1>2, <2>5, EmptyListed DEF Pending
  <2>8. Pass' = "apply"
    BY <1>3, <1>6 DEF Pass
  <2>9. PageInv'
    <3> SUFFICES ASSUME NEW p \in Path, NEW c \in Listed(page'), Stands(base, p)',
                        c.node = base[p].node \/ (c.live /\ c.path = p)
                 PROVE  c.node = base[p].node /\ c.rev = base[p].rev /\ c.live
                        /\ c.path = p
      BY <1>4 DEF PageInv, AsBase
    <3>1. /\ base[p].node \in Node /\ node[base[p].node].live
          /\ node[base[p].node].path = p /\ node[base[p].node].rev = base[p].rev
      BY <1>1, <1>2, <1>4, Typed DEF Stands, In, Current
    <3>2. c.node = base[p].node
      BY <1>1, <2>5, <3>1 DEF NodesInv
    <3>. QED
      BY <2>5, <3>1, <3>2
  <2>10. SnapInv' /\ ScanInv'
    BY <2>8 DEF SnapInv, ScanInv
  <2>11. \A p \in Path : Seen(p)' => /\ Had(snap[p])'
                                     /\ snap'[p].live /\ snap'[p].path = p
    BY <1>1, <1>2, <1>6 DEF RevsInv, Seen, Had
  <2>12. work' = work /\ pc' \notin Working
    BY <1>6 DEF Working
  <2>. QED
    BY <1>2, <1>3, <1>4, <1>6, <2>5, <2>6, <2>7, <2>9, <2>10, <2>11, <2>12, BeginStep
<1>7. CASE pc' = "list" /\ UNCHANGED <<why, locals>>
  <2>1. UNCHANGED <<batch, work, moves, todo, gone, scan, snap, page, advance, job>>
    BY <1>7 DEF locals
  <2>2. TypeOK'
    <3>1. LocalsType'
      BY <1>1, <2>1 DEF TypeOK, LocalsType
    <3>. QED
      BY <1>1, <1>4, <1>7, <3>1 DEF TypeOK, Newer, Steps
  <2>3. Pending' \subseteq Pending
    BY <1>2, <2>1, EmptyListed DEF Pending
  <2>4. ScanInv'
    BY <1>3, <1>7, <2>1 DEF ScanInv, Pass
  <2>. QED
    BY <1>2, <1>3, <1>4, <1>7, <2>1, <2>2, <2>3, <2>4, SetOut DEF Working
<1>. QED
  BY <1>5, <1>6, <1>7 DEF Request

LEMMA StepWake == IInv /\ (\E w \in Ticks : Wake(w)) => IInv'
<1> SUFFICES ASSUME IInv, NEW w \in Ticks, Wake(w) PROVE IInv'
  OBVIOUS
<1>1. TypeOK /\ NodesInv /\ RevsInv /\ ControlInv /\ GoneInv
  BY DEF IInv
<1>2. /\ pc = "idle" /\ due' = watched /\ w \in {"flush", "poll", "audit"}
      /\ w = "flush" => events # NoEvents
      /\ UNCHANGED <<disk, watched, dropped, faults>>
      /\ UNCHANGED server /\ UNCHANGED mount /\ UNCHANGED counts
  BY Bounds DEF Wake
<1>3. Pass = "idle" /\ job = NoJob /\ gone = {} /\ page = <<>>
  BY <1>1, <1>2, PassIs DEF Sending, ControlInv, GoneInv
<1>4. events' \in Reported
  BY <1>1, Empty DEF TypeOK, FolderType, Wake
<1>5. /\ Newer /\ FolderType' /\ HistoryType' /\ CountType' /\ MountType'
      /\ UNCHANGED <<base, node, journal, late, known, tracked>>
  <2>1. Newer
    BY <1>1, <1>2, SameServer
  <2>2. FolderType'
    BY <1>1, <1>2, <1>4 DEF TypeOK, FolderType
  <2>3. HistoryType'
    BY <1>1, <1>2 DEF TypeOK, HistoryType
  <2>4. CountType'
    BY <1>1, <1>2 DEF TypeOK, CountType, counts
  <2>5. MountType' /\ UNCHANGED <<base, node, journal, late, known, tracked>>
    BY <1>1, <1>2 DEF TypeOK, MountType, mount, server
  <2>. QED
    BY <2>1, <2>2, <2>3, <2>4, <2>5
<1>6. CASE events = NoEvents
  <2>1. PICK step \in {"poll", "scan"} : Enter(step, w)
    BY <1>6 DEF Wake
  <2>2. page' = <<>>
    BY <2>1 DEF Enter
  <2>3. \A p \in Path : Good(base[p], p)'
    BY <1>2, <1>3, <1>5, <2>2, EmptyListed, GoodBaseLater DEF Here
  <2>. QED
    BY <1>2, <1>5, <2>1, <2>3, EndStep
<1>7. CASE events # NoEvents
  <2>1. /\ batch' = events /\ why' = w
        /\ UNCHANGED <<gone, scan, snap, page, advance, job>>
    BY <1>7 DEF Wake
  <2>2. \/ pc' = "scan" /\ UNCHANGED <<work, moves, todo>>
        \/ /\ pc' = "local" /\ work' = base /\ moves' = events.renames
           /\ todo' = events.paths \ {m[1] : m \in events.renames}
    BY <1>7 DEF Wake
  <2>3. LocalsType'
    <3>1. events \in Reported /\ events.paths \subseteq Path
          /\ events.renames \subseteq Path \X Path
      BY <1>1 DEF TypeOK, FolderType, Reported
    <3>. QED
      BY <1>1, <2>1, <2>2, <3>1 DEF TypeOK, LocalsType, MountType
  <2>4. TypeOK'
    BY <1>2, <1>5, <2>1, <2>2, <2>3 DEF TypeOK, Newer, Steps, Working
  <2>5. Pending' \subseteq Pending
    BY <1>5, <2>1 DEF Pending
  <2>6. ScanInv'
    BY <1>3, <2>1, <2>2 DEF ScanInv, Pass
  <2>. QED
    BY <1>2, <1>3, <1>5, <2>1, <2>2, <2>4, <2>5, <2>6, SetOut DEF Working
<1>. QED
  BY <1>6, <1>7

-----------------------------------------------------------------------------
(* A crash: what is replaced or removed is not in force, or was taken away *)

\* What a pass that removes or replaces what is not as it saw it can touch.
LEMMA Unlisted ==
  ASSUME IInv, Pass \in {"pull", "match"}, NEW p \in Path,
         ~Seen(p) \/ ~In(work, p) \/ work[p].rev # snap[p].rev
  PROVE  Stands(base, p) => base[p].node \in dropped
<1>1. WorkInv /\ SnapInv
  BY DEF IInv
<1>2. Stands(base, p) /\ base[p].node \notin dropped =>
        /\ AsBase(work[p], p) /\ Seen(p) /\ AsBase(snap[p], p)
        /\ In(base, p)
  BY <1>1 DEF WorkInv, SnapInv, Working, Stands
<1>. QED
  BY <1>2 DEF AsBase, In

LEMMA PlacedType ==
  ASSUME TypeOK, NEW q \in Path, NEW c \in Seens, NEW p \in Path
  PROVE  Placed(q, c)[p] \in File /\ (p # q => Placed(q, c)[p] = disk[p])
<1>1. PICK f \in File : f = Placeholder(c)
  BY Placeholders
<1>2. disk \in [Path -> File]
  BY DEF TypeOK, FolderType
<1>. QED
  BY <1>1, <1>2 DEF Placed

LEMMA WithoutType ==
  ASSUME TypeOK, NEW ps, NEW p \in Path
  PROVE  Without(ps)[p] \in File /\ (p \notin ps => Without(ps)[p] = disk[p])
BY Empty DEF TypeOK, FolderType, Without

Excused(d, p) ==
  /\ d[p] \in File
  /\ Here(p) /\ d[p] # disk[p] /\ Stands(base, p) => base[p].node \in dropped

LEMMA DiskExcused == IInv => \A p \in Path : Excused(disk, p)
BY DEF Excused, IInv, TypeOK, FolderType

LEMMA RefreshExcused ==
  ASSUME IInv, pc = "refresh", node[Base.node].live, NEW p \in Path
  PROVE  Excused(Placed(Target, Change(Base.node)), p)
<1>1. TypeOK /\ ControlInv /\ WorkInv /\ NodesInv
  BY DEF IInv
<1>2. Target \in Path /\ Pass \in Working
  BY SendingFacts DEF Sending
<1>3. ~Current(work[Target].node, work[Target].rev) /\ In(work, Target)
  BY <1>1 DEF ControlInv, Base, Sending
<1>4. Base.node \in Node
  BY <1>1, <1>2, <1>3, Typed DEF Base
<1>5. Change(Base.node) \in Seens
  BY <1>1, <1>4, Typed DEF Change, Seens, NodesInv
<1>6. Stands(base, Target) => base[Target].node \in dropped
  BY <1>1, <1>2, <1>3 DEF WorkInv, AsBase, Stands
<1>. QED
  BY <1>1, <1>2, <1>5, <1>6, PlacedType DEF Excused

LEMMA PlaceExcused == IInv => \A p \in Path : Excused(Adopted, p)
<1> SUFFICES ASSUME IInv, NEW p \in Path PROVE Excused(Adopted, p)
  OBVIOUS
<1>1. TypeOK /\ disk \in [Path -> File]
  BY DEF IInv, TypeOK, FolderType
<1>2. Seen(p) => Placeholder(snap[p]) \in File
  BY <1>1, Typed, Placeholders
<1>. QED
  BY <1>1, <1>2 DEF Excused, Adopted

LEMMA PullExcused ==
  ASSUME IInv, pc = "pull", NEW p \in Path
  PROVE  Excused(Pulled(Reached), p)
<1>1. TypeOK /\ ControlInv /\ Reached \in SUBSET Path
  BY DEF IInv, Reached
<1>2. Pass = "pull"
  BY <1>1, PassIs DEF Sending
<1>3. Pulled(Reached)[p] \in File
  BY <1>1, PulledType
<1>4. Here(p) /\ Pulled(Reached)[p] # disk[p]
        => ~Seen(p) \/ ~In(work, p) \/ work[p].rev # snap[p].rev
  BY DEF Pulled, Taken
<1>. QED
  BY <1>2, <1>3, <1>4, Unlisted DEF Excused

LEMMA UpsertsExcused ==
  ASSUME IInv, pc = "apply", Upserts, NEW p \in Path
  PROVE  Excused(Upserted, p)
<1>1. TypeOK /\ ControlInv /\ RevsInv /\ PageInv /\ disk \in [Path -> File]
  BY DEF IInv, TypeOK, FolderType
<1>2. Pass = "apply"
  BY <1>1, PassIs DEF Sending
<1>3. CASE ~Incoming(p)
  BY <1>1, <1>3 DEF Excused, Upserted
<1>4. CASE Incoming(p)
  <2>1. OnPage(p) /\ (Here(p) => base[p].rev # ChangeOf(p).rev)
    BY <1>4 DEF Incoming
  <2>2. ChangeOf(p) \in Listed(page) /\ ChangeOf(p) \in Seens /\ ChangeOf(p).path = p
    BY <1>1, <2>1, ChangeOfFacts
  <2>3. ChangeOf(p).live
    BY <2>2 DEF Upserts
  <2>4. Placeholder(ChangeOf(p)) \in File
    BY <2>2, Placeholders
  <2>5. Stands(base, p) => AsBase(ChangeOf(p), p)
    BY <1>1, <1>2, <2>2, <2>3 DEF PageInv
  <2>. QED
    BY <1>4, <2>1, <2>4, <2>5 DEF Excused, Upserted, AsBase
<1>. QED
  BY <1>3, <1>4

LEMMA DeletesExcused ==
  ASSUME IInv, pc = "apply", Deletes, NEW p \in Path
  PROVE  Excused(Without({q \in Path : OnPage(q)}), p)
<1>1. TypeOK /\ ControlInv /\ RevsInv /\ PageInv
  BY DEF IInv
<1>2. Pass = "apply"
  BY <1>1, PassIs DEF Sending
<1>3. ASSUME OnPage(p), Stands(base, p) PROVE FALSE
  <2>1. ChangeOf(p) \in Listed(page) /\ ChangeOf(p).path = p
    BY <1>1, <1>3, ChangeOfFacts
  <2>2. ~ChangeOf(p).live /\ ChangeOf(p).node = base[p].node
    BY <2>1 DEF Deletes
  <2>. QED
    BY <1>1, <1>2, <1>3, <2>1, <2>2 DEF PageInv
<1>4. PICK ps : ps = {q \in Path : OnPage(q)}
  OBVIOUS
<1>. QED
  BY <1>1, <1>3, <1>4, WithoutType DEF Excused

LEMMA ApplyExcused ==
  ASSUME IInv, pc \in {"slow", "sent"}, page # <<>>, Now.live, NEW p \in Path,
         \/ ~Here(Now.path) \/ ~In(work, Now.path) \/ work[Now.path].rev # Now.rev
  PROVE  Excused(Placed(Now.path, Now), p)
<1>1. TypeOK /\ RevsInv
  BY DEF IInv
<1>2. PICK q \in Path, c \in Seens : q = Now.path /\ c = Now
  BY <1>1, NowFacts
<1>3. Stands(base, q) /\ Here(q) => base[q].node \in dropped
  BY <1>2, NowStands DEF AsBase
<1>. QED
  BY <1>1, <1>2, <1>3, PlacedType DEF Excused

LEMMA DeleteExcused ==
  ASSUME IInv, Applying, ~Now.live, NEW p \in Path
  PROVE  Excused(Without(PathsOf(work, Now.node)), p)
<1>1. TypeOK /\ pc = "slow" /\ page # <<>>
  BY DEF IInv, Applying
<1>2. p \in PathsOf(work, Now.node) /\ Stands(base, p) => base[p].node \in dropped
  BY <1>1, NowStands DEF PathsOf
<1>3. PICK ps : ps = PathsOf(work, Now.node)
  OBVIOUS
<1>. QED
  BY <1>1, <1>2, <1>3, WithoutType DEF Excused

LEMMA MatchExcused ==
  ASSUME IInv, pc = "match", todo # {}, NEW p \in Path,
         \/ ~Here(First(todo))
         \/ In(work, First(todo)) /\ snap[First(todo)].rev # work[First(todo)].rev
  PROVE  Excused(Placed(First(todo), snap[First(todo)]), p)
<1>1. TypeOK /\ ControlInv
  BY DEF IInv
<1>2. PICK q \in Path : q = First(todo) /\ q \in todo
  BY <1>1, TodoIsIn
<1>3. Pass = "match"
  BY <1>1, PassIs DEF Sending
<1>4. Seen(q) /\ snap[q] \in Seens
  BY <1>1, <1>2, <1>3, Typed DEF ControlInv
<1>5. Stands(base, q) /\ Here(q) => base[q].node \in dropped
  BY <1>2, <1>3, Unlisted
<1>. QED
  BY <1>1, <1>2, <1>4, <1>5, PlacedType DEF Excused

LEMMA PruneExcused ==
  ASSUME IInv, pc = "match", NEW p \in Path
  PROVE  Excused(Without(Pruned), p)
<1>1. TypeOK /\ ControlInv
  BY DEF IInv
<1>2. Pass = "match"
  BY <1>1, PassIs DEF Sending
<1>3. p \in Pruned /\ Stands(base, p) => base[p].node \in dropped
  BY <1>2, Unlisted DEF Pruned
<1>4. PICK ps : ps = Pruned
  OBVIOUS
<1>. QED
  BY <1>1, <1>3, <1>4, WithoutType DEF Excused

LEMMA AfterExcused ==
  ASSUME IInv, NEW p \in Path
  PROVE  Excused(After, p)
<1>1. TypeOK /\ ControlInv /\ Excused(disk, p)
  BY DiskExcused DEF IInv
<1>2. CASE pc = "refresh"
  <2>1. CASE node[Base.node].live
    BY <1>2, <2>1, RefreshExcused DEF After, Applying
  <2>2. CASE ~node[Base.node].live
    BY <1>1, <1>2, <2>2 DEF After, Applying
  <2>. QED
    BY <2>1, <2>2
<1>3. CASE pc = "place"
  BY <1>3, PlaceExcused DEF After, Applying
<1>4. CASE pc = "pull"
  BY <1>4, PullExcused DEF After, Applying
<1>5. CASE pc = "apply"
  <2>1. CASE Upserts
    BY <1>5, <2>1, UpsertsExcused DEF After, Applying
  <2>2. CASE ~Upserts /\ Deletes
    BY <1>5, <2>2, DeletesExcused DEF After, Applying
  <2>3. CASE ~Upserts /\ ~Deletes
    BY <1>1, <1>5, <2>3 DEF After, Applying
  <2>. QED
    BY <2>1, <2>2, <2>3
<1>6. CASE pc = "slow"
  <2>1. CASE page # <<>> /\ ~Now.live
    BY <1>6, <2>1, DeleteExcused DEF After, Applying
  <2>2. CASE page # <<>> /\ Now.live /\ Olds \subseteq {Now.path}
    <3>1. CASE In(work, Now.path) /\ Here(Now.path) /\ work[Now.path].rev = Now.rev
      BY <1>1, <1>6, <2>2, <3>1 DEF After, Applying
    <3>2. CASE ~(In(work, Now.path) /\ Here(Now.path) /\ work[Now.path].rev = Now.rev)
      <4>1. After = Placed(Now.path, Now)
        BY <1>6, <2>2, <3>2 DEF After, Applying
      <4>. QED
        BY <1>6, <2>2, <3>2, <4>1, ApplyExcused
    <3>. QED
      BY <3>1, <3>2
  <2>3. CASE page = <<>> \/ (Now.live /\ ~(Olds \subseteq {Now.path}))
    BY <1>1, <1>6, <2>3 DEF After, Applying
  <2>. QED
    BY <2>1, <2>2, <2>3
<1>7. CASE pc = "sent"
  <2>1. page # <<>> /\ Now.live
    <3>1. Pass = "sent"
      BY <1>1, <1>7, PassIs DEF Sending
    <3>. QED
      BY <1>1, <3>1 DEF ControlInv
  <2>2. PICK q \in Path, r \in Nat : q = Now.path /\ r = Now.rev
    BY <1>1, <2>1, NowFacts DEF IInv, Seens
  <2>3. work[q].rev \in Nat
    BY <1>1, Typed
  <2>4. CASE work[Now.path].rev < Now.rev
    <3>1. After = Placed(Now.path, Now)
      BY <1>7, <2>4 DEF After, Applying
    <3>2. work[Now.path].rev # Now.rev
      BY <2>2, <2>3, <2>4
    <3>. QED
      BY <1>7, <2>1, <3>1, <3>2, ApplyExcused
  <2>5. CASE ~(work[Now.path].rev < Now.rev)
    BY <1>1, <1>7, <2>5 DEF After, Applying
  <2>. QED
    BY <2>4, <2>5
<1>8. CASE pc = "match"
  <2>1. CASE todo = {}
    BY <1>8, <2>1, PruneExcused DEF After, Applying
  <2>2. CASE todo # {}
    <3>1. PICK q : q = First(todo)
      OBVIOUS
    <3>2. CASE Here(q) /\ (~In(work, q) \/ snap[q].rev = work[q].rev)
      BY <1>1, <1>8, <2>2, <3>1, <3>2 DEF After, Applying
    <3>3. CASE ~(Here(q) /\ (~In(work, q) \/ snap[q].rev = work[q].rev))
      <4>1. After = Placed(q, snap[q])
        BY <1>8, <2>2, <3>1, <3>3 DEF After, Applying
      <4>. QED
        BY <1>8, <2>2, <3>1, <3>3, <4>1, MatchExcused
    <3>. QED
      BY <3>2, <3>3
  <2>. QED
    BY <2>1, <2>2
<1>9. CASE pc \notin {"refresh", "place", "pull", "apply", "slow", "sent", "match"}
  BY <1>1, <1>9 DEF After, Applying
<1>. QED
  BY <1>2, <1>3, <1>4, <1>5, <1>6, <1>7, <1>8, <1>9

LEMMA StepCrash == IInv /\ Crash => IInv'
<1> SUFFICES ASSUME IInv, Crash PROVE IInv'
  OBVIOUS
<1>1. TypeOK /\ NodesInv /\ RevsInv /\ PresentInv
  BY DEF IInv
<1>2. /\ Lost /\ Enter("off", "none") /\ events' = NoEvents
      /\ UNCHANGED server /\ UNCHANGED mount /\ UNCHANGED history /\ UNCHANGED counts
  BY DEF Crash
<1>3. PICK done, half \in SUBSET {p \in Path : After[p] # disk[p]} :
        disk' = [p \in Path |-> IF p \in done THEN After[p]
                                ELSE IF p \in half THEN NoFile ELSE disk[p]]
  BY DEF Crash
<1>4. /\ Newer /\ HistoryType' /\ CountType' /\ MountType'
      /\ UNCHANGED <<base, known, tracked, dropped, node>>
  BY <1>1, <1>2, SameServer, SameCounts DEF mount, TypeOK, MountType, server
<1>5. FolderType'
  <2>1. \A p \in Path : disk[p] \in File /\ After[p] \in File
    BY <1>1, AfterExcused DEF TypeOK, FolderType, Excused
  <2>2. disk' \in [Path -> File]
    BY <1>3, <2>1, Empty
  <2>. QED
    BY <1>2, <2>2, Empty DEF FolderType
<1>6. Present(base)'
  <2> SUFFICES ASSUME NEW p \in Path, Stands(base, p)', disk'[p] = NoFile
               PROVE  base[p].node \in dropped
    BY <1>4 DEF Present, Here
  <2>1. Stands(base, p)
    BY <1>1, <1>4, BaseStands
  <2>2. CASE Here(p)
    <3>1. After[p] # disk[p]
      BY <1>3, <2>2 DEF Here
    <3>. QED
      BY <2>1, <2>2, <3>1, AfterExcused DEF Excused
  <2>3. CASE ~Here(p)
    BY <1>1, <2>1, <2>3 DEF PresentInv, Present
  <2>. QED
    BY <2>2, <2>3
<1>7. \A p \in Path : In(base, p)' => Had(base[p])'
  BY <1>1, <1>4 DEF RevsInv, In, Had
<1>. QED
  BY <1>2, <1>4, <1>5, <1>6, <1>7, EnterStep DEF Newer

-----------------------------------------------------------------------------
(* The invariant                                                           *)

LEMMA InitHolds == Init => IInv
<1> SUFFICES ASSUME Init PROVE IInv
  OBVIOUS
<1>1. /\ node = [n \in Node |-> IF n =< InitialNodes
                            THEN [path |-> n, rev |-> 1, bytes |-> 0, live |-> TRUE]
                            ELSE [path |-> 0, rev |-> 0, bytes |-> 0, live |-> FALSE]]
      /\ journal = <<>> /\ late = <<>> /\ receipts = {} /\ stored = {0}
      /\ disk = Nothing /\ events = NoEvents
      /\ base = Nowhere /\ known = FALSE /\ tracked = TRUE
      /\ pc = "off" /\ why = "none"
      /\ batch = NoEvents /\ work = Nowhere /\ moves = {} /\ todo = {}
      /\ gone = {} /\ scan = Nothing /\ snap = [p \in Path |-> Nobody]
      /\ page = <<>> /\ advance = FALSE /\ job = NoJob
      /\ watched = {} /\ due = {} /\ dropped = {}
      /\ writes = 0 /\ userSteps = 0 /\ webSteps = 0 /\ faults = 0
  BY DEF Init
<1>2. Listed(journal) = {} /\ Listed(late) = {} /\ Listed(page) = {}
  BY <1>1, EmptyListed
<1>3. \A n \in Node : n =< InitialNodes => n \in Path
  BY MountAssumption DEF Node, Path, Name
<1>4. \A n \in Node : /\ n =< InitialNodes => node[n].path = n /\ node[n].rev = 1
                                              /\ node[n].bytes = 0 /\ node[n].live = TRUE
                      /\ ~(n =< InitialNodes) => node[n].path = 0 /\ node[n].rev = 0
                                              /\ node[n].bytes = 0 /\ node[n].live = FALSE
  BY <1>1
<1>5. 0 \in 0..MaxWrites
  BY Bounds
<1>6. ServerType
  <2>1. <<>> \in Seq(Node)
    OBVIOUS
  <2>2. \A n \in Node :
          (IF n =< InitialNodes
           THEN [path |-> n, rev |-> 1, bytes |-> 0, live |-> TRUE]
           ELSE [path |-> 0, rev |-> 0, bytes |-> 0, live |-> FALSE]) \in Row
    BY <1>3, <1>5 DEF Row
  <2>3. node \in [Node -> Row]
    BY <1>1, <2>2
  <2>. QED
    BY <1>1, <1>5, <2>1, <2>3 DEF ServerType, Row
<1>7. TypeOK
  <2>1. LocalsType
    <3>1. <<>> \in Seq(Seens)
      OBVIOUS
    <3>. QED
      BY <1>1, <3>1, Empty DEF LocalsType
  <2>2. FolderType /\ MountType /\ HistoryType
    BY <1>1, Empty DEF FolderType, MountType, HistoryType
  <2>3. CountType
    BY <1>1, <1>5 DEF CountType
  <2>. QED
    BY <1>1, <1>6, <2>1, <2>2, <2>3 DEF TypeOK, Steps
<1>8. NodesInv
  BY <1>2, <1>3, <1>4 DEF NodesInv
<1>9. Pass = "off"
  BY <1>1 DEF Pass
<1>10. \A p \in Path : ~In(base, p) /\ ~In(work, p) /\ ~Seen(p)
  BY <1>1, Empty DEF Seen
<1>11. RevsInv /\ PresentInv
  BY <1>2, <1>10 DEF RevsInv, PresentInv, Present, Stands
<1>12. ControlInv
  BY <1>1, <1>9 DEF ControlInv, Sending
<1>13. QuietInv
  BY <1>10 DEF QuietInv, Quiet
<1>14. /\ WorkInv /\ PageInv /\ SnapInv /\ GoneInv /\ ScanInv /\ MissingInv
  BY <1>1, <1>9 DEF WorkInv, PageInv, SnapInv, GoneInv, ScanInv, MissingInv, Working
<1>. QED
  BY <1>7, <1>8, <1>11, <1>12, <1>13, <1>14 DEF IInv

LEMMA StutterHolds == IInv /\ UNCHANGED vars => IInv'
<1> SUFFICES ASSUME IInv, UNCHANGED vars PROVE IInv'
  OBVIOUS
<1>1. TypeOK /\ NodesInv /\ ControlInv
  BY DEF IInv
<1>2. /\ UNCHANGED server /\ UNCHANGED folder /\ UNCHANGED mount /\ UNCHANGED run
      /\ UNCHANGED history /\ UNCHANGED counts /\ UNCHANGED faults
  BY DEF vars
<1>3. Newer
  BY <1>1, <1>2, SameServer
<1>4. /\ UNCHANGED <<disk, events, base, known, tracked, pc, why, dropped>>
      /\ UNCHANGED <<batch, work, moves, todo, gone, scan, snap, page, advance, job>>
      /\ FolderType' /\ HistoryType' /\ CountType'
  BY <1>1, <1>2, SameFolder, SameCounts DEF folder, mount, run, locals, history
<1>5. TypeOK'
  <2>1. LocalsType' /\ MountType'
    BY <1>1, <1>4 DEF TypeOK, LocalsType, MountType
  <2>. QED
    BY <1>1, <1>3, <1>4, <2>1 DEF TypeOK, Newer
<1>6. pc' = "off" => events' = NoEvents
  BY <1>1, <1>4 DEF ControlInv
<1>. QED
  BY <1>2, <1>3, <1>4, <1>5, <1>6, OutsideStep DEF Here

LEMMA StepHolds == IInv /\ Next => IInv'
<1> SUFFICES ASSUME IInv, Next PROVE IInv'
  OBVIOUS
<1>1. CASE Flush
  BY <1>1, StepSendRename, StepSendMoved, StepVisitPath, StepSendDelete, StepEndFlush
     DEF Flush
<1>2. CASE SendFile
  BY <1>2, StepUpload, StepOverwrite, StepCopyConflict, StepSendCopy, StepRefresh
     DEF SendFile
<1>3. CASE Audit
  BY <1>3, StepScan, StepAdd, StepEndAdd, StepEdit, StepEndEdit, StepMissing,
     StepEndMissing, StepWalkAudit, StepPull DEF Audit
<1>4. CASE Poll
  BY <1>4, StepRequest, StepFastUpserts, StepFastDeletes, StepSlow, StepApplyDelete,
     StepApplyMove, StepApplyUpsert, StepApplySent, StepEndPage, StepList, StepMatch,
     StepPrune DEF Poll
<1>5. CASE Mounting
  BY <1>5, StepStart, StepListFirst, StepAdopt DEF Mounting
<1>6. CASE \E w \in Ticks : Wake(w)
  BY <1>6, StepWake
<1>7. CASE Users
  BY <1>7, StepUserWrite, StepUserRemove, StepUserRename DEF Users
<1>8. CASE Webs
  BY <1>8, StepWebCreate, StepWebWrite, StepWebDelete, StepWebMove, StepWebRestore
     DEF Webs
<1>9. CASE Overflow
  BY <1>9, StepOverflow
<1>10. CASE Crash
  BY <1>10, StepCrash
<1>. QED
  BY <1>1, <1>2, <1>3, <1>4, <1>5, <1>6, <1>7, <1>8, <1>9, <1>10 DEF Next, Provider, Pace

\* What the mount believes of the server is of the past, an entry in force has
\* its file unless the user took it away, and what a pass is about to delete is
\* what the user took away: in every interleaving of passes, user, other
\* clients, lost answers and crashes.
THEOREM InvariantHolds == Spec => []IInv
<1>1. IInv /\ [Next]_vars => IInv'
  BY StepHolds, StutterHolds
<1>. QED
  BY <1>1, InitHolds, PTL DEF Spec

-----------------------------------------------------------------------------
(* What is moved to the trash                                              *)

\* The step deletes no node, or none but this one.
Spared(ns) == \A n \in Node \ ns : node[n].live => node'[n].live

LEMMA PutSpares ==
  ASSUME TypeOK, NEW n \in Node, NEW r, Put(n, r)
  PROVE  Spared({n}) /\ (r.live => Spared({}))
<1>1. node' = [node EXCEPT ![n] = r] /\ node \in [Node -> Row]
  BY DEF Put, TypeOK, ServerType, Row
<1>. QED
  BY <1>1 DEF Spared

LEMMA MoveSpares ==
  ASSUME TypeOK, NEW n \in Node, NEW p \in Path, node[n].live, MoveTo(n, p)
  PROVE  Spared({})
<1>1. PICK o \in Row : o = node[n]
  BY DEF TypeOK, ServerType, Row
<1>2. PICK k \in Nat : k = o.rev + 1
  BY DEF Row
<1>3. PICK r : r = [o EXCEPT !.path = p, !.rev = k]
  OBVIOUS
<1>4. r.live
  <2>1. r.live = o.live /\ o.live \in BOOLEAN
    BY <1>3 DEF Row
  <2>. QED
    BY <1>1, <2>1
<1>5. Put(n, r)
  BY <1>1, <1>2, <1>3 DEF MoveTo
<1>. QED
  BY <1>4, <1>5, PutSpares

LEMMA CreateSpares ==
  ASSUME TypeOK, NEW n \in Node, NEW p, NEW b, Create(n, p, b)
  PROVE  Spared({})
<1>1. PICK r : r = [path |-> p, rev |-> 1, bytes |-> b, live |-> TRUE]
  OBVIOUS
<1>2. Put(n, r) /\ r.live
  BY <1>1 DEF Create
<1>. QED
  BY <1>2, PutSpares

LEMMA TrashSpares ==
  ASSUME TypeOK, NEW n \in Node, Trash(n)
  PROVE  Spared({n})
BY PutSpares DEF Trash

LEMMA SameSpares ==
  ASSUME UNCHANGED node
  PROVE  Spared({})
BY DEF Spared

\* The property of one step.
DeletesOnlyUsers ==
  \A n \in Node :
    /\ node[n].live /\ ~node'[n].live /\ UNCHANGED webSteps
    /\ PathsOf(work, n) = {node[n].path}
    => n \in dropped

LEMMA SparedIsFine == Spared({}) => DeletesOnlyUsers
BY DEF Spared, DeletesOnlyUsers

LEMMA OneIsFine ==
  ASSUME IInv, NEW p \in Path, In(work, p), Current(work[p].node, work[p].rev),
         UsersAt(p), Spared({work[p].node})
  PROVE  DeletesOnlyUsers
<1> SUFFICES ASSUME NEW n \in Node, node[n].live, ~node'[n].live,
                    PathsOf(work, n) = {node[n].path}
             PROVE  n \in dropped
  BY DEF DeletesOnlyUsers
<1>1. n = work[p].node
  BY DEF Spared
<1>2. p = node[n].path
  BY <1>1 DEF PathsOf
<1>. QED
  BY <1>1, <1>2 DEF UsersAt, Stands

LEMMA FlushDeletes == IInv /\ Flush => DeletesOnlyUsers
<1> SUFFICES ASSUME IInv, Flush PROVE DeletesOnlyUsers
  OBVIOUS
<1>1. TypeOK /\ GoneInv
  BY DEF IInv
<1>2. CASE VisitPath \/ EndFlush
  BY <1>2, SameSpares, SparedIsFine DEF VisitPath, EndFlush, Send, server
<1>3. CASE SendRename
  <2>1. PICK m \in moves :
          \/ /\ CanMove(work[m[1]].node, work[m[1]].rev, m[2]) /\ In(work, m[1])
             /\ MoveTo(work[m[1]].node, m[2])
          \/ UNCHANGED node
    BY <1>3 DEF SendRename, server
  <2>2. m[1] \in Path /\ m[2] \in Path
    BY <1>1 DEF TypeOK, LocalsType
  <2>. QED
    BY <1>1, <2>1, <2>2, Typed, MoveSpares, SameSpares, SparedIsFine DEF CanMove, Current
<1>4. CASE SendMoved
  <2>1. PICK p, from :
          /\ p = First(todo) /\ from = First(MovedFrom(p)) /\ todo # {}
          /\ MovedFrom(p) # {}
          /\ \/ /\ CanMove(work[from].node, work[from].rev, p)
                /\ MoveTo(work[from].node, p)
             \/ UNCHANGED node
    BY <1>4 DEF SendMoved, server
  <2>2. p \in Path
    BY <1>1, <2>1, TodoIsIn
  <2>3. from \in Path /\ In(work, from)
    <3>1. MovedFrom(p) \in SUBSET Nat /\ \A q \in MovedFrom(p) : q \in Path /\ In(work, q)
      BY Bounds DEF MovedFrom, PathsOf
    <3>. QED
      BY <2>1, <3>1, FirstIsIn
  <2>. QED
    BY <1>1, <2>1, <2>2, <2>3, Typed, MoveSpares, SameSpares, SparedIsFine
       DEF CanMove, Current
<1>5. CASE SendDelete
  <2>1. PICK p : p = First(gone)
    OBVIOUS
  <2>2. /\ gone # {} /\ pc = "local"
        /\ \/ /\ In(work, p) /\ Current(work[p].node, work[p].rev)
              /\ Trash(work[p].node)
           \/ UNCHANGED node
    BY <1>5, <2>1 DEF SendDelete, Flushing, server
  <2>3. p \in gone /\ p \in Path
    BY <1>1, <2>1, <2>2, Bounds, FirstIsIn DEF TypeOK, LocalsType
  <2>4. UsersAt(p)
    BY <1>1, <2>2, <2>3 DEF GoneInv
  <2>5. CASE UNCHANGED node
    BY <2>5, SameSpares, SparedIsFine
  <2>6. CASE In(work, p) /\ Current(work[p].node, work[p].rev) /\ Trash(work[p].node)
    <3>1. Spared({work[p].node})
      BY <1>1, <2>3, <2>6, Typed, TrashSpares
    <3>. QED
      BY <2>3, <2>4, <2>6, <3>1, OneIsFine
  <2>. QED
    BY <2>2, <2>5, <2>6
<1>. QED
  BY <1>2, <1>3, <1>4, <1>5 DEF Flush

LEMMA SendFileDeletes == IInv /\ SendFile => DeletesOnlyUsers
<1> SUFFICES ASSUME IInv, SendFile PROVE DeletesOnlyUsers
  OBVIOUS
<1>1. TypeOK
  BY DEF IInv
<1>2. CASE CopyConflict \/ Refresh
  BY <1>2, SameSpares, SparedIsFine DEF CopyConflict, Refresh, server
<1>3. CASE Upload
  <2>1. UNCHANGED node \/ \E n \in Node : Create(n, Target, job.bytes)
    BY <1>3 DEF Upload, server
  <2>. QED
    BY <1>1, <2>1, CreateSpares, SameSpares, SparedIsFine
<1>4. CASE SendCopy
  <2>1. UNCHANGED node \/ \E n \in Node : \E b : Create(n, job.copy, b)
    BY <1>4 DEF SendCopy, server
  <2>. QED
    BY <1>1, <2>1, CreateSpares, SameSpares, SparedIsFine
<1>5. CASE Overwrite
  <2>1. PICK n : n = Base.node
    OBVIOUS
  <2>2. \/ UNCHANGED node
        \/ /\ node[n].live
           /\ Put(n, [node[n] EXCEPT !.bytes = job.bytes, !.rev = Base.rev + 1])
    BY <1>5, <2>1 DEF Overwrite, server
  <2>3. n \in Node
    <3>1. Target \in Path /\ In(work, Target)
      BY <1>5, SendingFacts DEF Overwrite, Sending
    <3>. QED
      BY <1>1, <2>1, <3>1, Typed DEF Base
  <2>4. CASE UNCHANGED node
    BY <2>4, SameSpares, SparedIsFine
  <2>5. CASE /\ node[n].live
             /\ Put(n, [node[n] EXCEPT !.bytes = job.bytes, !.rev = Base.rev + 1])
    <3>1. PICK o \in Row : o = node[n]
      BY <1>1, <2>3 DEF TypeOK, ServerType, Row
    <3>2. PICK k \in Nat, b \in 0..MaxWrites : k = Base.rev + 1 /\ b = job.bytes
      <4>1. Target \in Path /\ job.bytes \in 0..MaxWrites
        BY <1>5, SendingFacts DEF Overwrite, Sending
      <4>2. Base.rev \in Nat
        BY <1>1, <4>1, Typed DEF Base
      <4>. QED
        BY <4>1, <4>2
    <3>3. PICK r : r = [o EXCEPT !.bytes = b, !.rev = k]
      OBVIOUS
    <3>4. r.live
      <4>1. r.live = o.live /\ o.live \in BOOLEAN
        BY <3>3 DEF Row
      <4>. QED
        BY <2>5, <3>1, <4>1
    <3>5. Put(n, r)
      BY <2>5, <3>1, <3>2, <3>3
    <3>. QED
      BY <1>1, <2>3, <3>4, <3>5, PutSpares, SparedIsFine
  <2>. QED
    BY <2>2, <2>4, <2>5
<1>. QED
  BY <1>2, <1>3, <1>4, <1>5 DEF SendFile

LEMMA AuditDeletes == IInv /\ Audit => DeletesOnlyUsers
<1> SUFFICES ASSUME IInv, Audit PROVE DeletesOnlyUsers
  OBVIOUS
<1>1. TypeOK /\ ControlInv /\ MissingInv
  BY DEF IInv
<1>2. CASE Scan \/ Add \/ EndAdd \/ Edit \/ EndEdit \/ EndMissing \/ WalkAudit \/ Pull
  BY <1>2, SameSpares, SparedIsFine DEF Scan, Add, EndAdd, Edit, PassOver, EndEdit, EndMissing,
     WalkAudit, Pull, Send, NextLoop, Walk, server
<1>3. CASE Missing
  <2>1. PICK p : p = First(todo)
    OBVIOUS
  <2>2. /\ todo # {} /\ pc = "missing"
        /\ \/ Current(work[p].node, work[p].rev) /\ Trash(work[p].node)
           \/ UNCHANGED node
    BY <1>3, <2>1 DEF Missing, server
  <2>3. p \in todo /\ p \in Path
    BY <1>1, <2>1, <2>2, TodoIsIn
  <2>4. In(work, p) /\ UsersAt(p)
    BY <1>1, <2>2, <2>3, PassIs DEF ControlInv, MissingInv, Sending
  <2>5. CASE UNCHANGED node
    BY <2>5, SameSpares, SparedIsFine
  <2>6. CASE Current(work[p].node, work[p].rev) /\ Trash(work[p].node)
    <3>1. Spared({work[p].node})
      BY <1>1, <2>3, <2>4, <2>6, Typed, TrashSpares
    <3>. QED
      BY <2>3, <2>4, <2>6, <3>1, OneIsFine
  <2>. QED
    BY <2>2, <2>5, <2>6
<1>. QED
  BY <1>2, <1>3 DEF Audit

LEMMA PollDeletes == IInv /\ Poll => DeletesOnlyUsers
<1> SUFFICES ASSUME IInv, Poll PROVE DeletesOnlyUsers
  OBVIOUS
<1>1. TypeOK /\ PresentInv
  BY DEF IInv
<1>2. CASE Request \/ FastUpserts \/ FastDeletes \/ Slow \/ EndPage \/ List \/ Prune
  BY <1>2, SameSpares, SparedIsFine DEF Request, FastUpserts, FastDeletes, Slow, EndPage,
     List, Prune, Polled, Walk, server
<1>3. CASE ApplyDelete \/ ApplyMove \/ ApplyUpsert \/ ApplySent
  BY <1>3, SameSpares, SparedIsFine DEF ApplyDelete, ApplyMove, ApplyUpsert, ApplySent,
     Done, Send, server
<1>4. CASE Match
  <2>1. PICK p : p = First(todo)
    OBVIOUS
  <2>2. /\ todo # {}
        /\ \/ /\ In(work, p) /\ ~Here(p) /\ Current(work[p].node, work[p].rev)
              /\ Trash(work[p].node)
           \/ UNCHANGED node
    BY <1>4, <2>1 DEF Match, Send, server
  <2>3. p \in Path
    BY <1>1, <2>1, <2>2, TodoIsIn
  <2>4. CASE UNCHANGED node
    BY <2>4, SameSpares, SparedIsFine
  <2>5. CASE /\ In(work, p) /\ ~Here(p) /\ Current(work[p].node, work[p].rev)
             /\ Trash(work[p].node)
    <3>1. Spared({work[p].node})
      BY <1>1, <2>3, <2>5, Typed, TrashSpares
    <3>2. UsersAt(p)
      BY <1>1, <2>3, <2>5 DEF PresentInv, Present, UsersAt
    <3>. QED
      BY <2>3, <2>5, <3>1, <3>2, OneIsFine
  <2>. QED
    BY <2>2, <2>4, <2>5
<1>. QED
  BY <1>2, <1>3, <1>4 DEF Poll

LEMMA OtherDeletes ==
  ASSUME IInv, Mounting \/ (\E w \in Ticks : Wake(w)) \/ Users \/ Webs \/ Overflow \/ Crash
  PROVE  DeletesOnlyUsers
<1>1. TypeOK
  BY DEF IInv
<1>2. CASE Mounting
  BY <1>2, SameSpares, SparedIsFine DEF Mounting, Start, ListFirst, Adopt, Walk, server
<1>3. CASE (\E w \in Ticks : Wake(w)) \/ Overflow \/ Crash
  BY <1>3, SameSpares, SparedIsFine DEF Wake, Overflow, Crash, server
<1>4. CASE Users
  BY <1>4, SameSpares, SparedIsFine DEF Users, UserWrite, UserRemove, UserRename, User, server
<1>5. CASE Webs
  <2>1. webSteps' = webSteps + 1 /\ webSteps \in Nat
    BY <1>1, <1>5 DEF Webs, WebCreate, WebWrite, WebDelete, WebMove, WebRestore, Web,
       TypeOK, CountType
  <2>. QED
    BY <2>1 DEF DeletesOnlyUsers
<1>. QED
  BY <1>2, <1>3, <1>4, <1>5

\* A node that stands where the mount has it, and that the mount has nowhere
\* else, goes to the trash at the hands of the mount only if the user took its
\* file away.
THEOREM DeletesAreUsersAlways == Spec => DeletesAreUsers
<1>1. IInv /\ [Next]_vars => [DeletesOnlyUsers]_vars
  <2>1. IInv /\ Next => DeletesOnlyUsers
    BY FlushDeletes, SendFileDeletes, AuditDeletes, PollDeletes, OtherDeletes
       DEF Next, Provider, Pace
  <2>. QED
    BY <2>1
<1>2. [][DeletesOnlyUsers]_vars => DeletesAreUsers
  BY PTL DEF DeletesAreUsers, DeletesOnlyUsers
<1>. QED
  BY <1>1, <1>2, InvariantHolds, PTL DEF Spec

-----------------------------------------------------------------------------
(* What becomes of the edits: the invariant KeepInv                         *)

\* No write has this stamp; no later write has it.
Plain(s) == \A k \in 1..MaxWrites : s # Written(k)
Known(s) == \A k \in 1..MaxWrites : s = Written(k) => k =< writes

\* No file gets the stamp of a write it did not have.
Tame ==
  \A p \in Path : \/ disk'[p].stamp = disk[p].stamp /\ disk'[p].bytes = disk[p].bytes
                  \/ Plain(disk'[p].stamp)

\* No write comes to be at risk in another place.
Steady ==
  /\ \A k \in 1..MaxWrites, p, q \in Path : At(k, p)' /\ At(k, q)' => p = q
  /\ \A q \in Path : Known(disk'[q].stamp)
  /\ \A k \in watched', p \in Path : AtRisk(k, p)' => AtRisk(k, p)
  /\ stored \subseteq stored' /\ writes' = writes /\ watched' \subseteq watched

LEMMA Plains ==
  /\ Plain(NoStamp) /\ NoFile.stamp = NoStamp /\ NoEntry.stamp = NoStamp
  /\ NoJob.stamp = NoStamp /\ NoJob.path = 0
  /\ \A n, r : Plain(<<"node", n, r>>)
  /\ \A b : Plain(<<"copy", b, 0>>)
  /\ \A s : Plain(s) => Known(s)
<1>1. \A k : NoStamp # Written(k) /\ \A n, r : <<"node", n, r>> # Written(k)
  BY DEF Written, NoStamp
<1>2. \A k, b : <<"copy", b, 0>> # Written(k)
  BY DEF Written
<1>. QED
  BY <1>1, <1>2 DEF Plain, Known, NoFile, NoEntry, NoJob

LEMMA Writes ==
  ASSUME TypeOK
  PROVE  watched \subseteq 1..MaxWrites /\ due \subseteq 1..MaxWrites
BY DEF TypeOK, HistoryType

LEMMA RiskWas ==
  ASSUME Tame, stored \subseteq stored',
         NEW k \in 1..MaxWrites, NEW p \in Path, AtRisk(k, p)'
  PROVE  /\ AtRisk(k, p)
         /\ disk'[p].stamp = disk[p].stamp /\ disk'[p].bytes = disk[p].bytes
BY DEF Tame, Plain, AtRisk, At

\* A stamp an entry may get.
Harmless(s) ==
  Known(s) /\ \A k \in watched', p \in Path : AtRisk(k, p)' => s # Written(k)
Entries == {base[q].stamp : q \in Path} \cup {work[q].stamp : q \in Path}
Carried(w) == \A q \in Path : w[q].stamp \in Entries \/ Harmless(w[q].stamp)
Stamped ==
  /\ Carried(base') /\ Carried(work')
  /\ \A q \in Path : \/ scan'[q].stamp \in {scan[q].stamp, disk[q].stamp}
                     \/ Plain(scan'[q].stamp)
  /\ \/ job'.stamp = job.stamp /\ job'.path = job.path
     \/ Plain(job'.stamp)
     \/ /\ job'.path \in Path
        /\ job'.stamp \in {disk[job'.path].stamp, scan[job'.path].stamp}

LEMMA PlainIsHarmless ==
  ASSUME TypeOK', NEW s, Plain(s)
  PROVE  Harmless(s)
BY Plains DEF Harmless, Plain, TypeOK, HistoryType

LEMMA AllKnown ==
  ASSUME StampInv
  PROVE  /\ Known(job.stamp)
         /\ \A q \in Path : /\ Known(disk[q].stamp) /\ Known(base[q].stamp)
                            /\ Known(work[q].stamp) /\ Known(scan[q].stamp)
<1>1. 1 \in Path
  BY MountAssumption DEF Path, Name
<1>. QED
  BY <1>1 DEF StampInv, Known

LEMMA TameSteady ==
  ASSUME TypeOK', StampInv, Tame, stored \subseteq stored', writes' = writes,
         watched' \subseteq watched
  PROVE  Steady
<1>1. watched' \subseteq 1..MaxWrites
  BY DEF TypeOK, HistoryType
<1>2. \A k \in 1..MaxWrites, p \in Path : At(k, p)' => At(k, p)
  BY DEF Tame, Plain, At
<1>3. \A k \in 1..MaxWrites, p, q \in Path : At(k, p)' /\ At(k, q)' => p = q
  BY <1>2 DEF StampInv
<1>4. \A q \in Path : Known(disk'[q].stamp)
  BY AllKnown, Plains DEF Tame
<1>. QED
  BY <1>1, <1>3, <1>4, RiskWas DEF Steady

LEMMA StampsStep ==
  ASSUME TypeOK, TypeOK', StampInv, WatchedInv, Steady, Stamped,
         \A k \in due' : k \in due \cup watched \/ \E p \in Path : At(k, p)
  PROVE  StampInv' /\ WatchedInv'
<1>1. /\ watched \subseteq 1..MaxWrites /\ watched' \subseteq 1..MaxWrites
      /\ due' \subseteq 1..MaxWrites
  BY DEF TypeOK, HistoryType
<1>2. \A k \in watched', p \in Path : AtRisk(k, p)' => k \in watched /\ AtRisk(k, p)
  BY DEF Steady
<1>6. /\ \A q \in Path : Known(disk'[q].stamp)
      /\ \A q \in Path : Known(base'[q].stamp) /\ Known(work'[q].stamp)
      /\ \A q \in Path : Known(scan'[q].stamp)
      /\ Known(job'.stamp)
  <2>1. \A q \in Path : Known(disk'[q].stamp)
    BY DEF Steady
  <2>2. \A s \in Entries : Known(s)
    BY AllKnown DEF Entries
  <2>3. \A q \in Path : Known(base'[q].stamp) /\ Known(work'[q].stamp)
    BY <2>2 DEF Stamped, Carried, Harmless
  <2>4. \A q \in Path : Known(scan'[q].stamp)
    BY AllKnown, Plains DEF Stamped
  <2>5. Known(job'.stamp)
    BY AllKnown, Plains DEF Stamped
  <2>. QED
    BY <2>1, <2>3, <2>4, <2>5
<1>7. \A k \in watched' \cup due' : k =< writes'
  <2>1. \A k \in watched' : k =< writes'
    BY DEF Steady, StampInv
  <2>2. \A k \in due', p \in Path : At(k, p) => k =< writes'
    BY <1>1, AllKnown DEF At, Known, Steady
  <2>3. \A k \in due \cup watched : k =< writes'
    BY DEF Steady, StampInv
  <2>. QED
    BY <2>1, <2>2, <2>3
<1>8. StampInv'
  <2>1. \A k \in 1..MaxWrites, p \in Path :
           Written(k) \in {disk'[p].stamp, base'[p].stamp, work'[p].stamp,
                           scan'[p].stamp, job'.stamp} => k =< writes'
    BY <1>6 DEF Known, Steady
  <2>. QED
    BY <1>7, <2>1 DEF StampInv, Written, Steady
<1>9. ASSUME NEW k \in watched', NEW p \in Path, AtRisk(k, p)'
      PROVE  /\ \A q \in Path : Written(k) \notin {base'[q].stamp, work'[q].stamp}
             /\ \A q \in Path : scan'[q].stamp = Written(k) => q = p
             /\ job'.stamp = Written(k) => p = job'.path
  <2>1. k \in watched /\ AtRisk(k, p) /\ k \in 1..MaxWrites /\ disk[p].stamp = Written(k)
    BY <1>1, <1>2, <1>9 DEF AtRisk, At
  <2>2. /\ \A s \in Entries : s # Written(k)
        /\ \A q \in Path : scan[q].stamp = Written(k) => q = p
        /\ job.stamp = Written(k) => p = job.path
        /\ \A q \in Path : disk[q].stamp = Written(k) => q = p
    <3>1. \A q \in Path : base[q].stamp # Written(k) /\ work[q].stamp # Written(k)
      BY <2>1 DEF WatchedInv
    <3>. QED
      BY <2>1, <3>1 DEF WatchedInv, StampInv, At, Entries
  <2>3. \A s : Harmless(s) => s # Written(k)
    BY <1>9 DEF Harmless
  <2>4. \A s : Plain(s) => s # Written(k)
    BY <2>1 DEF Plain
  <2>5. \A q \in Path : Written(k) \notin {base'[q].stamp, work'[q].stamp}
    BY <2>2, <2>3 DEF Stamped, Carried
  <2>6. \A q \in Path : scan'[q].stamp = Written(k) => q = p
    BY <2>2, <2>4 DEF Stamped
  <2>7. job'.stamp = Written(k) => p = job'.path
    BY <2>2, <2>4 DEF Stamped
  <2>. QED
    BY <2>5, <2>6, <2>7
<1>10. WatchedInv'
  BY <1>9 DEF WatchedInv, Written
<1>. QED
  BY <1>8, <1>10

\* Reports are added.
Reporting ==
  /\ RenamedFrom(events') \cup RenamedFrom(batch')
       \subseteq RenamedFrom(events) \cup RenamedFrom(batch)
  /\ events.lost => events'.lost
  /\ events.paths \subseteq events'.paths

LEMMA ReportStep ==
  ASSUME TypeOK, TypeOK', ReportInv, Steady, Reporting,
         pc = "off" => pc' = "off",
         pc' = "idle" => batch' = NoEvents,
         \A k \in watched', p \in Path : AtRisk(k, p)' /\ k \in due =>
           \/ k \in due' /\ batch' = batch
           \/ (batch.lost => events'.lost) /\ batch.paths \subseteq events'.paths
  PROVE  ReportInv'
<1>1. watched' \subseteq 1..MaxWrites /\ watched' \subseteq watched
  BY DEF TypeOK, HistoryType, Steady
<1>2. ASSUME pc' # "off", NEW k \in watched', NEW p \in Path, AtRisk(k, p)'
      PROVE  /\ p \notin RenamedFrom(events') \cup RenamedFrom(batch')
             /\ \/ events'.lost \/ p \in events'.paths
                \/ k \in due' /\ (batch'.lost \/ p \in batch'.paths)
  <2>1. k \in watched /\ AtRisk(k, p)
    BY <1>1, <1>2 DEF Steady
  <2>2. /\ p \notin RenamedFrom(events) \cup RenamedFrom(batch)
        /\ \/ events.lost \/ p \in events.paths
           \/ k \in due /\ (batch.lost \/ p \in batch.paths)
    BY <1>2, <2>1 DEF ReportInv
  <2>. QED
    BY <1>2, <2>2 DEF Reporting
<1>. QED
  BY <1>2 DEF ReportInv, RenamedFrom

\* Nothing the running pass has to visit is at risk any more.
NoneDue == \A k \in due, p \in Path : ~AtRisk(k, p)

LEMMA NoneDueStays ==
  ASSUME TypeOK, Tame, stored \subseteq stored', due' \subseteq due, NoneDue
  PROVE  /\ \A k \in due, p \in Path : ~AtRisk(k, p)'
         /\ NoneDue' /\ DueInv'
<1>1. due \subseteq 1..MaxWrites
  BY DEF TypeOK, HistoryType
<1>2. \A k \in due, p \in Path : ~AtRisk(k, p)'
  BY <1>1, RiskWas DEF NoneDue
<1>. QED
  BY <1>2 DEF NoneDue, DueInv

SafeSteps == {"missing", "walk", "pull", "poll", "apply", "slow", "sent", "list",
              "match", "first", "place"}
LEMMA DueSafe ==
  ASSUME DueInv, Pass \in SafeSteps
  PROVE  NoneDue
BY DEF DueInv, NoneDue, SafeSteps

LEMMA NotedGrows ==
  ASSUME TypeOK, NEW ps, events' = Noted(ps)
  PROVE  /\ events'.renames = events.renames /\ events'.lost = events.lost
         /\ events.paths \subseteq events'.paths
         /\ RenamedFrom(events') = RenamedFrom(events)
<1>1. events \in Reported
  BY DEF TypeOK, FolderType
<1>. QED
  BY <1>1 DEF Noted, Reported, RenamedFrom

-----------------------------------------------------------------------------
(* Steps by the kind of pass                                                *)

LEMMA KeysStep ==
  ASSUME KeyInv, receipts' = receipts, stored \subseteq stored'
  PROVE  KeyInv'
BY DEF KeyInv

LEMMA StartStep ==
  ASSUME StartInv, watched' \subseteq watched,
         why' \in {why, "none", "poll", "audit"}, pc' \notin {"first", "place"}
  PROVE  StartInv'
BY DEF StartInv

LEMMA NoJobStep ==
  ASSUME job' = NoJob, pc' \notin Sending
  PROVE  JobInv'
<1>1. \A k : job'.stamp # Written(k)
  BY Plains DEF NoJob, NoStamp, Written
<1>. QED
  BY <1>1 DEF JobInv, Sending

LEMMA KeepStep ==
  ASSUME IInv, IInv', KeepInv, pc = "off" => pc' = "off", Steady, Stamped, Reporting,
         KeyInv', StartInv', JobInv', DueInv', due' \subseteq due,
         pc' = "idle" => batch' = NoEvents,
         \A k \in watched', p \in Path : AtRisk(k, p)' /\ k \in due =>
           \/ k \in due' /\ batch' = batch
           \/ (batch.lost => events'.lost) /\ batch.paths \subseteq events'.paths
  PROVE  KeepInv'
<1>1. TypeOK /\ TypeOK'
  BY DEF IInv
<1>2. StampInv' /\ WatchedInv'
  BY <1>1, StampsStep DEF KeepInv
<1>3. ReportInv'
  BY <1>1, ReportStep DEF KeepInv
<1>. QED
  BY <1>2, <1>3 DEF KeepInv

\* When nothing is due, what is left to show.
LEMMA KeepSafe ==
  ASSUME IInv, IInv', KeepInv, NoneDue, pc = "off" => pc' = "off", Tame, stored \subseteq stored',
         writes' = writes, watched' \subseteq watched, due' \subseteq due,
         Stamped, Reporting, KeyInv', StartInv', JobInv',
         pc' = "idle" => batch' = NoEvents
  PROVE  KeepInv'
<1>1. TypeOK /\ TypeOK' /\ StampInv
  BY DEF IInv, KeepInv
<1>2. Steady
  BY <1>1, TameSteady
<1>3. DueInv' /\ \A k \in due, p \in Path : ~AtRisk(k, p)'
  BY <1>1, NoneDueStays
<1>. QED
  BY <1>2, <1>3, KeepStep

\* The pass ends or goes on to the next part.
LEMMA EnterClears ==
  ASSUME NEW step, NEW w, Enter(step, w)
  PROVE  /\ pc' = step /\ why' = w /\ batch' = NoEvents /\ todo' = {} /\ job' = NoJob
         /\ \A q \in Path : Plain(work'[q].stamp) /\ Plain(scan'[q].stamp)
         /\ Plain(job'.stamp) /\ RenamedFrom(batch') = {}
BY Plains DEF Enter, Nowhere, Nothing, RenamedFrom, NoEvents

LEMMA KeepFail ==
  ASSUME IInv, IInv', KeepInv, NEW ps \in SUBSET Path, Fail(ps), Steady, KeyInv', due' \subseteq due,
         pc # "off"
  PROVE  KeepInv'
<1>1. TypeOK /\ TypeOK' /\ StartInv /\ StampInv
  BY DEF IInv, KeepInv
<1>2. base' \in {base, work}
  BY DEF Fail
<1>3. PICK step \in {"off", "idle"} :
        /\ Enter(step, "none")
        /\ step = "idle" => events' = Merged(Noted(ps), batch)
        /\ step = "off" => why = "start"
  BY DEF Fail
<1>4. Stamped
  <2>1. \A q \in Path : base'[q].stamp \in Entries
    BY <1>2 DEF Entries
  <2>. QED
    BY <1>1, <1>3, <2>1, EnterClears, PlainIsHarmless DEF Stamped, Carried
<1>5. StampInv' /\ WatchedInv'
  <2>1. \A k \in due' : k \in due \cup watched
    OBVIOUS
  <2>. QED
    BY <1>1, <1>4, <2>1, StampsStep DEF KeepInv
<1>6. StartInv'
  BY <1>1, <1>3, EnterClears, StartStep DEF Steady
<1>7. JobInv' /\ DueInv'
  <2>1. job' = NoJob /\ pc' = step /\ Pass' = step
    BY <1>3, EnterClears DEF Pass
  <2>2. DueInv'
    BY <1>3, <2>1 DEF DueInv
  <2>. QED
    BY <1>3, <2>1, <2>2, NoJobStep DEF Sending
<1>8. ReportInv'
  <2>1. CASE step = "off"
    BY <1>3, <2>1, EnterClears DEF ReportInv
  <2>2. CASE step = "idle"
    <3>1. /\ Noted(ps).renames = events.renames
          /\ events.lost => Noted(ps).lost
          /\ events.paths \subseteq Noted(ps).paths
      <4>1. events \in Reported
        BY <1>1 DEF TypeOK, FolderType
      <4>. QED
        BY <4>1 DEF Noted, Reported
    <3>2. events' = Merged(Noted(ps), batch)
      BY <1>3, <2>2
    <3>4. /\ events'.paths = Noted(ps).paths \cup batch.paths
          /\ events'.renames = Noted(ps).renames \cup batch.renames
          /\ Noted(ps).lost \/ batch.lost => events'.lost
      BY <3>2 DEF Merged
    <3>3. Reporting
      <4>1. RenamedFrom(batch') = {}
        BY <1>3, EnterClears
      <4>2. RenamedFrom(events') \subseteq RenamedFrom(events) \cup RenamedFrom(batch)
        BY <3>1, <3>4 DEF RenamedFrom
      <4>. QED
        BY <3>1, <3>4, <4>1, <4>2 DEF Reporting
    <3>5. /\ batch' = NoEvents
          /\ batch.lost => events'.lost
          /\ batch.paths \subseteq events'.paths
      BY <1>3, <3>4, EnterClears
    <3>. QED
      BY <1>1, <3>3, <3>5, ReportStep DEF KeepInv
  <2>. QED
    BY <1>3, <2>1, <2>2
<1>. QED
  BY <1>5, <1>6, <1>7, <1>8 DEF KeepInv

-----------------------------------------------------------------------------
(* The user and other clients                                               *)

\* Nothing changes but what the server stores, and the number of writes.
LEMMA KeepWeb == KeepInv /\ IInv /\ IInv' /\ Webs => KeepInv'
<1> SUFFICES ASSUME KeepInv, IInv, IInv', Webs PROVE KeepInv'
  OBVIOUS
<1>1. /\ UNCHANGED <<folder, mount, run, history>> /\ receipts' = receipts
      /\ stored \subseteq stored' /\ (writes' = writes \/ writes' = writes + 1)
  <2>1. CASE WebCreate
    BY <2>1 DEF WebCreate, Web, Create
  <2>2. CASE WebWrite
    BY <2>2 DEF WebWrite, Web
  <2>3. CASE WebDelete
    BY <2>3 DEF WebDelete, Web, Trash
  <2>4. CASE WebMove
    BY <2>4 DEF WebMove, Web, MoveTo
  <2>5. CASE WebRestore
    BY <2>5 DEF WebRestore, Web
  <2>. QED
    BY <2>1, <2>2, <2>3, <2>4, <2>5 DEF Webs
<1>2. /\ disk' = disk /\ events' = events /\ base' = base /\ work' = work
      /\ pc' = pc /\ why' = why /\ batch' = batch /\ todo' = todo /\ scan' = scan
      /\ job' = job /\ watched' = watched /\ due' = due
  BY <1>1 DEF folder, mount, run, locals, history
<1>3. writes \in Int /\ writes =< writes' /\ watched \cup due \subseteq Int
  BY <1>1 DEF IInv, TypeOK, CountType, HistoryType
<1>4. \A k, p : At(k, p)' = At(k, p) /\ (AtRisk(k, p)' => AtRisk(k, p))
  BY <1>1, <1>2 DEF At, AtRisk
<1>5. StampInv' /\ KeyInv' /\ StartInv'
  BY <1>1, <1>2, <1>3, <1>4 DEF KeepInv, StampInv, KeyInv, StartInv
<1>6. WatchedInv' /\ ReportInv'
  BY <1>2, <1>4 DEF KeepInv, WatchedInv, ReportInv
<1>7. JobInv'
  BY <1>2, <1>4 DEF KeepInv, JobInv, Pass, Target
<1>8. DueInv'
  BY <1>2, <1>4 DEF KeepInv, DueInv, Pass, Target, InHand, In
<1>. QED
  BY <1>5, <1>6, <1>7, <1>8 DEF KeepInv

\* Where the folder and what runs there stay as they are.
LEMMA Still ==
  ASSUME KeepInv, IInv', disk' = disk, stored \subseteq stored', writes' = writes,
         watched' \subseteq watched
  PROVE  Tame /\ Steady /\ \A k, p : AtRisk(k, p)' => AtRisk(k, p)
<1>1. Tame
  BY DEF Tame
<1>2. Steady
  BY <1>1, TameSteady DEF KeepInv, IInv
<1>. QED
  BY <1>1, <1>2 DEF AtRisk, At

LEMMA SameStamps ==
  ASSUME UNCHANGED <<base, work, scan, job>>
  PROVE  Stamped
BY DEF Stamped, Carried, Entries

LEMMA SameRun ==
  ASSUME UNCHANGED run
  PROVE  /\ pc' = pc /\ why' = why /\ batch' = batch /\ work' = work /\ todo' = todo
         /\ scan' = scan /\ job' = job /\ Pass' = Pass /\ Target' = Target
BY DEF run, locals, Pass, Target

LEMMA KeepOverflow == KeepInv /\ IInv /\ IInv' /\ Overflow => KeepInv'
<1> SUFFICES ASSUME KeepInv, IInv, IInv', Overflow PROVE KeepInv'
  OBVIOUS
<1>1. /\ pc # "off" /\ events' = [events EXCEPT !.lost = TRUE]
      /\ disk' = disk /\ base' = base /\ UNCHANGED run /\ receipts' = receipts
      /\ stored' = stored /\ watched' = watched /\ due' = due /\ writes' = writes
  BY DEF Overflow, Watching, server, mount, history, counts
<1>2. Steady /\ \A k, p : AtRisk(k, p)' => AtRisk(k, p)
  BY <1>1, Still
<1>3. Stamped
  BY <1>1, SameRun, SameStamps
<1>4. Reporting
  <2>1. events \in Reported
    BY DEF IInv, TypeOK, FolderType
  <2>2. events'.paths = events.paths /\ events'.renames = events.renames /\ events'.lost
    BY <1>1, <2>1 DEF Reported
  <2>. QED
    BY <1>1, <2>2, SameRun DEF Reporting, RenamedFrom
<1>5. KeyInv' /\ StartInv'
  BY <1>1, SameRun DEF KeepInv, KeyInv, StartInv
<1>6. JobInv'
  BY <1>1, <1>2, SameRun DEF KeepInv, JobInv
<1>7. DueInv'
  BY <1>1, <1>2, SameRun DEF KeepInv, DueInv, InHand, In
<1>8. pc' = "idle" => batch' = NoEvents
  BY <1>1, SameRun DEF KeepInv, ReportInv
<1>. QED
  BY <1>1, <1>2, <1>3, <1>4, <1>5, <1>6, <1>7, <1>8, SameRun, KeepStep

LEMMA FreshIsPlain ==
  /\ \A c : Plain(Placeholder(c).stamp) /\ Plain(Fresh(c).stamp)
  /\ \A c, s : Entry(c, s).stamp = s
BY Plains DEF Placeholder, Fresh, Entry

\* What the server's files leave in the folder has the stamp of no write.
Bare(d, p) == d[p] = disk[p] \/ Plain(d[p].stamp)

LEMMA AfterIsBare ==
  ASSUME NEW p \in Path
  PROVE  Bare(After, p)
<1>1. \A q, c : Bare(Placed(q, c), p)
  <2> SUFFICES ASSUME NEW q, NEW c PROVE Bare(Placed(q, c), p)
    OBVIOUS
  <2>1. CASE Placed(q, c)[p] = disk[p]
    BY <2>1 DEF Bare
  <2>2. CASE Placed(q, c)[p] = Placeholder(c)
    BY <2>2, FreshIsPlain DEF Bare
  <2>. QED
    BY <2>1, <2>2 DEF Placed
<1>2. \A ps : Bare(Without(ps), p)
  BY Plains DEF Bare, Without
<1>3. Bare(Adopted, p) /\ Bare(Upserted, p) /\ Bare(disk, p)
  BY FreshIsPlain DEF Bare, Adopted, Upserted
<1>4. \A ps : Bare(Pulled(ps), p)
  BY FreshIsPlain, Plains DEF Bare, Pulled
<1>5. \/ After \in {disk, Adopted, Upserted}
      \/ \E q, c : After = Placed(q, c)
      \/ \E ps : After = Without(ps)
      \/ \E ps : After = Pulled(ps)
  BY DEF After
<1>. QED
  BY <1>1, <1>2, <1>3, <1>4, <1>5

LEMMA KeepCrash == KeepInv /\ IInv /\ IInv' /\ Crash => KeepInv'
<1> SUFFICES ASSUME KeepInv, IInv, IInv', Crash PROVE KeepInv'
  OBVIOUS
<1>1. /\ Enter("off", "none") /\ base' = base /\ receipts' = receipts
      /\ stored' = stored /\ watched' = watched /\ due' = due /\ writes' = writes
  BY DEF Crash, server, mount, history, counts
<1>2. Tame
  <2>1. PICK done, half \in SUBSET {p \in Path : After[p] # disk[p]} :
          disk' = [p \in Path |-> IF p \in done THEN After[p]
                                  ELSE IF p \in half THEN NoFile ELSE disk[p]]
    BY DEF Crash
  <2>. QED
    BY <2>1, AfterIsBare, Plains DEF Bare, Tame
<1>3. Steady /\ StampInv' /\ WatchedInv'
  <2>1. Steady
    BY <1>1, <1>2, TameSteady DEF KeepInv, IInv
  <2>2. Stamped
    BY <1>1, EnterClears, PlainIsHarmless DEF Stamped, Carried, Entries, IInv
  <2>. QED
    BY <1>1, <2>1, <2>2, StampsStep DEF KeepInv, IInv
<1>4. pc' = "off" /\ why' = "none" /\ job' = NoJob /\ Pass' = "off"
  BY <1>1, EnterClears DEF Pass
<1>5. KeyInv' /\ StartInv' /\ ReportInv' /\ DueInv'
  BY <1>1, <1>4 DEF KeepInv, KeyInv, StartInv, ReportInv, DueInv
<1>6. JobInv'
  BY <1>4, NoJobStep DEF Sending
<1>. QED
  BY <1>3, <1>5, <1>6 DEF KeepInv

\* What the running pass has to visit.
LEMMA DueStays ==
  ASSUME DueInv, UNCHANGED run,
         \A k \in due', p \in Path : AtRisk(k, p)' =>
           /\ k \in due /\ AtRisk(k, p) /\ (k \in watched => k \in watched')
           /\ disk'[p].stamp = disk[p].stamp /\ disk'[p].bytes = disk[p].bytes
  PROVE  DueInv'
<1>1. ASSUME NEW k \in due', NEW p \in Path, AtRisk(k, p)'
      PROVE  /\ Pass' \in {"off", "idle", "local", "scan", "add", "edit"}
             /\ Pass' \in {"local", "scan"} => k \in watched'
             /\ Pass' = "local" => p \in todo' \/ InHand(p)'
             /\ Pass' \in {"add", "edit"} =>
                  /\ scan'[p].stamp = Written(k) /\ work'[p].stamp # Written(k)
                  /\ p \in todo' \/ InHand(p)' \/ (Pass' = "add" /\ In(work, p)')
  <2>1. k \in due /\ AtRisk(k, p) /\ (k \in watched => k \in watched')
    BY <1>1
  <2>2. InHand(p) => InHand(p)'
    BY <1>1, SameRun DEF InHand
  <2>3. In(work, p)' = In(work, p)
    BY SameRun DEF In
  <2>4. /\ Pass \in {"off", "idle", "local", "scan", "add", "edit"}
        /\ Pass \in {"local", "scan"} => k \in watched
        /\ Pass = "local" => p \in todo \/ InHand(p)
        /\ Pass \in {"add", "edit"} =>
             /\ scan[p].stamp = Written(k) /\ work[p].stamp # Written(k)
             /\ p \in todo \/ InHand(p) \/ (Pass = "add" /\ In(work, p))
    BY <2>1 DEF DueInv
  <2>. QED
    BY <2>1, <2>2, <2>3, <2>4, SameRun
<1>. QED
  BY <1>1 DEF DueInv, Written

\* The user leaves the conflict copies alone.
LEMMA JobStays ==
  ASSUME JobInv, UNCHANGED run, NEW p \in Name, NEW q \in Name,
         \A r \in Path : r # p /\ r # q => disk'[r] = disk[r],
         \A k \in watched' \cup due', r \in Path : AtRisk(k, r)' /\ r = job.path
             /\ job.stamp = Written(k)
           => /\ k \in watched \cup due /\ AtRisk(k, r)
              /\ disk'[r].bytes = disk[r].bytes
  PROVE  JobInv'
<1>1. \A k \in watched' \cup due', r \in Path :
         AtRisk(k, r)' /\ r = job'.path /\ job'.stamp = Written(k)
           => job'.bytes = disk'[r].bytes
  BY SameRun DEF JobInv
<1>2. pc' = "sendCopy" => /\ job'.copy \in Copy
                          /\ disk'[job'.copy].stamp = <<"copy", job'.bytes, 0>>
                          /\ disk'[job'.copy].bytes = job'.bytes
  <2>1. \A c \in Copy : c \in Path /\ c # p /\ c # q
    BY MountAssumption DEF Name, Copy, Path
  <2>. QED
    BY <2>1, SameRun DEF JobInv
<1>3. pc' \in Sending /\ Pass' \in {"local", "add", "edit"} => Target' \notin todo'
  BY SameRun DEF JobInv
<1>. QED
  BY <1>1, <1>2, <1>3 DEF JobInv, Written

\* The user takes a file away.
LEMMA KeepUserRemove == KeepInv /\ IInv /\ IInv' /\ UserRemove => KeepInv'
<1> SUFFICES ASSUME KeepInv, IInv, IInv', UserRemove PROVE KeepInv'
  OBVIOUS
<1>1. /\ UNCHANGED run /\ base' = base /\ receipts' = receipts
      /\ stored' = stored /\ watched' = watched /\ due' = due /\ writes' = writes
  BY DEF UserRemove, User, server, mount
<1>2. PICK p \in Name : disk' = [disk EXCEPT ![p] = NoFile] /\ events' = Noted({p})
  BY DEF UserRemove
<1>3. p \in Path /\ disk \in [Path -> File] /\ TypeOK /\ TypeOK'
  BY Bounds DEF IInv, TypeOK, FolderType
<1>4. Tame /\ \A q \in Path : q # p => disk'[q] = disk[q]
  BY <1>2, <1>3, Plains DEF Tame
<1>5. \A k \in watched \cup due, q \in Path : AtRisk(k, q)' =>
         /\ AtRisk(k, q) /\ disk'[q].stamp = disk[q].stamp /\ disk'[q].bytes = disk[q].bytes
  BY <1>1, <1>3, <1>4, Writes, RiskWas
<1>6. Steady
  BY <1>1, <1>3, <1>4, TameSteady DEF KeepInv
<1>7. Stamped /\ Reporting
  BY <1>1, <1>2, <1>3, SameRun, SameStamps, NotedGrows DEF Reporting, RenamedFrom
<1>8. KeyInv' /\ StartInv'
  BY <1>1, SameRun DEF KeepInv, KeyInv, StartInv
<1>9. JobInv'
  BY <1>1, <1>2, <1>4, <1>5, JobStays DEF KeepInv
<1>10. DueInv'
  BY <1>1, <1>5, SameRun DEF KeepInv, DueInv, InHand, In
<1>11. pc' = "idle" => batch' = NoEvents
  BY <1>1, SameRun DEF KeepInv, ReportInv
<1>. QED
  BY <1>1, <1>6, <1>7, <1>8, <1>9, <1>10, <1>11, SameRun, KeepStep

\* The stamp of the new write is on no other file.
LEMMA KeepUserWrite == KeepInv /\ IInv /\ IInv' /\ UserWrite => KeepInv'
<1> SUFFICES ASSUME KeepInv, IInv, IInv', UserWrite PROVE KeepInv'
  OBVIOUS
<1>1. /\ UNCHANGED run /\ base' = base /\ receipts' = receipts
      /\ stored' = stored /\ due' = due /\ writes' = writes + 1
  BY DEF UserWrite, User, server, mount
<1>2. PICK p \in Name, b \in {writes'} \cup (IF Copying THEN 0..writes ELSE {}) :
        /\ disk' = [disk EXCEPT ![p].stamp = Written(writes'), ![p].bytes = b]
        /\ events' = Noted({p})
        /\ watched' = IF Watching /\ p \notin RenamedFrom(events) \cup RenamedFrom(batch)
                      THEN watched \cup {writes'} ELSE watched
  BY DEF UserWrite
<1>3. /\ p \in Path /\ disk \in [Path -> File] /\ TypeOK /\ TypeOK'
      /\ writes \in Nat /\ watched \cup due \subseteq 1..MaxWrites
      /\ writes' \in 1..MaxWrites
  <2>1. writes \in 0..MaxWrites /\ writes' \in 0..MaxWrites /\ TypeOK /\ TypeOK'
    BY DEF IInv, TypeOK, CountType
  <2>. QED
    BY <1>1, <2>1, Bounds, Writes DEF TypeOK, FolderType
<1>4. /\ disk'[p].stamp = Written(writes') /\ \A q \in Path : q # p => disk'[q] = disk[q]
  BY <1>2, <1>3 DEF File
<1>5. \A k \in 1..MaxWrites : k =< writes =>
        \A q \in Path : At(k, q)' => q # p /\ At(k, q) /\ (AtRisk(k, q)' => AtRisk(k, q))
  BY <1>1, <1>3, <1>4 DEF At, AtRisk, Written
<1>6. \A q \in Path : /\ ~At(writes', q)
                      /\ Written(writes') \notin {base[q].stamp, work[q].stamp,
                                                  scan[q].stamp, job.stamp}
  BY <1>1, <1>3 DEF KeepInv, StampInv, At
<1>7. \A k \in watched \cup due : k =< writes
  BY DEF KeepInv, StampInv
<1>8. watched' \subseteq watched \cup {writes'}
  BY <1>2
<1>9. StampInv'
  <2>1. ASSUME NEW k \in 1..MaxWrites, NEW q \in Path, NEW r \in Path, At(k, q)', At(k, r)'
        PROVE  q = r
    <3>1. CASE k = writes'
      BY <1>4, <1>6, <2>1, <3>1 DEF At
    <3>2. CASE k # writes'
      BY <1>4, <2>1, <3>2 DEF KeepInv, StampInv, At, Written
    <3>. QED
      BY <3>1, <3>2
  <2>2. \A k \in 1..MaxWrites, q \in Path :
          Written(k) \in {disk'[q].stamp, base'[q].stamp, work'[q].stamp,
                          scan'[q].stamp, job'.stamp} => k =< writes'
    <3>1. \A k \in 1..MaxWrites, q \in Path :
            Written(k) \in {disk[q].stamp, base[q].stamp, work[q].stamp,
                            scan[q].stamp, job.stamp} => k =< writes
      BY DEF KeepInv, StampInv
    <3>2. \A k \in 1..MaxWrites : Written(k) = Written(writes') => k =< writes'
      BY <1>3 DEF Written
    <3>3. \A k \in 1..MaxWrites : k =< writes => k =< writes'
      BY <1>1, <1>3
    <3>. QED
      BY <1>1, <1>4, <3>1, <3>2, <3>3, SameRun
  <2>3. \A k \in watched' \cup due' : k =< writes'
    BY <1>1, <1>3, <1>7, <1>8
  <2>. QED
    BY <2>1, <2>2, <2>3 DEF StampInv, Written
<1>10. KeyInv' /\ StartInv'
  <2>1. Watching => why # "start" /\ pc \notin {"first", "place"}
    BY DEF KeepInv, StartInv, IInv, Watching
  <2>. QED
    BY <1>1, <1>2, <2>1, SameRun DEF KeepInv, KeyInv, StartInv
<1>11. WatchedInv'
  <2>1. ASSUME NEW k \in watched', NEW q \in Path, AtRisk(k, q)'
        PROVE  /\ \A r \in Path : Written(k) \notin {base[r].stamp, work[r].stamp}
               /\ \A r \in Path : scan[r].stamp = Written(k) => r = q
               /\ job.stamp = Written(k) => q = job.path
    <3>1. CASE k = writes'
      BY <1>6, <3>1
    <3>2. CASE k \in watched
      <4>1. k \in 1..MaxWrites /\ k =< writes
        BY <1>3, <1>7, <3>2
      <4>2. AtRisk(k, q)
        BY <1>5, <2>1, <4>1 DEF AtRisk
      <4>. QED
        BY <3>2, <4>2 DEF KeepInv, WatchedInv
    <3>. QED
      BY <1>8, <3>1, <3>2
  <2>. QED
    BY <1>1, <2>1, SameRun DEF WatchedInv, Written
<1>12. ReportInv'
  <2>1. /\ events'.renames = events.renames /\ (events.lost => events'.lost)
        /\ events.paths \subseteq events'.paths /\ (Watching => p \in events'.paths)
        /\ RenamedFrom(events') = RenamedFrom(events) /\ RenamedFrom(batch') = RenamedFrom(batch)
    <3>1. events \in Reported
      BY <1>3 DEF TypeOK, FolderType
    <3>2. Watching => p \in events'.paths
      BY <1>2, <3>1 DEF Noted, Reported
    <3>. QED
      BY <1>1, <1>2, <1>3, <3>2, NotedGrows, SameRun DEF RenamedFrom
  <2>2. ASSUME pc # "off", NEW k \in watched', NEW q \in Path, AtRisk(k, q)'
        PROVE  /\ q \notin RenamedFrom(events') \cup RenamedFrom(batch')
               /\ \/ events'.lost \/ q \in events'.paths
                  \/ k \in due' /\ (batch'.lost \/ q \in batch'.paths)
    <3>1. CASE k \in watched
      <4>1. k \in 1..MaxWrites /\ k =< writes
        BY <1>3, <1>7, <3>1
      <4>2. AtRisk(k, q)
        BY <1>5, <2>2, <4>1 DEF AtRisk
      <4>3. /\ q \notin RenamedFrom(events) \cup RenamedFrom(batch)
            /\ \/ events.lost \/ q \in events.paths
               \/ k \in due /\ (batch.lost \/ q \in batch.paths)
        BY <2>2, <3>1, <4>2 DEF KeepInv, ReportInv
      <4>. QED
        BY <1>1, <2>1, <4>3, SameRun
    <3>2. CASE k \notin watched
      <4>1. k = writes' /\ Watching /\ p \notin RenamedFrom(events) \cup RenamedFrom(batch)
        BY <1>2, <2>2, <3>2
      <4>2. q = p
        BY <1>4, <1>6, <2>2, <4>1 DEF AtRisk, At
      <4>. QED
        BY <2>1, <4>1, <4>2
    <3>. QED
      BY <3>1, <3>2
  <2>3. pc' = "idle" => batch' = NoEvents
    BY <1>1, SameRun DEF KeepInv, ReportInv
  <2>. QED
    BY <1>1, <2>2, <2>3, SameRun DEF ReportInv
<1>13. JobInv'
  <2>1. ASSUME NEW k \in watched' \cup due', NEW r \in Path, AtRisk(k, r)',
               r = job.path, job.stamp = Written(k)
        PROVE  /\ k \in watched \cup due /\ AtRisk(k, r)
               /\ disk'[r].bytes = disk[r].bytes
    <3>1. k # writes'
      BY <1>3, <1>6, <2>1
    <3>2. k \in watched \cup due /\ k \in 1..MaxWrites /\ k =< writes
      BY <1>1, <1>3, <1>7, <1>8, <3>1
    <3>3. r # p /\ AtRisk(k, r)
      BY <1>5, <2>1, <3>2 DEF AtRisk
    <3>. QED
      BY <1>4, <3>2, <3>3
  <2>. QED
    BY <1>1, <1>4, <2>1, JobStays DEF KeepInv
<1>14. DueInv'
  <2>1. ASSUME NEW k \in due', NEW q \in Path, AtRisk(k, q)'
        PROVE  /\ k \in due /\ AtRisk(k, q) /\ (k \in watched => k \in watched')
               /\ disk'[q].stamp = disk[q].stamp /\ disk'[q].bytes = disk[q].bytes
    <3>1. k \in due /\ k \in 1..MaxWrites /\ k =< writes
      BY <1>1, <1>3, <1>7
    <3>2. AtRisk(k, q) /\ q # p
      BY <1>5, <2>1, <3>1 DEF AtRisk
    <3>. QED
      BY <1>2, <1>4, <3>1, <3>2
  <2>. QED
    BY <1>1, <2>1, DueStays DEF KeepInv
<1>. QED
  BY <1>9, <1>10, <1>11, <1>12, <1>13, <1>14 DEF KeepInv

\* The file keeps its stamp under its new name.
LEMMA KeepUserRename == KeepInv /\ IInv /\ IInv' /\ UserRename => KeepInv'
<1> SUFFICES ASSUME KeepInv, IInv, IInv', UserRename PROVE KeepInv'
  OBVIOUS
<1>1. /\ UNCHANGED run /\ base' = base /\ receipts' = receipts
      /\ stored' = stored /\ writes' = writes
  BY DEF UserRename, User, server, mount
<1>2. PICK p \in Name, q \in Name :
        /\ Here(p) /\ ~Here(q)
        /\ disk' = [disk EXCEPT ![p] = NoFile, ![q] = disk[p]]
        /\ events' = IF Watching
                     THEN [events EXCEPT !.renames = @ \cup {<<p, q>>}]
                     ELSE events
        /\ watched' = {k \in watched : ~At(k, p)}
        /\ due' = {k \in due : ~At(k, p)}
  BY DEF UserRename
<1>3. /\ p \in Path /\ q \in Path /\ p # q /\ disk \in [Path -> File] /\ TypeOK /\ TypeOK'
      /\ watched \cup due \subseteq 1..MaxWrites
  BY <1>2, Bounds, Writes DEF IInv, TypeOK, FolderType
<1>4. /\ disk'[p] = NoFile /\ disk'[q] = disk[p]
      /\ \A r \in Path : r # p /\ r # q => disk'[r] = disk[r]
  BY <1>2, <1>3
<1>5. \A k \in 1..MaxWrites : NoFile.stamp # Written(k)
  BY Plains DEF Plain
<1>6. ASSUME NEW k \in watched' \cup due', NEW r \in Path, AtRisk(k, r)'
      PROVE  /\ k \in watched \cup due /\ AtRisk(k, r) /\ r # p /\ r # q
             /\ disk'[r] = disk[r] /\ (k \in watched => k \in watched')
  <2>1. k \in 1..MaxWrites /\ ~At(k, p) /\ k \in watched \cup due
    BY <1>2, <1>3
  <2>2. r # p /\ r # q
    BY <1>4, <1>5, <1>6, <2>1 DEF AtRisk, At
  <2>3. k \in watched => k \in watched'
    BY <1>2, <2>1
  <2>4. disk'[r] = disk[r]
    BY <1>4, <2>2
  <2>5. AtRisk(k, r)
    BY <1>1, <1>6, <2>4 DEF AtRisk, At
  <2>. QED
    BY <2>1, <2>2, <2>3, <2>4, <2>5
<1>7. Steady
  <2>1. ASSUME NEW k \in 1..MaxWrites, NEW x \in Path, NEW y \in Path, At(k, x)', At(k, y)'
        PROVE  x = y
    <3>1. x # p /\ y # p
      BY <1>4, <1>5, <2>1 DEF At
    <3>. QED
      BY <1>3, <1>4, <2>1, <3>1 DEF KeepInv, StampInv, At
  <2>2. \A r \in Path : Known(disk'[r].stamp)
    BY <1>3, <1>4, AllKnown, Plains DEF KeepInv
  <2>. QED
    BY <1>1, <1>2, <1>6, <2>1, <2>2 DEF Steady
<1>8. Stamped
  BY <1>1, SameRun, SameStamps
<1>9. StampInv' /\ WatchedInv'
  BY <1>2, <1>3, <1>7, <1>8, StampsStep DEF KeepInv
<1>10. KeyInv' /\ StartInv'
  BY <1>1, <1>2, SameRun DEF KeepInv, KeyInv, StartInv
<1>11. ReportInv'
  <2>1. /\ events'.paths = events.paths /\ (events.lost => events'.lost)
        /\ RenamedFrom(events') \subseteq RenamedFrom(events) \cup {p}
        /\ RenamedFrom(batch') = RenamedFrom(batch)
    <3>1. events \in Reported
      BY <1>3 DEF TypeOK, FolderType
    <3>2. events'.renames \subseteq events.renames \cup {<<p, q>>}
      BY <1>2, <3>1 DEF Reported
    <3>. QED
      BY <1>1, <1>2, <3>1, <3>2, SameRun DEF Reported, RenamedFrom
  <2>2. ASSUME pc # "off", NEW k \in watched', NEW r \in Path, AtRisk(k, r)'
        PROVE  /\ r \notin RenamedFrom(events') \cup RenamedFrom(batch')
               /\ \/ events'.lost \/ r \in events'.paths
                  \/ k \in due' /\ (batch'.lost \/ r \in batch'.paths)
    <3>1. k \in watched /\ AtRisk(k, r) /\ r # p /\ (k \in due => k \in due')
      BY <1>2, <1>6, <2>2
    <3>2. /\ r \notin RenamedFrom(events) \cup RenamedFrom(batch)
          /\ \/ events.lost \/ r \in events.paths
             \/ k \in due /\ (batch.lost \/ r \in batch.paths)
      BY <2>2, <3>1 DEF KeepInv, ReportInv
    <3>. QED
      BY <1>1, <2>1, <3>1, <3>2, SameRun
  <2>3. pc' = "idle" => batch' = NoEvents
    BY <1>1, SameRun DEF KeepInv, ReportInv
  <2>. QED
    BY <1>1, <2>2, <2>3, SameRun DEF ReportInv
<1>12. JobInv'
  BY <1>1, <1>4, <1>6, JobStays DEF KeepInv
<1>13. DueInv'
  BY <1>1, <1>2, <1>6, DueStays DEF KeepInv
<1>. QED
  BY <1>9, <1>10, <1>11, <1>12, <1>13 DEF KeepInv

-----------------------------------------------------------------------------
(* When the local changes have been sent                                    *)

\* The requests of these steps read.
Reading == UNCHANGED <<receipts, stored, writes, watched, due>>

\* The next part of the pass, or its end.
LEMMA EnterKeeps ==
  ASSUME IInv, IInv', KeepInv, NoneDue, pc # "off", Tame, Reading, Carried(base'),
         events.lost => events'.lost, events.paths \subseteq events'.paths,
         RenamedFrom(events') \subseteq RenamedFrom(events),
         NEW step \in {"idle", "poll", "scan"}, NEW w \in {"none", "poll", "audit"},
         Enter(step, w)
  PROVE  KeepInv'
<1>1. /\ pc' = step /\ why' = w /\ batch' = NoEvents /\ job' = NoJob
      /\ \A q \in Path : Plain(work'[q].stamp) /\ Plain(scan'[q].stamp)
      /\ Plain(job'.stamp) /\ RenamedFrom(batch') = {}
  BY EnterClears
<1>2. Stamped
  BY <1>1, PlainIsHarmless DEF Stamped, Carried, IInv
<1>3. Reporting
  BY <1>1 DEF Reporting
<1>4. KeyInv' /\ StartInv' /\ JobInv'
  <2>1. JobInv'
    BY <1>1, NoJobStep DEF Sending
  <2>. QED
    BY <1>1, <2>1, KeysStep, StartStep DEF Reading, KeepInv
<1>. QED
  BY <1>1, <1>2, <1>3, <1>4, KeepSafe DEF Reading

LEMMA KeepEndPage == KeepInv /\ IInv /\ IInv' /\ EndPage => KeepInv'
<1> SUFFICES ASSUME KeepInv, IInv, IInv', EndPage PROVE KeepInv'
  OBVIOUS
<1>1. /\ pc = "slow" /\ base' = work /\ disk' = disk /\ events' = events /\ Reading
      /\ Enter("idle", "none")
  BY DEF EndPage, Polled, folder, history, counts, Reading
<1>2. NoneDue
  <2>1. job = NoJob
    BY <1>1 DEF IInv, ControlInv, Sending
  <2>. QED
    BY <1>1, <2>1, DueSafe DEF KeepInv, Pass, SafeSteps
<1>3. Tame /\ Carried(base')
  BY <1>1 DEF Tame, Carried, Entries
<1>. QED
  BY <1>1, <1>2, <1>3, EnterKeeps

\* No file is being sent.
LEMMA AtItsStep ==
  ASSUME IInv, pc \notin Sending
  PROVE  Pass = pc /\ job = NoJob /\ TypeOK
BY DEF IInv, ControlInv, Pass

LEMMA NothingIsDue ==
  ASSUME IInv, KeepInv, pc \in SafeSteps
  PROVE  NoneDue /\ Pass = pc /\ job = NoJob /\ pc # "off" /\ TypeOK
BY AtItsStep, DueSafe DEF SafeSteps, Sending, KeepInv

LEMMA KeepPrune == KeepInv /\ IInv /\ IInv' /\ Prune => KeepInv'
<1> SUFFICES ASSUME KeepInv, IInv, IInv', Prune PROVE KeepInv'
  OBVIOUS
<1>1. /\ pc = "match"
      /\ disk' = [p \in Path |-> IF p \in Pruned THEN NoFile ELSE disk[p]]
      /\ events' = Noted({p \in Pruned : Here(p)})
      /\ base' = [p \in Path |-> IF p \in Pruned THEN NoEntry ELSE work[p]]
      /\ Reading /\ Enter("idle", "none")
  BY DEF Prune, Without, Polled, history, counts, Reading
<1>2. NoneDue /\ TypeOK /\ TypeOK'
  BY <1>1, NothingIsDue DEF SafeSteps, IInv
<1>3. Tame /\ Carried(base')
  <2>1. Tame
    BY <1>1, Plains DEF Tame
  <2>. QED
    BY <1>1, <1>2, <2>1, Plains, PlainIsHarmless DEF Carried, Entries
<1>4. /\ events'.renames = events.renames /\ events'.lost = events.lost
      /\ events.paths \subseteq events'.paths /\ RenamedFrom(events') = RenamedFrom(events)
  BY <1>1, <1>2, NotedGrows
<1>. QED
  BY <1>1, <1>2, <1>3, <1>4, EnterKeeps

LEMMA KeepFastUpserts == KeepInv /\ IInv /\ IInv' /\ FastUpserts => KeepInv'
<1> SUFFICES ASSUME KeepInv, IInv, IInv', FastUpserts PROVE KeepInv'
  OBVIOUS
<1>1. PICK new \in SUBSET Path :
      /\ pc = "apply"
      /\ disk' = [p \in Path |-> IF p \in new THEN Placeholder(ChangeOf(p)) ELSE disk[p]]
      /\ events' = Noted(new)
      /\ base' = [p \in Path |-> IF p \in new THEN Fresh(ChangeOf(p)) ELSE base[p]]
      /\ Reading /\ Enter("idle", "none")
  <2> DEFINE ps == {p \in Path : Incoming(p)}
  <2>1. ps \in SUBSET Path
    OBVIOUS
  <2>. QED
    BY <2>1 DEF FastUpserts, Upserted, Polled, history, counts, Reading
<1>2. NoneDue /\ TypeOK /\ TypeOK'
  BY <1>1, NothingIsDue DEF SafeSteps, IInv
<1>3. Tame /\ Carried(base')
  <2>1. Tame
    BY <1>1, FreshIsPlain DEF Tame
  <2>. QED
    BY <1>1, <1>2, <2>1, FreshIsPlain, PlainIsHarmless DEF Carried, Entries
<1>4. /\ events'.renames = events.renames /\ events'.lost = events.lost
      /\ events.paths \subseteq events'.paths /\ RenamedFrom(events') = RenamedFrom(events)
  BY <1>1, <1>2, NotedGrows
<1>. QED
  BY <1>1, <1>2, <1>3, <1>4, EnterKeeps

LEMMA KeepFastDeletes == KeepInv /\ IInv /\ IInv' /\ FastDeletes => KeepInv'
<1> SUFFICES ASSUME KeepInv, IInv, IInv', FastDeletes PROVE KeepInv'
  OBVIOUS
<1>1. pc = "apply" /\ NoneDue /\ TypeOK /\ TypeOK' /\ pc # "off"
  BY NothingIsDue DEF FastDeletes, SafeSteps, IInv
<1>2. ASSUME NEW ps \in SUBSET Path, disk' = Without(ps),
             base' = [p \in Path |-> IF p \in ps THEN NoEntry ELSE base[p]],
             events' = Noted({p \in ps : Here(p)}), Reading, Enter("idle", "none")
      PROVE  KeepInv'
  <2>1. Tame /\ Carried(base')
    <3>1. Tame
      BY <1>2, Plains DEF Tame, Without
    <3>. QED
      BY <1>1, <1>2, <3>1, Plains, PlainIsHarmless DEF Carried, Entries
  <2>2. /\ events'.renames = events.renames /\ events'.lost = events.lost
        /\ events.paths \subseteq events'.paths /\ RenamedFrom(events') = RenamedFrom(events)
    BY <1>1, <1>2, NotedGrows
  <2>. QED
    BY <1>1, <1>2, <2>1, <2>2, EnterKeeps
<1>3. ASSUME Enter("idle", "none"), UNCHANGED <<server, folder, mount, history, counts>>
      PROVE  KeepInv'
  <2>1. /\ disk' = disk /\ events' = events /\ base' = base /\ Reading
    BY <1>3 DEF server, folder, mount, history, counts, Reading
  <2>2. Tame /\ Carried(base')
    BY <2>1 DEF Tame, Carried, Entries
  <2>. QED
    BY <1>1, <1>3, <2>1, <2>2, EnterKeeps
<1>4. PICK ps \in SUBSET Path : ps = {p \in Path : OnPage(p)}
  <2>1. {p \in Path : OnPage(p)} \in SUBSET Path
    OBVIOUS
  <2>. QED
    BY <2>1
<1>5. CASE /\ disk' = Without(ps)
           /\ Polled([p \in Path |-> IF p \in ps THEN NoEntry ELSE base[p]])
           /\ events' = Noted({p \in ps : Here(p)})
  <2>1. /\ base' = [p \in Path |-> IF p \in ps THEN NoEntry ELSE base[p]]
        /\ Reading /\ Enter("idle", "none")
    BY <1>5 DEF FastDeletes, Polled, history, counts, Reading
  <2>. QED
    BY <1>2, <1>5, <2>1
<1>6. CASE Enter("idle", "none") /\ UNCHANGED <<server, folder, mount, history, counts>>
  BY <1>3, <1>6
<1>. QED
  BY <1>4, <1>5, <1>6 DEF FastDeletes

LEMMA ProceedKeeps ==
  ASSUME IInv, IInv', KeepInv, NoneDue, pc # "off", Tame, Reading, Carried(base'),
         events.lost => events'.lost, events.paths \subseteq events'.paths,
         RenamedFrom(events') \subseteq RenamedFrom(events),
         Proceed
  PROVE  KeepInv'
<1>1. CASE Enter("idle", "none")
  BY <1>1, EnterKeeps
<1>2. CASE Enter("poll", "poll")
  BY <1>2, EnterKeeps
<1>3. CASE Enter("scan", "audit")
  BY <1>3, EnterKeeps
<1>. QED
  BY <1>1, <1>2, <1>3 DEF Proceed

LEMMA KeepEndFlush == KeepInv /\ IInv /\ IInv' /\ EndFlush => KeepInv'
<1> SUFFICES ASSUME KeepInv, IInv, IInv', EndFlush PROVE KeepInv'
  OBVIOUS
<1>1. /\ pc = "local" /\ todo = {} /\ base' = work /\ disk' = disk /\ events' = events
      /\ Reading /\ Proceed
  BY DEF EndFlush, Flushing, server, folder, history, counts, Reading
<1>2. NoneDue
  <2>1. pc \notin Sending /\ Pass = "local"
    BY <1>1, AtItsStep DEF Sending
  <2>. QED
    BY <1>1, <2>1 DEF KeepInv, DueInv, NoneDue, InHand, Sending
<1>3. Tame /\ Carried(base')
  BY <1>1 DEF Tame, Carried, Entries
<1>. QED
  BY <1>1, <1>2, <1>3, ProceedKeeps

\* The pass goes on, with no report taken and no file sent.
LEMMA GoesOn ==
  ASSUME IInv, IInv', KeepInv, pc \in SafeSteps, disk' = disk,
         UNCHANGED <<events, batch, receipts, stored, writes, watched, due, job>>,
         why' = why, pc' \in SafeSteps \ {"first", "place"}, Carried(base'), Carried(work'),
         scan' = scan
  PROVE  KeepInv'
<1>1. NoneDue /\ Pass = pc /\ job = NoJob /\ pc # "off" /\ TypeOK
  BY NothingIsDue
<1>2. Tame /\ Stamped
  BY DEF Tame, Stamped
<1>3. Reporting
  BY DEF Reporting, RenamedFrom
<1>4. KeyInv' /\ StartInv' /\ JobInv'
  <2>1. JobInv'
    BY <1>1, NoJobStep DEF SafeSteps, Sending
  <2>. QED
    BY <2>1, KeysStep, StartStep DEF KeepInv
<1>5. pc' # "idle"
  BY DEF SafeSteps
<1>. QED
  BY <1>1, <1>2, <1>3, <1>4, <1>5, KeepSafe

LEMMA KeepSlow == KeepInv /\ IInv /\ IInv' /\ Slow => KeepInv'
<1> SUFFICES ASSUME KeepInv, IInv, IInv', Slow PROVE KeepInv'
  OBVIOUS
<1>1. /\ pc = "apply" /\ pc' = "slow" /\ work' = base /\ base' = base /\ disk' = disk
      /\ UNCHANGED <<events, batch, receipts, stored, writes, watched, due, job>>
      /\ why' = why /\ scan' = scan
  BY DEF Slow, server, folder, mount, history, counts
<1>2. Carried(base') /\ Carried(work')
  BY <1>1 DEF Carried, Entries
<1>. QED
  BY <1>1, <1>2, GoesOn DEF SafeSteps

LEMMA KeepWalk ==
  ASSUME KeepInv, IInv, IInv', pc \in {"walk", "list"},
         NEW step \in {"pull", "match"}, NEW w \in {base, work}, NEW paths,
         Walk(step, w, paths)
  PROVE  KeepInv'
<1>1. /\ pc' = step /\ work' = w /\ base' = base /\ disk' = disk
      /\ UNCHANGED <<events, batch, receipts, stored, writes, watched, due, job>>
      /\ why' = why /\ scan' = scan
  BY DEF Walk, server, folder, mount, history, counts
<1>2. Carried(base') /\ Carried(work')
  BY <1>1 DEF Carried, Entries
<1>. QED
  BY <1>1, <1>2, GoesOn DEF SafeSteps

LEMMA KeepEndMissing == KeepInv /\ IInv /\ IInv' /\ EndMissing => KeepInv'
<1> SUFFICES ASSUME KeepInv, IInv, IInv', EndMissing PROVE KeepInv'
  OBVIOUS
<1>1. /\ pc = "missing" /\ pc' = "walk" /\ work' = work /\ base' = base /\ disk' = disk
      /\ UNCHANGED <<events, batch, receipts, stored, writes, watched, due, job>>
      /\ why' = why /\ scan' = scan
  BY DEF EndMissing, NextLoop, server, folder, mount, history, counts
<1>2. Carried(base') /\ Carried(work')
  BY <1>1 DEF Carried, Entries
<1>. QED
  BY <1>1, <1>2, GoesOn DEF SafeSteps

LEMMA KeepRequest == KeepInv /\ IInv /\ IInv' /\ Request => KeepInv'
<1> SUFFICES ASSUME KeepInv, IInv, IInv', Request PROVE KeepInv'
  OBVIOUS
<1>1. /\ pc = "poll" /\ base' = base /\ disk' = disk /\ Reading /\ events' = events
  BY DEF Request, folder, mount, history, counts, Reading
<1>2. CASE Enter("idle", "none")
  <2>1. NoneDue /\ pc # "off" /\ Tame /\ Carried(base')
    BY <1>1, NothingIsDue DEF SafeSteps, Tame, Carried, Entries
  <2>. QED
    BY <1>1, <1>2, <2>1, EnterKeeps
<1>3. CASE /\ pc' \in {"apply", "list"}
           /\ UNCHANGED <<why, batch, work, scan, job>>
  <2>1. Carried(base') /\ Carried(work')
    BY <1>1, <1>3 DEF Carried, Entries
  <2>. QED
    BY <1>1, <1>3, <2>1, GoesOn DEF SafeSteps, Reading
<1>. QED
  BY <1>2, <1>3 DEF Request, locals

LEMMA StartsKeep == KeepInv /\ IInv /\ IInv' /\ Start => KeepInv'
<1> SUFFICES ASSUME KeepInv, IInv, IInv', Start PROVE KeepInv'
  OBVIOUS
<1>1. /\ pc = "off" /\ pc' \in {"scan", "first"} /\ why' = "start"
      /\ watched' = {} /\ due' = {} /\ disk' = disk /\ events' = events /\ base' = base
      /\ work' = work /\ scan' = scan /\ job' = job /\ receipts' = receipts
      /\ stored' = stored /\ writes' = writes
  BY DEF Start, folder, locals, counts
<1>2. job' = NoJob
  BY <1>1, AtItsStep DEF Sending
<1>3. StampInv'
  BY <1>1 DEF KeepInv, StampInv, At
<1>4. KeyInv' /\ StartInv' /\ WatchedInv' /\ ReportInv' /\ DueInv'
  BY <1>1 DEF KeepInv, KeyInv, StartInv, WatchedInv, ReportInv, DueInv
<1>5. JobInv'
  BY <1>1, <1>2, NoJobStep DEF Sending
<1>. QED
  BY <1>3, <1>4, <1>5 DEF KeepInv

\* The first mount of a folder.
LEMMA KeepListFirst == KeepInv /\ IInv /\ IInv' /\ ListFirst => KeepInv'
<1> SUFFICES ASSUME KeepInv, IInv, IInv', ListFirst PROVE KeepInv'
  OBVIOUS
<1>1. /\ pc = "first" /\ pc' = "place" /\ work' = base /\ base' = base /\ disk' = disk
      /\ UNCHANGED <<events, batch, receipts, stored, writes, watched, due, job>>
      /\ why' = why /\ scan' = scan
  BY DEF ListFirst, Walk, server, folder, mount, history, counts
<1>2. NoneDue /\ Pass = pc /\ job = NoJob /\ pc # "off" /\ TypeOK
  BY <1>1, NothingIsDue DEF SafeSteps
<1>3. Tame /\ Stamped
  BY <1>1 DEF Tame, Stamped, Carried, Entries
<1>4. Reporting
  BY <1>1 DEF Reporting, RenamedFrom
<1>5. KeyInv' /\ StartInv' /\ JobInv'
  <2>1. JobInv'
    BY <1>1, <1>2, NoJobStep DEF Sending
  <2>. QED
    BY <1>1, <2>1 DEF KeepInv, KeyInv, StartInv
<1>. QED
  BY <1>1, <1>2, <1>3, <1>4, <1>5, KeepSafe

LEMMA KeepAdopt == KeepInv /\ IInv /\ IInv' /\ Adopt => KeepInv'
<1> SUFFICES ASSUME KeepInv, IInv, IInv', Adopt PROVE KeepInv'
  OBVIOUS
<1>1. /\ pc = "place" /\ Enter("idle", "none") /\ Reading /\ events' = events
      /\ disk' = [p \in Path |-> IF Seen(p) /\ ~Here(p)
                                 THEN Placeholder(snap[p]) ELSE disk[p]]
      /\ base' = [p \in Path |-> IF Seen(p) THEN Entry(snap[p], disk'[p].stamp)
                                 ELSE NoEntry]
  BY DEF Adopt, Adopted, server, history, counts, Reading
<1>2. NoneDue /\ pc # "off" /\ TypeOK'
  BY <1>1, NothingIsDue DEF SafeSteps, IInv
<1>3. watched' = {}
  BY <1>1 DEF KeepInv, StartInv, Reading
<1>4. Tame
  BY <1>1, FreshIsPlain DEF Tame
<1>5. Carried(base')
  <2>1. \A p \in Path : Known(disk'[p].stamp)
    BY <1>4, AllKnown, Plains DEF KeepInv, Tame
  <2>. QED
    BY <1>1, <1>2, <1>3, <2>1, Plains, FreshIsPlain DEF Carried, Harmless
<1>. QED
  BY <1>1, <1>2, <1>4, <1>5, EnterKeeps

LEMMA KeepPull == KeepInv /\ IInv /\ IInv' /\ Pull => KeepInv'
<1> SUFFICES ASSUME KeepInv, IInv, IInv', Pull PROVE KeepInv'
  OBVIOUS
<1>1. pc = "pull" /\ Reading /\ receipts' = receipts
  BY DEF Pull, server, history, counts, Reading
<1>2. NoneDue /\ pc # "off" /\ TypeOK /\ TypeOK'
  BY <1>1, NothingIsDue DEF SafeSteps, IInv
<1>3. \A ps : disk' = Pulled(ps) => Tame
  BY FreshIsPlain, Plains DEF Pulled, Tame
<1>4. CASE Blocked = {}
  <2>1. disk' = Pulled(Path) /\ base' = Matched /\ events' = Noted(Altered(Path))
    BY <1>4 DEF Pull
  <2>2. Tame /\ Carried(base')
    <3>1. \A p \in Path : \/ Matched[p].stamp = work[p].stamp \/ Plain(Matched[p].stamp)
      BY FreshIsPlain, Plains DEF Matched
    <3>. QED
      BY <1>2, <1>3, <2>1, <3>1, PlainIsHarmless DEF Carried, Entries
  <2>3. /\ events'.renames = events.renames /\ events'.lost = events.lost
        /\ events.paths \subseteq events'.paths /\ RenamedFrom(events') = RenamedFrom(events)
    BY <1>2, <2>1, NotedGrows
  <2>4. Proceed \/ Enter("idle", "none")
    BY <1>4 DEF Pull
  <2>. QED
    BY <1>1, <1>2, <2>2, <2>3, <2>4, ProceedKeeps, EnterKeeps
<1>5. CASE Blocked # {}
  <2>1. PICK before \in SUBSET Path : disk' = Pulled(before) /\ Fail(Altered(before))
    <3>1. Reached \in SUBSET Path
      BY DEF Reached
    <3>. QED
      BY <1>5, <3>1 DEF Pull
  <2>2. Altered(before) \in SUBSET Path
    BY DEF Altered
  <2>3. Steady
    BY <1>1, <1>2, <1>3, <2>1, TameSteady DEF KeepInv, Reading
  <2>4. KeyInv'
    BY <1>1, KeysStep DEF KeepInv, Reading
  <2>. QED
    BY <1>1, <1>2, <2>1, <2>2, <2>3, <2>4, KeepFail DEF Reading
<1>. QED
  BY <1>4, <1>5

-----------------------------------------------------------------------------
(* What the pass begins with, and what it finds                             *)

\* The pass is told of every write that is at risk.
LEMMA KeepWake == KeepInv /\ IInv /\ IInv' /\ (\E w \in Ticks : Wake(w)) => KeepInv'
<1> SUFFICES ASSUME KeepInv, IInv, IInv', NEW w \in Ticks, Wake(w) PROVE KeepInv'
  OBVIOUS
<1>1. /\ pc = "idle" /\ due' = watched /\ watched' = watched /\ disk' = disk /\ base' = base
      /\ receipts' = receipts /\ stored' = stored /\ writes' = writes
      /\ batch = NoEvents /\ TypeOK /\ TypeOK' /\ w \in {"flush", "poll", "audit"}
  <2>1. /\ pc = "idle" /\ due' = watched /\ watched' = watched /\ disk' = disk /\ base' = base
        /\ receipts' = receipts /\ stored' = stored /\ writes' = writes
    BY DEF Wake, server, mount, counts
  <2>2. batch = NoEvents
    BY <2>1 DEF KeepInv, ReportInv
  <2>. QED
    BY <2>1, <2>2, Bounds DEF IInv
<1>2. Pass = "idle" /\ job = NoJob
  BY <1>1, AtItsStep DEF Sending
<1>3. Tame /\ Steady /\ \A k, p : AtRisk(k, p)' => AtRisk(k, p)
  BY <1>1, Still
<1>4. \A k \in watched, p \in Path : AtRisk(k, p)' =>
        /\ p \notin RenamedFrom(events) \cup RenamedFrom(batch)
        /\ events.lost \/ p \in events.paths
  BY <1>1, <1>3 DEF KeepInv, ReportInv, NoEvents
<1>5. CASE events = NoEvents
  <2>1. \A k \in watched, p \in Path : ~AtRisk(k, p)'
    BY <1>4, <1>5 DEF NoEvents
  <2>2. /\ Enter(IF w = "poll" THEN "poll" ELSE "scan", w)
        /\ events' = events
    BY <1>5 DEF Wake
  <2>3. PICK step \in {"poll", "scan"} : Enter(step, w)
    BY <2>2
  <2>4. /\ pc' = step /\ why' = w /\ batch' = NoEvents /\ job' = NoJob
        /\ \A q \in Path : Plain(work'[q].stamp) /\ Plain(scan'[q].stamp)
        /\ Plain(job'.stamp)
    BY <2>3, EnterClears
  <2>5. Stamped
    BY <1>1, <2>4, PlainIsHarmless DEF Stamped, Carried, Entries
  <2>6. StampInv' /\ WatchedInv'
    BY <1>1, <1>3, <2>5, StampsStep DEF KeepInv
  <2>7. KeyInv' /\ StartInv' /\ ReportInv' /\ DueInv'
    BY <1>1, <2>1, <2>4 DEF KeepInv, KeyInv, StartInv, ReportInv, DueInv
  <2>8. JobInv'
    BY <2>4, NoJobStep DEF Sending
  <2>. QED
    BY <2>6, <2>7, <2>8 DEF KeepInv
<1>6. CASE events # NoEvents
  <2>1. /\ batch' = events /\ events' = NoEvents /\ why' = w
        /\ IF events.lost
           THEN pc' = "scan" /\ work' = work
           ELSE /\ pc' = "local" /\ work' = base
                /\ todo' = events.paths \ {m[1] : m \in events.renames}
        /\ scan' = scan /\ job' = job
    BY <1>6 DEF Wake
  <2>2. Stamped
    BY <1>1, <2>1 DEF Stamped, Carried, Entries
  <2>3. StampInv' /\ WatchedInv'
    BY <1>1, <1>3, <2>2, StampsStep DEF KeepInv
  <2>4. job' = NoJob /\ pc' \in {"scan", "local"} /\ Pass' = pc'
    BY <1>2, <2>1 DEF Pass
  <2>5. JobInv'
    BY <2>4, NoJobStep DEF Sending
  <2>6. KeyInv' /\ StartInv'
    BY <1>1, <2>1, <2>4 DEF KeepInv, KeyInv, StartInv
  <2>7. ReportInv'
    <3>1. RenamedFrom(events') = {}
      BY <2>1 DEF RenamedFrom, NoEvents
    <3>2. RenamedFrom(batch') = RenamedFrom(events)
      BY <2>1 DEF RenamedFrom
    <3>3. pc' # "idle"
      BY <2>4
    <3>. QED
      BY <1>1, <1>4, <2>1, <3>1, <3>2, <3>3 DEF ReportInv
  <2>8. DueInv'
    <3>1. ~events.lost =>
            \A k \in watched, p \in Path : AtRisk(k, p)' => p \in todo'
      BY <1>4, <2>1 DEF RenamedFrom
    <3>. QED
      BY <1>1, <2>1, <2>4, <3>1 DEF DueInv
  <2>. QED
    BY <2>3, <2>5, <2>6, <2>7, <2>8 DEF KeepInv
<1>. QED
  BY <1>5, <1>6

\* A file with the stamp of a write is one.
LEMMA WritesAreHere ==
  ASSUME NEW k \in 1..MaxWrites, NEW p \in Path
  PROVE  /\ At(k, p) => Here(p)
         /\ scan[p].stamp = Written(k) => scan[p] # NoFile
BY Plains DEF At, Here, Plain

LEMMA KeepScan == KeepInv /\ IInv /\ IInv' /\ Scan => KeepInv'
<1> SUFFICES ASSUME KeepInv, IInv, IInv', Scan PROVE KeepInv'
  OBVIOUS
<1>1. /\ pc = "scan" /\ pc' = "add" /\ scan' = disk /\ work' = base
      /\ todo' = {p \in Path : Here(p)}
      /\ disk' = disk /\ base' = base /\ UNCHANGED <<events, batch, why, job>>
      /\ receipts' = receipts /\ stored' = stored /\ writes' = writes
      /\ watched' = watched /\ due \subseteq due' /\ TypeOK /\ TypeOK'
  BY DEF Scan, server, folder, mount, counts, IInv
<1>2. \A k \in due' : \/ k \in due
                      \/ \E p \in Path : At(k, p) /\ disk[p].stamp # base[p].stamp
  BY DEF Scan
<1>3. Pass = "scan" /\ job' = NoJob /\ Pass' = "add" /\ due' \subseteq 1..MaxWrites
      /\ due \subseteq 1..MaxWrites
  BY <1>1, AtItsStep, Writes DEF Sending, Pass, TypeOK, HistoryType
<1>4. Tame /\ Steady /\ \A k, p : AtRisk(k, p)' => AtRisk(k, p)
  BY <1>1, Still
<1>5. Stamped
  BY <1>1 DEF Stamped, Carried, Entries
<1>6. StampInv' /\ WatchedInv'
  BY <1>1, <1>2, <1>4, <1>5, StampsStep DEF KeepInv
<1>7. KeyInv' /\ StartInv'
  BY <1>1, KeysStep, StartStep DEF KeepInv
<1>8. JobInv'
  BY <1>1, <1>3, NoJobStep DEF Sending
<1>9. ReportInv'
  <2>1. Reporting
    BY <1>1 DEF Reporting, RenamedFrom
  <2>. QED
    BY <1>1, <1>4, <2>1, ReportStep DEF KeepInv
<1>10. DueInv'
  <2>1. ASSUME NEW k \in due', NEW p \in Path, AtRisk(k, p)'
        PROVE  scan'[p].stamp = Written(k) /\ work'[p].stamp # Written(k) /\ p \in todo'
    <3>1. At(k, p) /\ AtRisk(k, p) /\ k \in 1..MaxWrites
      BY <1>3, <1>4, <2>1 DEF AtRisk
    <3>2. p \in todo'
      BY <1>1, <3>1, WritesAreHere
    <3>3. base[p].stamp # Written(k)
      <4>1. CASE k \in due
        <5>1. k \in watched
          BY <1>3, <3>1, <4>1 DEF KeepInv, DueInv
        <5>. QED
          BY <3>1, <5>1 DEF KeepInv, WatchedInv
      <4>2. CASE k \notin due
        <5>1. PICK q \in Path : At(k, q) /\ disk[q].stamp # base[q].stamp
          BY <1>2, <4>2
        <5>2. q = p
          BY <3>1, <5>1 DEF KeepInv, StampInv
        <5>. QED
          BY <5>1, <5>2 DEF At
      <4>. QED
        BY <4>1, <4>2
    <3>. QED
      BY <1>1, <3>1, <3>2, <3>3 DEF At
  <2>. QED
    BY <1>3, <2>1 DEF DueInv, Written
<1>. QED
  BY <1>6, <1>7, <1>8, <1>9, <1>10 DEF KeepInv

\* The loops of an audit.
LEMMA LoopKeeps ==
  ASSUME KeepInv, IInv, IInv', pc \in {"add", "edit"}, NEW step \in {"edit", "missing"},
         NEW paths, NextLoop(step, paths),
         \A k \in due, p \in Path : AtRisk(k, p) => step = "edit" /\ p \in paths
  PROVE  KeepInv'
<1>1. /\ pc' = step /\ todo' = paths /\ scan' = scan /\ work' = work
      /\ disk' = disk /\ base' = base /\ UNCHANGED <<events, batch, why, job>>
      /\ receipts' = receipts /\ stored' = stored /\ writes' = writes
      /\ watched' = watched /\ due' = due
  BY DEF NextLoop, server, folder, mount, counts, history
<1>2. Pass = pc /\ job' = NoJob /\ Pass' = step
  BY <1>1, AtItsStep DEF Sending, Pass
<1>3. Steady /\ \A k, p : AtRisk(k, p)' => AtRisk(k, p)
  BY <1>1, Still
<1>4. Stamped
  BY <1>1, SameStamps
<1>5. KeyInv' /\ StartInv'
  BY <1>1, KeysStep, StartStep DEF KeepInv
<1>6. JobInv'
  BY <1>1, <1>2, NoJobStep DEF Sending
<1>7. Reporting
  BY <1>1 DEF Reporting, RenamedFrom
<1>8. DueInv'
  BY <1>1, <1>2, <1>3 DEF KeepInv, DueInv, Written
<1>9. pc # "off" /\ pc' # "idle"
  BY <1>1
<1>. QED
  BY <1>1, <1>3, <1>4, <1>5, <1>6, <1>7, <1>8, <1>9, KeepStep

LEMMA KeepEndAdd == KeepInv /\ IInv /\ IInv' /\ EndAdd => KeepInv'
<1> SUFFICES ASSUME KeepInv, IInv, IInv', EndAdd PROVE KeepInv'
  OBVIOUS
<1> DEFINE edits == {p \in Path : /\ scan[p] # NoFile /\ In(work, p)
                                  /\ scan[p].stamp # work[p].stamp}
<1>1. pc = "add" /\ todo = {} /\ NextLoop("edit", edits)
  BY DEF EndAdd, NextLoop
<1>2. Pass = "add" /\ TypeOK /\ ~ \E p \in Path : InHand(p)
  BY <1>1, AtItsStep DEF Sending, InHand
<1>3. ASSUME NEW k \in due, NEW p \in Path, AtRisk(k, p)
      PROVE  p \in edits
  <2>1. scan[p].stamp = Written(k) /\ work[p].stamp # Written(k) /\ In(work, p)
    BY <1>1, <1>2, <1>3 DEF KeepInv, DueInv
  <2>. QED
    BY <1>2, <2>1, Writes, WritesAreHere
<1>. QED
  BY <1>1, <1>3, LoopKeeps

LEMMA KeepEndEdit == KeepInv /\ IInv /\ IInv' /\ EndEdit => KeepInv'
<1> SUFFICES ASSUME KeepInv, IInv, IInv', EndEdit PROVE KeepInv'
  OBVIOUS
<1>1. PICK paths : pc = "edit" /\ todo = {} /\ NextLoop("missing", paths)
  BY DEF EndEdit, NextLoop
<1>2. Pass = "edit" /\ TypeOK /\ ~ \E p \in Path : InHand(p)
  BY <1>1, AtItsStep DEF Sending, InHand
<1>3. \A k \in due, p \in Path : ~AtRisk(k, p)
  BY <1>1, <1>2 DEF KeepInv, DueInv
<1>. QED
  BY <1>1, <1>3, LoopKeeps

-----------------------------------------------------------------------------
(* The loops that send the local changes                                    *)

\* A file is read, in the loop that visits it or where an old one is replaced.
LEMMA SendKeeps ==
  ASSUME KeepInv, IInv, IInv', pc \in {"local", "add", "edit", "slow", "match"},
         NEW step \in {"upload", "overwrite"}, NEW p \in Path,
         NEW stamp \in {disk[p].stamp, scan[p].stamp}, Send(step, p, stamp),
         UNCHANGED <<history, counts>>,
         todo' = todo \ {p} \/ (todo' = todo /\ pc = "slow"),
         pc = "local" => stamp = disk[p].stamp,
         pc \in {"add", "edit"} => stamp = scan[p].stamp
  PROVE  KeepInv'
<1>1. /\ pc' = step
      /\ job' = [path |-> p, stamp |-> stamp, bytes |-> disk[p].bytes, copy |-> 0,
                 ret |-> IF pc = "slow" THEN "sent" ELSE pc]
      /\ work' = work /\ scan' = scan
      /\ disk' = disk /\ base' = base /\ UNCHANGED <<events, batch, why>>
      /\ receipts' = receipts /\ stored' = stored /\ writes' = writes
      /\ watched' = watched /\ due' = due
  BY DEF Send, server, folder, mount, counts, history
<1>2. Pass = pc /\ job = NoJob /\ TypeOK
  BY AtItsStep DEF Sending
<1>3. /\ job' # NoJob /\ job'.path = p /\ job'.stamp = stamp /\ job'.bytes = disk[p].bytes
      /\ job'.ret = (IF pc = "slow" THEN "sent" ELSE pc)
      /\ Pass' = (IF pc = "slow" THEN "sent" ELSE pc)
  <2>1. p # 0
    BY Bounds
  <2>. QED
    BY <1>1, <2>1, Plains DEF Pass
<1>4. Steady /\ \A k, q : AtRisk(k, q)' => AtRisk(k, q)
  BY <1>1, Still
<1>5. Stamped
  BY <1>1, <1>3 DEF Stamped, Carried, Entries
<1>6. KeyInv' /\ StartInv'
  BY <1>1, KeysStep, StartStep DEF KeepInv
<1>7. JobInv'
  BY <1>1, <1>3 DEF JobInv, Target
<1>8. Reporting
  BY <1>1 DEF Reporting, RenamedFrom
<1>9. DueInv'
  <2>1. ASSUME NEW k \in due', NEW q \in Path, AtRisk(k, q)'
        PROVE  /\ Pass' \in {"off", "idle", "local", "scan", "add", "edit"}
               /\ Pass' \in {"local", "scan"} => k \in watched'
               /\ Pass' = "local" => q \in todo' \/ InHand(q)'
               /\ Pass' \in {"add", "edit"} =>
                    /\ scan'[q].stamp = Written(k) /\ work'[q].stamp # Written(k)
                    /\ q \in todo' \/ InHand(q)' \/ (Pass' = "add" /\ In(work, q)')
    <3>1. AtRisk(k, q) /\ k \in due /\ disk[q].stamp = Written(k)
      BY <1>1, <1>4, <2>1 DEF AtRisk, At
    <3>2. /\ pc \in {"local", "add", "edit"}
          /\ pc = "local" => k \in watched /\ q \in todo
          /\ pc \in {"add", "edit"} =>
               /\ scan[q].stamp = Written(k) /\ work[q].stamp # Written(k)
               /\ q \in todo \/ (Pass = "add" /\ In(work, q))
      BY <1>2, <3>1 DEF KeepInv, DueInv, InHand
    <3>3. Pass' = pc /\ todo' = todo \ {p} /\ In(work, q)' = In(work, q)
      BY <1>1, <1>3, <3>2 DEF In
    <3>4. q = p => InHand(q)'
      BY <1>1, <1>3, <3>1, <3>2 DEF InHand, Target
    <3>. QED
      BY <1>1, <1>2, <3>1, <3>2, <3>3, <3>4
  <2>. QED
    BY <2>1 DEF DueInv, Written
<1>10. pc # "off" /\ pc' # "idle"
  BY <1>1
<1>. QED
  BY <1>1, <1>4, <1>5, <1>6, <1>7, <1>8, <1>9, <1>10, KeepStep

\* The loop goes on to the next path or rename.
LEMMA LoopGoesOn ==
  ASSUME KeepInv, IInv, IInv', pc \in {"local", "add"}, pc' = pc,
         disk' = disk, base' = base, scan' = scan, job' = job, receipts' = receipts,
         UNCHANGED <<events, batch, why>>, stored \subseteq stored', writes' = writes,
         watched' \subseteq watched, due' \subseteq due,
         watched \cap due' \subseteq watched', watched' \cap due \subseteq due',
         Carried(work'),
         \A k \in due', p \in Path : AtRisk(k, p) =>
            /\ p \in todo => p \in todo' \/ (pc = "add" /\ In(work, p)')
            /\ pc = "add" => /\ work'[p].stamp # Written(k)
                             /\ In(work, p) => In(work, p)' \/ p \in todo'
  PROVE  KeepInv'
<1>1. Pass = pc /\ job = NoJob /\ TypeOK /\ Pass' = pc
  BY AtItsStep DEF Sending, Pass
<1>2. Steady /\ \A k, p : AtRisk(k, p)' => AtRisk(k, p)
  BY Still
<1>3. Stamped
  BY DEF Stamped, Carried, Entries
<1>4. KeyInv' /\ StartInv' /\ JobInv'
  <2>1. JobInv'
    BY <1>1, NoJobStep DEF Sending
  <2>. QED
    BY <2>1, KeysStep, StartStep DEF KeepInv
<1>5. Reporting
  BY DEF Reporting, RenamedFrom
<1>6. DueInv'
  <2>1. ASSUME NEW k \in due', NEW p \in Path, AtRisk(k, p)'
        PROVE  /\ pc = "local" => k \in watched' /\ p \in todo'
               /\ pc = "add" =>
                    /\ scan'[p].stamp = Written(k) /\ work'[p].stamp # Written(k)
                    /\ p \in todo' \/ In(work, p)'
    <3>1. k \in due /\ AtRisk(k, p)
      BY <1>2, <2>1
    <3>2. /\ pc = "local" => k \in watched /\ p \in todo
          /\ pc = "add" => scan[p].stamp = Written(k) /\ (p \in todo \/ In(work, p))
      BY <1>1, <3>1 DEF KeepInv, DueInv, InHand
    <3>. QED
      BY <3>1, <3>2
  <2>. QED
    BY <1>1, <2>1 DEF DueInv, Written
<1>7. pc # "off" /\ pc' # "idle"
  OBVIOUS
<1>8. \A k \in watched', p \in Path : AtRisk(k, p)' /\ k \in due => k \in due'
  OBVIOUS
<1>. QED
  BY <1>2, <1>3, <1>4, <1>5, <1>6, <1>7, <1>8, KeepStep

\* A failure that finds the folder as it was.
LEMMA FailsStill ==
  ASSUME KeepInv, IInv, IInv', Fail({}), disk' = disk, receipts' = receipts,
         stored \subseteq stored', writes' = writes,
         watched' \subseteq watched, due' \subseteq due, pc # "off"
  PROVE  KeepInv'
<1>1. Steady
  BY Still
<1>2. KeyInv'
  BY KeysStep DEF KeepInv
<1>. QED
  BY <1>1, <1>2, KeepFail

LEMMA PathAtHand ==
  ASSUME TypeOK, todo # {}
  PROVE  First(todo) \in todo /\ First(todo) \in Path
<1>1. todo \subseteq Path /\ todo \subseteq Nat
  BY Bounds DEF TypeOK, LocalsType
<1>. QED
  BY <1>1, FirstIsIn

LEMMA KeepVisitPath == KeepInv /\ IInv /\ IInv' /\ VisitPath => KeepInv'
<1> SUFFICES ASSUME KeepInv, IInv, IInv', VisitPath PROVE KeepInv'
  OBVIOUS
<1>1. pc = "local" /\ todo # {} /\ UNCHANGED <<history, counts>> /\ Pass = "local"
      /\ job = NoJob /\ TypeOK
  BY AtItsStep DEF VisitPath, Flushing, Sending
<1>2. PICK p \in Path : p = First(todo) /\ p \in todo
  BY <1>1, PathAtHand
<1>3. CASE /\ Here(p) => In(work, p) /\ disk[p].stamp = work[p].stamp
           /\ todo' = todo \ {p}
           /\ UNCHANGED <<server, folder, mount, pc, why, batch, work, scan, job>>
  <2>1. /\ disk' = disk /\ base' = base /\ UNCHANGED <<events, batch, why>>
        /\ receipts' = receipts /\ stored' = stored /\ writes' = writes
        /\ watched' = watched /\ due' = due
    BY <1>1, <1>3 DEF server, folder, mount, counts, history
  <2>2. \A k \in due : ~AtRisk(k, p)
    <3>1. ASSUME NEW k \in due, AtRisk(k, p) PROVE FALSE
      <4>1. k \in watched /\ k \in 1..MaxWrites
        BY <1>1, <3>1, Writes DEF KeepInv, DueInv
      <4>2. Here(p) /\ disk[p].stamp = Written(k)
        BY <3>1, <4>1, WritesAreHere DEF AtRisk, At
      <4>3. work[p].stamp # Written(k)
        BY <3>1, <4>1 DEF KeepInv, WatchedInv
      <4>. QED
        BY <1>3, <4>2, <4>3
    <3>. QED
      BY <3>1
  <2>3. Carried(work')
    BY <1>3 DEF Carried, Entries
  <2>. QED
    BY <1>1, <1>3, <2>1, <2>2, <2>3, LoopGoesOn
<1>4. CASE Send("upload", p, disk[p].stamp) /\ todo' = todo \ {p}
  BY <1>1, <1>4, SendKeeps
<1>5. CASE Send("overwrite", p, disk[p].stamp) /\ todo' = todo \ {p}
  BY <1>1, <1>5, SendKeeps
<1>6. CASE Fail({}) /\ UNCHANGED <<server, disk>>
  BY <1>1, <1>6, FailsStill DEF server, history, counts
<1>. QED
  BY <1>2, <1>3, <1>4, <1>5, <1>6 DEF VisitPath

LEMMA KeepAdd == KeepInv /\ IInv /\ IInv' /\ Add => KeepInv'
<1> SUFFICES ASSUME KeepInv, IInv, IInv', Add PROVE KeepInv'
  OBVIOUS
<1>1. pc = "add" /\ todo # {} /\ UNCHANGED <<history, counts>> /\ Pass = "add"
      /\ job = NoJob /\ TypeOK
  BY AtItsStep DEF Add, Sending
<1>2. PICK p \in Path : p = First(todo) /\ p \in todo
  BY <1>1, PathAtHand
<1>3. CASE /\ In(work, p) /\ todo' = todo \ {p}
           /\ UNCHANGED <<server, folder, mount, pc, why, batch, work, scan, job>>
  <2>1. /\ disk' = disk /\ base' = base /\ UNCHANGED <<events, batch, why>>
        /\ receipts' = receipts /\ stored' = stored /\ writes' = writes
        /\ watched' = watched /\ due' = due
    BY <1>1, <1>3 DEF server, folder, mount, counts, history
  <2>2. Carried(work') /\ \A q : In(work, q)' = In(work, q)
    BY <1>3 DEF Carried, Entries, In
  <2>3. \A k \in due, q \in Path : AtRisk(k, q) => work[q].stamp # Written(k)
    BY <1>1 DEF KeepInv, DueInv
  <2>. QED
    BY <1>1, <1>3, <2>1, <2>2, <2>3, LoopGoesOn
<1>4. CASE Send("upload", p, scan[p].stamp) /\ todo' = todo \ {p}
  BY <1>1, <1>4, SendKeeps
<1>5. CASE Fail({}) /\ UNCHANGED <<server, disk>>
  BY <1>1, <1>5, FailsStill DEF server, history, counts
<1>. QED
  BY <1>2, <1>3, <1>4, <1>5 DEF Add

\* What is passed over is no longer due.
LEMMA KeepPassOver ==
  ASSUME KeepInv, IInv, IInv', pc = "edit", NEW p \in Path, PassOver(p),
         UNCHANGED <<dropped, counts>>
  PROVE  KeepInv'
<1>1. /\ todo' = todo \ {p} /\ pc' = pc /\ disk' = disk /\ base' = base
      /\ work' = work /\ scan' = scan /\ job' = job /\ receipts' = receipts
      /\ stored' = stored /\ writes' = writes /\ events' = events /\ batch' = batch
      /\ why' = why
      /\ due' = {k \in due : ~At(k, p)}
      /\ watched' = {k \in watched : At(k, p) => events.lost \/ p \in events.paths}
  BY DEF PassOver, server, folder, mount, counts
<1>2. Pass = "edit" /\ job = NoJob /\ TypeOK /\ TypeOK' /\ Pass' = "edit"
  BY <1>1, AtItsStep DEF Sending, Pass, IInv
<1>3. Steady /\ \A k, q : AtRisk(k, q)' => AtRisk(k, q)
  BY <1>1, Still
<1>4. StampInv' /\ WatchedInv'
  <2>1. Stamped
    BY <1>1, SameStamps
  <2>2. \A k \in due' : k \in due \cup watched
    BY <1>1
  <2>. QED
    BY <1>2, <1>3, <2>1, <2>2, StampsStep DEF KeepInv
<1>5. KeyInv' /\ StartInv' /\ JobInv'
  <2>1. JobInv'
    BY <1>1, <1>2, NoJobStep DEF Sending
  <2>2. watched' \subseteq watched
    BY <1>1
  <2>. QED
    BY <1>1, <2>1, <2>2, KeysStep, StartStep DEF KeepInv
<1>6. ReportInv'
  <2>1. ASSUME NEW k \in watched', NEW q \in Path, AtRisk(k, q)'
        PROVE  /\ q \notin RenamedFrom(events) \cup RenamedFrom(batch)
               /\ \/ events.lost \/ q \in events.paths
                  \/ k \in due' /\ (batch.lost \/ q \in batch.paths)
    <3>1. k \in watched /\ AtRisk(k, q) /\ At(k, q)
      BY <1>1, <1>3, <2>1 DEF AtRisk
    <3>2. /\ q \notin RenamedFrom(events) \cup RenamedFrom(batch)
          /\ \/ events.lost \/ q \in events.paths
             \/ k \in due /\ (batch.lost \/ q \in batch.paths)
      BY <1>1, <3>1 DEF KeepInv, ReportInv
    <3>3. CASE At(k, p)
      <4>1. p = q
        BY <1>2, <3>1, <3>3, Writes DEF KeepInv, StampInv
      <4>. QED
        BY <1>1, <2>1, <3>2, <3>3, <4>1
    <3>4. CASE ~At(k, p)
      BY <1>1, <3>2, <3>4
    <3>. QED
      BY <3>3, <3>4
  <2>. QED
    BY <1>1, <2>1 DEF ReportInv, RenamedFrom
<1>7. DueInv'
  <2>1. ASSUME NEW k \in due', NEW q \in Path, AtRisk(k, q)'
        PROVE  scan[q].stamp = Written(k) /\ work[q].stamp # Written(k) /\ q \in todo'
    <3>1. k \in due /\ ~At(k, p) /\ AtRisk(k, q) /\ At(k, q)
      BY <1>1, <1>3, <2>1 DEF AtRisk
    <3>2. /\ scan[q].stamp = Written(k) /\ work[q].stamp # Written(k)
          /\ q \in todo
      BY <1>1, <1>2, <3>1 DEF KeepInv, DueInv, InHand
    <3>. QED
      BY <1>1, <3>1, <3>2
  <2>. QED
    BY <1>1, <1>2, <2>1 DEF DueInv, Written
<1>. QED
  BY <1>4, <1>5, <1>6, <1>7 DEF KeepInv

LEMMA KeepEdit == KeepInv /\ IInv /\ IInv' /\ Edit => KeepInv'
<1> SUFFICES ASSUME KeepInv, IInv, IInv', Edit PROVE KeepInv'
  OBVIOUS
<1>1. pc = "edit" /\ UNCHANGED <<dropped, counts>> /\ todo \subseteq Path
  BY DEF Edit, IInv, TypeOK, LocalsType
<1>2. PICK p \in Path :
        \/ PassOver(p)
        \/ /\ \/ Send("overwrite", p, scan[p].stamp) /\ todo' = todo \ {p}
              \/ Fail({}) /\ UNCHANGED <<server, disk>>
           /\ UNCHANGED <<watched, due>>
  BY <1>1 DEF Edit
<1>3. CASE PassOver(p)
  BY <1>1, <1>3, KeepPassOver
<1>4. CASE /\ Send("overwrite", p, scan[p].stamp) /\ todo' = todo \ {p}
           /\ UNCHANGED <<watched, due>>
  <2>1. UNCHANGED <<history, counts>>
    BY <1>1, <1>4 DEF history
  <2>. QED
    BY <1>1, <1>4, <2>1, SendKeeps
<1>5. CASE Fail({}) /\ UNCHANGED <<server, disk>> /\ UNCHANGED <<watched, due>>
  BY <1>1, <1>5, FailsStill DEF server, counts
<1>. QED
  BY <1>2, <1>3, <1>4, <1>5

LEMMA KeepSendDelete == KeepInv /\ IInv /\ IInv' /\ SendDelete => KeepInv'
<1> SUFFICES ASSUME KeepInv, IInv, IInv', SendDelete PROVE KeepInv'
  OBVIOUS
<1>1. /\ pc = "local" /\ TypeOK /\ TypeOK' /\ writes' = writes
      /\ watched' = watched /\ due' = due
  BY DEF SendDelete, Flushing, history, counts, IInv
<1>2. receipts' = receipts /\ stored' = stored
  BY DEF SendDelete, Trash, server
<1>3. CASE Fail({}) /\ UNCHANGED disk
  BY <1>1, <1>2, <1>3, FailsStill
<1>4. CASE /\ UNCHANGED <<folder, mount, pc, why, batch, todo, scan, job>>
           /\ \/ work' = work
              \/ \E p \in Path : work' = [work EXCEPT ![p] = NoEntry]
  <2>1. disk' = disk /\ base' = base /\ UNCHANGED <<events, batch, why>>
    BY <1>4 DEF folder, mount
  <2>2. Carried(work')
    <3>1. work \in [Path -> [node : Node \cup {0}, rev : Nat, stamp : Stamp]]
      BY <1>1 DEF TypeOK, LocalsType, Baseline
    <3>2. \A q \in Path : work'[q] = work[q] \/ work'[q] = NoEntry
      BY <1>4, <3>1
    <3>. QED
      BY <1>1, <3>2, Plains, PlainIsHarmless DEF Carried, Entries
  <2>. QED
    BY <1>1, <1>2, <1>4, <2>1, <2>2, LoopGoesOn
<1>5. First(gone) \in Path \/ UNCHANGED work \/ (Fail({}) /\ UNCHANGED disk)
  <2>1. gone \subseteq Path /\ gone \subseteq Nat /\ gone # {}
    BY <1>1, Bounds DEF TypeOK, LocalsType, SendDelete
  <2>. QED
    BY <2>1, FirstIsIn
<1>. QED
  BY <1>3, <1>4, <1>5 DEF SendDelete, Answered

LEMMA KeepSendRename == KeepInv /\ IInv /\ IInv' /\ SendRename => KeepInv'
<1> SUFFICES ASSUME KeepInv, IInv, IInv', SendRename PROVE KeepInv'
  OBVIOUS
<1>1. /\ pc = "local" /\ TypeOK /\ TypeOK' /\ writes' = writes
      /\ watched' = watched /\ due' = due
  BY DEF SendRename, Flushing, history, counts, IInv
<1>2. receipts' = receipts /\ stored' = stored
  BY DEF SendRename, MoveTo, server
<1>3. CASE Fail({}) /\ UNCHANGED disk
  BY <1>1, <1>2, <1>3, FailsStill
<1>4. CASE /\ UNCHANGED <<folder, mount, pc, why, batch, scan, job>>
           /\ todo \subseteq todo'
           /\ \/ work' = work
              \/ \E from, to \in Path : \E r :
                   work' = [work EXCEPT ![from] = NoEntry,
                                        ![to] = [work[from] EXCEPT !.rev = r]]
  <2>1. disk' = disk /\ base' = base /\ UNCHANGED <<events, batch, why>>
    BY <1>4 DEF folder, mount
  <2>2. Carried(work')
    <3>1. work \in [Path -> [node : Node \cup {0}, rev : Nat, stamp : Stamp]]
      BY <1>1 DEF TypeOK, LocalsType, Baseline
    <3>2. \A q \in Path : \/ work'[q].stamp \in {work[p].stamp : p \in Path}
                          \/ work'[q].stamp = NoStamp
      BY <1>4, <3>1, Plains
    <3>. QED
      BY <1>1, <3>2, Plains, PlainIsHarmless DEF Carried, Entries
  <2>. QED
    BY <1>1, <1>2, <1>4, <2>1, <2>2, LoopGoesOn
<1>5. PICK m \in moves :
        LET from == m[1]  to == m[2]  e == work[from]
            Next1 == /\ moves' = moves \ {m}
                     /\ UNCHANGED <<folder, mount, pc, why, batch, gone, scan,
                                    snap, page, advance, job>>
        IN IF In(work, from) /\ Here(to) /\ CanMove(e.node, e.rev, to)
           THEN /\ MoveTo(e.node, to)
                /\ Answered(
                    /\ Next1
                    /\ work' = [work EXCEPT ![from] = NoEntry,
                                            ![to] = [e EXCEPT !.rev = @ + 1]]
                    /\ UNCHANGED todo)
           ELSE /\ Next1
                /\ todo' = todo \cup {from, to}
                /\ UNCHANGED <<server, work, faults>>
  BY DEF SendRename
<1>6. m[1] \in Path /\ m[2] \in Path
  BY <1>1 DEF TypeOK, LocalsType
<1>7. CASE /\ UNCHANGED <<folder, mount, pc, why, batch, scan, job>>
           /\ todo \subseteq todo' /\ work' = work
  BY <1>4, <1>7
<1>8. CASE /\ UNCHANGED <<folder, mount, pc, why, batch, scan, job>>
           /\ todo' = todo
           /\ work' = [work EXCEPT ![m[1]] = NoEntry,
                                   ![m[2]] = [work[m[1]] EXCEPT !.rev = @ + 1]]
  <2>1. work' = [work EXCEPT ![m[1]] = NoEntry,
                             ![m[2]] = [work[m[1]] EXCEPT !.rev = work[m[1]].rev + 1]]
    BY <1>8
  <2>. QED
    BY <1>4, <1>6, <1>8, <2>1
<1>. QED
  BY <1>3, <1>5, <1>7, <1>8 DEF Answered

LEMMA KeepMissing == KeepInv /\ IInv /\ IInv' /\ Missing => KeepInv'
<1> SUFFICES ASSUME KeepInv, IInv, IInv', Missing PROVE KeepInv'
  OBVIOUS
<1>1. /\ pc = "missing" /\ todo # {} /\ TypeOK /\ TypeOK' /\ writes' = writes
      /\ watched' = watched /\ due' = due
  BY DEF Missing, history, counts, IInv
<1>2. receipts' = receipts /\ stored' = stored
  BY DEF Missing, Trash, server
<1>3. CASE Fail({}) /\ UNCHANGED disk
  BY <1>1, <1>2, <1>3, FailsStill
<1>4. PICK p \in Path : p = First(todo)
  BY <1>1, PathAtHand
<1>5. CASE /\ UNCHANGED <<folder, mount, pc, why, batch, scan, job>>
           /\ work' = work \/ work' = [work EXCEPT ![p] = NoEntry]
  <2>1. disk' = disk /\ base' = base /\ UNCHANGED <<events, batch, why>>
    BY <1>5 DEF folder, mount
  <2>2. Carried(work') /\ Carried(base')
    <3>1. work \in [Path -> [node : Node \cup {0}, rev : Nat, stamp : Stamp]]
      BY <1>1 DEF TypeOK, LocalsType, Baseline
    <3>2. \A q \in Path : work'[q] = work[q] \/ work'[q] = NoEntry
      BY <1>5, <3>1
    <3>. QED
      BY <1>1, <2>1, <3>2, Plains, PlainIsHarmless DEF Carried, Entries
  <2>. QED
    BY <1>1, <1>2, <1>5, <2>1, <2>2, GoesOn DEF SafeSteps
<1>. QED
  BY <1>3, <1>4, <1>5 DEF Missing, Answered

\* Writes at the new name, or at the old one and not visited any more, are
\* reported no longer.
LEMMA KeepSendMoved == KeepInv /\ IInv /\ IInv' /\ SendMoved => KeepInv'
<1> SUFFICES ASSUME KeepInv, IInv, IInv', SendMoved PROVE KeepInv'
  OBVIOUS
<1>1. /\ pc \in {"local", "add"} /\ todo # {} /\ TypeOK /\ TypeOK' /\ writes' = writes
  BY DEF SendMoved, counts, IInv
<1>2. Pass = pc /\ job = NoJob
  BY <1>1, AtItsStep DEF Sending
<1>3. PICK p \in Path, from \in Path :
        LET e == work[from]  taken == {p} \cup ({from} \ todo) IN
        /\ p \in todo /\ from # p
        /\ watched' = {k \in watched : \A q \in taken : ~At(k, q)}
        /\ due' = {k \in due : \A q \in taken : ~At(k, q)}
        /\ IF CanMove(e.node, e.rev, p)
           THEN /\ MoveTo(e.node, p)
                /\ Answered(
                    /\ work' = [work EXCEPT ![from] = NoEntry,
                                ![p] = [node |-> e.node, rev |-> e.rev + 1,
                                        stamp |-> disk[p].stamp]]
                    /\ todo' = todo \ {p}
                    /\ UNCHANGED <<folder, mount, pc, why, batch, moves, gone,
                                   scan, snap, page, advance, job>>)
           ELSE Fail({}) /\ UNCHANGED <<server, disk, faults>>
  <2>1. First(todo) \in todo /\ First(todo) \in Path
    BY <1>1, PathAtHand
  <2>2. MovedFrom(First(todo)) \subseteq Path \ {First(todo)} /\ MovedFrom(First(todo)) # {}
    BY DEF SendMoved, MovedFrom, PathsOf
  <2>3. First(MovedFrom(First(todo))) \in Path \ {First(todo)}
    BY <2>2, FirstIsIn, Bounds
  <2>. QED
    BY <2>1, <2>3 DEF SendMoved
<1>4. receipts' = receipts /\ stored' = stored
  BY <1>3 DEF MoveTo, server
<1>5. CASE Fail({}) /\ UNCHANGED disk
  BY <1>1, <1>3, <1>4, <1>5, FailsStill
<1>6. CASE /\ work' = [work EXCEPT ![from] = NoEntry,
                        ![p] = [node |-> work[from].node, rev |-> work[from].rev + 1,
                                stamp |-> disk[p].stamp]]
           /\ todo' = todo \ {p}
           /\ UNCHANGED <<folder, mount, pc, why, batch, moves, gone,
                          scan, snap, page, advance, job>>
  <2>1. /\ disk' = disk /\ base' = base /\ UNCHANGED <<events, batch, why>>
        /\ pc' = pc /\ scan' = scan /\ job' = job
    BY <1>6 DEF folder, mount
  <2>2. /\ work'[p].stamp = disk[p].stamp /\ work'[from] = NoEntry
        /\ \A q \in Path : q # p /\ q # from => work'[q] = work[q]
    <3>1. work \in [Path -> [node : Node \cup {0}, rev : Nat, stamp : Stamp]]
      BY <1>1 DEF TypeOK, LocalsType, Baseline
    <3>. QED
      BY <1>3, <1>6, <3>1
  <2>3. /\ watched' \subseteq watched /\ due' \subseteq due
        /\ watched \cap due' \subseteq watched' /\ watched' \cap due \subseteq due'
        /\ \A k \in watched' \cup due' : ~At(k, p) /\ (from \notin todo => ~At(k, from))
    BY <1>3
  <2>4. Carried(work')
    <3>1. Harmless(disk[p].stamp)
      <4>1. Known(disk[p].stamp)
        BY AllKnown DEF KeepInv
      <4>2. \A k \in watched' : disk[p].stamp # Written(k)
        BY <2>3 DEF At
      <4>. QED
        BY <4>1, <4>2 DEF Harmless
    <3>2. Harmless(NoEntry.stamp)
      BY <1>1, Plains, PlainIsHarmless
    <3>. QED
      BY <2>2, <3>1, <3>2 DEF Carried, Entries
  <2>5. ASSUME NEW k \in due', NEW q \in Path, AtRisk(k, q)
        PROVE  /\ q \in todo => q \in todo'
               /\ pc = "add" => /\ work'[q].stamp # Written(k)
                                /\ In(work, q) => In(work, q)' \/ q \in todo'
    <3>1. At(k, q) /\ q # p /\ (q = from => q \in todo) /\ k \in due /\ k \in 1..MaxWrites
      BY <1>1, <2>3, <2>5, Writes DEF AtRisk
    <3>2. q \in todo => q \in todo'
      BY <1>6, <3>1
    <3>3. pc = "add" => work[q].stamp # Written(k)
      BY <1>2, <2>5, <3>1 DEF KeepInv, DueInv
    <3>4. NoEntry.stamp # Written(k)
      BY <3>1, Plains DEF Plain
    <3>5. In(work, q) /\ q # from => In(work, q)'
      BY <2>2, <3>1 DEF In
    <3>. QED
      BY <2>2, <3>1, <3>2, <3>3, <3>4, <3>5
  <2>. QED
    BY <1>1, <1>4, <2>1, <2>3, <2>4, <2>5, LoopGoesOn
<1>. QED
  BY <1>3, <1>5, <1>6 DEF Answered

-----------------------------------------------------------------------------
(* One file is sent                                                         *)

LEMMA SendingKeeps ==
  ASSUME KeepInv, IInv, IInv', pc \in Sending, pc' \in Sending \cup Working,
         Tame, Stamped, Reporting, KeyInv', JobInv', stored \subseteq stored',
         UNCHANGED <<writes, watched, due, why, batch, todo>>, Pass' = Pass,
         \A k \in due, q \in Path : AtRisk(k, q)' =>
           /\ InHand(q) => InHand(q)'
           /\ In(work, q) => In(work, q)'
           /\ Pass \in {"add", "edit"} =>
                (work[q].stamp # Written(k) => work'[q].stamp # Written(k))
           /\ scan'[q].stamp = scan[q].stamp
  PROVE  KeepInv'
<1>1. TypeOK /\ TypeOK' /\ pc # "off" /\ pc' \notin {"off", "idle", "first", "place"}
  BY DEF IInv, Sending, Working
<1>2. Steady
  BY <1>1, TameSteady DEF KeepInv
<1>3. StartInv'
  BY <1>1, StartStep DEF KeepInv
<1>4. DueInv'
  <2>1. ASSUME NEW k \in due', NEW q \in Path, AtRisk(k, q)'
        PROVE  /\ Pass' \in {"off", "idle", "local", "scan", "add", "edit"}
               /\ Pass' \in {"local", "scan"} => k \in watched'
               /\ Pass' = "local" => q \in todo' \/ InHand(q)'
               /\ Pass' \in {"add", "edit"} =>
                    /\ scan'[q].stamp = Written(k) /\ work'[q].stamp # Written(k)
                    /\ q \in todo' \/ InHand(q)' \/ (Pass' = "add" /\ In(work, q)')
    <3>1. k \in due /\ k \in 1..MaxWrites
      BY <1>1, <2>1, Writes
    <3>2. AtRisk(k, q)
      BY <2>1, <3>1, RiskWas
    <3>3. /\ Pass \in {"off", "idle", "local", "scan", "add", "edit"}
          /\ Pass \in {"local", "scan"} => k \in watched
          /\ Pass = "local" => q \in todo \/ InHand(q)
          /\ Pass \in {"add", "edit"} =>
               /\ scan[q].stamp = Written(k) /\ work[q].stamp # Written(k)
               /\ q \in todo \/ InHand(q) \/ (Pass = "add" /\ In(work, q))
      BY <3>1, <3>2 DEF KeepInv, DueInv
    <3>. QED
      BY <2>1, <3>1, <3>3
  <2>. QED
    BY <2>1 DEF DueInv, Written
<1>. QED
  BY <1>1, <1>2, <1>3, <1>4, KeepStep

\* The server has the content that was read.
LEMMA SentKeeps ==
  ASSUME KeepInv, IInv, IInv', pc \in {"upload", "overwrite"}, KeyInv',
         job.bytes \in stored', stored \subseteq stored',
         UNCHANGED <<history, counts>>,
         \A q \in Path : disk'[q].stamp = disk[q].stamp /\ disk'[q].bytes = disk[q].bytes,
         NEW c, Back([work EXCEPT ![Target] = Entry(c, job.stamp)]),
         UNCHANGED <<events, scan>>
  PROVE  KeepInv'
<1>1. pc \in Sending /\ TypeOK /\ TypeOK'
  BY DEF Sending, IInv
<1>2. /\ Target \in Path /\ Pass = job.ret /\ Pass \in Working /\ Target \in Path
      /\ pc = "upload" => ~In(work, Target)
      /\ pc = "overwrite" => Pass # "add"
  BY <1>1, SendingFacts
<1>3. /\ work' = [work EXCEPT ![Target] = Entry(c, job.stamp)]
      /\ pc' = job.ret /\ job' = NoJob /\ base' = base
      /\ UNCHANGED <<why, batch, todo>>
  BY DEF Back, mount
<1>4. /\ work'[Target].stamp = job.stamp
      /\ \A q \in Path : q # Target => work'[q] = work[q]
  <2>1. work \in [Path -> [node : Node \cup {0}, rev : Nat, stamp : Stamp]]
    BY <1>1 DEF TypeOK, LocalsType, Baseline
  <2>. QED
    BY <1>2, <1>3, <2>1, FreshIsPlain
<1>5. Tame /\ writes' = writes /\ watched' = watched /\ due' = due
  BY DEF Tame, history, counts
<1>6. \A k \in watched \cup due, q \in Path : AtRisk(k, q)' =>
        /\ AtRisk(k, q) /\ disk'[q].bytes \notin stored' /\ k \in 1..MaxWrites
  BY <1>1, <1>5, Writes, RiskWas DEF AtRisk
<1>7. \A k \in watched \cup due, q \in Path :
         AtRisk(k, q)' /\ job.stamp = Written(k) => q # Target
  BY <1>2, <1>5, <1>6 DEF KeepInv, JobInv, Target
<1>8. Harmless(job.stamp)
  <2>1. Known(job.stamp)
    BY AllKnown DEF KeepInv
  <2>2. ASSUME NEW k \in watched', NEW p \in Path, AtRisk(k, p)', job.stamp = Written(k)
        PROVE  FALSE
    <3>1. k \in watched /\ AtRisk(k, p)
      BY <1>5, <1>6, <2>2
    <3>2. p = Target
      BY <2>2, <3>1 DEF KeepInv, WatchedInv, Target
    <3>. QED
      BY <1>7, <2>2, <3>1, <3>2
  <2>. QED
    BY <2>1, <2>2 DEF Harmless
<1>9. Stamped
  <2>1. Carried(work') /\ Carried(base')
    BY <1>3, <1>4, <1>8 DEF Carried, Entries
  <2>. QED
    BY <1>3, <2>1, Plains DEF Stamped
<1>10. Reporting
  BY <1>3 DEF Reporting, RenamedFrom
<1>11. JobInv' /\ Pass' = Pass
  BY <1>2, <1>3, NoJobStep DEF Pass, Sending, Working
<1>12. ASSUME NEW k \in due, NEW q \in Path, AtRisk(k, q)'
       PROVE  /\ ~InHand(q)
              /\ In(work, q) => In(work, q)'
              /\ Pass \in {"add", "edit"} =>
                   (work[q].stamp # Written(k) => work'[q].stamp # Written(k))
  <2>1. AtRisk(k, q) /\ (job.stamp = Written(k) => q # Target)
    <3>1. AtRisk(k, q) /\ k \in watched \cup due
      BY <1>6, <1>12
    <3>. QED
      BY <1>7, <1>12, <3>1
  <2>2. ~InHand(q)
    BY <2>1 DEF InHand, AtRisk, At
  <2>3. q = Target => job.stamp # Written(k)
    BY <2>1
  <2>4. In(work, q) /\ q = Target => Pass \notin {"add"}
    BY <1>2
  <2>5. In(work, q) => In(work, q)'
    <3>1. CASE q # Target
      BY <1>4, <3>1 DEF In
    <3>2. CASE q = Target
      <4>1. Pass \in {"add", "edit", "local"} => q \notin todo
        BY <1>1, <3>2 DEF KeepInv, JobInv
      <4>2. Pass = "add" /\ In(work, q)
        BY <1>2, <1>12, <2>1, <2>2, <3>2, <4>1 DEF KeepInv, DueInv, Working
      <4>. QED
        BY <2>4, <3>2, <4>2
    <3>. QED
      BY <3>1, <3>2
  <2>. QED
    BY <1>4, <2>2, <2>3, <2>5
<1>13. pc' \in Sending \cup Working
  BY <1>2, <1>3
<1>. QED
  BY <1>1, <1>3, <1>5, <1>9, <1>10, <1>11, <1>12, <1>13, SendingKeeps

LEMMA IdIsNoMatter ==
  ASSUME TypeOK, NEW p \in Path, NEW n,
         disk' = disk \/ disk' = [disk EXCEPT ![p].id = n]
  PROVE  /\ \A q \in Path : disk'[q].stamp = disk[q].stamp /\ disk'[q].bytes = disk[q].bytes
         /\ Tame
<1>1. disk \in [Path -> File]
  BY DEF TypeOK, FolderType
<1>2. \A q \in Path : disk'[q].stamp = disk[q].stamp /\ disk'[q].bytes = disk[q].bytes
  BY <1>1 DEF File
<1>. QED
  BY <1>2 DEF Tame

LEMMA UploadedKeeps ==
  ASSUME KeepInv, IInv, IInv', pc \in {"upload", "overwrite"}, KeyInv',
         job.bytes \in stored', stored \subseteq stored',
         UNCHANGED <<history, counts>>, NEW c, Uploaded(c) \/ Overwritten(c)
  PROVE  KeepInv'
<1>1. TypeOK /\ TypeOK' /\ Target \in Path /\ pc # "off"
  BY SendingFacts DEF IInv, Sending
<1>2. CASE Fail({}) /\ UNCHANGED disk
  <2>1. Steady
    BY <1>2, Still DEF history, counts
  <2>. QED
    BY <1>1, <1>2, <2>1, KeepFail DEF history
<1>3. CASE /\ disk' = disk \/ disk' = [disk EXCEPT ![Target].id = c.node]
           /\ Back([work EXCEPT ![Target] = Entry(c, job.stamp)])
           /\ UNCHANGED <<events, scan>>
  BY <1>1, <1>3, IdIsNoMatter, SentKeeps
<1>. QED
  BY <1>2, <1>3 DEF Uploaded, Overwritten, Answered, folder

\* A receipt says that the content is there.
LEMMA ReceiptsTell ==
  ASSUME KeyInv, NEW key, Receipts(key) # {}
  PROVE  key[4] \in stored
BY DEF KeyInv, Receipts

LEMMA NewReceipt ==
  ASSUME KeyInv, NEW key, NEW n, key[4] \in stored', stored \subseteq stored',
         receipts' = receipts \cup {[key |-> key, node |-> n]}
  PROVE  KeyInv'
BY DEF KeyInv

LEMMA KeepUpload == KeepInv /\ IInv /\ IInv' /\ Upload => KeepInv'
<1> SUFFICES ASSUME KeepInv, IInv, IInv', Upload PROVE KeepInv'
  OBVIOUS
<1>1. pc = "upload" /\ UNCHANGED <<history, counts>> /\ KeyInv
  BY DEF Upload, KeepInv
<1>2. PICK key : key = NewKey(Target, job.bytes) /\ key[4] = job.bytes
  <2>1. NewKey(Target, job.bytes)[4] = job.bytes
    BY DEF NewKey
  <2>. QED
    BY <2>1, Zenon
<1>3. ASSUME NEW r \in Receipts(key), Uploaded(Change(r.node)), UNCHANGED server
      PROVE  KeepInv'
  <2>1. job.bytes \in stored /\ stored' = stored /\ receipts' = receipts
    BY <1>1, <1>2, <1>3, ReceiptsTell DEF server
  <2>2. KeyInv'
    BY <1>1, <2>1, KeysStep
  <2>. QED
    BY <1>1, <1>3, <2>1, <2>2, UploadedKeeps
<1>4. ASSUME NEW n \in Node, Create(n, Target, job.bytes),
             receipts' = receipts \cup {[key |-> key, node |-> n]},
             Uploaded([node |-> n, path |-> Target, rev |-> 1,
                       bytes |-> job.bytes, live |-> TRUE])
      PROVE  KeepInv'
  <2>1. job.bytes \in stored' /\ stored \subseteq stored'
    BY <1>4 DEF Create
  <2>2. KeyInv'
    BY <1>1, <1>2, <1>4, <2>1, NewReceipt
  <2>. QED
    BY <1>1, <1>4, <2>1, <2>2, UploadedKeeps
<1>5. CASE Fail({}) /\ UNCHANGED <<server, disk>>
  BY <1>1, <1>5, FailsStill DEF server, history, counts
<1>6. \/ \E r \in Receipts(key) : Uploaded(Change(r.node)) /\ UNCHANGED server
      \/ \E n \in Node : /\ Create(n, Target, job.bytes)
                         /\ receipts' = receipts \cup {[key |-> key, node |-> n]}
                         /\ Uploaded([node |-> n, path |-> Target, rev |-> 1,
                                      bytes |-> job.bytes, live |-> TRUE])
      \/ Fail({}) /\ UNCHANGED <<server, disk>>
  BY <1>2 DEF Upload
<1>. QED
  BY <1>3, <1>4, <1>5, <1>6

LEMMA KeepOverwrite == KeepInv /\ IInv /\ IInv' /\ Overwrite => KeepInv'
<1> SUFFICES ASSUME KeepInv, IInv, IInv', Overwrite PROVE KeepInv'
  OBVIOUS
<1>1. pc = "overwrite" /\ UNCHANGED <<history, counts>> /\ KeyInv
  BY DEF Overwrite, KeepInv
<1>2. PICK n, r, key : /\ n = Base.node /\ r = Base.rev /\ key = OverKey(n, r, job.bytes)
                       /\ key[4] = job.bytes
  <2>1. OverKey(Base.node, Base.rev, job.bytes)[4] = job.bytes
    BY DEF OverKey
  <2>. QED
    BY <2>1, Zenon
<1>3. CASE Fail({}) /\ UNCHANGED <<server, disk>>
  BY <1>1, <1>3, FailsStill DEF server, history, counts
<1>4. ASSUME Receipts(key) # {}, Overwritten(Change(n)), UNCHANGED server
      PROVE  KeepInv'
  <2>1. job.bytes \in stored /\ stored' = stored /\ receipts' = receipts
    BY <1>1, <1>2, <1>4, ReceiptsTell DEF server
  <2>2. KeyInv'
    BY <1>1, <2>1, KeysStep
  <2>. QED
    BY <1>1, <1>4, <2>1, <2>2, UploadedKeeps
<1>5. ASSUME stored' = stored \cup {job.bytes},
             receipts' = receipts \cup {[key |-> key, node |-> n]},
             Overwritten([Change(n) EXCEPT !.rev = r + 1, !.bytes = job.bytes])
      PROVE  KeepInv'
  <2>1. KeyInv'
    BY <1>1, <1>2, <1>5, NewReceipt
  <2>. QED
    BY <1>1, <1>5, <2>1, UploadedKeeps
<1>6. CASE TooLate /\ UNCHANGED <<server, folder, mount, why, locals>>
  <2>1. /\ pc' = "copy" /\ disk' = disk /\ base' = base /\ work' = work /\ scan' = scan
        /\ job' = job /\ UNCHANGED <<events, why, batch, todo, writes, watched, due>>
        /\ stored' = stored /\ receipts' = receipts
    BY <1>1, <1>6 DEF TooLate, server, folder, mount, locals, history, counts
  <2>2. Tame /\ Stamped /\ Reporting /\ \A k, p : AtRisk(k, p)' => AtRisk(k, p)
    BY <2>1, SameStamps DEF Tame, Reporting, RenamedFrom, AtRisk, At
  <2>3. KeyInv'
    BY <1>1, <2>1, KeysStep
  <2>4. Pass = job.ret /\ Pass' = Pass
    <3>1. pc \in Sending /\ job # NoJob
      BY <1>1, SendingFacts, Plains, Bounds DEF Sending, Target
    <3>. QED
      BY <2>1, <3>1 DEF Pass
  <2>5. JobInv'
    BY <1>1, <2>1, <2>2, <2>4 DEF KeepInv, JobInv, Sending, Target
  <2>6. \A q : InHand(q) => InHand(q)'
    BY <1>1, <2>1 DEF InHand, Target
  <2>. QED
    BY <1>1, <2>1, <2>2, <2>3, <2>4, <2>5, <2>6, SendingKeeps DEF Sending, In
<1>7. \/ Fail({}) /\ UNCHANGED <<server, disk>>
      \/ Receipts(key) # {} /\ Overwritten(Change(n)) /\ UNCHANGED server
      \/ /\ stored' = stored \cup {job.bytes}
         /\ receipts' = receipts \cup {[key |-> key, node |-> n]}
         /\ Overwritten([Change(n) EXCEPT !.rev = r + 1, !.bytes = job.bytes])
      \/ TooLate /\ UNCHANGED <<server, folder, mount, why, locals>>
  BY <1>2 DEF Overwrite
<1>. QED
  BY <1>3, <1>4, <1>5, <1>6, <1>7

\* The file gives way to the server's when the server has its content too.
LEMMA KeepRefresh == KeepInv /\ IInv /\ IInv' /\ Refresh => KeepInv'
<1> SUFFICES ASSUME KeepInv, IInv, IInv', Refresh PROVE KeepInv'
  OBVIOUS
<1>1. /\ pc = "refresh" /\ pc \in Sending /\ KeyInv /\ TypeOK /\ TypeOK'
      /\ writes' = writes /\ watched' = watched /\ due' = due
      /\ stored' = stored /\ receipts' = receipts
  BY DEF Refresh, KeepInv, Sending, IInv, server, history, counts
<1>2. PICK t \in Path : t = Target /\ Pass = job.ret /\ Pass \in Working
  BY <1>1, SendingFacts
<1>3. CASE Fail({}) /\ UNCHANGED disk
  BY <1>1, <1>3, FailsStill
<1>4. ASSUME NEW c, disk' = [disk EXCEPT ![t] = Placeholder(c)],
             events' = Noted({t}), Back([work EXCEPT ![t] = Fresh(c)]), UNCHANGED scan
      PROVE  KeepInv'
  <2>1. /\ work' = [work EXCEPT ![t] = Fresh(c)]
        /\ pc' = job.ret /\ job' = NoJob /\ base' = base
        /\ UNCHANGED <<why, batch, todo>>
    BY <1>4 DEF Back, mount
  <2>2. /\ \A q \in Path : q # t => disk'[q] = disk[q] /\ work'[q] = work[q]
        /\ disk'[t] = Placeholder(c) /\ work'[t] = Fresh(c)
    <3>1. /\ work \in [Path -> [node : Node \cup {0}, rev : Nat, stamp : Stamp]]
          /\ disk \in [Path -> File]
      BY <1>1 DEF TypeOK, LocalsType, FolderType, Baseline
    <3>. QED
      BY <1>4, <2>1, <3>1
  <2>3. Tame
    BY <2>2, FreshIsPlain DEF Tame
  <2>4. Stamped
    <3>1. Carried(work') /\ Carried(base')
      BY <1>1, <2>1, <2>2, FreshIsPlain, PlainIsHarmless DEF Carried, Entries
    <3>. QED
      BY <1>4, <2>1, <3>1, Plains DEF Stamped
  <2>5. Reporting
    BY <1>1, <1>4, <2>1, NotedGrows DEF Reporting, RenamedFrom
  <2>6. KeyInv'
    BY <1>1, KeysStep
  <2>7. JobInv' /\ Pass' = Pass
    BY <1>2, <2>1, NoJobStep DEF Pass, Sending, Working
  <2>8. ASSUME NEW k \in due, NEW q \in Path, AtRisk(k, q)'
        PROVE  q # t /\ ~InHand(q) /\ In(work, q)' = In(work, q) /\ work'[q] = work[q]
    <3>1. k \in 1..MaxWrites
      BY <1>1, Writes
    <3>2. q # t
      BY <2>2, <2>8, <3>1, FreshIsPlain DEF AtRisk, At, Plain
    <3>. QED
      BY <1>1, <2>2, <3>2 DEF InHand, In
  <2>. QED
    BY <1>1, <1>2, <1>4, <2>1, <2>3, <2>4, <2>5, <2>6, <2>7, <2>8, SendingKeeps
<1>5. \/ Fail({}) /\ UNCHANGED disk
      \/ \E c : /\ disk' = [disk EXCEPT ![t] = Placeholder(c)]
                /\ events' = Noted({t}) /\ Back([work EXCEPT ![t] = Fresh(c)])
                /\ UNCHANGED scan
  BY <1>2 DEF Refresh
<1>. QED
  BY <1>3, <1>4, <1>5

\* The copy is a file with a stamp of its own.
LEMMA KeepCopyConflict == KeepInv /\ IInv /\ IInv' /\ CopyConflict => KeepInv'
<1> SUFFICES ASSUME KeepInv, IInv, IInv', CopyConflict PROVE KeepInv'
  OBVIOUS
<1>1. /\ pc = "copy" /\ pc \in Sending /\ KeyInv /\ TypeOK /\ TypeOK'
      /\ writes' = writes /\ watched' = watched /\ due' = due
      /\ stored' = stored /\ receipts' = receipts
  BY DEF CopyConflict, KeepInv, Sending, IInv, server, history, counts
<1>2. PICK t \in Path : t = Target /\ Pass = job.ret /\ Pass \in Working
  BY <1>1, SendingFacts
<1>3. CASE Fail({}) /\ UNCHANGED disk
  BY <1>1, <1>3, FailsStill
<1>4. ASSUME NEW c \in Copy, NEW b, b = disk[t].bytes, Here(t), ~Here(c),
             disk' = [disk EXCEPT ![c] = [stamp |-> <<"copy", b, 0>>,
                                          bytes |-> b, id |-> 0]],
             events' = Noted({c}), job' = [job EXCEPT !.copy = c, !.bytes = b],
             pc' = "sendCopy",
             UNCHANGED <<mount, why, batch, work, moves, todo, gone, scan,
                         snap, page, advance>>
      PROVE  KeepInv'
  <2>1. /\ c \in Path /\ c # t /\ base' = base /\ disk' \in [Path -> File]
        /\ job'.path = job.path /\ job'.stamp = job.stamp /\ job'.ret = job.ret
        /\ job'.copy = c /\ job'.bytes = b /\ job.path = t
    <3>1. job \in [path : Path \cup {0}, stamp : Stamp, bytes : 0..MaxWrites,
                   copy : Path \cup {0},
                   ret : {"none", "local", "add", "edit", "match", "sent"}]
      BY <1>1 DEF TypeOK, LocalsType
    <3>2. disk' \in [Path -> File]
      BY <1>1 DEF TypeOK, FolderType
    <3>. QED
      BY <1>2, <1>4, <3>1, <3>2, Bounds DEF mount, Target
  <2>2. /\ \A q \in Path : q # c => disk'[q] = disk[q]
        /\ disk'[c].stamp = <<"copy", b, 0>> /\ disk'[c].bytes = b
    <3>1. disk \in [Path -> File]
      BY <1>1 DEF TypeOK, FolderType
    <3>. QED
      BY <1>4, <2>1, <3>1
  <2>3. Tame
    BY <2>2, Plains DEF Tame
  <2>4. Stamped
    BY <1>4, <2>1 DEF Stamped, Carried, Entries
  <2>5. Reporting
    BY <1>1, <1>4, <2>1, NotedGrows DEF Reporting, RenamedFrom
  <2>6. KeyInv'
    BY <1>1, KeysStep
  <2>7. Pass' = Pass /\ Target' = t
    <3>1. job' # NoJob /\ job # NoJob
      BY <2>1, Bounds, Plains
    <3>. QED
      BY <2>1, <3>1 DEF Pass, Target
  <2>8. JobInv'
    <3>1. \A k \in watched' \cup due', p \in Path :
            AtRisk(k, p)' /\ p = job'.path /\ job'.stamp = Written(k)
              => job'.bytes = disk'[p].bytes
      BY <1>4, <2>1, <2>2
    <3>2. pc' \in Sending /\ Pass' \in {"local", "add", "edit"} => Target' \notin todo'
      BY <1>1, <1>2, <1>4, <2>7 DEF KeepInv, JobInv
    <3>. QED
      BY <1>4, <2>1, <2>2, <3>1, <3>2 DEF JobInv, Written
  <2>9. ASSUME NEW k \in due, NEW q \in Path, AtRisk(k, q)'
        PROVE  InHand(q) => InHand(q)'
    BY <1>2, <1>4, <2>1, <2>2, <2>7 DEF InHand
  <2>. QED
    BY <1>1, <1>4, <2>1, <2>3, <2>4, <2>5, <2>6, <2>7, <2>8, <2>9, SendingKeeps
       DEF Sending, In
<1>5. CASE Here(t)
  <2>1. /\ FreeCopies # {} /\ FreeCopies \subseteq Copy /\ FreeCopies \subseteq Nat
        /\ \A c \in FreeCopies : ~Here(c)
    BY <1>2, <1>5, Bounds DEF CopyConflict, FreeCopies
  <2>2. First(FreeCopies) \in FreeCopies
    BY <2>1, FirstIsIn
  <2>. QED
    BY <1>2, <1>4, <1>5, <2>1, <2>2 DEF CopyConflict
<1>. QED
  BY <1>2, <1>3, <1>5 DEF CopyConflict

\* The server has the conflict copy, and with it what is in the file.
LEMMA KeepSendCopy == KeepInv /\ IInv /\ IInv' /\ SendCopy => KeepInv'
<1> SUFFICES ASSUME KeepInv, IInv, IInv', SendCopy PROVE KeepInv'
  OBVIOUS
<1>1. /\ pc = "sendCopy" /\ pc \in Sending /\ KeyInv /\ TypeOK /\ TypeOK'
      /\ writes' = writes /\ watched' = watched /\ due' = due
  BY DEF SendCopy, KeepInv, Sending, IInv, history, counts
<1>2. PICK t \in Path : t = Target /\ Pass = job.ret /\ Pass \in Working
  BY <1>1, SendingFacts
<1>3. PICK c \in Copy : /\ c = job.copy /\ c \in Path
                        /\ disk[c].stamp = <<"copy", job.bytes, 0>>
                        /\ disk[c].bytes = job.bytes
  BY <1>1, Bounds DEF KeepInv, JobInv
<1>4. CASE Fail({}) /\ UNCHANGED <<server, disk>>
  BY <1>1, <1>4, FailsStill DEF server
<1>5. ASSUME NEW n \in Node, Create(n, c, disk[c].bytes),
             receipts' = receipts \cup {[key |-> NewKey(c, disk[c].bytes), node |-> n]}
      PROVE  job.bytes \in stored' /\ stored \subseteq stored' /\ KeyInv'
  <2>1. job.bytes \in stored' /\ stored \subseteq stored'
    BY <1>3, <1>5 DEF Create
  <2>2. NewKey(c, disk[c].bytes)[4] = job.bytes
    BY <1>3 DEF NewKey
  <2>. QED
    BY <1>1, <1>5, <2>1, <2>2, NewReceipt
<1>6. ASSUME NEW n \in Node, Create(n, c, disk[c].bytes),
             receipts' = receipts \cup {[key |-> NewKey(c, disk[c].bytes), node |-> n]},
             disk' = [disk EXCEPT ![c].id = n],
             work' = [work EXCEPT ![c] = [node |-> n, rev |-> 1, stamp |-> disk[c].stamp]],
             scan' = IF Auditing THEN [scan EXCEPT ![c] = disk[c]] ELSE scan,
             pc' = "refresh",
             UNCHANGED <<events, mount, why, batch, moves, todo, gone,
                         snap, page, advance, job>>
      PROVE  KeepInv'
  <2>1. job.bytes \in stored' /\ stored \subseteq stored' /\ KeyInv'
    BY <1>5, <1>6
  <2>2. Tame /\ \A q \in Path : disk'[q].stamp = disk[q].stamp /\ disk'[q].bytes = disk[q].bytes
    BY <1>1, <1>3, <1>6, IdIsNoMatter
  <2>3. /\ work'[c].stamp = disk[c].stamp /\ work'[c].node = n /\ Plain(disk[c].stamp)
        /\ \A q \in Path : q # c => work'[q] = work[q] /\ scan'[q] = scan[q]
        /\ scan'[c] \in {scan[c], disk[c]} /\ base' = base
    <3>1. /\ work \in [Path -> [node : Node \cup {0}, rev : Nat, stamp : Stamp]]
          /\ scan \in [Path -> File]
      BY <1>1 DEF TypeOK, LocalsType, Baseline
    <3>. QED
      BY <1>3, <1>6, <3>1, Plains DEF mount
  <2>4. Stamped
    <3>1. Carried(work') /\ Carried(base')
      BY <1>1, <2>3, PlainIsHarmless DEF Carried, Entries
    <3>. QED
      BY <1>6, <2>3, <3>1 DEF Stamped
  <2>5. Reporting
    BY <1>6 DEF Reporting, RenamedFrom
  <2>6. Pass' = Pass /\ Target' = t
    <3>1. job # NoJob
      BY <1>2, Bounds, Plains DEF Target
    <3>. QED
      BY <1>2, <1>6, <3>1 DEF Pass, Target
  <2>7. \A k \in watched \cup due, q \in Path : AtRisk(k, q)' =>
          /\ AtRisk(k, q) /\ disk'[q].bytes \notin stored' /\ k \in 1..MaxWrites
    BY <1>1, <2>1, <2>2, Writes, RiskWas DEF AtRisk
  <2>8. JobInv'
    <3>1. \A k \in watched' \cup due', p \in Path :
            AtRisk(k, p)' /\ p = job'.path /\ job'.stamp = Written(k)
              => job'.bytes = disk'[p].bytes
      BY <1>1, <1>6, <2>2, <2>7 DEF KeepInv, JobInv
    <3>2. pc' \in Sending /\ Pass' \in {"local", "add", "edit"} => Target' \notin todo'
      BY <1>1, <1>2, <1>6, <2>6 DEF KeepInv, JobInv
    <3>. QED
      BY <1>6, <3>1, <3>2 DEF JobInv, Written
  <2>9. ASSUME NEW k \in due, NEW q \in Path, AtRisk(k, q)'
        PROVE  q # c /\ ~InHand(q) /\ In(work, q)' = In(work, q)
               /\ work'[q] = work[q] /\ scan'[q] = scan[q]
    <3>1. q # c
      BY <2>3, <2>7, <2>9 DEF Plain, AtRisk, At
    <3>2. ~InHand(q)
      BY <1>1, <2>1, <2>2, <2>7, <2>9 DEF InHand
    <3>. QED
      BY <2>3, <3>1, <3>2 DEF In
  <2>. QED
    BY <1>1, <1>6, <2>1, <2>2, <2>4, <2>5, <2>6, <2>8, <2>9, SendingKeeps DEF Sending
<1>7. ASSUME NEW n \in Node, Create(n, c, disk[c].bytes),
             receipts' = receipts \cup {[key |-> NewKey(c, disk[c].bytes), node |-> n]},
             Fail({}), UNCHANGED disk
      PROVE  KeepInv'
  <2>1. stored \subseteq stored' /\ KeyInv'
    BY <1>5, <1>7
  <2>2. Steady
    BY <1>1, <1>7, <2>1, Still
  <2>. QED
    BY <1>1, <1>7, <2>1, <2>2, KeepFail
<1>. QED
  BY <1>3, <1>4, <1>6, <1>7 DEF SendCopy, Answered

-----------------------------------------------------------------------------
(* The changes of the server, one by one                                    *)

\* A step between two changes of the folder.
LEMMA AppliedKeeps ==
  ASSUME KeepInv, IInv, IInv', pc \in {"slow", "sent", "match"},
         NEW ps \in SUBSET Path, events' = Noted(ps), Tame, Carried(work'), base' = base,
         pc' \in {"slow", "match"}, scan' = scan, job' = job, why' = why, batch' = batch,
         stored' = stored, receipts' = receipts, UNCHANGED <<history, counts>>
  PROVE  KeepInv'
<1>1. NoneDue /\ job = NoJob /\ pc # "off" /\ TypeOK /\ pc' \notin Sending
  BY NothingIsDue DEF SafeSteps, Sending
<1>2. writes' = writes /\ watched' = watched /\ due' = due
  BY DEF history, counts
<1>3. Stamped
  BY DEF Stamped, Carried, Entries
<1>4. Reporting
  BY <1>1, NotedGrows DEF Reporting, RenamedFrom
<1>5. KeyInv' /\ StartInv' /\ JobInv'
  <2>1. JobInv'
    BY <1>1, NoJobStep
  <2>. QED
    BY <1>2, <2>1, KeysStep, StartStep DEF KeepInv
<1>. QED
  BY <1>1, <1>2, <1>3, <1>4, <1>5, KeepSafe

LEMMA DoneKeeps ==
  ASSUME KeepInv, IInv, IInv', pc \in {"slow", "sent"}, UNCHANGED <<history, counts>>,
         NEW d, NEW w, Done(d, w),
         \A q \in Path : d[q] = disk[q] \/ Plain(d[q].stamp),
         \A q \in Path : w[q].stamp \in Entries \/ Plain(w[q].stamp)
  PROVE  KeepInv'
<1>1. /\ disk' = d /\ work' = w /\ base' = base /\ pc' = "slow" /\ job' = job
      /\ scan' = scan /\ why' = why /\ batch' = batch
      /\ stored' = stored /\ receipts' = receipts
  BY DEF Done, server, mount
<1>2. PICK ps \in SUBSET Path : events' = Noted(ps)
  <2>1. {p \in Path : d[p] # disk[p]} \in SUBSET Path
    OBVIOUS
  <2>. QED
    BY <2>1 DEF Done
<1>3. Tame /\ Carried(work')
  BY <1>1, PlainIsHarmless DEF Tame, Carried, IInv
<1>. QED
  BY <1>1, <1>2, <1>3, AppliedKeeps

\* A file and its entry, as the server has them or gone.
LEMMA OneFile ==
  ASSUME TypeOK, NEW p \in Path, NEW f, NEW e
  PROVE  /\ \A q \in Path : [disk EXCEPT ![p] = f][q] = disk[q] \/ [disk EXCEPT ![p] = f][q] = f
         /\ \A q \in Path : [work EXCEPT ![p] = e][q] = work[q] \/ [work EXCEPT ![p] = e][q] = e
         /\ \A q \in Path : work[q].stamp \in Entries
<1>1. disk \in [Path -> File] /\ work \in Baseline
  BY DEF TypeOK, FolderType, LocalsType
<1>. QED
  BY <1>1 DEF Baseline, Entries

LEMMA KeepApplyDelete == KeepInv /\ IInv /\ IInv' /\ ApplyDelete => KeepInv'
<1> SUFFICES ASSUME KeepInv, IInv, IInv', ApplyDelete PROVE KeepInv'
  OBVIOUS
<1>1. pc = "slow" /\ UNCHANGED <<history, counts>> /\ TypeOK
  BY DEF ApplyDelete, Applying, IInv
<1>2. CASE Done(disk, work)
  BY <1>1, <1>2, DoneKeeps DEF Entries
<1>3. ASSUME NEW o \in Path, Done(Without({o}), [work EXCEPT ![o] = NoEntry])
      PROVE  KeepInv'
  <2>1. \A q \in Path : Without({o})[q] = disk[q] \/ Plain(Without({o})[q].stamp)
    BY Plains DEF Without
  <2>2. \A q \in Path : \/ [work EXCEPT ![o] = NoEntry][q].stamp \in Entries
                         \/ Plain([work EXCEPT ![o] = NoEntry][q].stamp)
    BY <1>1, OneFile, Plains
  <2>. QED
    BY <1>1, <1>3, <2>1, <2>2, DoneKeeps
<1>4. CASE Fail({}) /\ UNCHANGED <<server, disk>>
  BY <1>1, <1>4, FailsStill DEF server, history, counts
<1>. QED
  BY <1>2, <1>3, <1>4 DEF ApplyDelete, PathsOf

LEMMA PlacedIsPlain ==
  ASSUME TypeOK, NEW p \in Path, NEW c
  PROVE  /\ \A q \in Path : Placed(p, c)[q] = disk[q] \/ Plain(Placed(p, c)[q].stamp)
         /\ \A q \in Path : \/ [work EXCEPT ![p] = Fresh(c)][q].stamp \in Entries
                            \/ Plain([work EXCEPT ![p] = Fresh(c)][q].stamp)
BY OneFile, FreshIsPlain DEF Placed

LEMMA NowIsAPath ==
  ASSUME IInv, page # <<>>
  PROVE  Now.path \in Path
BY NowFacts DEF IInv

LEMMA KeepApplyUpsert == KeepInv /\ IInv /\ IInv' /\ ApplyUpsert => KeepInv'
<1> SUFFICES ASSUME KeepInv, IInv, IInv', ApplyUpsert PROVE KeepInv'
  OBVIOUS
<1>1. pc = "slow" /\ page # <<>> /\ UNCHANGED <<history, counts>> /\ TypeOK
  BY DEF ApplyUpsert, Applying, IInv
<1>2. PICK p \in Path : p = Now.path
  BY <1>1, NowIsAPath
<1>3. CASE Send("overwrite", p, disk[p].stamp) /\ UNCHANGED <<todo, page>>
  BY <1>1, <1>3, SendKeeps
<1>4. CASE Done(disk, [work EXCEPT ![p] = Entry(Now, work[p].stamp)])
  <2>1. \A q \in Path : [work EXCEPT ![p] = Entry(Now, work[p].stamp)][q].stamp \in Entries
    BY <1>1, OneFile, FreshIsPlain
  <2>. QED
    BY <1>1, <1>4, <2>1, DoneKeeps
<1>5. CASE Done(Placed(p, Now), [work EXCEPT ![p] = Fresh(Now)])
  BY <1>1, <1>5, PlacedIsPlain, DoneKeeps
<1>. QED
  BY <1>2, <1>3, <1>4, <1>5 DEF ApplyUpsert

LEMMA KeepApplySent == KeepInv /\ IInv /\ IInv' /\ ApplySent => KeepInv'
<1> SUFFICES ASSUME KeepInv, IInv, IInv', ApplySent PROVE KeepInv'
  OBVIOUS
<1>1. pc = "sent" /\ UNCHANGED <<history, counts>> /\ TypeOK
  BY DEF ApplySent, IInv
<1>2. PICK p \in Path : p = Now.path
  <2>1. Pass = "sent"
    BY <1>1, AtItsStep DEF Sending
  <2>2. page # <<>>
    BY <2>1 DEF IInv, ControlInv
  <2>. QED
    BY <2>2, NowIsAPath
<1>3. CASE Done(disk, work)
  BY <1>1, <1>3, DoneKeeps DEF Entries
<1>4. CASE Done(Placed(p, Now), [work EXCEPT ![p] = Fresh(Now)])
  BY <1>1, <1>4, PlacedIsPlain, DoneKeeps
<1>5. CASE Fail({}) /\ UNCHANGED <<server, disk>>
  BY <1>1, <1>5, FailsStill DEF server, history, counts
<1>. QED
  BY <1>2, <1>3, <1>4, <1>5 DEF ApplySent

LEMMA SettleKeeps ==
  ASSUME KeepInv, IInv, IInv', pc = "match", UNCHANGED <<history, counts>>,
         stored' = stored, receipts' = receipts,
         NEW p \in Path, NEW d, NEW entry, Settle(p, d, entry),
         \A q \in Path : d[q] = disk[q] \/ Plain(d[q].stamp),
         entry.stamp \in Entries \/ Plain(entry.stamp)
  PROVE  KeepInv'
<1>1. /\ disk' = d /\ work' = [work EXCEPT ![p] = entry] /\ base' = base /\ pc' = "match"
      /\ job' = job /\ scan' = scan /\ why' = why /\ batch' = batch
      /\ events' = Noted(IF d[p] = disk[p] THEN {} ELSE {p})
  BY DEF Settle, mount
<1>2. Tame /\ Carried(work')
  BY <1>1, PlainIsHarmless, OneFile DEF Tame, Carried, IInv
<1>3. PICK ps \in SUBSET Path : events' = Noted(ps)
  BY <1>1
<1>. QED
  BY <1>1, <1>2, <1>3, AppliedKeeps

LEMMA ReplaceKeeps ==
  ASSUME KeepInv, IInv, IInv', pc = "match", UNCHANGED <<history, counts>>,
         stored' = stored, receipts' = receipts, NEW p \in Path, Replace(p)
  PROVE  KeepInv'
<1>1. TypeOK
  BY DEF IInv
<1>. QED
  BY <1>1, PlacedIsPlain, FreshIsPlain, SettleKeeps DEF Replace

LEMMA KeepMatch == KeepInv /\ IInv /\ IInv' /\ Match => KeepInv'
<1> SUFFICES ASSUME KeepInv, IInv, IInv', Match PROVE KeepInv'
  OBVIOUS
<1>1. pc = "match" /\ todo # {} /\ UNCHANGED <<history, counts>> /\ TypeOK
  BY DEF Match, IInv
<1>2. stored' = stored /\ receipts' = receipts
  BY DEF Match, Trash, Send, server
<1>3. PICK p \in Path : p = First(todo)
  BY <1>1, PathAtHand
<1>4. CASE Settle(p, disk, NoEntry)
  BY <1>1, <1>2, <1>4, SettleKeeps, Plains
<1>5. CASE Replace(p)
  BY <1>1, <1>2, <1>5, ReplaceKeeps
<1>6. CASE Send("overwrite", p, disk[p].stamp) /\ todo' = todo \ {p}
  BY <1>1, <1>6, SendKeeps
<1>7. CASE Fail({}) /\ UNCHANGED disk
  BY <1>1, <1>2, <1>7, FailsStill DEF history, counts
<1>8. CASE Settle(p, disk, Entry(snap[p], work[p].stamp))
  <2>1. Entry(snap[p], work[p].stamp).stamp \in Entries
    BY FreshIsPlain DEF Entries
  <2>. QED
    BY <1>1, <1>2, <1>8, <2>1, SettleKeeps
<1>. QED
  BY <1>3, <1>4, <1>5, <1>6, <1>7, <1>8 DEF Match, Changed

\* The file keeps its stamp under its new name.
LEMMA KeepApplyMove == KeepInv /\ IInv /\ IInv' /\ ApplyMove => KeepInv'
<1> SUFFICES ASSUME KeepInv, IInv, IInv', ApplyMove PROVE KeepInv'
  OBVIOUS
<1>1. /\ pc = "slow" /\ page # <<>> /\ TypeOK /\ TypeOK' /\ due' = due /\ writes' = writes
      /\ stored' = stored /\ receipts' = receipts /\ KeyInv
  BY DEF ApplyMove, Applying, IInv, server, counts, KeepInv
<1>2. NoneDue /\ job = NoJob /\ pc # "off"
  BY <1>1, NothingIsDue DEF SafeSteps
<1>3. PICK p \in Path, o \in Path :
       /\ o # p
       /\ IF Here(o) /\ Here(p)
          THEN /\ base' = work
               /\ pc' = "list"
               /\ UNCHANGED <<disk, events, known, tracked, why, locals, watched>>
          ELSE /\ work' = [work EXCEPT ![o] = NoEntry, ![p] = work[o]]
               /\ IF Here(o)
                  THEN /\ disk' = [disk EXCEPT ![o] = NoFile, ![p] = disk[o]]
                       /\ events' = [events EXCEPT !.renames = @ \cup {<<o, p>>}]
                       /\ watched' = {k \in watched : ~At(k, o)}
                  ELSE UNCHANGED <<folder, watched>>
               /\ UNCHANGED <<mount, pc, why, batch, moves, todo, gone, scan,
                              snap, page, advance, job>>
  <2>1. Now.path \in Path
    BY <1>1, NowIsAPath
  <2>2. Olds \subseteq Path
    BY <2>1 DEF Olds, PathsOf
  <2>. QED
    BY <2>1, <2>2 DEF ApplyMove
<1>4. CASE Here(o) /\ Here(p)
  <2>1. /\ base' = work /\ work' = work /\ disk' = disk /\ scan' = scan /\ why' = why
        /\ UNCHANGED <<events, batch, job>> /\ pc' = "list" /\ watched' = watched
    BY <1>3, <1>4 DEF locals
  <2>2. Carried(base') /\ Carried(work')
    BY <2>1 DEF Carried, Entries
  <2>. QED
    BY <1>1, <2>1, <2>2, GoesOn DEF SafeSteps
<1>5. CASE ~(Here(o) /\ Here(p))
  <2>1. /\ work' = [work EXCEPT ![o] = NoEntry, ![p] = work[o]] /\ base' = base
        /\ scan' = scan /\ why' = why /\ UNCHANGED <<batch, job>> /\ pc' = "slow"
    BY <1>1, <1>3, <1>5 DEF mount
  <2>2. Carried(work')
    <3>1. work \in [Path -> [node : Node \cup {0}, rev : Nat, stamp : Stamp]]
      BY <1>1 DEF TypeOK, LocalsType, Baseline
    <3>2. \A q \in Path : work'[q] \in {work[q], work[o], NoEntry}
      BY <2>1, <3>1
    <3>. QED
      BY <1>1, <3>2, Plains, PlainIsHarmless DEF Carried, Entries
  <2>3. Stamped
    BY <2>1, <2>2 DEF Stamped, Carried, Entries
  <2>4. KeyInv' /\ JobInv'
    BY <1>1, <1>2, <2>1, KeysStep, NoJobStep DEF Sending
  <2>5. CASE ~Here(o)
    <3>1. disk' = disk /\ events' = events /\ watched' = watched
      BY <1>3, <1>5, <2>5 DEF folder
    <3>2. Tame /\ Reporting
      BY <2>1, <3>1 DEF Tame, Reporting, RenamedFrom
    <3>3. StartInv'
      BY <2>1, <3>1, StartStep DEF KeepInv
    <3>. QED
      BY <1>1, <1>2, <2>1, <2>3, <2>4, <3>1, <3>2, <3>3, KeepSafe
  <2>6. CASE Here(o) /\ ~Here(p)
    <3>1. /\ disk' = [disk EXCEPT ![o] = NoFile, ![p] = disk[o]]
          /\ events' = [events EXCEPT !.renames = @ \cup {<<o, p>>}]
          /\ watched' = {k \in watched : ~At(k, o)}
      BY <1>3, <2>6
    <3>2. /\ disk'[o] = NoFile /\ disk'[p] = disk[o] /\ disk \in [Path -> File]
          /\ \A r \in Path : r # o /\ r # p => disk'[r] = disk[r]
      BY <1>1, <1>3, <3>1 DEF TypeOK, FolderType
    <3>3. /\ \A k \in 1..MaxWrites : NoFile.stamp # Written(k)
          /\ watched \cup due \subseteq 1..MaxWrites
      BY <1>1, Plains, Writes DEF Plain
    <3>4. ASSUME NEW k \in watched', NEW r \in Path, AtRisk(k, r)'
          PROVE  k \in watched /\ AtRisk(k, r) /\ r # o /\ r # p
      <4>1. k \in 1..MaxWrites /\ ~At(k, o) /\ k \in watched
        BY <3>1, <3>3
      <4>2. r # p /\ r # o
        BY <3>2, <3>3, <3>4, <4>1 DEF AtRisk, At
      <4>. QED
        BY <1>1, <3>2, <3>4, <4>1, <4>2 DEF AtRisk, At
    <3>5. Steady
      <4>1. ASSUME NEW k \in 1..MaxWrites, NEW x \in Path, NEW y \in Path,
                   At(k, x)', At(k, y)'
            PROVE  x = y
        <5>1. x # o /\ y # o
          BY <3>2, <3>3, <4>1 DEF At
        <5>. QED
          BY <1>3, <3>2, <4>1, <5>1 DEF KeepInv, StampInv, At
      <4>2. \A r \in Path : Known(disk'[r].stamp)
        BY <3>2, AllKnown, Plains DEF KeepInv
      <4>. QED
        BY <1>1, <3>1, <3>4, <4>1, <4>2 DEF Steady
    <3>6. StampInv' /\ WatchedInv'
      BY <1>1, <2>3, <3>5, StampsStep DEF KeepInv
    <3>7. StartInv'
      BY <2>1, <3>1, StartStep DEF KeepInv
    <3>8. DueInv'
      <4>1. ASSUME NEW k \in due, NEW r \in Path, AtRisk(k, r)' PROVE FALSE
        <5>1. k \in 1..MaxWrites /\ r # o
          BY <3>2, <3>3, <4>1 DEF AtRisk, At
        <5>2. AtRisk(k, r) \/ AtRisk(k, o)
          BY <1>1, <3>2, <4>1, <5>1 DEF AtRisk, At
        <5>. QED
          BY <1>2, <1>3, <5>2 DEF NoneDue
      <4>. QED
        BY <1>1, <4>1 DEF DueInv
    <3>9. ReportInv'
      <4>1. /\ events'.paths = events.paths /\ (events.lost => events'.lost)
            /\ RenamedFrom(events') \subseteq RenamedFrom(events) \cup {o}
            /\ RenamedFrom(batch') = RenamedFrom(batch)
        <5>1. events \in Reported
          BY <1>1 DEF TypeOK, FolderType
        <5>2. events'.renames \subseteq events.renames \cup {<<o, p>>}
          BY <3>1, <5>1 DEF Reported
        <5>. QED
          BY <2>1, <3>1, <5>1, <5>2 DEF Reported, RenamedFrom
      <4>2. ASSUME NEW k \in watched', NEW r \in Path, AtRisk(k, r)'
            PROVE  /\ r \notin RenamedFrom(events') \cup RenamedFrom(batch')
                   /\ \/ events'.lost \/ r \in events'.paths
                      \/ k \in due' /\ (batch'.lost \/ r \in batch'.paths)
        <5>1. k \in watched /\ AtRisk(k, r) /\ r # o
          BY <3>4, <4>2
        <5>2. /\ r \notin RenamedFrom(events) \cup RenamedFrom(batch)
              /\ \/ events.lost \/ r \in events.paths
                 \/ k \in due /\ (batch.lost \/ r \in batch.paths)
          BY <1>2, <5>1 DEF KeepInv, ReportInv
        <5>. QED
          BY <1>1, <2>1, <4>1, <5>1, <5>2
      <4>. QED
        BY <2>1, <4>2 DEF ReportInv
    <3>. QED
      BY <2>4, <3>6, <3>7, <3>8, <3>9 DEF KeepInv
  <2>. QED
    BY <1>5, <2>5, <2>6
<1>. QED
  BY <1>4, <1>5

-----------------------------------------------------------------------------
(* KeepInv is invariant                                                     *)

LEMMA KeepInit == Init => KeepInv
<1> SUFFICES ASSUME Init PROVE KeepInv
  OBVIOUS
<1>1. /\ receipts = {} /\ stored = {0} /\ pc = "off" /\ why = "none" /\ job = NoJob
      /\ batch = NoEvents /\ watched = {} /\ due = {} /\ writes = 0
      /\ disk = Nothing /\ base = Nowhere /\ work = Nowhere /\ scan = Nothing
  BY DEF Init
<1>2. \A k \in 1..MaxWrites : NoStamp # Written(k)
  BY Plains DEF Plain
<1>3. \A p \in Path : /\ disk[p].stamp = NoStamp /\ base[p].stamp = NoStamp
                      /\ work[p].stamp = NoStamp /\ scan[p].stamp = NoStamp
                      /\ job.stamp = NoStamp
  BY <1>1, Plains DEF Nothing, Nowhere
<1>4. StampInv
  BY <1>1, <1>2, <1>3 DEF StampInv, At
<1>. QED
  BY <1>1, <1>4 DEF KeepInv, KeyInv, StartInv, WatchedInv, ReportInv, JobInv, DueInv,
     Sending

LEMMA KeepStutter == KeepInv /\ UNCHANGED vars => KeepInv'
<1> SUFFICES ASSUME KeepInv, UNCHANGED vars PROVE KeepInv'
  OBVIOUS
<1>1. /\ disk' = disk /\ events' = events /\ base' = base /\ work' = work
      /\ pc' = pc /\ why' = why /\ batch' = batch /\ todo' = todo /\ scan' = scan
      /\ job' = job /\ watched' = watched /\ due' = due /\ receipts' = receipts
      /\ stored' = stored /\ writes' = writes
  BY DEF vars, server, folder, mount, run, locals, history, counts
<1>2. StampInv' /\ KeyInv' /\ StartInv'
  BY <1>1 DEF KeepInv, StampInv, KeyInv, StartInv, At
<1>3. WatchedInv' /\ ReportInv'
  BY <1>1 DEF KeepInv, WatchedInv, ReportInv, AtRisk, At
<1>4. JobInv'
  BY <1>1 DEF KeepInv, JobInv, Pass, Target, AtRisk, At
<1>5. DueInv'
  BY <1>1 DEF KeepInv, DueInv, Pass, Target, InHand, In, AtRisk, At
<1>. QED
  BY <1>2, <1>3, <1>4, <1>5 DEF KeepInv

LEMMA KeepHolds == KeepInv /\ IInv /\ IInv' /\ Next => KeepInv'
<1> SUFFICES ASSUME KeepInv, IInv, IInv', Next PROVE KeepInv'
  OBVIOUS
<1>1. CASE Flush
  BY <1>1, KeepSendRename, KeepSendMoved, KeepVisitPath, KeepSendDelete, KeepEndFlush
     DEF Flush
<1>2. CASE SendFile
  BY <1>2, KeepUpload, KeepOverwrite, KeepCopyConflict, KeepSendCopy, KeepRefresh
     DEF SendFile
<1>3. CASE Audit
  <2>1. WalkAudit => KeepInv'
    BY KeepWalk DEF WalkAudit
  <2>. QED
    BY <1>3, <2>1, KeepScan, KeepAdd, KeepEndAdd, KeepEdit, KeepEndEdit, KeepMissing,
       KeepEndMissing, KeepPull DEF Audit
<1>4. CASE Poll
  <2>1. List => KeepInv'
    BY KeepWalk DEF List
  <2>. QED
    BY <1>4, <2>1, KeepRequest, KeepFastUpserts, KeepFastDeletes, KeepSlow,
       KeepApplyDelete, KeepApplyMove, KeepApplyUpsert, KeepApplySent, KeepEndPage,
       KeepMatch, KeepPrune DEF Poll
<1>5. CASE Mounting
  BY <1>5, StartsKeep, KeepListFirst, KeepAdopt DEF Mounting
<1>6. CASE \E w \in Ticks : Wake(w)
  BY <1>6, KeepWake
<1>7. CASE Users
  BY <1>7, KeepUserWrite, KeepUserRemove, KeepUserRename DEF Users
<1>8. CASE Webs
  BY <1>8, KeepWeb
<1>9. CASE Overflow
  BY <1>9, KeepOverflow
<1>10. CASE Crash
  BY <1>10, KeepCrash
<1>. QED
  BY <1>1, <1>2, <1>3, <1>4, <1>5, <1>6, <1>7, <1>8, <1>9, <1>10 DEF Next, Provider, Pace

\* A reported write the server does not have is in no entry of the baseline, is
\* in the events or in the batch of the running pass, and a pass that began with
\* it has it still to visit.
THEOREM SyncInvAlways == Spec => []SyncInv
<1>1. Init => SyncInv
  BY InitHolds, KeepInit DEF SyncInv
<1>2. SyncInv /\ [Next]_vars => SyncInv'
  <2>1. SyncInv /\ Next => SyncInv'
    BY StepHolds, KeepHolds DEF SyncInv
  <2>2. SyncInv /\ UNCHANGED vars => SyncInv'
    BY StutterHolds, KeepStutter DEF SyncInv
  <2>. QED
    BY <2>1, <2>2
<1>. QED
  BY <1>1, <1>2, PTL DEF Spec

-----------------------------------------------------------------------------
(* What is taken out of the folder                                          *)

EarlierKept ==
  UNCHANGED userSteps =>
    \A p \in Path : \A k \in due :
      At(k, p) /\ ~Kept(disk', k) => disk[p].bytes \in stored'

LEMMA StoredGrows == Next => stored \subseteq stored'
<1> SUFFICES ASSUME Next PROVE stored \subseteq stored'
  OBVIOUS
<1>1. CASE Flush
  BY <1>1 DEF Flush, SendRename, SendMoved, VisitPath, SendDelete, EndFlush, MoveTo, Trash,
     Send, server
<1>2. CASE SendFile
  BY <1>2 DEF SendFile, Upload, Overwrite, CopyConflict, SendCopy, Refresh, Create, server
<1>3. CASE Audit
  BY <1>3 DEF Audit, Scan, Add, EndAdd, Edit, PassOver, EndEdit, Missing, EndMissing, WalkAudit, Pull,
     NextLoop, Walk, Send, Trash, server
<1>4. CASE Poll
  BY <1>4 DEF Poll, Request, FastUpserts, FastDeletes, Slow, ApplyDelete, ApplyMove,
     ApplyUpsert, ApplySent, EndPage, List, Match, Prune, Polled, Done, Send, Walk, Trash,
     server
<1>5. CASE Mounting \/ (\E w \in Ticks : Wake(w))
  BY <1>5 DEF Mounting, Start, ListFirst, Adopt, Wake, Walk, server
<1>6. CASE Users \/ Overflow \/ Crash
  BY <1>6 DEF Users, UserWrite, UserRemove, UserRename, User, Overflow, Crash, server
<1>7. CASE Webs
  BY <1>7 DEF Webs, WebCreate, WebWrite, WebDelete, WebMove, WebRestore, Create, Trash,
     MoveTo
<1>. QED
  BY <1>1, <1>2, <1>3, <1>4, <1>5, <1>6, <1>7 DEF Next, Provider, Pace

LEMMA SafeStepsKeep ==
  ASSUME SyncInv, Next, pc \in SafeSteps
  PROVE  EarlierKept
<1>1. NoneDue
  BY NothingIsDue DEF SyncInv
<1>. QED
  BY <1>1, StoredGrows DEF EarlierKept, NoneDue, AtRisk

LEMMA StampsKeep ==
  ASSUME TypeOK, \A q \in Path : Here(q) => disk'[q].stamp = disk[q].stamp
  PROVE  EarlierKept
<1>1. ASSUME NEW p \in Path, NEW k \in due, At(k, p)
      PROVE  Kept(disk', k)
  <2>1. Here(p)
    BY <1>1, Writes, WritesAreHere
  <2>. QED
    BY <1>1, <2>1 DEF Kept, At
<1>. QED
  BY <1>1 DEF EarlierKept

LEMMA SameDiskKeeps ==
  ASSUME SyncInv, disk' = disk
  PROVE  EarlierKept
BY StampsKeep DEF SyncInv, IInv

\* The file that gives way has been kept as a conflict copy, and sent.
LEMMA RefreshedKeeps ==
  ASSUME SyncInv, Next, pc = "refresh",
         \A q \in Path : q # Target /\ Here(q) => disk'[q].stamp = disk[q].stamp
  PROVE  EarlierKept
<1>1. TypeOK /\ pc \in Sending /\ IInv /\ KeepInv
  BY DEF SyncInv, IInv, Sending
<1>2. PICK t \in Path : t = Target /\ Pass \in Working /\ Pass # "add"
  BY <1>1, SendingFacts
<1>3. ASSUME NEW k \in due PROVE ~AtRisk(k, t)
  <2>1. SUFFICES ASSUME AtRisk(k, t) PROVE FALSE
    OBVIOUS
  <2>2. ~InHand(t) /\ (Pass \in {"local", "edit"} => t \notin todo)
    BY <1>1, <1>2 DEF InHand, KeepInv, JobInv
  <2>. QED
    BY <1>1, <1>2, <2>1, <2>2 DEF KeepInv, DueInv, Working
<1>4. ASSUME NEW p \in Path, NEW k \in due, At(k, p), ~Kept(disk', k)
      PROVE  disk[p].bytes \in stored'
  <2>1. Here(p)
    BY <1>1, <1>4, Writes, WritesAreHere
  <2>2. p = t
    BY <1>2, <1>4, <2>1 DEF Kept, At
  <2>. QED
    BY <1>3, <1>4, <2>2, StoredGrows DEF AtRisk
<1>. QED
  BY <1>4 DEF EarlierKept

LEMMA FlushKeepsEdits == SyncInv /\ Next /\ Flush => EarlierKept
<1> SUFFICES ASSUME SyncInv, Next, Flush PROVE EarlierKept
  OBVIOUS
<1>1. disk' = disk
  BY DEF Flush, SendRename, SendMoved, VisitPath, SendDelete, EndFlush, Answered, Send,
     folder
<1>. QED
  BY <1>1, SameDiskKeeps

LEMMA SendFileKeepsEdits == SyncInv /\ Next /\ SendFile => EarlierKept
<1> SUFFICES ASSUME SyncInv, Next, SendFile PROVE EarlierKept
  OBVIOUS
<1>1. TypeOK /\ IInv /\ disk \in [Path -> File]
  BY DEF SyncInv, IInv, TypeOK, FolderType
<1>2. CASE Upload
  <2>1. PICK t \in Path : t = Target
    BY <1>1, <1>2, SendingFacts DEF Upload, Sending
  <2>2. disk' = disk \/ \E n : disk' = [disk EXCEPT ![t].id = n]
    BY <1>2, <2>1 DEF Upload, Uploaded, Answered
  <2>. QED
    BY <1>1, <2>1, <2>2, IdIsNoMatter, StampsKeep
<1>3. CASE Overwrite
  <2>1. disk' = disk
    BY <1>3 DEF Overwrite, Overwritten, Answered, folder
  <2>. QED
    BY <2>1, SameDiskKeeps
<1>4. CASE CopyConflict
  <2>1. disk' = disk \/ \E f : disk' = [disk EXCEPT ![First(FreeCopies)] = f]
                               /\ FreeCopies # {}
    BY <1>4 DEF CopyConflict
  <2>2. FreeCopies # {} => First(FreeCopies) \in FreeCopies
    <3>1. FreeCopies \subseteq Nat
      BY Bounds DEF FreeCopies
    <3>. QED
      BY <3>1, FirstIsIn
  <2>3. \A c \in FreeCopies : ~Here(c)
    BY DEF FreeCopies
  <2>4. \A q \in Path : Here(q) => disk'[q] = disk[q]
    BY <1>1, <2>1, <2>2, <2>3
  <2>. QED
    BY <1>1, <2>4, StampsKeep
<1>5. CASE SendCopy
  <2>1. PICK c \in Path : c = job.copy
    BY <1>1, <1>5 DEF SendCopy, IInv, ControlInv
  <2>2. disk' = disk \/ \E n : disk' = [disk EXCEPT ![c].id = n]
    BY <1>5, <2>1 DEF SendCopy, Answered
  <2>. QED
    BY <1>1, <2>1, <2>2, IdIsNoMatter, StampsKeep
<1>6. CASE Refresh
  <2>1. disk' = disk \/ \E f : disk' = [disk EXCEPT ![Target] = f]
    BY <1>6 DEF Refresh
  <2>2. \A q \in Path : q # Target => disk'[q] = disk[q]
    BY <1>1, <2>1
  <2>. QED
    BY <1>6, <2>2, RefreshedKeeps DEF Refresh
<1>. QED
  BY <1>2, <1>3, <1>4, <1>5, <1>6 DEF SendFile

LEMMA AuditKeepsEdits == SyncInv /\ Next /\ Audit => EarlierKept
<1> SUFFICES ASSUME SyncInv, Next, Audit PROVE EarlierKept
  OBVIOUS
<1>1. CASE Scan \/ Add \/ EndAdd \/ Edit \/ EndEdit
  <2>1. disk' = disk
    BY <1>1 DEF Scan, Add, EndAdd, Edit, PassOver, EndEdit, NextLoop, Send, folder
  <2>. QED
    BY <2>1, SameDiskKeeps
<1>2. CASE Missing \/ EndMissing \/ WalkAudit \/ Pull
  BY <1>2, SafeStepsKeep DEF Missing, EndMissing, WalkAudit, Pull, SafeSteps
<1>. QED
  BY <1>1, <1>2 DEF Audit

LEMMA PollKeepsEdits == SyncInv /\ Next /\ Poll => EarlierKept
<1> SUFFICES ASSUME SyncInv, Next, Poll PROVE EarlierKept
  OBVIOUS
<1>1. pc \in {"poll", "apply", "slow", "sent", "list", "match"}
  BY DEF Poll, Request, FastUpserts, FastDeletes, Slow, ApplyDelete, ApplyMove,
     ApplyUpsert, ApplySent, EndPage, List, Match, Prune, Applying
<1>. QED
  BY <1>1, SafeStepsKeep DEF SafeSteps

LEMMA CrashKeepsEdits == SyncInv /\ Next /\ Crash => EarlierKept
<1> SUFFICES ASSUME SyncInv, Next, Crash PROVE EarlierKept
  OBVIOUS
<1>1. \A q \in Path : After[q] = disk[q] => disk'[q] = disk[q]
  <2>1. PICK done, half \in SUBSET {p \in Path : After[p] # disk[p]} :
          disk' = [p \in Path |-> IF p \in done THEN After[p]
                                  ELSE IF p \in half THEN NoFile ELSE disk[p]]
    BY DEF Crash
  <2>. QED
    BY <2>1
<1>2. CASE pc \in SafeSteps
  BY <1>2, SafeStepsKeep
<1>3. CASE pc = "refresh"
  <2>1. PICK c : After = Placed(Target, c) \/ After = disk
    BY <1>3 DEF After, Applying
  <2>2. \A q \in Path : q # Target => After[q] = disk[q]
    BY <2>1 DEF Placed, SyncInv, IInv, TypeOK, FolderType
  <2>. QED
    BY <1>1, <1>3, <2>2, RefreshedKeeps
<1>4. CASE pc \notin SafeSteps /\ pc # "refresh"
  <2>1. After = disk
    BY <1>4 DEF After, Applying, SafeSteps
  <2>. QED
    BY <1>1, <2>1, StampsKeep DEF SyncInv, IInv
<1>. QED
  BY <1>2, <1>3, <1>4

LEMMA OthersKeepEdits ==
  ASSUME SyncInv, Next,
         Mounting \/ (\E w \in Ticks : Wake(w)) \/ Users \/ Webs \/ Overflow
  PROVE  EarlierKept
<1>1. CASE Start \/ (\E w \in Ticks : Wake(w)) \/ Webs \/ Overflow
  <2>1. disk' = disk
    BY <1>1 DEF Start, Wake, Webs, WebCreate, WebWrite, WebDelete, WebMove, WebRestore, Web,
       Overflow, folder
  <2>. QED
    BY <2>1, SameDiskKeeps
<1>2. CASE ListFirst \/ Adopt
  BY <1>2, SafeStepsKeep DEF ListFirst, Adopt, SafeSteps
<1>3. CASE Users
  <2>1. userSteps' = userSteps + 1 /\ userSteps \in Nat
    BY <1>3 DEF Users, UserWrite, UserRemove, UserRename, User, SyncInv, IInv, TypeOK,
       CountType
  <2>. QED
    BY <2>1 DEF EarlierKept
<1>. QED
  BY <1>1, <1>2, <1>3 DEF Mounting

\* A write the mount knew of when the pass began, or found when it scanned, is
\* taken out of the folder only after the server was given its content: by every
\* pass, in every interleaving with the user, other clients, lost answers and
\* crashes.
THEOREM EarlierEditsKeptAlways == Spec => EarlierEditsKept
<1>1. SyncInv /\ [Next]_vars => [EarlierKept]_vars
  <2>1. SyncInv /\ Next => EarlierKept
    BY FlushKeepsEdits, SendFileKeepsEdits, AuditKeepsEdits, PollKeepsEdits,
       CrashKeepsEdits, OthersKeepEdits DEF Next, Provider, Pace
  <2>. QED
    BY <2>1
<1>2. [][EarlierKept]_vars => EarlierEditsKept
  BY PTL DEF EarlierEditsKept, EarlierKept
<1>. QED
  BY <1>1, <1>2, SyncInvAlways, PTL DEF Spec

=============================================================================
