---------------------------- MODULE ContentBlobs ----------------------------
(***************************************************************************)
(* Life cycle of content-addressed (CAS) objects of the xdrive server:     *)
(* the physical object, the row of xd_content_blobs that counts its        *)
(* references, and the rows that hold those references (the File row and   *)
(* the FileVersion rows of a node, and the reused parts of an unfinished   *)
(* upload).                                                                *)
(*                                                                         *)
(* A SQL transaction is split wherever it reads without a lock or touches  *)
(* the file store before COMMIT; what it does under locks it holds to      *)
(* COMMIT is one step.  The two kinds of lock are the advisory lock of the *)
(* hash (lockContentHash) and the row lock of the blob (FOR UPDATE): who   *)
(* holds them follows from pc and want, so no variable repeats it.         *)
(***************************************************************************)
EXTENDS Integers, FiniteSets

CONSTANTS
    Content,    \* digests; the canonical storage key is a function of the digest
    Node,       \* ids that file nodes may take
    Version,    \* FileVersion rows that one node may have at a time (a bound)
    Session,    \* unfinished upload sessions with reused parts (a bound)
    Handler,    \* concurrent requests and file-operation workers
    Janitor,    \* the storage janitor
    TrashRoot,  \* folders that may be moved to the trash
    Subtree,    \* the file nodes below each of those folders
    LateCreate, \* may a create commit after its folder went to the trash?
    ReapLimit,  \* rows the janitor takes at a time (128)
    MaxFaults,  \* bound on crashes, cancelled requests and failed commits
    NoContent, NoNode, NoRoot

Proc == Handler \cup {Janitor}
Slot == {"file"} \cup Version
Row == Node \X Slot

FileRow(n) == <<n, "file">>

(* Folder r lies below folder s (or is it): nodes have one parent.          *)
Within(r, s) == Subtree[r] \subseteq Subtree[s]

ASSUME ConstantsAssumption ==
    /\ NoContent \notin Content
    /\ NoNode \notin Node
    /\ NoRoot \notin TrashRoot
    /\ "file" \notin Version
    /\ Janitor \notin Handler
    /\ Subtree \in [TrashRoot -> SUBSET Node]
    /\ LateCreate \in BOOLEAN
    /\ ReapLimit \in Nat \ {0}
    /\ MaxFaults \in Nat

ASSUME FinitenessAssumption ==
    IsFiniteSet(Content) /\ IsFiniteSet(Node) /\ IsFiniteSet(Version)

(* The subtrees of two folders are nested or disjoint, and two folders are  *)
(* told apart by what is below them.                                        *)
ASSUME TreeAssumption ==
    \A r, s \in TrashRoot :
        /\ Within(r, s) \/ Within(s, r) \/ Subtree[r] \cap Subtree[s] = {}
        /\ Subtree[r] = Subtree[s] => r = s

VARIABLES
    object,     \* canonical CAS objects present in the store
    blobState,  \* state of the xd_content_blobs row; "none" when there is none
    refCount,   \* its ref_count
    older,      \* <<g, h>>: the updated_at of g's row is before that of h's
    key,        \* content referenced by each File and FileVersion row
    part,       \* content that a session's committed reused parts read
    trashedBy,  \* trash_root_id of each file node
    inTrash,    \* folders that are trash roots themselves
    pc,         \* where each process is in its handler
    want,       \* digest it works on
    target,     \* node it overwrites, or reuses parts of
    root,       \* trash root whose row it holds FOR UPDATE
    ids,        \* nodes of the subtree it is deleting
    seen,       \* File and FileVersion rows it has read for deletion
    cand,       \* contentDeleteCandidates it still has to finalize
    tmp,        \* processes whose staged temporary object exists
    faults

db == <<blobState, refCount, older, key, part, trashedBy, inTrash>>
rowVars == <<key, part, trashedBy, inTrash>>
purgeVars == <<root, ids, seen>>
vars == <<object, blobState, refCount, older, key, part, trashedBy, inTrash, pc, want,
          target, root, ids, seen, cand, tmp, faults>>

PC == {"idle", "staged", "prepared", "retained", "failed", "cleaning",
       "copying", "reusing", "restoring", "versionsRead", "filesRead", "deleting",
       "unlinking", "unlinked"}

TypeOK ==
    /\ object \subseteq Content
    /\ blobState \in [Content -> {"none", "ready", "deleting"}]
    /\ refCount \in [Content -> Nat]
    /\ older \subseteq Content \X Content
    /\ key \in [Row -> Content \cup {NoContent}]
    /\ part \in [Session -> Content \cup {NoContent}]
    /\ trashedBy \in [Node -> TrashRoot \cup {NoRoot}]
    /\ inTrash \subseteq TrashRoot
    /\ pc \in [Proc -> PC]
    /\ want \in [Proc -> Content \cup {NoContent}]
    /\ target \in [Proc -> Node \cup {NoNode}]
    /\ root \in [Proc -> TrashRoot \cup {NoRoot}]
    /\ ids \in [Proc -> SUBSET Node]
    /\ seen \in [Proc -> SUBSET (Row \X Content)]
    /\ cand \in [Proc -> SUBSET Content]
    /\ tmp \subseteq Proc
    /\ faults \in 0..MaxFaults

-----------------------------------------------------------------------------
(* References and locks.                                                    *)

Refs(h) == {x \in Row : key[x] = h}

(* contentStorageKeyHasLiveFileReferencesTx: one statement, one snapshot.   *)
Referenced(h) == \E x \in Row : key[x] = h

(* reusedUploadPartExistsTx *)
PartReused(h) == \E s \in Session : part[s] = h

(* Processes inside a transaction that took pg_advisory_xact_lock.          *)
HoldsHash(p, h) ==
    /\ want[p] = h
    /\ pc[p] \in {"retained", "cleaning", "unlinking", "unlinked"}

(* Processes inside a transaction that read the blob row FOR UPDATE.        *)
HoldsRow(p, h) ==
    /\ want[p] = h
    /\ pc[p] \in {"retained", "unlinking", "unlinked"}

(* A bug: cleanupUncommittedContentBlob forgets lockContentHash.             *)
HashFreeUnlocked(h) == \A p \in Proc : ~HoldsHash(p, h) \/ pc[p] = "cleaning"

HashFree(h) == \A p \in Proc : ~HoldsHash(p, h)
RowFree(h) == \A p \in Proc : ~HoldsRow(p, h)

(* A bug: trash restore and permanent delete do not lock the trash root.    *)
RootFreeUnlocked(r) == r \in TrashRoot

RootFree(r) == \A p \in Proc : root[p] # r

Exists(n) == key[FileRow(n)] # NoContent
Live(n) == Exists(n) /\ trashedBy[n] = NoRoot

(* A deleted node's id is never given out again: its place in Node is free  *)
(* once no request remembers it.                                            *)
Unused(n) == ~Exists(n) /\ \A p \in Proc : n \notin ids[p] /\ target[p] # n

(* The folders above a new node are not in the trash.  Handlers check it    *)
(* before their transaction only: with LateCreate the folder may have been  *)
(* trashed since.                                                           *)
MayCreate(n) ==
    /\ Unused(n)
    /\ LateCreate \/ \A r \in inTrash : n \notin Subtree[r]

-----------------------------------------------------------------------------
Init ==
    /\ object = {}
    /\ blobState = [h \in Content |-> "none"]
    /\ refCount = [h \in Content |-> 0]
    /\ older = {}
    /\ key = [x \in Row |-> NoContent]
    /\ part = [s \in Session |-> NoContent]
    /\ trashedBy = [n \in Node |-> NoRoot]
    /\ inTrash = {}
    /\ pc = [p \in Proc |-> "idle"]
    /\ want = [p \in Proc |-> NoContent]
    /\ target = [p \in Proc |-> NoNode]
    /\ root = [p \in Proc |-> NoRoot]
    /\ ids = [p \in Proc |-> {}]
    /\ seen = [p \in Proc |-> {}]
    /\ cand = [p \in Proc |-> {}]
    /\ tmp = {}
    /\ faults = 0

Goto(p, l) == pc' = [pc EXCEPT ![p] = l]

(* The handler of p returns: its request-local state is gone.               *)
Return(p) ==
    /\ pc' = [pc EXCEPT ![p] = "idle"]
    /\ want' = [want EXCEPT ![p] = NoContent]
    /\ target' = [target EXCEPT ![p] = NoNode]
    /\ root' = [root EXCEPT ![p] = NoRoot]
    /\ ids' = [ids EXCEPT ![p] = {}]
    /\ seen' = [seen EXCEPT ![p] = {}]
    /\ cand' = [cand EXCEPT ![p] = {}]
    /\ tmp' = tmp \ {p}

-----------------------------------------------------------------------------
(* Writing new content: uploadMultipart, overwriteFile and                  *)
(* finalizeUploadSession all stage a temporary object, prepare the          *)
(* canonical one outside any transaction, then retain it inside one.        *)

(* Store.Put of the whole content to a fresh key; n = NoNode creates a      *)
(* node, otherwise n is overwritten.                                        *)
Stage(p, h, n) ==
    /\ pc[p] = "idle"
    /\ n # NoNode => Live(n)
    /\ Goto(p, "staged")
    /\ want' = [want EXCEPT ![p] = h]
    /\ target' = [target EXCEPT ![p] = n]
    /\ tmp' = tmp \cup {p}
    /\ UNCHANGED <<object, db, purgeVars, cand, faults>>

(* finalizeUploadSession of a session whose digest is already a ready blob: *)
(* the parts are only hashed, there is no temporary object.                 *)
StageReusingCAS(p, h, n) ==
    /\ pc[p] = "idle"
    /\ n # NoNode => Live(n)
    /\ blobState[h] = "ready"
    /\ h \in object
    /\ Goto(p, "staged")
    /\ want' = [want EXCEPT ![p] = h]
    /\ target' = [target EXCEPT ![p] = n]
    /\ UNCHANGED <<object, db, purgeVars, cand, tmp, faults>>

(* ensureContentBlobObject: keep an existing object, else rename the        *)
(* temporary one (which consumes it), else fail.                            *)
CanEnsure(p, h) == h \in object \/ p \in tmp

EnsureObject(p, h) ==
    /\ object' = object \cup {h}
    /\ tmp' = IF h \in object THEN tmp ELSE tmp \ {p}

Prepare(p) ==
    LET h == want[p] IN
    /\ pc[p] = "staged"
    /\ CanEnsure(p, h)
    /\ EnsureObject(p, h)
    /\ Goto(p, "prepared")
    /\ UNCHANGED <<db, want, target, purgeVars, cand, faults>>

PrepareFails(p) ==
    /\ pc[p] = "staged"
    /\ ~CanEnsure(p, want[p])
    /\ Return(p)
    /\ UNCHANGED <<object, db, faults>>

(* retainContentBlobTx up to the row update, which COMMIT publishes.        *)
BeginRetain(p) ==
    LET h == want[p] IN
    /\ pc[p] = "prepared"
    /\ HashFree(h)
    /\ RowFree(h)
    /\ IF CanEnsure(p, h)
       THEN EnsureObject(p, h) /\ Goto(p, "retained")
       ELSE UNCHANGED <<object, tmp>> /\ Goto(p, "failed")
    /\ UNCHANGED <<db, want, target, purgeVars, cand, faults>>

(* updated_at is set by what adds a reference and not by the plain SQL that  *)
(* releases them: a row that waits to be deleted keeps it.                  *)
Without(h) == {e \in older : e[1] # h /\ e[2] # h}
Touched(h) == Without(h) \cup {<<g, h>> : g \in {c \in Content \ {h} : blobState[c] # "none"}}

(* One more reference to h: a ready row is incremented, a deleting one is   *)
(* revived with a single reference, a missing one is created.               *)
Retained(h) ==
    /\ blobState' = [blobState EXCEPT ![h] = "ready"]
    /\ refCount' = [refCount EXCEPT ![h] = IF blobState[h] = "ready" THEN @ + 1 ELSE 1]
    /\ older' = Touched(h)

CreateRow(n, h) ==
    /\ MayCreate(n)
    /\ key' = [key EXCEPT ![FileRow(n)] = h]

(* The current content of n becomes a FileVersion.                          *)
OverwriteRow(n, h) ==
    /\ Live(n)
    /\ \E v \in Version :
        /\ key[<<n, v>>] = NoContent
        /\ key' = [key EXCEPT ![<<n, v>>] = key[FileRow(n)], ![FileRow(n)] = h]

AddRow(n, h) ==
    IF n = NoNode THEN \E m \in Node : CreateRow(m, h)
                  ELSE OverwriteRow(n, h)

Publish(p) ==
    /\ pc[p] = "retained"
    /\ Retained(want[p])
    /\ AddRow(target[p], want[p])
    /\ UNCHANGED <<object, part, trashedBy, inTrash>>

CommitRetain(p) ==
    /\ Publish(p)
    /\ Return(p)
    /\ UNCHANGED faults

(* The transaction commits but the answer is lost: the handler takes its    *)
(* error path.                                                              *)
CommitUnacknowledged(p) ==
    /\ faults < MaxFaults
    /\ faults' = faults + 1
    /\ Publish(p)
    /\ Goto(p, "failed")
    /\ UNCHANGED <<want, target, purgeVars, cand, tmp>>

(* A bug: the error path returns without cleanupUncommittedContentBlob.     *)
RollbackRetainOnly(p) ==
    /\ pc[p] \in {"prepared", "retained"}
    /\ Return(p)
    /\ UNCHANGED <<object, db, faults>>

(* Revision conflict, taken name, quota, revoked authority: any error after *)
(* the retain rolls the transaction back.                                   *)
RollbackRetain(p) ==
    /\ pc[p] \in {"prepared", "retained"}
    /\ Goto(p, "failed")
    /\ UNCHANGED <<object, db, want, target, purgeVars, cand, tmp, faults>>

(* Inserting the first row of a digest fails: retainContentBlobTx removes    *)
(* the object it prepared, still under the lock.                            *)
CreateBlobFails(p) ==
    /\ pc[p] = "retained"
    /\ blobState[want[p]] = "none"
    /\ object' = object \ {want[p]}
    /\ Goto(p, "failed")
    /\ UNCHANGED <<db, want, target, purgeVars, cand, tmp, faults>>

(* The error path: delete the temporary object, then                        *)
(* cleanupUncommittedContentBlob in a transaction of its own.               *)
MayCleanup(h) ==
    /\ blobState[h] = "none"
    /\ ~Referenced(h)
    /\ ~PartReused(h)

BeginCleanup(p) ==
    LET h == want[p] IN
    /\ pc[p] = "failed"
    /\ HashFree(h)
    /\ IF MayCleanup(h)
       THEN /\ Goto(p, "cleaning")
            /\ tmp' = tmp \ {p}
            /\ UNCHANGED <<want, target, purgeVars, cand>>
       ELSE Return(p)
    /\ UNCHANGED <<object, db, faults>>

FinishCleanup(p) ==
    /\ pc[p] = "cleaning"
    /\ object' = object \ {want[p]}
    /\ Return(p)
    /\ UNCHANGED <<db, faults>>

-----------------------------------------------------------------------------
(* New references to content that is already stored.                        *)

(* tryInstantUploadSession with retainOwnedContentBlobTx: one transaction   *)
(* under the hash lock and the row lock.                                    *)
InstantUpload(h, n) ==
    /\ HashFree(h)
    /\ RowFree(h)
    /\ Referenced(h)
    /\ blobState[h] = "ready"
    /\ refCount[h] > 0
    /\ h \in object
    /\ Retained(h)
    /\ AddRow(n, h)
    /\ UNCHANGED <<object, part, trashedBy, inTrash, pc, want, target,
                   purgeVars, cand, tmp, faults>>

(* A copy reads the source File without a lock ...                          *)
ReadCopySource(p, n) ==
    /\ pc[p] = "idle"
    /\ Live(n)
    /\ Goto(p, "copying")
    /\ want' = [want EXCEPT ![p] = key[FileRow(n)]]
    /\ UNCHANGED <<object, db, target, purgeVars, cand, tmp, faults>>

(* ... and retainExistingContentReferenceTx takes the row lock only.        *)
MayCopy(h) ==
    /\ blobState[h] = "ready"
    /\ refCount[h] > 0

CommitCopy(p) ==
    LET h == want[p] IN
    /\ pc[p] = "copying"
    /\ RowFree(h)
    /\ MayCopy(h)
    /\ refCount' = [refCount EXCEPT ![h] = @ + 1]
    /\ older' = Touched(h)
    /\ \E m \in Node : CreateRow(m, h)
    /\ Return(p)
    /\ UNCHANGED <<object, blobState, part, trashedBy, inTrash, faults>>

CopyFails(p) ==
    /\ pc[p] = "copying"
    /\ Return(p)
    /\ UNCHANGED <<object, db, faults>>

(* restoreFileVersion: the current and the selected content trade places    *)
(* under the node's row lock; no blob row is touched.                       *)
RestoreVersion(n, v) ==
    /\ Live(n)
    /\ key[<<n, v>>] # NoContent
    /\ key' = [key EXCEPT ![<<n, v>>] = key[FileRow(n)], ![FileRow(n)] = key[<<n, v>>]]
    /\ UNCHANGED <<object, blobState, refCount, older, part, trashedBy, inTrash, pc,
                   want, target, purgeVars, cand, tmp, faults>>

(* createUploadSession finds reusable ranges of the file it will overwrite  *)
(* and hashes them without a lock (Session bounds the open sessions) ...     *)
ReadReuseSource(p, n) ==
    /\ pc[p] = "idle"
    /\ Live(n)
    /\ \E s \in Session : part[s] = NoContent
    /\ Goto(p, "reusing")
    /\ want' = [want EXCEPT ![p] = key[FileRow(n)]]
    /\ target' = [target EXCEPT ![p] = n]
    /\ UNCHANGED <<object, db, purgeVars, cand, tmp, faults>>

(* ... then lockReusableUploadCASSourceTx looks again under the hash lock.  *)
MayReuse(h, n) ==
    /\ blobState[h] = "ready"
    /\ refCount[h] >= 1
    /\ key[FileRow(n)] = h

CommitReuse(p) ==
    LET h == want[p] IN
    /\ pc[p] = "reusing"
    /\ HashFree(h)
    /\ RowFree(h)
    /\ IF MayReuse(h, target[p])
       THEN \E s \in Session : part[s] = NoContent /\ part' = [part EXCEPT ![s] = h]
       ELSE UNCHANGED part
    /\ Return(p)
    /\ UNCHANGED <<object, blobState, refCount, older, key, trashedBy, inTrash, faults>>

(* Finalize, abort or expiry deletes the session's part rows.               *)
EndSession(s) ==
    /\ part[s] # NoContent
    /\ part' = [part EXCEPT ![s] = NoContent]
    /\ UNCHANGED <<object, blobState, refCount, older, key, trashedBy, inTrash, pc,
                   want, target, purgeVars, cand, tmp, faults>>

-----------------------------------------------------------------------------
(* Trash.                                                                   *)

RootLive(r) == \A s \in inTrash : ~Within(r, s)

(* deleteNode: the live nodes of the subtree get deleted_at and the root.   *)
MoveToTrash(r) ==
    /\ RootLive(r)
    /\ \E n \in Subtree[r] : Live(n)
    /\ inTrash' = inTrash \cup {r}
    /\ trashedBy' = [n \in Node |-> IF n \in Subtree[r] /\ Live(n) THEN r ELSE trashedBy[n]]
    /\ UNCHANGED <<object, blobState, refCount, older, key, part, pc, want, target,
                   purgeVars, cand, tmp, faults>>

(* No folder above r is in the trash.                                       *)
ParentLive(r) == \A s \in inTrash \ {r} : ~Within(r, s)

(* trashRestore locks the root's row, and reads the parent's without a lock  *)
(* ...                                                                      *)
BeginRestore(p, r) ==
    /\ pc[p] = "idle"
    /\ r \in inTrash
    /\ RootFree(r)
    /\ ParentLive(r)
    /\ Goto(p, "restoring")
    /\ root' = [root EXCEPT ![p] = r]
    /\ UNCHANGED <<object, db, want, target, ids, seen, cand, tmp, faults>>

(* ... before it updates the nodes and COMMITs.                             *)
CommitRestore(p) ==
    /\ pc[p] = "restoring"
    /\ inTrash' = inTrash \ {root[p]}
    /\ trashedBy' = [n \in Node |-> IF trashedBy[n] = root[p] THEN NoRoot ELSE trashedBy[n]]
    /\ Return(p)
    /\ UNCHANGED <<object, blobState, refCount, older, key, part, faults>>

(* A name that is taken, a lost connection.                                 *)
RestoreFails(p) ==
    /\ pc[p] = "restoring"
    /\ Return(p)
    /\ UNCHANGED <<object, db, faults>>

(* trashDeletePermanently locks the root row only, then reads the ids of    *)
(* the whole subtree, whichever root they were trashed by, and the          *)
(* FileVersion rows ...                                                     *)
RowsRead(nodes, slots) ==
    {<<x, key[x]>> : x \in {y \in nodes \X slots : key[y] # NoContent}}

PurgeReadVersions(p, r) ==
    /\ pc[p] = "idle"
    /\ r \in inTrash
    /\ RootFree(r)
    /\ Goto(p, "versionsRead")
    /\ root' = [root EXCEPT ![p] = r]
    /\ LET nodes == {n \in Subtree[r] : Exists(n)} IN
        /\ ids' = [ids EXCEPT ![p] = nodes]
        /\ seen' = [seen EXCEPT ![p] = RowsRead(nodes, Version)]
    /\ UNCHANGED <<object, db, want, target, cand, tmp, faults>>

(* ... then the File rows, in a later statement ...                         *)
PurgeReadFiles(p) ==
    /\ pc[p] = "versionsRead"
    /\ Goto(p, "filesRead")
    /\ seen' = [seen EXCEPT ![p] = @ \cup RowsRead(ids[p], {"file"})]
    /\ UNCHANGED <<object, db, want, target, root, ids, cand, tmp, faults>>

(* A bug: a digest is released once, however many rows held it.             *)
ReleaseOnce(p, h) == IF \E e \in seen[p] : e[2] = h THEN 1 ELSE 0

(* ... and releaseContentReferencesTx takes what it counted in them off the *)
(* locked blob rows.                                                        *)
ReleaseCount(p, h) == Cardinality({e \in seen[p] : e[2] = h})

(* A bug: no check for a ref_count underflow.                               *)
CanReleaseMore(p) ==
    \A h \in Content : ReleaseCount(p, h) > 0 => RowFree(h) /\ blobState[h] # "none"

CanRelease(p) ==
    \A h \in Content : ReleaseCount(p, h) > 0 =>
        /\ RowFree(h)
        /\ blobState[h] # "none"
        /\ refCount[h] >= ReleaseCount(p, h)

Released(p) ==
    /\ refCount' = [h \in Content |-> refCount[h] - ReleaseCount(p, h)]
    /\ blobState' = [h \in Content |->
          IF ReleaseCount(p, h) = 0 THEN blobState[h]
          ELSE IF refCount[h] = ReleaseCount(p, h) THEN "deleting" ELSE "ready"]
    /\ cand' = [cand EXCEPT ![p] =
          {h \in Content : ReleaseCount(p, h) > 0 /\ refCount[h] = ReleaseCount(p, h)}]

(* The deletes that follow in the same transaction cover the nodes read     *)
(* above; they wait for the row lock of a trash root below this one.        *)
CommitPurge(p) ==
    LET below == {s \in TrashRoot : Within(s, root[p])} IN
    /\ pc[p] = "filesRead"
    /\ CanRelease(p)
    /\ \A s \in below : \A q \in Proc : root[q] = s => q = p
    /\ Released(p)
    /\ key' = [x \in Row |-> IF x[1] \in ids[p] THEN NoContent ELSE key[x]]
    /\ trashedBy' = [n \in Node |-> IF n \in ids[p] THEN NoRoot ELSE trashedBy[n]]
    /\ inTrash' = inTrash \ below
    /\ Goto(p, "deleting")
    /\ root' = [root EXCEPT ![p] = NoRoot]
    /\ ids' = [ids EXCEPT ![p] = {}]
    /\ seen' = [seen EXCEPT ![p] = {}]
    /\ UNCHANGED <<object, older, part, want, target, tmp, faults>>

(* Missing row, underflow, deadlock victim, lost connection: rolled back.   *)
PurgeFails(p) ==
    /\ pc[p] \in {"versionsRead", "filesRead"}
    /\ Return(p)
    /\ UNCHANGED <<object, db, faults>>

-----------------------------------------------------------------------------
(* Physical deletion.                                                       *)

(* reapDeletingContentBlobs, on the janitor's schedule, takes the rows with  *)
(* the oldest updated_at.  A row that cannot be deleted keeps its place.    *)
Reapable(h) == blobState[h] = "deleting" /\ refCount[h] = 0

(* A bug: the rows with the newest updated_at.                              *)
ReapedNewest ==
    {h \in Content : /\ Reapable(h)
                     /\ Cardinality({g \in Content : Reapable(g) /\ <<h, g>> \in older}) < ReapLimit}

Reaped ==
    {h \in Content : /\ Reapable(h)
                     /\ Cardinality({g \in Content : Reapable(g) /\ <<g, h>> \in older}) < ReapLimit}

Reap ==
    /\ pc[Janitor] = "idle"
    /\ Reaped # {}
    /\ Goto(Janitor, "deleting")
    /\ cand' = [cand EXCEPT ![Janitor] = Reaped]
    /\ UNCHANGED <<object, db, want, target, purgeVars, tmp, faults>>

(* Bugs: a check of the finalizer is missing, or looks for the wrong state. *)
MayUnlinkReferenced(h) == blobState[h] = "deleting" /\ refCount[h] = 0 /\ ~PartReused(h)
MayUnlinkReused(h) == blobState[h] = "deleting" /\ refCount[h] = 0 /\ ~Referenced(h)
MayUnlinkReady(h) == blobState[h] = "ready" /\ refCount[h] = 0 /\ ~Referenced(h) /\ ~PartReused(h)

(* finalizeContentBlobDeletes: one transaction per candidate, which checks  *)
(* everything again under the hash lock and the row lock.                   *)
MayUnlink(h) ==
    /\ blobState[h] = "deleting"
    /\ refCount[h] = 0
    /\ ~Referenced(h)
    /\ ~PartReused(h)

BeginUnlink(p, h) ==
    /\ pc[p] = "deleting"
    /\ h \in cand[p]
    /\ HashFree(h)
    /\ RowFree(h)
    /\ cand' = [cand EXCEPT ![p] = @ \ {h}]
    /\ IF MayUnlink(h)
       THEN want' = [want EXCEPT ![p] = h] /\ Goto(p, "unlinking")
       ELSE UNCHANGED <<want, pc>>
    /\ UNCHANGED <<object, db, target, purgeVars, tmp, faults>>

Unlink(p) ==
    /\ pc[p] = "unlinking"
    /\ object' = object \ {want[p]}
    /\ Goto(p, "unlinked")
    /\ UNCHANGED <<db, want, target, purgeVars, cand, tmp, faults>>

CommitUnlink(p) ==
    /\ pc[p] = "unlinked"
    /\ blobState' = [blobState EXCEPT ![want[p]] = "none"]
    /\ refCount' = [refCount EXCEPT ![want[p]] = 0]
    /\ older' = Without(want[p])
    /\ want' = [want EXCEPT ![p] = NoContent]
    /\ Goto(p, "deleting")
    /\ UNCHANGED <<object, rowVars, target, purgeVars, cand, tmp, faults>>

FinishDeletes(p) ==
    /\ pc[p] = "deleting"
    /\ cand[p] = {}
    /\ Return(p)
    /\ UNCHANGED <<object, db, faults>>

(* The store or the commit refuses: the row stays in state deleting, and    *)
(* the loop goes on with the next candidate.                                *)
UnlinkFails(p) ==
    /\ pc[p] \in {"unlinking", "unlinked"}
    /\ faults < MaxFaults
    /\ faults' = faults + 1
    /\ want' = [want EXCEPT ![p] = NoContent]
    /\ Goto(p, "deleting")
    /\ UNCHANGED <<object, db, target, purgeVars, cand, tmp>>

(* The server dies, or the request is cancelled, between two steps: open    *)
(* transactions roll back, what the file store did stays.                   *)
Crash(p) ==
    /\ pc[p] # "idle"
    /\ faults < MaxFaults
    /\ faults' = faults + 1
    /\ Return(p)
    /\ UNCHANGED <<object, db>>

-----------------------------------------------------------------------------
Start(p) ==
    \/ \E h \in Content, n \in Node \cup {NoNode} : Stage(p, h, n)
    \/ \E h \in Content, n \in Node \cup {NoNode} : StageReusingCAS(p, h, n)
    \/ \E n \in Node : ReadCopySource(p, n)
    \/ \E n \in Node : ReadReuseSource(p, n)
    \/ \E r \in TrashRoot : PurgeReadVersions(p, r) \/ BeginRestore(p, r)

(* A request that has started runs to its end.                              *)
Continue(p) ==
    \/ Prepare(p) \/ PrepareFails(p)
    \/ BeginRetain(p) \/ CommitRetain(p) \/ RollbackRetain(p) \/ CreateBlobFails(p)
    \/ BeginCleanup(p) \/ FinishCleanup(p)
    \/ CommitCopy(p) \/ CopyFails(p)
    \/ CommitReuse(p)
    \/ CommitRestore(p) \/ RestoreFails(p)
    \/ PurgeReadFiles(p) \/ CommitPurge(p) \/ PurgeFails(p)
    \/ \E h \in Content : BeginUnlink(p, h)
    \/ Unlink(p) \/ CommitUnlink(p) \/ FinishDeletes(p)

(* Requests that are one transaction under locks.                           *)
AtOnce ==
    \/ \E h \in Content, n \in Node \cup {NoNode} : InstantUpload(h, n)
    \/ \E n \in Node, v \in Version : RestoreVersion(n, v)
    \/ \E s \in Session : EndSession(s)
    \/ \E r \in TrashRoot : MoveToTrash(r)

Fault == \E p \in Proc : CommitUnacknowledged(p) \/ UnlinkFails(p) \/ Crash(p)

Next ==
    \/ \E p \in Handler : Start(p)
    \/ \E p \in Proc : Continue(p)
    \/ Reap
    \/ AtOnce
    \/ Fault

Spec == Init /\ [][Next]_vars
-----------------------------------------------------------------------------
(* Properties.                                                              *)

(* No File and no FileVersion row names content whose canonical object is   *)
(* gone: whatever uploads, copies, purges, the janitor and crashes do, and  *)
(* even when ref_count has drifted, stored content stays readable.          *)
NoDanglingReference ==
    \A x \in Row : key[x] # NoContent => key[x] \in object

(* A resumable upload can read the bytes its committed reused parts point   *)
(* at until the session ends, although the file they came from may be gone. *)
ReusedPartsReadable ==
    \A s \in Session : part[s] # NoContent => part[s] \in object

(* Why the two properties above hold: the strengthening that every step     *)
(* preserves.  Needed(h): unlinking h now would lose bytes.                 *)
Needed(h) == Referenced(h) \/ PartReused(h)

(* A handler past its first step works on a digest.                         *)
WantKnown ==
    \A p \in Proc : want[p] = NoContent =>
        pc[p] \in {"idle", "restoring", "versionsRead", "filesRead", "deleting"}

(* The advisory lock serializes retain, cleanup and unlink of one digest.   *)
HashExclusive ==
    \A h \in Content, p, q \in Proc : HoldsHash(p, h) /\ HoldsHash(q, h) => p = q

(* What the row says of the object between transactions.                    *)
RowInv ==
    \A h \in Content :
        /\ blobState[h] = "ready" => h \in object
        /\ blobState[h] = "deleting" => refCount[h] = 0
        /\ Needed(h) => blobState[h] # "none" /\ h \in object

(* What a process relies on while it holds the lock of its digest.          *)
LockInv ==
    \A p \in Proc, h \in Content : want[p] = h =>
        /\ pc[p] = "retained" => h \in object
        /\ pc[p] = "cleaning" => blobState[h] = "none"
        /\ pc[p] \in {"unlinking", "unlinked"} => blobState[h] = "deleting" /\ ~Needed(h)

SafeInv == HashExclusive /\ RowInv /\ LockInv

(* The inductive invariant: bytes are safe because rows and objects are only *)
(* separated under the lock of the digest, whatever ref_count says.         *)
IInv == TypeOK /\ WantKnown /\ SafeInv

(* CASHealthReport.OK of internal/maintenance: ref_count is the number of   *)
(* File and FileVersion rows, every referenced key has a row, and a row is  *)
(* ready exactly when it is referenced.                                     *)
CASHealthOK ==
    \A h \in Content :
        /\ blobState[h] = "none" => ~Referenced(h)
        /\ blobState[h] # "none" =>
              /\ refCount[h] = Cardinality(Refs(h))
              /\ blobState[h] = "ready" <=> Referenced(h)

(* Failed uploads clean up after themselves: without crashes, when no       *)
(* request is running, every object in the store belongs to a blob row, so  *)
(* the janitor can find it.                                                 *)
NoOrphanObject ==
    faults = 0 /\ (\A p \in Proc : pc[p] = "idle") =>
        \A h \in object : blobState[h] # "none"

(* Why: an object without a row, or whose row is about to go, has a request *)
(* that will make the row or remove the object.                             *)
Detached(h) ==
    \/ blobState[h] = "none"
    \/ \E p \in Proc : want[p] = h /\ pc[p] = "unlinked"

CleanupOwed(h) ==
    \E p \in Proc : want[p] = h /\ pc[p] \in {"prepared", "retained", "failed", "cleaning"}

CleanupDue == faults = 0 => \A h \in object : Detached(h) => CleanupOwed(h)

(* What makes ref_count exact: nothing below a folder in the trash is live, *)
(* and permanent deletes that run together cover different nodes.           *)
NothingLiveInTrash == \A r \in inTrash : \A n \in Subtree[r] : ~Live(n)

Purging(p) == pc[p] \in {"versionsRead", "filesRead"}

PurgesSeparate ==
    \A p, q \in Proc : p # q /\ Purging(p) /\ Purging(q) =>
        Subtree[root[p]] \cap Subtree[root[q]] = {}

(* A deleted node belongs to the innermost trashed folder above it.         *)
TrashInv ==
    \A n \in Node : trashedBy[n] # NoRoot =>
        /\ Exists(n)
        /\ trashedBy[n] \in inTrash
        /\ n \in Subtree[trashedBy[n]]
        /\ \A r \in inTrash : n \in Subtree[r] => Within(trashedBy[n], r)

(* A permanent delete or a restore holds its trash root, alone, from its    *)
(* reads to COMMIT or rollback; the delete ...                              *)
RootInv ==
    \A p \in Proc :
        /\ Purging(p) \/ pc[p] = "restoring" <=> root[p] # NoRoot
        /\ root[p] # NoRoot =>
              /\ root[p] \in inTrash
              /\ \A q \in Proc : root[q] = root[p] => q = p
        /\ Purging(p) => ids[p] \subseteq Subtree[root[p]]

(* ... misses no node below it, ...                                         *)
IdsInv ==
    \A p \in Proc : Purging(p) =>
        {n \in Subtree[root[p]] : Exists(n)} \subseteq ids[p]

(* ... and the rows it has read are still as it read them.                  *)
ReadInv ==
    \A p \in Proc :
        /\ pc[p] = "versionsRead" => seen[p] = RowsRead(ids[p], Version)
        /\ pc[p] = "filesRead" => seen[p] = RowsRead(ids[p], Slot)

(* The trash is closed only as long as no folder above a restored one goes  *)
(* to the trash between the two steps of trashRestore.                      *)
RestoreInTime == \A p \in Proc : CommitRestore(p) => ParentLive(root[p])

(* The inductive invariant of the bookkeeping.                              *)
ExactInv ==
    CleanupDue /\ NothingLiveInTrash /\ TrashInv /\ RootInv /\ IdsInv /\ ReadInv

(* Lock waits are served in order and a request that has started goes on;   *)
(* the janitor runs periodically, and expiry ends every upload session.     *)
Fairness ==
    /\ \A p \in Proc : SF_vars(Continue(p))
    /\ SF_vars(Reap)
    /\ \A s \in Session : WF_vars(EndSession(s))

FairSpec == Spec /\ Fairness

(* Unreferenced content is reclaimed: a blob in state deleting is finally   *)
(* removed or revived by a new reference.                                   *)
DeletingBlobsReclaimed ==
    \A h \in Content : blobState[h] = "deleting" ~> blobState[h] # "deleting"
=============================================================================
