------------------------- MODULE ContentBlobsProofs -------------------------
(* Proofs about ContentBlobs, for every value of its constants.             *)
EXTENDS ContentBlobs, TLAPS, FiniteSetTheorems

(* What a purge counts for one digest is a number: only finitely many rows  *)
(* can be read.                                                             *)
LEMMA ReleaseCountType ==
    ASSUME TypeOK, NEW p \in Proc, NEW h \in Content
    PROVE  ReleaseCount(p, h) \in Nat
<1> DEFINE S == {e \in seen[p] : e[2] = h}
<1>1. IsFiniteSet({"file"})
  BY FS_Singleton
<1>2. IsFiniteSet(Slot)
  BY <1>1, FS_Union, FinitenessAssumption DEF Slot
<1>3. IsFiniteSet(Row \X Content)
  BY <1>2, FS_Product, FinitenessAssumption DEF Row
<1>4. S \in SUBSET (Row \X Content)
  BY DEF TypeOK
<1>5. IsFiniteSet(S)
  BY <1>3, <1>4, FS_Subset
<1> QED
  BY <1>5, FS_CardinalityType DEF ReleaseCount

(* The kinds of step, one per action.                                       *)
LEMMA StepCases ==
    ASSUME [Next]_vars
    PROVE  \/ \E p \in Proc, h \in Content, n \in Node \cup {NoNode} :
                  Stage(p, h, n) \/ StageReusingCAS(p, h, n)
           \/ \E p \in Proc, n \in Node : ReadCopySource(p, n) \/ ReadReuseSource(p, n)
           \/ \E p \in Proc, r \in TrashRoot : PurgeReadVersions(p, r)
           \/ \E p \in Proc, r \in TrashRoot : BeginRestore(p, r)
           \/ \E p \in Proc : CommitRestore(p) \/ RestoreFails(p)
           \/ \E p \in Proc : Prepare(p) \/ PrepareFails(p)
           \/ \E p \in Proc : BeginRetain(p) \/ CommitRetain(p) \/ RollbackRetain(p) \/ CreateBlobFails(p)
           \/ \E p \in Proc : BeginCleanup(p) \/ FinishCleanup(p)
           \/ \E p \in Proc : CommitCopy(p) \/ CopyFails(p) \/ CommitReuse(p)
           \/ \E p \in Proc : PurgeReadFiles(p) \/ CommitPurge(p) \/ PurgeFails(p)
           \/ \E p \in Proc, h \in Content : BeginUnlink(p, h)
           \/ \E p \in Proc : Unlink(p) \/ CommitUnlink(p) \/ FinishDeletes(p)
           \/ Reap
           \/ \E h \in Content, n \in Node \cup {NoNode} : InstantUpload(h, n)
           \/ \E n \in Node, v \in Version : RestoreVersion(n, v)
           \/ \E s \in Session : EndSession(s)
           \/ \E r \in TrashRoot : MoveToTrash(r)
           \/ \E p \in Proc : CommitUnacknowledged(p) \/ UnlinkFails(p) \/ Crash(p)
           \/ UNCHANGED vars
<1>1. Handler \subseteq Proc
  BY DEF Proc
<1>2. CASE \E p \in Handler : Start(p)
  BY <1>1, <1>2 DEF Start
<1>3. CASE \E p \in Proc : Continue(p)
  BY <1>3 DEF Continue
<1>4. CASE AtOnce
  BY <1>4 DEF AtOnce
<1>5. CASE Fault
  BY <1>5 DEF Fault
<1> QED
  BY <1>2, <1>3, <1>4, <1>5 DEF Next

LEMMA FileRowType == \A n \in Node : FileRow(n) \in Row
BY DEF FileRow, Row, Slot

(* A create or an overwrite writes one digest into one or two rows.         *)
LEMMA AddRowType ==
    ASSUME TypeOK, NEW h \in Content, NEW n \in Node \cup {NoNode}, AddRow(n, h)
    PROVE  key' \in [Row -> Content \cup {NoContent}]
<1>1. ASSUME NEW m \in Node, CreateRow(m, h)
      PROVE  key' \in [Row -> Content \cup {NoContent}]
  BY <1>1 DEF CreateRow, TypeOK
<1>2. ASSUME n # NoNode, OverwriteRow(n, h)
      PROVE  key' \in [Row -> Content \cup {NoContent}]
  <2>1. PICK v \in Version :
            key' = [key EXCEPT ![<<n, v>>] = key[FileRow(n)], ![FileRow(n)] = h]
    BY <1>2 DEF OverwriteRow
  <2> QED
    BY <2>1, <1>2, FileRowType DEF TypeOK
<1> QED
  BY <1>1, <1>2 DEF AddRow

(* The order of updated_at stays an order of digests.                       *)
LEMMA TouchedType ==
    ASSUME TypeOK, NEW h \in Content
    PROVE  Touched(h) \subseteq Content \X Content
BY DEF Touched, Without, TypeOK

(* Taking a reference keeps the blob row typed.                             *)
LEMMA RetainedType ==
    ASSUME TypeOK, NEW h \in Content, Retained(h)
    PROVE  /\ blobState' \in [Content -> {"none", "ready", "deleting"}]
           /\ refCount' \in [Content -> Nat]
           /\ older' \subseteq Content \X Content
BY TouchedType DEF TypeOK, Retained

(* A purge reads rows that exist.                                           *)
LEMMA RowsReadType ==
    ASSUME TypeOK, NEW nodes \in SUBSET Node, NEW slots \in SUBSET Slot
    PROVE  RowsRead(nodes, slots) \in SUBSET (Row \X Content)
<1>1. ASSUME NEW x \in nodes \X slots, key[x] # NoContent
      PROVE  <<x, key[x]>> \in Row \X Content
  BY <1>1 DEF TypeOK, Row
<1> QED
  BY <1>1 DEF RowsRead

(* Which digest a handler works on.                                         *)
LEMMA WantContent ==
    ASSUME TypeOK, WantKnown, NEW p \in Proc,
           pc[p] \notin {"idle", "restoring", "versionsRead", "filesRead", "deleting"}
    PROVE  want[p] \in Content
BY DEF TypeOK, WantKnown

(* Every step keeps the types of the variables.                             *)
LEMMA TypeStep == TypeOK /\ WantKnown /\ [Next]_vars => TypeOK'
<1> SUFFICES ASSUME TypeOK, WantKnown, [Next]_vars PROVE TypeOK'
  OBVIOUS
<1> USE DEF TypeOK, PC, Goto, Return, db, rowVars, purgeVars, Without
<1>1. ASSUME NEW p \in Proc, NEW h \in Content, NEW n \in Node \cup {NoNode},
             Stage(p, h, n) \/ StageReusingCAS(p, h, n)
      PROVE  TypeOK'
  BY <1>1 DEF Stage, StageReusingCAS
<1>2. ASSUME NEW p \in Proc, NEW n \in Node, ReadCopySource(p, n) \/ ReadReuseSource(p, n)
      PROVE  TypeOK'
  BY <1>2, FileRowType DEF ReadCopySource, ReadReuseSource
<1>3. ASSUME NEW p \in Proc, NEW r \in TrashRoot, PurgeReadVersions(p, r)
      PROVE  TypeOK'
  <2> DEFINE nodes == {n \in Subtree[r] : Exists(n)}
  <2>1. nodes \in SUBSET Node /\ Version \in SUBSET Slot
    BY ConstantsAssumption DEF Slot
  <2>2. RowsRead(nodes, Version) \in SUBSET (Row \X Content)
    BY <2>1, RowsReadType
  <2> QED
    BY <1>3, <2>1, <2>2 DEF PurgeReadVersions
<1>4. ASSUME NEW p \in Proc, Prepare(p) \/ PrepareFails(p)
      PROVE  TypeOK'
  BY <1>4, WantContent DEF Prepare, PrepareFails, EnsureObject, CanEnsure
<1>5. ASSUME NEW p \in Proc, BeginRetain(p)
      PROVE  TypeOK'
  BY <1>5, WantContent DEF BeginRetain, EnsureObject
<1>6. ASSUME NEW p \in Proc, CommitRetain(p) \/ CommitUnacknowledged(p)
      PROVE  TypeOK'
  <2>1. Publish(p) /\ want[p] \in Content
    BY <1>6, WantContent DEF CommitRetain, CommitUnacknowledged, Publish
  <2>2. target[p] \in Node \cup {NoNode}
    OBVIOUS
  <2>3. /\ blobState' \in [Content -> {"none", "ready", "deleting"}]
        /\ refCount' \in [Content -> Nat]
        /\ older' \subseteq Content \X Content
    BY <2>1, RetainedType DEF Publish
  <2>4. key' \in [Row -> Content \cup {NoContent}]
    BY <2>1, <2>2, AddRowType DEF Publish
  <2>5. UNCHANGED <<object, part, trashedBy, inTrash>>
    BY <2>1 DEF Publish
  <2>6. CASE CommitRetain(p)
    BY <2>3, <2>4, <2>5, <2>6 DEF CommitRetain
  <2>7. CASE CommitUnacknowledged(p)
    <3>1. faults' \in 0..MaxFaults
      BY <2>7, ConstantsAssumption DEF CommitUnacknowledged
    <3> QED
      BY <2>3, <2>4, <2>5, <2>7, <3>1 DEF CommitUnacknowledged
  <2> QED
    BY <1>6, <2>6, <2>7
<1>7. ASSUME NEW p \in Proc, RollbackRetain(p) \/ CreateBlobFails(p)
      PROVE  TypeOK'
  BY <1>7 DEF RollbackRetain, CreateBlobFails
<1>8. ASSUME NEW p \in Proc, BeginCleanup(p) \/ FinishCleanup(p)
      PROVE  TypeOK'
  BY <1>8 DEF BeginCleanup, FinishCleanup
<1>9. ASSUME NEW p \in Proc, CommitCopy(p)
      PROVE  TypeOK'
  <2>1. PICK m \in Node : key' = [key EXCEPT ![FileRow(m)] = want[p]]
    BY <1>9 DEF CommitCopy, CreateRow
  <2>2. want[p] \in Content
    BY <1>9, WantContent DEF CommitCopy
  <2>3. refCount' = [refCount EXCEPT ![want[p]] = refCount[want[p]] + 1]
    BY <1>9 DEF CommitCopy
  <2>4. refCount' \in [Content -> Nat]
    BY <2>2, <2>3
  <2>5. key' \in [Row -> Content \cup {NoContent}]
    BY <2>1, <2>2
  <2>6. older' \subseteq Content \X Content
    BY <1>9, <2>2, TouchedType DEF CommitCopy
  <2> QED
    BY <1>9, <2>4, <2>5, <2>6 DEF CommitCopy
<1>10. ASSUME NEW p \in Proc, CopyFails(p) \/ CommitReuse(p)
      PROVE  TypeOK'
  <2>1. CASE CopyFails(p)
    BY <2>1 DEF CopyFails
  <2>2. CASE CommitReuse(p)
    <3>1. want[p] \in Content
      BY <2>2, WantContent DEF CommitReuse
    <3>2. part' \in [Session -> Content \cup {NoContent}]
      BY <2>2, <3>1 DEF CommitReuse
    <3> QED
      BY <2>2, <3>2 DEF CommitReuse
  <2> QED
    BY <1>10, <2>1, <2>2
<1>11. ASSUME NEW p \in Proc, PurgeReadFiles(p)
      PROVE  TypeOK'
  <2>1. ids[p] \in SUBSET Node /\ {"file"} \in SUBSET Slot
    BY DEF Slot
  <2>2. RowsRead(ids[p], {"file"}) \in SUBSET (Row \X Content)
    BY <2>1, RowsReadType
  <2> QED
    BY <1>11, <2>2 DEF PurgeReadFiles
<1>12. ASSUME NEW p \in Proc, CommitPurge(p)
      PROVE  TypeOK'
  BY <1>12, ReleaseCountType DEF CommitPurge, CanRelease, Released
<1>13. ASSUME NEW p \in Proc, PurgeFails(p)
      PROVE  TypeOK'
  BY <1>13 DEF PurgeFails
<1>14. ASSUME NEW p \in Proc, NEW h \in Content, BeginUnlink(p, h)
      PROVE  TypeOK'
  BY <1>14 DEF BeginUnlink
<1>15. ASSUME NEW p \in Proc, Unlink(p) \/ CommitUnlink(p) \/ FinishDeletes(p)
      PROVE  TypeOK'
  BY <1>15 DEF Unlink, CommitUnlink, FinishDeletes
<1>16. ASSUME Reap
      PROVE  TypeOK'
  <2>1. Reaped \subseteq Content /\ Janitor \in Proc
    BY DEF Reaped, Proc
  <2> QED
    BY <1>16, <2>1 DEF Reap
<1>17. ASSUME NEW h \in Content, NEW n \in Node \cup {NoNode}, InstantUpload(h, n)
      PROVE  TypeOK'
  BY <1>17, AddRowType, RetainedType DEF InstantUpload
<1>18. ASSUME NEW n \in Node, NEW v \in Version, RestoreVersion(n, v)
      PROVE  TypeOK'
  BY <1>18 DEF RestoreVersion, FileRow, Row, Slot
<1>19. ASSUME NEW s \in Session, EndSession(s)
      PROVE  TypeOK'
  BY <1>19 DEF EndSession
<1>20. ASSUME NEW r \in TrashRoot, MoveToTrash(r)
      PROVE  TypeOK'
  BY <1>20 DEF MoveToTrash
<1>23. ASSUME NEW p \in Proc, NEW r \in TrashRoot, BeginRestore(p, r)
      PROVE  TypeOK'
  BY <1>23 DEF BeginRestore
<1>24. ASSUME NEW p \in Proc, CommitRestore(p) \/ RestoreFails(p)
      PROVE  TypeOK'
  <2>1. CASE CommitRestore(p)
    BY <2>1 DEF CommitRestore
  <2>2. CASE RestoreFails(p)
    BY <2>2 DEF RestoreFails
  <2> QED
    BY <1>24, <2>1, <2>2
<1>21. ASSUME NEW p \in Proc, UnlinkFails(p) \/ Crash(p)
      PROVE  TypeOK'
  <2>1. faults' \in 0..MaxFaults
    BY <1>21, ConstantsAssumption DEF UnlinkFails, Crash
  <2>2. CASE UnlinkFails(p)
    BY <2>1, <2>2 DEF UnlinkFails
  <2>3. CASE Crash(p)
    BY <2>1, <2>3 DEF Crash
  <2> QED
    BY <1>21, <2>2, <2>3
<1>22. CASE UNCHANGED vars
  BY <1>22 DEF vars
<1> HIDE DEF TypeOK, PC, Goto, Return, db, rowVars, purgeVars, Without
<1> QED
  BY <1>1, <1>2, <1>3, <1>4, <1>5, <1>6, <1>7, <1>8, <1>9, <1>10, <1>11, <1>12, <1>13, <1>14, <1>15, <1>16, <1>17, <1>18, <1>19, <1>20, <1>21, <1>22, <1>23, <1>24, StepCases

(* Every step keeps handlers past their first step on a known digest.       *)
LEMMA WantStep == TypeOK /\ WantKnown /\ [Next]_vars => WantKnown'
<1> SUFFICES ASSUME TypeOK, WantKnown, [Next]_vars PROVE WantKnown'
  OBVIOUS
<1> USE ConstantsAssumption DEF TypeOK, WantKnown, Goto, Return, purgeVars
<1>1. ASSUME NEW p \in Proc, NEW h \in Content, NEW n \in Node \cup {NoNode},
             Stage(p, h, n) \/ StageReusingCAS(p, h, n)
      PROVE  WantKnown'
  BY <1>1 DEF Stage, StageReusingCAS
<1>2. ASSUME NEW p \in Proc, NEW n \in Node, ReadCopySource(p, n) \/ ReadReuseSource(p, n)
      PROVE  WantKnown'
  BY <1>2 DEF ReadCopySource, ReadReuseSource, Live, Exists
<1>3. ASSUME NEW p \in Proc, NEW r \in TrashRoot, PurgeReadVersions(p, r)
      PROVE  WantKnown'
  BY <1>3 DEF PurgeReadVersions
<1>4. ASSUME NEW p \in Proc,
             \/ Prepare(p) \/ PrepareFails(p)
             \/ BeginRetain(p) \/ CommitRetain(p) \/ CommitUnacknowledged(p)
             \/ RollbackRetain(p) \/ CreateBlobFails(p)
             \/ BeginCleanup(p) \/ FinishCleanup(p)
      PROVE  WantKnown'
  BY <1>4 DEF Prepare, PrepareFails, BeginRetain, Publish, CommitRetain,
              CommitUnacknowledged, RollbackRetain,
              CreateBlobFails, BeginCleanup, FinishCleanup
<1>5. ASSUME NEW p \in Proc,
             \/ CommitCopy(p) \/ CopyFails(p) \/ CommitReuse(p)
             \/ PurgeReadFiles(p) \/ CommitPurge(p) \/ PurgeFails(p)
      PROVE  WantKnown'
  BY <1>5 DEF CommitCopy, CopyFails, CommitReuse, PurgeReadFiles, CommitPurge, PurgeFails
<1>6. ASSUME NEW p \in Proc, NEW h \in Content, BeginUnlink(p, h)
      PROVE  WantKnown'
  BY <1>6 DEF BeginUnlink
<1>7. ASSUME NEW p \in Proc,
             \/ Unlink(p) \/ CommitUnlink(p) \/ FinishDeletes(p)
             \/ UnlinkFails(p) \/ Crash(p)
      PROVE  WantKnown'
  BY <1>7 DEF Unlink, CommitUnlink, FinishDeletes, UnlinkFails, Crash
<1>8. CASE Reap
  BY <1>8 DEF Reap
<1>9. CASE UNCHANGED <<pc, want>>
  BY <1>9
<1>10. ASSUME NEW p \in Proc,
              (\E r \in TrashRoot : BeginRestore(p, r)) \/ CommitRestore(p) \/ RestoreFails(p)
       PROVE  WantKnown'
  BY <1>10 DEF BeginRestore, CommitRestore, RestoreFails
<1> QED
  BY <1>1, <1>2, <1>3, <1>4, <1>5, <1>6, <1>7, <1>8, <1>9, <1>10, StepCases
     DEF vars, InstantUpload, RestoreVersion, EndSession, MoveToTrash

(* Every variable keeps its type: in particular no release makes a          *)
(* ref_count negative, although purges count rows they did not lock.        *)
THEOREM TypeCorrect == Spec => []TypeOK
<1>1. Init => TypeOK /\ WantKnown
  BY ConstantsAssumption DEF Init, TypeOK, WantKnown, PC
<1>2. TypeOK /\ WantKnown /\ [Next]_vars => (TypeOK /\ WantKnown)'
  BY TypeStep, WantStep
<1> QED
  BY <1>1, <1>2, PTL DEF Spec

-----------------------------------------------------------------------------
(* Which digests a step can make needed.                                    *)
LEMMA NeededUnchanged ==
    ASSUME UNCHANGED <<key, part>>, NEW g \in Content
    PROVE  Needed(g)' <=> Needed(g)
BY DEF Needed, Referenced, PartReused

LEMMA NeededAfterAdd ==
    ASSUME TypeOK, NEW h \in Content, NEW n \in Node \cup {NoNode},
           AddRow(n, h), UNCHANGED part, NEW g \in Content, Needed(g)'
    PROVE  Needed(g) \/ g = h
<1>1. CASE PartReused(g)'
  BY <1>1 DEF Needed, PartReused
<1>2. CASE Referenced(g)'
  <2>1. PICK x \in Row : key'[x] = g
    BY <1>2 DEF Referenced
  <2>2. ASSUME NEW m \in Node, CreateRow(m, h)
        PROVE  key[x] = g \/ g = h
    BY <2>1, <2>2 DEF CreateRow, TypeOK
  <2>3. ASSUME n # NoNode, OverwriteRow(n, h)
        PROVE  key[x] = g \/ key[FileRow(n)] = g \/ g = h
    BY <2>1, <2>3 DEF OverwriteRow, TypeOK
  <2> QED
    BY <2>2, <2>3, FileRowType DEF AddRow, Needed, Referenced
<1> QED
  BY <1>1, <1>2 DEF Needed

LEMMA NeededAfterRestore ==
    ASSUME TypeOK, NEW n \in Node, NEW v \in Version, RestoreVersion(n, v),
           NEW g \in Content, Needed(g)'
    PROVE  Needed(g)
<1>1. CASE PartReused(g)'
  BY <1>1 DEF Needed, PartReused, RestoreVersion
<1>2. CASE Referenced(g)'
  <2>1. PICK x \in Row : key'[x] = g
    BY <1>2 DEF Referenced
  <2>2. <<n, v>> \in Row
    BY DEF Row, Slot
  <2>3. key[x] = g \/ key[FileRow(n)] = g \/ key[<<n, v>>] = g
    BY <2>1 DEF RestoreVersion, TypeOK
  <2> QED
    BY <2>2, <2>3, FileRowType DEF Needed, Referenced
<1> QED
  BY <1>1, <1>2 DEF Needed

LEMMA NeededAfterPurge ==
    ASSUME TypeOK, NEW p \in Proc, CommitPurge(p), NEW g \in Content, Needed(g)'
    PROVE  Needed(g)
<1>1. CASE PartReused(g)'
  BY <1>1 DEF Needed, PartReused, CommitPurge
<1>2. CASE Referenced(g)'
  <2>1. PICK x \in Row : key'[x] = g
    BY <1>2 DEF Referenced
  <2>2. key[x] = g
    BY <2>1, ConstantsAssumption DEF CommitPurge
  <2> QED
    BY <2>2 DEF Needed, Referenced
<1> QED
  BY <1>1, <1>2 DEF Needed

LEMMA NeededAfterReuse ==
    ASSUME TypeOK, NEW p \in Proc, CommitReuse(p), NEW g \in Content, Needed(g)'
    PROVE  Needed(g) \/ (g = want[p] /\ blobState[g] = "ready")
<1>1. CASE Referenced(g)'
  BY <1>1 DEF Needed, Referenced, CommitReuse
<1>2. CASE PartReused(g)'
  BY <1>2 DEF Needed, PartReused, CommitReuse, MayReuse, TypeOK
<1> QED
  BY <1>1, <1>2 DEF Needed

LEMMA NeededAfterEnd ==
    ASSUME TypeOK, NEW s \in Session, EndSession(s), NEW g \in Content, Needed(g)'
    PROVE  Needed(g)
BY ConstantsAssumption DEF TypeOK, EndSession, Needed, Referenced, PartReused

-----------------------------------------------------------------------------
(* Steps that touch neither the object nor the row, make nothing needed and *)
(* enter no locked section.                                                 *)
LEMMA QuietStep ==
    ASSUME TypeOK, SafeInv, UNCHANGED <<object, blobState, refCount>>,
           \A g \in Content : Needed(g)' => Needed(g),
           \A q \in Proc : \/ pc'[q] = pc[q] /\ want'[q] = want[q]
                           \/ pc'[q] \notin {"retained", "cleaning", "unlinking", "unlinked"}
    PROVE  SafeInv'
BY DEF SafeInv, HashExclusive, RowInv, LockInv, HoldsHash

(* Every step keeps it.                                                     *)
LEMMA SafeStep == TypeOK /\ WantKnown /\ SafeInv /\ [Next]_vars => SafeInv'
<1> SUFFICES ASSUME TypeOK, WantKnown, SafeInv, [Next]_vars PROVE SafeInv'
  OBVIOUS
<1> USE DEF Goto, Return, db, rowVars, purgeVars
<1>1. ASSUME NEW p \in Proc, NEW h \in Content, NEW n \in Node \cup {NoNode},
             Stage(p, h, n) \/ StageReusingCAS(p, h, n)
      PROVE  SafeInv'
  BY <1>1, QuietStep, NeededUnchanged DEF Stage, StageReusingCAS, TypeOK
<1>2. ASSUME NEW p \in Proc, NEW n \in Node, ReadCopySource(p, n) \/ ReadReuseSource(p, n)
      PROVE  SafeInv'
  BY <1>2, QuietStep, NeededUnchanged DEF ReadCopySource, ReadReuseSource, TypeOK
<1>3. ASSUME NEW p \in Proc, NEW r \in TrashRoot, PurgeReadVersions(p, r)
      PROVE  SafeInv'
  BY <1>3, QuietStep, NeededUnchanged DEF PurgeReadVersions, TypeOK
<1>4. ASSUME NEW p \in Proc,
             PrepareFails(p) \/ RollbackRetain(p) \/ CopyFails(p) \/ PurgeReadFiles(p)
             \/ PurgeFails(p) \/ FinishDeletes(p) \/ UnlinkFails(p) \/ Crash(p)
      PROVE  SafeInv'
  BY <1>4, QuietStep, NeededUnchanged
     DEF PrepareFails, RollbackRetain, CopyFails, PurgeReadFiles, PurgeFails,
         FinishDeletes, UnlinkFails, Crash, TypeOK
<1>5. CASE Reap
  BY <1>5, QuietStep, NeededUnchanged DEF Reap, TypeOK
<1>6. ASSUME NEW r \in TrashRoot, MoveToTrash(r)
      PROVE  SafeInv'
  BY <1>6, QuietStep, NeededUnchanged DEF MoveToTrash
<1>23. ASSUME NEW p \in Proc,
              (\E r \in TrashRoot : BeginRestore(p, r)) \/ CommitRestore(p) \/ RestoreFails(p)
       PROVE  SafeInv'
  BY <1>23, QuietStep, NeededUnchanged
     DEF BeginRestore, CommitRestore, RestoreFails, TypeOK
<1>7. ASSUME NEW s \in Session, EndSession(s)
      PROVE  SafeInv'
  BY <1>7, QuietStep, NeededAfterEnd DEF EndSession
<1>8. ASSUME NEW n \in Node, NEW v \in Version, RestoreVersion(n, v)
      PROVE  SafeInv'
  BY <1>8, QuietStep, NeededAfterRestore DEF RestoreVersion
<1>9. CASE UNCHANGED vars
  BY <1>9, QuietStep, NeededUnchanged DEF vars
<1> USE DEF SafeInv, HashExclusive, RowInv, LockInv, HoldsHash, TypeOK
<1>10. ASSUME NEW p \in Proc, Prepare(p)
       PROVE  SafeInv'
  BY <1>10, NeededUnchanged, WantContent DEF Prepare, EnsureObject
<1>11. ASSUME NEW p \in Proc, BeginRetain(p)
       PROVE  SafeInv'
  BY <1>11, NeededUnchanged, WantContent, SMTT(60) DEF BeginRetain, EnsureObject, CanEnsure, HashFree
<1>12. ASSUME NEW p \in Proc, CommitRetain(p) \/ CommitUnacknowledged(p)
       PROVE  SafeInv'
  <2> DEFINE h == want[p]
  <2>1. h \in Content /\ target[p] \in Node \cup {NoNode} /\ pc[p] = "retained"
    BY <1>12, WantContent DEF CommitRetain, CommitUnacknowledged, Publish
  <2>2. \A g \in Content : Needed(g)' => Needed(g) \/ g = h
    BY <1>12, <2>1, NeededAfterAdd DEF CommitRetain, CommitUnacknowledged, Publish
  <2>3. HashExclusive'
    BY <1>12 DEF CommitRetain, CommitUnacknowledged, Publish
  <2>4. RowInv'
    BY <1>12, <2>1, <2>2 DEF CommitRetain, CommitUnacknowledged, Publish, Retained
  <2>5. LockInv'
    BY <1>12, <2>1, <2>2 DEF CommitRetain, CommitUnacknowledged, Publish, Retained
  <2> QED
    BY <2>3, <2>4, <2>5
<1>13. ASSUME NEW p \in Proc, BeginCleanup(p)
       PROVE  SafeInv'
  <2>1. CASE MayCleanup(want[p])
    <3>1. UNCHANGED <<object, blobState, refCount, want>>
          /\ pc' = [pc EXCEPT ![p] = "cleaning"]
      BY <1>13, <2>1 DEF BeginCleanup
    <3>2. \A g \in Content : Needed(g)' <=> Needed(g)
      BY <1>13, NeededUnchanged DEF BeginCleanup
    <3>3. want[p] \in Content /\ HashFree(want[p]) /\ blobState[want[p]] = "none"
      BY <1>13, <2>1, WantContent DEF BeginCleanup, MayCleanup
    <3> QED
      BY <3>1, <3>2, <3>3 DEF HashFree
  <2>2. CASE ~MayCleanup(want[p])
    BY <1>13, <2>2, QuietStep, NeededUnchanged DEF BeginCleanup
  <2> QED
    BY <2>1, <2>2
<1>14. ASSUME NEW p \in Proc, FinishCleanup(p)
       PROVE  SafeInv'
  BY <1>14, NeededUnchanged, WantContent DEF FinishCleanup
<1>15. ASSUME NEW p \in Proc, CommitCopy(p)
       PROVE  SafeInv'
  <2>1. \A g \in Content : Needed(g)' => Needed(g) \/ g = want[p]
    BY <1>15, NeededAfterAdd, WantContent, ConstantsAssumption DEF CommitCopy, AddRow
  <2> QED
    BY <1>15, <2>1, WantContent DEF CommitCopy, MayCopy
<1>16. ASSUME NEW p \in Proc, CommitReuse(p)
       PROVE  SafeInv'
  <2> DEFINE h == want[p]
  <2>1. h \in Content /\ HashFree(h) /\ UNCHANGED <<object, blobState, refCount>>
    BY <1>16, WantContent DEF CommitReuse
  <2>2. \A g \in Content : Needed(g)' => Needed(g) \/ (g = h /\ blobState[h] = "ready")
    BY <1>16, NeededAfterReuse
  <2>3. \A q \in Proc : pc'[q] = "idle" \/ (pc'[q] = pc[q] /\ want'[q] = want[q])
    BY <1>16 DEF CommitReuse
  <2> HIDE DEF h
  <2>4. HashExclusive'
    BY <2>3 DEF HashFree
  <2>5. RowInv'
    BY <2>1, <2>2
  <2>6. LockInv'
    <3> SUFFICES ASSUME NEW q \in Proc, NEW g \in Content, want'[q] = g, pc'[q] # "idle"
                 PROVE  /\ pc'[q] = "retained" => g \in object'
                        /\ pc'[q] = "cleaning" => blobState'[g] = "none"
                        /\ pc'[q] \in {"unlinking", "unlinked"} =>
                              blobState'[g] = "deleting" /\ ~Needed(g)'
      OBVIOUS
    <3>1. pc'[q] = pc[q] /\ want[q] = g
      BY <2>3
    <3> QED
      BY <2>1, <2>2, <3>1
  <2> QED
    BY <2>4, <2>5, <2>6
<1>17. ASSUME NEW p \in Proc, CommitPurge(p)
       PROVE  SafeInv'
  <2>1. \A g \in Content : Needed(g)' => Needed(g)
    BY <1>17, NeededAfterPurge
  <2>2. UNCHANGED <<object, want>> /\ pc' = [pc EXCEPT ![p] = "deleting"]
    BY <1>17 DEF CommitPurge
  <2>3. ASSUME NEW g \in Content
        PROVE  \/ /\ blobState'[g] = blobState[g]
                  /\ refCount'[g] = refCount[g]
               \/ /\ RowFree(g)
                  /\ blobState[g] = "ready"
                  /\ blobState'[g] = "ready" \/ (blobState'[g] = "deleting" /\ refCount'[g] = 0)
    <3>1. ReleaseCount(p, g) \in Nat
      BY ReleaseCountType
    <3>2. CASE ReleaseCount(p, g) = 0
      BY <1>17, <3>2 DEF CommitPurge, Released
    <3>3. CASE ReleaseCount(p, g) > 0
      <4>1. RowFree(g) /\ blobState[g] # "none" /\ refCount[g] >= ReleaseCount(p, g)
        BY <1>17, <3>3 DEF CommitPurge, CanRelease
      <4>2. blobState[g] = "ready"
        BY <3>1, <3>3, <4>1
      <4> QED
        BY <1>17, <3>1, <3>3, <4>1, <4>2 DEF CommitPurge, Released
    <3> QED
      BY <3>1, <3>2, <3>3
  <2>4. HashExclusive'
    BY <2>2
  <2>5. RowInv'
    BY <2>1, <2>2, <2>3
  <2>6. LockInv'
    BY <2>1, <2>2, <2>3 DEF RowFree, HoldsRow
  <2> QED
    BY <2>4, <2>5, <2>6
<1>18. ASSUME NEW p \in Proc, NEW h \in Content, BeginUnlink(p, h)
       PROVE  SafeInv'
  <2>1. CASE MayUnlink(h)
    <3>1. UNCHANGED <<object, blobState, refCount>>
          /\ pc' = [pc EXCEPT ![p] = "unlinking"] /\ want' = [want EXCEPT ![p] = h]
      BY <1>18, <2>1 DEF BeginUnlink
    <3>2. \A g \in Content : Needed(g)' <=> Needed(g)
      BY <1>18, NeededUnchanged DEF BeginUnlink
    <3>3. HashFree(h) /\ blobState[h] = "deleting" /\ ~Needed(h)
      BY <1>18, <2>1 DEF BeginUnlink, MayUnlink, Needed
    <3> QED
      BY <3>1, <3>2, <3>3 DEF HashFree
  <2>2. CASE ~MayUnlink(h)
    BY <1>18, <2>2, QuietStep, NeededUnchanged DEF BeginUnlink
  <2> QED
    BY <2>1, <2>2
<1>19. ASSUME NEW p \in Proc, Unlink(p)
       PROVE  SafeInv'
  BY <1>19, NeededUnchanged, WantContent DEF Unlink
<1>20. ASSUME NEW p \in Proc, CommitUnlink(p)
       PROVE  SafeInv'
  BY <1>20, NeededUnchanged, WantContent DEF CommitUnlink
<1>21. ASSUME NEW h \in Content, NEW n \in Node \cup {NoNode}, InstantUpload(h, n)
       PROVE  SafeInv'
  BY <1>21, NeededAfterAdd DEF InstantUpload, Retained, HashFree
<1>22. ASSUME NEW p \in Proc, CreateBlobFails(p)
       PROVE  SafeInv'
  BY <1>22, NeededUnchanged, WantContent DEF CreateBlobFails
<1> QED
  BY <1>1, <1>2, <1>3, <1>4, <1>5, <1>6, <1>7, <1>8, <1>9, <1>10, <1>11, <1>12,
     <1>13, <1>14, <1>15, <1>16, <1>17, <1>18, <1>19, <1>20, <1>21, <1>22, <1>23, StepCases

-----------------------------------------------------------------------------
(* The inductive invariant holds whatever the folders, handlers, sessions,  *)
(* faults and contents: nothing is assumed about overlapping purges.        *)
THEOREM InductiveInvariant == Spec => []IInv
<1>1. Init => IInv
  <2> SUFFICES ASSUME Init PROVE IInv
    OBVIOUS
  <2>1. TypeOK /\ WantKnown
    BY ConstantsAssumption DEF Init, TypeOK, WantKnown, PC
  <2>2. \A h \in Content : ~Needed(h)
    BY ConstantsAssumption DEF Init, Needed, Referenced, PartReused
  <2>3. SafeInv
    BY <2>2 DEF Init, SafeInv, HashExclusive, HoldsHash, RowInv, LockInv
  <2> QED
    BY <2>1, <2>3 DEF IInv
<1>2. IInv /\ [Next]_vars => IInv'
  BY TypeStep, WantStep, SafeStep DEF IInv
<1> QED
  BY <1>1, <1>2, PTL DEF Spec

(* Stored content is never lost: no File and no FileVersion row names an    *)
(* object that releases, the janitor or an upload's cleanup has unlinked.   *)
THEOREM BytesSafe == Spec => []NoDanglingReference
<1>1. IInv => NoDanglingReference
  BY DEF IInv, SafeInv, RowInv, Needed, Referenced, NoDanglingReference, TypeOK
<1> QED
  BY <1>1, InductiveInvariant, PTL

(* A resumable upload keeps the bytes of the parts it reuses.               *)
THEOREM ReusedPartsSafe == Spec => []ReusedPartsReadable
<1>1. IInv => ReusedPartsReadable
  BY DEF IInv, SafeInv, RowInv, Needed, PartReused, ReusedPartsReadable, TypeOK
<1> QED
  BY <1>1, InductiveInvariant, PTL

-----------------------------------------------------------------------------
(* Uploads leave nothing behind.                                            *)

(* The store gains an object only together with a request that owes it a    *)
(* row or a removal.                                                        *)
LEMMA DueStep == IInv /\ CleanupDue /\ [Next]_vars => CleanupDue'
<1> SUFFICES ASSUME IInv, CleanupDue, [Next]_vars PROVE CleanupDue'
  OBVIOUS
<1> USE DEF CleanupDue, Detached, CleanupOwed, Goto, Return, db, rowVars, purgeVars
<1>0. TypeOK /\ WantKnown /\ HashExclusive /\ RowInv /\ LockInv /\ faults \in Nat
  BY DEF IInv, SafeInv, TypeOK
<1>1. ASSUME NEW p \in Proc, NEW h \in Content, NEW n \in Node \cup {NoNode},
             Stage(p, h, n) \/ StageReusingCAS(p, h, n)
      PROVE  CleanupDue'
  BY <1>0, <1>1 DEF TypeOK, Stage, StageReusingCAS
<1>2. ASSUME NEW p \in Proc, NEW n \in Node, ReadCopySource(p, n) \/ ReadReuseSource(p, n)
      PROVE  CleanupDue'
  BY <1>0, <1>2 DEF TypeOK, ReadCopySource, ReadReuseSource
<1>3. ASSUME NEW p \in Proc, NEW r \in TrashRoot, PurgeReadVersions(p, r)
      PROVE  CleanupDue'
  BY <1>0, <1>3 DEF TypeOK, PurgeReadVersions
<1>4. ASSUME NEW p \in Proc, Prepare(p) \/ PrepareFails(p)
      PROVE  CleanupDue'
  BY <1>0, <1>4 DEF TypeOK, Prepare, PrepareFails, EnsureObject
<1>5. ASSUME NEW p \in Proc, BeginRetain(p)
      PROVE  CleanupDue'
  BY <1>0, <1>5 DEF TypeOK, BeginRetain, EnsureObject
<1>6. ASSUME NEW p \in Proc, CommitRetain(p)
      PROVE  CleanupDue'
  <2>1. want[p] \in Content /\ pc[p] = "retained"
    BY <1>0, <1>6, WantContent DEF CommitRetain, Publish
  <2>2. \A q \in Proc : want[q] = want[p] => pc[q] # "unlinked"
    BY <1>0, <2>1 DEF HashExclusive, HoldsHash
  <2>3. /\ object' = object /\ faults' = faults
        /\ blobState' = [blobState EXCEPT ![want[p]] = "ready"]
        /\ pc' = [pc EXCEPT ![p] = "idle"] /\ want' = [want EXCEPT ![p] = NoContent]
    BY <1>6 DEF CommitRetain, Publish, Retained
  <2> QED
    BY <1>0, <2>1, <2>2, <2>3, ConstantsAssumption DEF TypeOK
<1>7. ASSUME NEW p \in Proc, CommitUnacknowledged(p) \/ UnlinkFails(p) \/ Crash(p)
      PROVE  CleanupDue'
  BY <1>0, <1>7 DEF CommitUnacknowledged, UnlinkFails, Crash
<1>8. ASSUME NEW p \in Proc, RollbackRetain(p)
      PROVE  CleanupDue'
  BY <1>0, <1>8 DEF TypeOK, RollbackRetain
<1>9. ASSUME NEW p \in Proc, CreateBlobFails(p)
      PROVE  CleanupDue'
  BY <1>0, <1>9 DEF TypeOK, CreateBlobFails
<1>10. ASSUME NEW p \in Proc, BeginCleanup(p)
       PROVE  CleanupDue'
  <2>1. want[p] \in Content /\ pc[p] = "failed" /\ HashFree(want[p])
    BY <1>0, <1>10, WantContent DEF BeginCleanup
  <2>2. \A q \in Proc : want[q] = want[p] => pc[q] # "unlinked"
    BY <2>1 DEF HashFree, HoldsHash
  <2>3. UNCHANGED <<object, blobState, faults>>
    BY <1>10 DEF BeginCleanup
  <2>4. CASE MayCleanup(want[p])
    BY <1>0, <1>10, <2>3, <2>4 DEF BeginCleanup, TypeOK
  <2>5. CASE ~MayCleanup(want[p])
    <3>1. ~Detached(want[p])
      BY <1>0, <2>1, <2>2, <2>5 DEF MayCleanup, RowInv, Needed
    <3>2. pc' = [pc EXCEPT ![p] = "idle"] /\ want' = [want EXCEPT ![p] = NoContent]
      BY <1>10, <2>5 DEF BeginCleanup
    <3> QED
      BY <1>0, <2>1, <2>3, <3>1, <3>2 DEF TypeOK
  <2> QED
    BY <2>4, <2>5
<1>11. ASSUME NEW p \in Proc, FinishCleanup(p)
       PROVE  CleanupDue'
  BY <1>0, <1>11 DEF TypeOK, FinishCleanup
<1>12. ASSUME NEW p \in Proc, CommitCopy(p) \/ CopyFails(p) \/ CommitReuse(p)
       PROVE  CleanupDue'
  <2>1. /\ UNCHANGED <<object, blobState, faults>> /\ pc[p] \in {"copying", "reusing"}
        /\ pc' = [pc EXCEPT ![p] = "idle"] /\ want' = [want EXCEPT ![p] = NoContent]
    BY <1>12 DEF CommitCopy, CopyFails, CommitReuse
  <2> QED
    BY <1>0, <2>1 DEF TypeOK
<1>13. ASSUME NEW p \in Proc, PurgeReadFiles(p) \/ PurgeFails(p)
       PROVE  CleanupDue'
  BY <1>0, <1>13 DEF TypeOK, PurgeReadFiles, PurgeFails
<1>14. ASSUME NEW p \in Proc, CommitPurge(p)
       PROVE  CleanupDue'
  <2>1. \A h \in Content : blobState'[h] = "none" => blobState[h] = "none"
    BY <1>0, <1>14 DEF CommitPurge, Released
  <2>2. UNCHANGED <<object, want, faults>> /\ pc' = [pc EXCEPT ![p] = "deleting"]
        /\ pc[p] = "filesRead"
    BY <1>14 DEF CommitPurge
  <2> QED
    BY <1>0, <2>1, <2>2 DEF TypeOK
<1>15. ASSUME NEW p \in Proc, NEW h \in Content, BeginUnlink(p, h)
       PROVE  CleanupDue'
  BY <1>0, <1>15 DEF TypeOK, BeginUnlink
<1>16. ASSUME NEW p \in Proc, Unlink(p) \/ CommitUnlink(p) \/ FinishDeletes(p)
       PROVE  CleanupDue'
  BY <1>0, <1>16 DEF TypeOK, Unlink, CommitUnlink, FinishDeletes
<1>17. CASE Reap
  BY <1>0, <1>17 DEF TypeOK, Reap, Proc
<1>18. ASSUME NEW h \in Content, NEW n \in Node \cup {NoNode}, InstantUpload(h, n)
       PROVE  CleanupDue'
  BY <1>0, <1>18 DEF TypeOK, InstantUpload, Retained
<1>19. CASE UNCHANGED <<object, blobState, want, pc, faults>>
  BY <1>19
<1>20. ASSUME NEW p \in Proc,
              (\E r \in TrashRoot : BeginRestore(p, r)) \/ CommitRestore(p) \/ RestoreFails(p)
       PROVE  CleanupDue'
  <2>1. /\ UNCHANGED <<object, blobState, faults>> /\ pc[p] \in {"idle", "restoring"}
        /\ \A q \in Proc : q # p => pc'[q] = pc[q] /\ want'[q] = want[q]
    <3>1. ASSUME NEW r \in TrashRoot, BeginRestore(p, r)
          PROVE  /\ UNCHANGED <<object, blobState, faults>> /\ pc[p] \in {"idle", "restoring"}
                 /\ \A q \in Proc : q # p => pc'[q] = pc[q] /\ want'[q] = want[q]
      BY <1>0, <3>1 DEF BeginRestore, TypeOK
    <3>2. CASE CommitRestore(p)
      BY <1>0, <3>2 DEF CommitRestore, TypeOK
    <3>3. CASE RestoreFails(p)
      BY <1>0, <3>3 DEF RestoreFails, TypeOK
    <3> QED
      BY <1>20, <3>1, <3>2, <3>3
  <2>2. ASSUME NEW h \in Content, Detached(h)', CleanupOwed(h)
        PROVE  CleanupOwed(h)'
    <3>1. PICK q \in Proc : want[q] = h /\ pc[q] \in {"prepared", "retained", "failed", "cleaning"}
      BY <2>2
    <3> QED
      BY <2>1, <3>1
  <2>3. ASSUME NEW h \in Content, Detached(h)'
        PROVE  Detached(h)
    BY <1>0, <1>20, <2>1, <2>3 DEF BeginRestore, CommitRestore, RestoreFails, TypeOK
  <2>4. object \subseteq Content
    BY <1>0 DEF TypeOK
  <2> QED
    BY <2>1, <2>2, <2>3, <2>4
<1> QED
  BY <1>1, <1>2, <1>3, <1>4, <1>5, <1>6, <1>7, <1>8, <1>9, <1>10, <1>11, <1>12, <1>13,
     <1>14, <1>15, <1>16, <1>17, <1>18, <1>19, <1>20, StepCases
     DEF vars, RestoreVersion, EndSession, MoveToTrash

(* An object without a row always has a request that will deal with it.     *)
THEOREM CleanupIsDue == Spec => []CleanupDue
<1>1. Init => CleanupDue
  BY DEF Init, CleanupDue
<1>2. IInv /\ CleanupDue /\ [Next]_vars => CleanupDue'
  BY DueStep
<1> QED
  BY <1>1, <1>2, InductiveInvariant, PTL DEF Spec

(* Without crashes, no object is left that no blob row names once every     *)
(* request has ended: the janitor, which works from rows, can find them all. *)
THEOREM NothingOrphaned == Spec => []NoOrphanObject
<1>1. CleanupDue => NoOrphanObject
  BY DEF CleanupDue, Detached, CleanupOwed, NoOrphanObject
<1> QED
  BY <1>1, CleanupIsDue, PTL

-----------------------------------------------------------------------------
(* Trash and permanent delete.                                              *)

(* What a step may do to the rows of nodes.                                 *)
LEMMA RowCases ==
    ASSUME TypeOK, WantKnown, [Next]_vars
    PROVE  \/ \E p \in Proc : CommitPurge(p)
           \/ \E r \in TrashRoot : MoveToTrash(r)
           \/ \E p \in Proc : CommitRestore(p)
           \/ /\ UNCHANGED <<trashedBy, inTrash>>
              /\ \/ UNCHANGED key
                 \/ \E m \in Node, h \in Content : CreateRow(m, h)
                 \/ \E n \in Node, h \in Content : OverwriteRow(n, h)
                 \/ \E n \in Node, v \in Version : RestoreVersion(n, v)
<1> DEFINE Changed == \/ \E m \in Node, h \in Content : CreateRow(m, h)
                      \/ \E n \in Node, h \in Content : OverwriteRow(n, h)
<1>1. ASSUME NEW n \in Node \cup {NoNode}, NEW h \in Content, AddRow(n, h)
      PROVE  Changed
  BY <1>1 DEF AddRow
<1>2. ASSUME NEW p \in Proc, CommitRetain(p) \/ CommitUnacknowledged(p)
      PROVE  Changed /\ UNCHANGED <<trashedBy, inTrash>>
  <2>1. Publish(p) /\ want[p] \in Content /\ target[p] \in Node \cup {NoNode}
    BY <1>2, WantContent DEF CommitRetain, CommitUnacknowledged, Publish, TypeOK
  <2> QED
    BY <1>1, <2>1 DEF Publish
<1>3. ASSUME NEW p \in Proc, CommitCopy(p)
      PROVE  Changed /\ UNCHANGED <<trashedBy, inTrash>>
  BY <1>3, WantContent DEF CommitCopy
<1>4. ASSUME NEW h \in Content, NEW n \in Node \cup {NoNode}, InstantUpload(h, n)
      PROVE  Changed /\ UNCHANGED <<trashedBy, inTrash>>
  BY <1>1, <1>4 DEF InstantUpload
<1>5. ASSUME NEW n \in Node, NEW v \in Version, RestoreVersion(n, v)
      PROVE  UNCHANGED <<trashedBy, inTrash>>
  BY <1>5 DEF RestoreVersion
<1>6. ASSUME NEW p \in Proc,
             \/ Prepare(p) \/ PrepareFails(p) \/ BeginRetain(p)
             \/ RollbackRetain(p) \/ CreateBlobFails(p)
             \/ BeginCleanup(p) \/ FinishCleanup(p)
             \/ CopyFails(p) \/ CommitReuse(p)
             \/ PurgeReadFiles(p) \/ PurgeFails(p)
             \/ Unlink(p) \/ CommitUnlink(p) \/ FinishDeletes(p)
             \/ UnlinkFails(p) \/ Crash(p)
             \/ \E h \in Content : BeginUnlink(p, h)
             \/ \E n \in Node : ReadCopySource(p, n) \/ ReadReuseSource(p, n)
             \/ \E r \in TrashRoot : PurgeReadVersions(p, r) \/ BeginRestore(p, r)
             \/ RestoreFails(p)
             \/ \E h \in Content, n \in Node \cup {NoNode} :
                    Stage(p, h, n) \/ StageReusingCAS(p, h, n)
      PROVE  UNCHANGED <<key, trashedBy, inTrash>>
  BY <1>6 DEF Prepare, PrepareFails, BeginRetain, RollbackRetain, CreateBlobFails,
              BeginCleanup, FinishCleanup, CopyFails, CommitReuse, PurgeReadFiles,
              PurgeFails, Unlink, CommitUnlink, FinishDeletes, UnlinkFails, Crash,
              BeginUnlink, ReadCopySource, ReadReuseSource, PurgeReadVersions, Stage,
              StageReusingCAS, BeginRestore, RestoreFails, db, rowVars
<1>7. ASSUME NEW s \in Session, EndSession(s)
      PROVE  UNCHANGED <<key, trashedBy, inTrash>>
  BY <1>7 DEF EndSession
<1>8. CASE Reap
  BY <1>8 DEF Reap, db
<1>9. CASE UNCHANGED vars
  BY <1>9 DEF vars
<1> QED
  BY <1>2, <1>3, <1>4, <1>5, <1>6, <1>7, <1>8, <1>9, StepCases

(* What a step may do to the permanent deletes that are under way.          *)
LEMMA PurgeCases ==
    ASSUME TypeOK, RootInv, [Next]_vars
    PROVE  \/ \E p \in Proc : CommitPurge(p)
           \/ \E p \in Proc, r \in TrashRoot : PurgeReadVersions(p, r)
           \/ \E p \in Proc : PurgeReadFiles(p)
           \/ \E p \in Proc, r \in TrashRoot : BeginRestore(p, r)
           \/ \A q \in Proc :
                 \/ /\ root'[q] = NoRoot
                    /\ pc'[q] \notin {"restoring", "versionsRead", "filesRead"}
                 \/ /\ root'[q] = root[q]
                    /\ ids'[q] = ids[q]
                    /\ seen'[q] = seen[q]
                    /\ pc'[q] = pc[q]
<1> DEFINE Kept(q) == /\ root'[q] = root[q]
                      /\ ids'[q] = ids[q]
                      /\ seen'[q] = seen[q]
                      /\ pc'[q] = pc[q]
           Over(q) == root'[q] = NoRoot /\ pc'[q] \notin {"restoring", "versionsRead", "filesRead"}
<1>1. ASSUME NEW p \in Proc, Return(p)
      PROVE  \A q \in Proc : Over(q) \/ Kept(q)
  BY <1>1 DEF Return, TypeOK
<1>2. ASSUME NEW p \in Proc, UNCHANGED purgeVars,
             pc[p] \notin {"restoring", "versionsRead", "filesRead"},
             \E l \in PC \ {"restoring", "versionsRead", "filesRead"} : Goto(p, l)
      PROVE  \A q \in Proc : Over(q) \/ Kept(q)
  BY <1>2 DEF Goto, TypeOK, RootInv, Purging, purgeVars
<1>3. ASSUME UNCHANGED <<pc, purgeVars>>
      PROVE  \A q \in Proc : Over(q) \/ Kept(q)
  BY <1>3 DEF purgeVars
<1>4. ASSUME NEW p \in Proc,
             \/ PrepareFails(p) \/ CommitRetain(p) \/ FinishCleanup(p)
             \/ CommitCopy(p) \/ CopyFails(p) \/ CommitReuse(p)
             \/ PurgeFails(p) \/ FinishDeletes(p) \/ Crash(p)
             \/ CommitRestore(p) \/ RestoreFails(p)
      PROVE  Return(p)
  BY <1>4 DEF PrepareFails, CommitRetain, FinishCleanup, CommitCopy, CopyFails,
              CommitReuse, PurgeFails, FinishDeletes, Crash, CommitRestore, RestoreFails
<1>5. ASSUME NEW p \in Proc,
             \/ Prepare(p) \/ BeginRetain(p) \/ RollbackRetain(p) \/ CreateBlobFails(p)
             \/ Unlink(p) \/ CommitUnlink(p) \/ UnlinkFails(p)
             \/ CommitUnacknowledged(p)
             \/ \E n \in Node : ReadCopySource(p, n) \/ ReadReuseSource(p, n)
             \/ \E h \in Content, n \in Node \cup {NoNode} :
                    Stage(p, h, n) \/ StageReusingCAS(p, h, n)
      PROVE  \A q \in Proc : Over(q) \/ Kept(q)
  <2>1. /\ UNCHANGED purgeVars
        /\ pc[p] \notin {"restoring", "versionsRead", "filesRead"}
    BY <1>5 DEF Prepare, BeginRetain, RollbackRetain, CreateBlobFails, Unlink,
                CommitUnlink, UnlinkFails, CommitUnacknowledged, Publish,
                ReadCopySource, ReadReuseSource, Stage, StageReusingCAS
  <2>2. \/ Goto(p, "prepared") \/ Goto(p, "retained") \/ Goto(p, "failed")
        \/ Goto(p, "unlinked") \/ Goto(p, "deleting") \/ Goto(p, "copying")
        \/ Goto(p, "reusing") \/ Goto(p, "staged")
    BY <1>5 DEF Prepare, BeginRetain, RollbackRetain, CreateBlobFails, Unlink,
                CommitUnlink, UnlinkFails, CommitUnacknowledged,
                ReadCopySource, ReadReuseSource, Stage, StageReusingCAS
  <2>3. \E l \in PC \ {"restoring", "versionsRead", "filesRead"} : Goto(p, l)
    BY <2>2 DEF PC
  <2> QED
    BY <1>2, <2>1, <2>3
<1>6. ASSUME NEW p \in Proc, BeginCleanup(p)
      PROVE  \A q \in Proc : Over(q) \/ Kept(q)
  BY <1>1, <1>2, <1>6 DEF BeginCleanup, PC
<1>7. ASSUME NEW p \in Proc, NEW h \in Content, BeginUnlink(p, h)
      PROVE  \A q \in Proc : Over(q) \/ Kept(q)
  BY <1>2, <1>3, <1>7 DEF BeginUnlink, PC
<1>8. CASE Reap
  BY <1>2, <1>8 DEF Reap, PC, Proc
<1>9. ASSUME \/ \E h \in Content, n \in Node \cup {NoNode} : InstantUpload(h, n)
             \/ \E n \in Node, v \in Version : RestoreVersion(n, v)
             \/ \E s \in Session : EndSession(s)
             \/ \E r \in TrashRoot : MoveToTrash(r)
             \/ UNCHANGED vars
      PROVE  UNCHANGED <<pc, purgeVars>>
  BY <1>9 DEF InstantUpload, RestoreVersion, EndSession, MoveToTrash, vars, purgeVars
<1> QED
  BY <1>1, <1>3, <1>4, <1>5, <1>6, <1>7, <1>8, <1>9, StepCases

(* A trash root cannot leave the trash under a permanent delete of it: a    *)
(* restore, and the delete of a folder above, wait for its row.             *)
LEMMA RootKept ==
    ASSUME TypeOK, WantKnown, RootInv, [Next]_vars, NEW q \in Proc,
           root[q] # NoRoot, ~CommitPurge(q), ~CommitRestore(q)
    PROVE  root[q] \in inTrash'
<1>1. root[q] \in inTrash
  BY DEF RootInv
<1>2. ASSUME NEW p \in Proc, CommitPurge(p)
      PROVE  root[q] \in inTrash'
  BY <1>1, <1>2 DEF CommitPurge
<1>3. ASSUME NEW r \in TrashRoot, MoveToTrash(r)
      PROVE  root[q] \in inTrash'
  BY <1>1, <1>3 DEF MoveToTrash
<1>4. ASSUME NEW p \in Proc, CommitRestore(p)
      PROVE  root[q] \in inTrash'
  <2>1. root[p] # root[q]
    BY <1>4 DEF CommitRestore, RootInv
  <2> QED
    BY <1>1, <1>4, <2>1 DEF CommitRestore
<1> QED
  BY <1>1, <1>2, <1>3, <1>4, RowCases

(* A permanent delete holds its trash root alone, whatever folders overlap. *)
LEMMA RootStep == TypeOK /\ WantKnown /\ RootInv /\ [Next]_vars => RootInv'
<1> SUFFICES ASSUME TypeOK, WantKnown, RootInv, [Next]_vars PROVE RootInv'
  OBVIOUS
<1>1. ASSUME NEW p \in Proc, CommitPurge(p)
      PROVE  RootInv'
  <2>1. /\ pc' = [pc EXCEPT ![p] = "deleting"]
        /\ root' = [root EXCEPT ![p] = NoRoot]
        /\ ids' = [ids EXCEPT ![p] = {}]
        /\ \A s \in TrashRoot, q \in Proc :
              Within(s, root[p]) /\ root[q] = s => q = p
        /\ inTrash' = inTrash \ {s \in TrashRoot : Within(s, root[p])}
    BY <1>1 DEF CommitPurge, Goto
  <2>2. \A q \in Proc : q # p /\ root[q] # NoRoot => root[q] \in inTrash'
    BY <2>1 DEF RootInv, TypeOK
  <2> SUFFICES ASSUME NEW q \in Proc
               PROVE  /\ Purging(q)' \/ pc'[q] = "restoring" <=> root'[q] # NoRoot
                      /\ root'[q] # NoRoot =>
                            /\ root'[q] \in inTrash'
                            /\ \A o \in Proc : root'[o] = root'[q] => o = q
                      /\ Purging(q)' => ids'[q] \subseteq Subtree[root'[q]]
    BY DEF RootInv
  <2>3. CASE q = p
    BY <2>1, <2>3 DEF TypeOK, Purging
  <2>4. CASE q # p
    <3>1. pc'[q] = pc[q] /\ root'[q] = root[q] /\ ids'[q] = ids[q]
      BY <2>1, <2>4 DEF TypeOK
    <3>2. \A o \in Proc : root'[o] = root'[q] /\ root'[q] # NoRoot => root[o] = root[q]
      BY <2>1, <3>1 DEF TypeOK
    <3> QED
      BY <2>2, <2>4, <3>1, <3>2 DEF RootInv, Purging
  <2> QED
    BY <2>3, <2>4
<1>2. ASSUME NEW p \in Proc, NEW r \in TrashRoot, PurgeReadVersions(p, r)
      PROVE  RootInv'
  <2>1. /\ pc' = [pc EXCEPT ![p] = "versionsRead"]
        /\ root' = [root EXCEPT ![p] = r]
        /\ ids' = [ids EXCEPT ![p] = {n \in Subtree[r] : Exists(n)}]
        /\ r \in inTrash /\ RootFree(r)
        /\ inTrash' = inTrash
    BY <1>2 DEF PurgeReadVersions, Goto, db
  <2>2. r # NoRoot
    BY ConstantsAssumption
  <2> QED
    BY <2>1, <2>2 DEF RootInv, RootFree, Purging, TypeOK
<1>3. ASSUME NEW p \in Proc, PurgeReadFiles(p)
      PROVE  RootInv'
  BY <1>3 DEF PurgeReadFiles, Goto, db, RootInv, Purging, TypeOK
<1>5. ASSUME NEW p \in Proc, NEW r \in TrashRoot, BeginRestore(p, r)
      PROVE  RootInv'
  <2>1. /\ pc[p] = "idle"
        /\ pc' = [pc EXCEPT ![p] = "restoring"]
        /\ root' = [root EXCEPT ![p] = r]
        /\ ids' = ids
        /\ r \in inTrash /\ RootFree(r)
        /\ inTrash' = inTrash
    BY <1>5 DEF BeginRestore, Goto, db
  <2>2. r # NoRoot
    BY ConstantsAssumption
  <2> QED
    BY <2>1, <2>2 DEF RootInv, RootFree, Purging, TypeOK
<1>6. ASSUME NEW p \in Proc, CommitRestore(p)
      PROVE  RootInv'
  <2>1. /\ pc' = [pc EXCEPT ![p] = "idle"]
        /\ root' = [root EXCEPT ![p] = NoRoot]
        /\ ids' = [ids EXCEPT ![p] = {}]
        /\ inTrash' = inTrash \ {root[p]}
        /\ root[p] # NoRoot
    BY <1>6 DEF CommitRestore, Return, RootInv
  <2> QED
    BY <2>1 DEF RootInv, Purging, TypeOK
<1>4. ASSUME \A q \in Proc :
                 \/ /\ root'[q] = NoRoot
                    /\ pc'[q] \notin {"restoring", "versionsRead", "filesRead"}
                 \/ /\ root'[q] = root[q]
                    /\ ids'[q] = ids[q]
                    /\ seen'[q] = seen[q]
                    /\ pc'[q] = pc[q]
      PROVE  RootInv'
  <2>1. CASE \E p \in Proc : CommitPurge(p) \/ CommitRestore(p)
    BY <1>1, <1>6, <2>1
  <2>2. CASE ~\E p \in Proc : CommitPurge(p) \/ CommitRestore(p)
    <3>1. \A q \in Proc : root[q] # NoRoot => root[q] \in inTrash'
      BY <2>2, RootKept
    <3> QED
      BY <1>4, <3>1 DEF RootInv, Purging
  <2> QED
    BY <2>1, <2>2
<1> QED
  BY <1>1, <1>2, <1>3, <1>4, <1>5, PurgeCases

(* From its first read to its COMMIT or rollback a permanent delete or a    *)
(* restore has its trash root to itself, and the root stays in the trash.   *)
THEOREM RootAlone == Spec => []RootInv
<1>1. Init => RootInv
  BY ConstantsAssumption DEF Init, RootInv, Purging
<1>2. IInv => TypeOK /\ WantKnown
  BY DEF IInv
<1> QED
  BY <1>1, <1>2, RootStep, InductiveInvariant, PTL DEF Spec

(* Which node starts or stops to exist.                                     *)
LEMMA ExistsAfterOverwrite ==
    ASSUME TypeOK, NEW n \in Node, NEW h \in Content, OverwriteRow(n, h), NEW m \in Node
    PROVE  Exists(m)' <=> Exists(m)
<1>1. PICK v \in Version :
          key' = [key EXCEPT ![<<n, v>>] = key[FileRow(n)], ![FileRow(n)] = h]
  BY DEF OverwriteRow
<1>2. Exists(n) /\ v # "file" /\ h # NoContent
  BY ConstantsAssumption DEF OverwriteRow, Live
<1> QED
  BY <1>1, <1>2, FileRowType DEF Exists, FileRow, TypeOK

LEMMA ExistsAfterRestore ==
    ASSUME TypeOK, NEW n \in Node, NEW v \in Version, RestoreVersion(n, v), NEW m \in Node
    PROVE  Exists(m)' <=> Exists(m)
<1>1. /\ key' = [key EXCEPT ![<<n, v>>] = key[FileRow(n)], ![FileRow(n)] = key[<<n, v>>]]
      /\ key[<<n, v>>] # NoContent
  BY DEF RestoreVersion
<1>2. Exists(n) /\ v # "file"
  BY ConstantsAssumption DEF RestoreVersion, Live
<1> QED
  BY <1>1, <1>2, FileRowType DEF Exists, FileRow, TypeOK

LEMMA ExistsAfterCreate ==
    ASSUME TypeOK, NEW n \in Node, NEW h \in Content, CreateRow(n, h), NEW m \in Node
    PROVE  Exists(m)' <=> Exists(m) \/ m = n
BY ConstantsAssumption, FileRowType DEF CreateRow, Exists, FileRow, TypeOK

LEMMA ExistsAfterPurge ==
    ASSUME TypeOK, NEW p \in Proc, CommitPurge(p), NEW m \in Node
    PROVE  Exists(m)' <=> Exists(m) /\ m \notin ids[p]
BY ConstantsAssumption, FileRowType DEF CommitPurge, Exists, FileRow, TypeOK

(* No node below a folder in the trash becomes live.                        *)
LEMMA NothingLiveStep ==
    ASSUME TypeOK, WantKnown, RootInv, TrashInv, NothingLiveInTrash, ~LateCreate,
           [Next]_vars, RestoreInTime
    PROVE  NothingLiveInTrash'
<1> SUFFICES ASSUME NEW r \in inTrash', NEW n \in Subtree[r], Live(n)' PROVE FALSE
  BY DEF NothingLiveInTrash
<1>1. Exists(n)' /\ trashedBy'[n] = NoRoot
  BY DEF Live
<1>2. ASSUME NEW p \in Proc, CommitPurge(p)
      PROVE  FALSE
  <2>1. inTrash \subseteq TrashRoot /\ r \in inTrash /\ n \in Node
    BY <1>2, ConstantsAssumption DEF CommitPurge, TypeOK
  <2>2. Exists(n) /\ n \notin ids[p]
    BY <1>1, <1>2, <2>1, ExistsAfterPurge
  <2>3. trashedBy[n] = NoRoot
    BY <1>1, <1>2, <2>1, <2>2 DEF CommitPurge
  <2> QED
    BY <2>1, <2>2, <2>3 DEF NothingLiveInTrash, Live
<1>3. ASSUME NEW s \in TrashRoot, MoveToTrash(s)
      PROVE  FALSE
  <2>1. /\ inTrash' = inTrash \cup {s} /\ key' = key
        /\ trashedBy' = [m \in Node |-> IF m \in Subtree[s] /\ Live(m) THEN s ELSE trashedBy[m]]
    BY <1>3 DEF MoveToTrash
  <2>2. n \in Node /\ s # NoRoot
    BY <2>1, ConstantsAssumption DEF TypeOK
  <2>3. Exists(n)
    BY <1>1, <2>1 DEF Exists
  <2>4. trashedBy[n] = NoRoot /\ n \notin Subtree[s]
    BY <1>1, <2>1, <2>2, <2>3 DEF Live
  <2> QED
    BY <2>1, <2>3, <2>4 DEF NothingLiveInTrash, Live
<1>4. ASSUME NEW p \in Proc, CommitRestore(p)
      PROVE  FALSE
  <2> DEFINE s == root[p]
  <2>1. /\ inTrash' = inTrash \ {s} /\ key' = key
        /\ trashedBy' = [m \in Node |-> IF trashedBy[m] = s THEN NoRoot ELSE trashedBy[m]]
        /\ \A t \in inTrash \ {s} : ~Within(s, t)
        /\ s # NoRoot
    BY <1>4 DEF CommitRestore, RestoreInTime, ParentLive, RootInv
  <2>2. n \in Node /\ s # NoRoot
    BY <2>1, ConstantsAssumption DEF TypeOK
  <2> HIDE DEF s
  <2>3. Exists(n) /\ (trashedBy[n] = NoRoot \/ trashedBy[n] = s)
    BY <1>1, <2>1, <2>2 DEF Exists
  <2>4. trashedBy[n] # NoRoot
    BY <2>1, <2>3 DEF NothingLiveInTrash, Live
  <2> QED
    BY <2>1, <2>2, <2>3, <2>4 DEF TrashInv
<1>5. ASSUME UNCHANGED <<trashedBy, inTrash>>,
             \/ UNCHANGED key
             \/ \E m \in Node, h \in Content : CreateRow(m, h)
             \/ \E m \in Node, h \in Content : OverwriteRow(m, h)
             \/ \E m \in Node, v \in Version : RestoreVersion(m, v)
      PROVE  FALSE
  <2>1. r \in inTrash /\ n \in Node
    BY <1>5, ConstantsAssumption DEF TypeOK
  <2>2. ~Exists(n)
    BY <1>1, <1>5, <2>1 DEF NothingLiveInTrash, Live
  <2>3. PICK m \in Node, h \in Content : CreateRow(m, h)
    BY <1>1, <1>5, <2>1, <2>2, ExistsAfterOverwrite, ExistsAfterRestore DEF Exists
  <2>4. m = n
    BY <1>1, <2>1, <2>2, <2>3, ExistsAfterCreate
  <2> QED
    BY <2>1, <2>3, <2>4 DEF CreateRow, MayCreate
<1> QED
  BY <1>2, <1>3, <1>4, <1>5, RowCases

(* A deleted node stays with the innermost trashed folder above it.         *)
LEMMA TrashStep ==
    ASSUME TypeOK, WantKnown, NothingLiveInTrash, TrashInv, RootInv, IdsInv, [Next]_vars
    PROVE  TrashInv'
<1> SUFFICES ASSUME NEW n \in Node, trashedBy'[n] # NoRoot
             PROVE  /\ Exists(n)'
                    /\ trashedBy'[n] \in inTrash'
                    /\ n \in Subtree[trashedBy'[n]]
                    /\ \A r \in inTrash' : n \in Subtree[r] => Within(trashedBy'[n], r)
  BY DEF TrashInv, Within
<1>1. ASSUME NEW p \in Proc, CommitPurge(p)
      PROVE  /\ Exists(n)'
             /\ trashedBy'[n] \in inTrash'
             /\ n \in Subtree[trashedBy'[n]]
             /\ \A r \in inTrash' : n \in Subtree[r] => Within(trashedBy'[n], r)
  <2>1. /\ trashedBy' = [m \in Node |-> IF m \in ids[p] THEN NoRoot ELSE trashedBy[m]]
        /\ inTrash' = inTrash \ {s \in TrashRoot : Within(s, root[p])}
        /\ pc[p] = "filesRead"
    BY <1>1 DEF CommitPurge
  <2>2. n \notin ids[p] /\ trashedBy'[n] = trashedBy[n] /\ trashedBy[n] # NoRoot
    BY <2>1
  <2>3. /\ Exists(n)
        /\ trashedBy[n] \in inTrash
        /\ n \in Subtree[trashedBy[n]]
        /\ \A r \in inTrash : n \in Subtree[r] => Within(trashedBy[n], r)
    BY <2>2 DEF TrashInv
  <2>5. ~Within(trashedBy[n], root[p])
    BY <2>1, <2>2, <2>3 DEF IdsInv, Purging, Within
  <2>6. Exists(n)'
    BY <1>1, <2>2, <2>3, ExistsAfterPurge
  <2> QED
    BY <2>1, <2>2, <2>3, <2>5, <2>6
<1>2. ASSUME NEW s \in TrashRoot, MoveToTrash(s)
      PROVE  /\ Exists(n)'
             /\ trashedBy'[n] \in inTrash'
             /\ n \in Subtree[trashedBy'[n]]
             /\ \A r \in inTrash' : n \in Subtree[r] => Within(trashedBy'[n], r)
  <2>1. /\ inTrash' = inTrash \cup {s} /\ key' = key /\ RootLive(s)
        /\ trashedBy' = [m \in Node |-> IF m \in Subtree[s] /\ Live(m) THEN s ELSE trashedBy[m]]
    BY <1>2 DEF MoveToTrash
  <2>2. Exists(n)' <=> Exists(n)
    BY <2>1 DEF Exists
  <2>3. CASE n \in Subtree[s] /\ Live(n)
    <3>1. trashedBy'[n] = s /\ Exists(n)'
      BY <2>1, <2>2, <2>3 DEF Live
    <3>2. \A r \in inTrash : n \notin Subtree[r]
      BY <2>3 DEF NothingLiveInTrash
    <3>3. Within(s, s)
      BY DEF Within
    <3> QED
      BY <2>1, <2>3, <3>1, <3>2, <3>3
  <2>4. CASE ~(n \in Subtree[s] /\ Live(n))
    <3>1. trashedBy'[n] = trashedBy[n] /\ trashedBy[n] # NoRoot
      BY <2>1, <2>4
    <3>2. /\ Exists(n)
          /\ trashedBy[n] \in inTrash
          /\ n \in Subtree[trashedBy[n]]
          /\ \A r \in inTrash : n \in Subtree[r] => Within(trashedBy[n], r)
      BY <3>1 DEF TrashInv
    <3>3. ASSUME n \in Subtree[s]
          PROVE  Within(trashedBy[n], s)
      <4>1. trashedBy[n] \in TrashRoot /\ ~Within(s, trashedBy[n])
        BY <2>1, <3>2 DEF RootLive, TypeOK
      <4>2. Subtree[s] \cap Subtree[trashedBy[n]] # {}
        BY <3>2, <3>3
      <4> QED
        BY <4>1, <4>2, TreeAssumption
    <3> QED
      BY <2>1, <2>2, <3>1, <3>2, <3>3
  <2> QED
    BY <2>3, <2>4
<1>3. ASSUME NEW p \in Proc, CommitRestore(p)
      PROVE  /\ Exists(n)'
             /\ trashedBy'[n] \in inTrash'
             /\ n \in Subtree[trashedBy'[n]]
             /\ \A r \in inTrash' : n \in Subtree[r] => Within(trashedBy'[n], r)
  <2> DEFINE s == root[p]
  <2>1. /\ inTrash' = inTrash \ {s} /\ key' = key
        /\ trashedBy' = [m \in Node |-> IF trashedBy[m] = s THEN NoRoot ELSE trashedBy[m]]
    BY <1>3 DEF CommitRestore
  <2>2. trashedBy'[n] = trashedBy[n] /\ trashedBy[n] # NoRoot /\ trashedBy[n] # s
    BY <2>1
  <2>3. Exists(n)' <=> Exists(n)
    BY <2>1 DEF Exists
  <2> QED
    BY <2>1, <2>2, <2>3 DEF TrashInv
<1>4. ASSUME UNCHANGED <<trashedBy, inTrash>>,
             \/ UNCHANGED key
             \/ \E m \in Node, h \in Content : CreateRow(m, h)
             \/ \E m \in Node, h \in Content : OverwriteRow(m, h)
             \/ \E m \in Node, v \in Version : RestoreVersion(m, v)
      PROVE  /\ Exists(n)'
             /\ trashedBy'[n] \in inTrash'
             /\ n \in Subtree[trashedBy'[n]]
             /\ \A r \in inTrash' : n \in Subtree[r] => Within(trashedBy'[n], r)
  <2>1. Exists(n)
    BY <1>4 DEF TrashInv
  <2>2. Exists(n)'
    <3>1. CASE UNCHANGED key
      BY <2>1, <3>1 DEF Exists
    <3> QED
      BY <1>4, <2>1, <3>1, ExistsAfterCreate, ExistsAfterOverwrite, ExistsAfterRestore
  <2> QED
    BY <1>4, <2>2 DEF TrashInv
<1> QED
  BY <1>1, <1>2, <1>3, <1>4, RowCases

(* A permanent delete misses no node: none can appear below its root.       *)
LEMMA IdsStep ==
    ASSUME TypeOK, WantKnown, NothingLiveInTrash', TrashInv, RootInv, IdsInv, [Next]_vars
    PROVE  IdsInv'
<1> SUFFICES ASSUME NEW q \in Proc, Purging(q)',
                    NEW n \in Subtree[root'[q]], Exists(n)'
             PROVE  n \in ids'[q]
  BY DEF IdsInv
<1>0. root'[q] \in TrashRoot /\ n \in Node
  BY TypeStep, RootStep, ConstantsAssumption DEF TypeOK, RootInv
<1>1. ASSUME NEW p \in Proc, CommitPurge(p)
      PROVE  n \in ids'[q]
  <2>1. q # p /\ root'[q] = root[q] /\ ids'[q] = ids[q] /\ Purging(q)
    BY <1>1 DEF CommitPurge, Goto, Purging, TypeOK
  <2>2. Exists(n)
    BY <1>0, <1>1, ExistsAfterPurge
  <2> QED
    BY <2>1, <2>2 DEF IdsInv
<1>2. ASSUME NEW p \in Proc, NEW r \in TrashRoot, PurgeReadVersions(p, r)
      PROVE  n \in ids'[q]
  <2>1. /\ root' = [root EXCEPT ![p] = r]
        /\ ids' = [ids EXCEPT ![p] = {m \in Subtree[r] : Exists(m)}]
        /\ q # p => Purging(q)
        /\ key' = key
    BY <1>2 DEF PurgeReadVersions, Goto, Purging, TypeOK, db
  <2>2. Exists(n)
    BY <2>1 DEF Exists
  <2> QED
    BY <2>1, <2>2 DEF IdsInv, TypeOK
<1>3. ASSUME root'[q] = root[q], ids'[q] = ids[q], Purging(q),
             ~\E p \in Proc : CommitPurge(p)
      PROVE  n \in ids'[q]
  <2>1. CASE Exists(n)
    BY <1>3, <2>1 DEF IdsInv
  <2>2. CASE ~Exists(n)
    <3>1. PICK m \in Node, h \in Content : CreateRow(m, h) /\ UNCHANGED <<trashedBy, inTrash>>
      <4>1. ~UNCHANGED key
        BY <2>2 DEF Exists
      <4>2. /\ ~\E r \in TrashRoot : MoveToTrash(r)
            /\ ~\E p \in Proc : CommitRestore(p)
        BY <4>1 DEF MoveToTrash, CommitRestore
      <4> QED
        BY <1>0, <1>3, <2>2, <4>1, <4>2, RowCases, ExistsAfterOverwrite, ExistsAfterRestore
    <3>2. trashedBy'[n] = NoRoot
      BY <1>0, <2>2, <3>1 DEF TrashInv
    <3>3. root[q] \in inTrash'
      BY <1>3, <3>1 DEF RootInv, Purging
    <3> QED
      BY <1>3, <3>2, <3>3 DEF NothingLiveInTrash, Live
  <2> QED
    BY <2>1, <2>2
<1>4. ASSUME NEW p \in Proc, PurgeReadFiles(p), ~\E o \in Proc : CommitPurge(o)
      PROVE  n \in ids'[q]
  <2>1. root'[q] = root[q] /\ ids'[q] = ids[q] /\ Purging(q)
    BY <1>4 DEF PurgeReadFiles, Goto, Purging, TypeOK
  <2> QED
    BY <1>3, <1>4, <2>1
<1>5. ASSUME NEW p \in Proc, NEW r \in TrashRoot, BeginRestore(p, r)
      PROVE  n \in ids'[q]
  <2>1. q # p /\ root'[q] = root[q] /\ ids' = ids /\ Purging(q) /\ key' = key
    BY <1>5 DEF BeginRestore, Goto, Purging, TypeOK, db
  <2> QED
    BY <2>1 DEF IdsInv, Exists
<1> QED
  BY <1>1, <1>2, <1>3, <1>4, <1>5, PurgeCases DEF Purging

(* As long as creates check their folder at COMMIT, and no folder above a   *)
(* restored one goes to the trash between the two steps of its restore,     *)
(* nothing below a folder in the trash is live, whatever trees are trashed, *)
(* restored and deleted at the same time.                                   *)
THEOREM TrashClosed ==
    ASSUME ~LateCreate
    PROVE  Spec /\ [][RestoreInTime]_vars => [](NothingLiveInTrash /\ TrashInv /\ IdsInv)
<1> DEFINE Inv == NothingLiveInTrash /\ TrashInv /\ IdsInv
<1>1. Init => Inv
  BY ConstantsAssumption DEF Init, NothingLiveInTrash, TrashInv, IdsInv, Purging
<1>2. IInv /\ RootInv /\ Inv /\ [Next]_vars /\ [RestoreInTime]_vars => Inv'
  <2> SUFFICES ASSUME IInv, RootInv, Inv, [Next]_vars, [RestoreInTime]_vars PROVE Inv'
    OBVIOUS
  <2>1. TypeOK /\ WantKnown
    BY DEF IInv
  <2>3. CASE UNCHANGED vars
    BY <2>3 DEF vars, NothingLiveInTrash, TrashInv, IdsInv, Live, Exists, Purging
  <2> SUFFICES ASSUME RestoreInTime PROVE Inv'
    BY <2>3
  <2>2. NothingLiveInTrash'
    BY <2>1, NothingLiveStep
  <2>4. TrashInv' /\ IdsInv'
    BY <2>1, <2>2, TrashStep, IdsStep
  <2> QED
    BY <2>2, <2>4
<1> QED
  BY <1>1, <1>2, RootAlone, InductiveInvariant, PTL DEF Spec

-----------------------------------------------------------------------------
(* Counting references.                                                     *)

LEMMA RowFinite == IsFiniteSet(Row) /\ IsFiniteSet(Slot)
<1>1. IsFiniteSet({"file"})
  BY FS_Singleton
<1>2. IsFiniteSet(Slot)
  BY <1>1, FS_Union, FinitenessAssumption DEF Slot
<1> QED
  BY <1>2, FS_Product, FinitenessAssumption DEF Row

LEMMA RefsFinite ==
    ASSUME NEW h
    PROVE  /\ IsFiniteSet(Refs(h))
           /\ Cardinality(Refs(h)) \in Nat
           /\ Referenced(h) <=> Cardinality(Refs(h)) # 0
<1>1. IsFiniteSet(Refs(h))
  BY RowFinite, FS_Subset DEF Refs
<1>2. Referenced(h) <=> Refs(h) # {}
  BY DEF Referenced, Refs
<1> QED
  BY <1>1, <1>2, FS_CardinalityType, FS_EmptySet

(* A set that trades one member for another keeps its size.                 *)
LEMMA TradeCard ==
    ASSUME NEW S, IsFiniteSet(S), NEW a \in S, NEW b, b \notin S
    PROVE  Cardinality((S \ {a}) \cup {b}) = Cardinality(S)
<1>1. /\ IsFiniteSet(S \ {a})
      /\ Cardinality(S \ {a}) = Cardinality(S) - 1
  BY FS_RemoveElement
<1>2. Cardinality((S \ {a}) \cup {b}) = Cardinality(S \ {a}) + 1
  BY <1>1, FS_AddElement
<1> QED
  BY <1>1, <1>2, FS_CardinalityType

(* A create, or an overwrite, adds one reference to the new content and     *)
(* takes none from any other: the old content moves to its FileVersion.     *)
LEMMA AddCard ==
    ASSUME TypeOK, NEW h \in Content, NEW n \in Node,
           CreateRow(n, h) \/ OverwriteRow(n, h), NEW g \in Content
    PROVE  Cardinality(Refs(g)') = Cardinality(Refs(g)) + (IF g = h THEN 1 ELSE 0)
<1> USE ConstantsAssumption
<1>0. IsFiniteSet(Refs(g)) /\ Cardinality(Refs(g)) \in Nat
  BY RefsFinite
<1>f. FileRow(n) \in Row /\ key \in [Row -> Content \cup {NoContent}]
  BY FileRowType DEF TypeOK
<1>1. ASSUME NEW x \in Row, key[x] # h, Refs(h)' = Refs(h) \cup {x},
             g # h => Refs(g)' = Refs(g)
      PROVE  Cardinality(Refs(g)') = Cardinality(Refs(g)) + (IF g = h THEN 1 ELSE 0)
  <2>1. x \notin Refs(h)
    BY <1>1 DEF Refs
  <2> QED
    BY <1>0, <1>1, <2>1, FS_AddElement
<1>2. CASE CreateRow(n, h)
  <2>1. key[FileRow(n)] = NoContent /\ key' = [key EXCEPT ![FileRow(n)] = h]
    BY <1>2 DEF CreateRow, MayCreate, Unused, Exists
  <2>2. Refs(h)' = Refs(h) \cup {FileRow(n)}
    BY <1>f, <2>1 DEF Refs
  <2>3. g # h => Refs(g)' = Refs(g)
    BY <1>f, <2>1 DEF Refs
  <2> QED
    BY <1>1, <1>f, <2>1, <2>2, <2>3
<1>3. CASE OverwriteRow(n, h)
  <2>1. PICK v \in Version :
            /\ key[<<n, v>>] = NoContent
            /\ key' = [key EXCEPT ![<<n, v>>] = key[FileRow(n)], ![FileRow(n)] = h]
    BY <1>3 DEF OverwriteRow
  <2> DEFINE w == <<n, v>>
             f == FileRow(n)
  <2>2. w \in Row /\ w # f /\ key[w] = NoContent
    BY <2>1 DEF Row, Slot, FileRow
  <2>3. key' = [x \in Row |-> IF x = f THEN h ELSE IF x = w THEN key[f] ELSE key[x]]
    BY <1>f, <2>1, <2>2
  <2>4. key[f] \in Content
    BY <1>3, <1>f DEF OverwriteRow, Live, Exists
  <2> HIDE DEF w, f
  <2>5. CASE g = h /\ key[f] = h
    <3>1. Refs(g)' = Refs(g) \cup {w}
      BY <1>f, <2>2, <2>3, <2>5 DEF Refs
    <3>2. w \notin Refs(g)
      BY <2>2 DEF Refs
    <3> QED
      BY <1>0, <2>5, <3>1, <3>2, FS_AddElement
  <2>6. CASE g = h /\ key[f] # h
    <3>1. Refs(g)' = Refs(g) \cup {f}
      BY <1>f, <2>2, <2>3, <2>6 DEF Refs, f
    <3>2. f \notin Refs(g)
      BY <2>6 DEF Refs
    <3> QED
      BY <1>0, <2>6, <3>1, <3>2, FS_AddElement
  <2>7. CASE g # h /\ key[f] = g
    <3>1. Refs(g)' = (Refs(g) \ {f}) \cup {w}
      BY <1>f, <2>2, <2>3, <2>7 DEF Refs
    <3>2. w \notin Refs(g) /\ f \in Refs(g)
      BY <1>f, <2>2, <2>7 DEF Refs, f
    <3> QED
      BY <1>0, <2>7, <3>1, <3>2, TradeCard
  <2>8. CASE g # h /\ key[f] # g
    <3>1. Refs(g)' = Refs(g)
      BY <1>f, <2>2, <2>3, <2>8 DEF Refs
    <3> QED
      BY <1>0, <2>8, <3>1
  <2> QED
    BY <2>5, <2>6, <2>7, <2>8
<1> QED
  BY <1>2, <1>3

(* Restoring a version moves references about.                              *)
LEMMA RestoreCard ==
    ASSUME TypeOK, NEW n \in Node, NEW v \in Version, RestoreVersion(n, v), NEW g \in Content
    PROVE  Cardinality(Refs(g)') = Cardinality(Refs(g))
<1> DEFINE w == <<n, v>>
           f == FileRow(n)
<1>0. IsFiniteSet(Refs(g)) /\ Cardinality(Refs(g)) \in Nat
  BY RefsFinite
<1>f. f \in Row /\ w \in Row /\ f # w /\ key \in [Row -> Content \cup {NoContent}]
  BY FileRowType, ConstantsAssumption DEF TypeOK, FileRow, Row, Slot
<1>1. key' = [x \in Row |-> IF x = f THEN key[w] ELSE IF x = w THEN key[f] ELSE key[x]]
  BY <1>f DEF RestoreVersion
<1> HIDE DEF w, f
<1>2. CASE key[f] = key[w] \/ (key[f] # g /\ key[w] # g)
  <2>1. Refs(g)' = Refs(g)
    BY <1>f, <1>1, <1>2 DEF Refs
  <2> QED
    BY <2>1
<1>3. CASE key[f] = g /\ key[w] # g
  <2>1. Refs(g)' = (Refs(g) \ {f}) \cup {w} /\ f \in Refs(g) /\ w \notin Refs(g)
    BY <1>f, <1>1, <1>3 DEF Refs
  <2> QED
    BY <1>0, <2>1, TradeCard
<1>4. CASE key[w] = g /\ key[f] # g
  <2>1. Refs(g)' = (Refs(g) \ {w}) \cup {f} /\ w \in Refs(g) /\ f \notin Refs(g)
    BY <1>f, <1>1, <1>4 DEF Refs
  <2> QED
    BY <1>0, <2>1, TradeCard
<1> QED
  BY <1>2, <1>3, <1>4

(* A permanent delete takes off what it deletes.                            *)
LEMMA PurgeCard ==
    ASSUME TypeOK, NEW p \in Proc, CommitPurge(p),
           seen[p] = RowsRead(ids[p], Slot), NEW g \in Content
    PROVE  /\ ReleaseCount(p, g) \in Nat
           /\ Cardinality(Refs(g)') = Cardinality(Refs(g)) - ReleaseCount(p, g)
<1> DEFINE S == {e \in seen[p] : e[2] = g}
           D == {x \in Refs(g) : x[1] \in ids[p]}
           b == [x \in D |-> <<x, g>>]
<1>1. ids[p] \subseteq Node /\ g # NoContent
  BY ConstantsAssumption DEF TypeOK
<1>2. \A x \in Row : x \in ids[p] \X Slot <=> x[1] \in ids[p]
  BY DEF Row
<1>3. \A x \in ids[p] \X Slot : x \in Row
  BY <1>1 DEF Row
<1>4. S = {<<x, g>> : x \in D}
  BY <1>1, <1>2, <1>3 DEF RowsRead, Refs
<1>5. IsFiniteSet(D)
  BY RefsFinite, FS_Subset
<1>6. b \in Bijection(D, S)
  BY <1>4 DEF Bijection, Injection, Surjection, IsInjective
<1>7. IsFiniteSet(S) /\ Cardinality(S) = Cardinality(D)
  BY <1>5, <1>6, FS_Bijection DEF ExistsBijection
<1>8. Refs(g)' = Refs(g) \ D
  BY <1>1 DEF CommitPurge, Refs
<1>9. Cardinality(Refs(g) \ D) = Cardinality(Refs(g)) - Cardinality(Refs(g) \cap D)
  BY RefsFinite, FS_Difference
<1>10. Refs(g) \cap D = D
  OBVIOUS
<1> QED
  BY <1>5, <1>7, <1>8, <1>9, <1>10, FS_CardinalityType DEF ReleaseCount

(* The rows a permanent delete has read do not change under it, although it *)
(* does not lock them: nothing below its root is live, and another delete   *)
(* takes other nodes.                                                       *)
LEMMA KeyFrozen ==
    ASSUME TypeOK, WantKnown, RootInv, NothingLiveInTrash, PurgesSeparate, [Next]_vars,
           NEW q \in Proc, Purging(q), ~CommitPurge(q),
           NEW x \in Row, x[1] \in ids[q]
    PROVE  key'[x] = key[x]
<1>1. root[q] \in inTrash /\ ids[q] \subseteq Subtree[root[q]] /\ ~Live(x[1])
  BY DEF RootInv, NothingLiveInTrash, Purging
<1>2. key \in [Row -> Content \cup {NoContent}]
  BY DEF TypeOK
<1>3. ASSUME NEW p \in Proc, CommitPurge(p)
      PROVE  key'[x] = key[x]
  <2>1. Purging(p) /\ p # q
    BY <1>3 DEF CommitPurge, Purging
  <2>2. ids[p] \subseteq Subtree[root[p]]
    BY <2>1 DEF RootInv
  <2>3. x[1] \notin ids[p]
    BY <1>1, <2>1, <2>2 DEF PurgesSeparate
  <2> QED
    BY <1>3, <2>3 DEF CommitPurge
<1>4. ASSUME NEW m \in Node, NEW h \in Content, CreateRow(m, h)
      PROVE  key'[x] = key[x]
  <2>1. m \notin ids[q] /\ key' = [key EXCEPT ![FileRow(m)] = h]
    BY <1>4 DEF CreateRow, MayCreate, Unused
  <2>2. x # FileRow(m)
    BY <2>1 DEF FileRow
  <2> QED
    BY <1>2, <2>1, <2>2
<1>5. ASSUME NEW n \in Node, NEW h \in Content, OverwriteRow(n, h)
      PROVE  key'[x] = key[x]
  <2>1. PICK v \in Version :
            key' = [key EXCEPT ![<<n, v>>] = key[FileRow(n)], ![FileRow(n)] = h]
    BY <1>5 DEF OverwriteRow
  <2>2. x # FileRow(n) /\ x # <<n, v>>
    BY <1>1, <1>5 DEF OverwriteRow, FileRow
  <2> QED
    BY <1>2, <2>1, <2>2
<1>6. ASSUME NEW n \in Node, NEW v \in Version, RestoreVersion(n, v)
      PROVE  key'[x] = key[x]
  <2>1. x # FileRow(n) /\ x # <<n, v>>
    BY <1>1, <1>6 DEF RestoreVersion, FileRow
  <2> QED
    BY <1>2, <1>6, <2>1 DEF RestoreVersion
<1>7. ASSUME \/ \E r \in TrashRoot : MoveToTrash(r)
             \/ \E p \in Proc : CommitRestore(p)
      PROVE  key'[x] = key[x]
  BY <1>7 DEF MoveToTrash, CommitRestore
<1> QED
  BY <1>3, <1>4, <1>5, <1>6, <1>7, RowCases

LEMMA ReadSame ==
    ASSUME NEW nodes, NEW slots,
           \A x \in nodes \X slots : key'[x] = key[x]
    PROVE  RowsRead(nodes, slots)' = RowsRead(nodes, slots)
BY DEF RowsRead

LEMMA ReadStep ==
    ASSUME TypeOK, WantKnown, RootInv, NothingLiveInTrash, PurgesSeparate, ReadInv,
           [Next]_vars
    PROVE  ReadInv'
<1>1. ASSUME NEW q \in Proc, Purging(q), ~CommitPurge(q), ids'[q] = ids[q]
      PROVE  /\ RowsRead(ids[q], Version)' = RowsRead(ids[q], Version)
             /\ RowsRead(ids[q], Slot)' = RowsRead(ids[q], Slot)
  <2>1. ids[q] \subseteq Node /\ Version \subseteq Slot
    BY DEF TypeOK, Slot
  <2>2. \A x \in ids[q] \X Slot : key'[x] = key[x]
    BY <1>1, <2>1, KeyFrozen DEF Row
  <2>3. \A x \in ids[q] \X Version : key'[x] = key[x]
    BY <2>1, <2>2
  <2> QED
    BY <1>1, <2>2, <2>3 DEF RowsRead
<1>2. ASSUME NEW q \in Proc, ids'[q] = ids[q], seen'[q] = seen[q], pc'[q] = pc[q]
      PROVE  /\ pc'[q] = "versionsRead" => seen'[q] = RowsRead(ids[q], Version)'
             /\ pc'[q] = "filesRead" => seen'[q] = RowsRead(ids[q], Slot)'
  <2>1. CASE pc[q] \in {"versionsRead", "filesRead"}
    <3>1. Purging(q)
      BY <2>1 DEF Purging
    <3>2. ~CommitPurge(q)
      BY <1>2, <2>1 DEF CommitPurge, Goto, TypeOK
    <3> QED
      BY <1>1, <1>2, <3>1, <3>2 DEF ReadInv
  <2>2. CASE pc[q] \notin {"versionsRead", "filesRead"}
    BY <1>2, <2>2
  <2> QED
    BY <2>1, <2>2
<1> SUFFICES ASSUME NEW q \in Proc
             PROVE  /\ pc'[q] = "versionsRead" => seen'[q] = RowsRead(ids[q], Version)'
                    /\ pc'[q] = "filesRead" => seen'[q] = RowsRead(ids[q], Slot)'
  BY DEF ReadInv
<1>3. ASSUME NEW p \in Proc, CommitPurge(p)
      PROVE  /\ pc'[q] = "versionsRead" => seen'[q] = RowsRead(ids[q], Version)'
             /\ pc'[q] = "filesRead" => seen'[q] = RowsRead(ids[q], Slot)'
  <2>1. q # p => ids'[q] = ids[q] /\ seen'[q] = seen[q] /\ pc'[q] = pc[q]
    BY <1>3 DEF CommitPurge, Goto, TypeOK
  <2>2. q = p => pc'[q] = "deleting"
    BY <1>3 DEF CommitPurge, Goto, TypeOK
  <2> QED
    BY <1>2, <2>1, <2>2
<1>4. ASSUME NEW p \in Proc, NEW r \in TrashRoot, PurgeReadVersions(p, r)
      PROVE  /\ pc'[q] = "versionsRead" => seen'[q] = RowsRead(ids[q], Version)'
             /\ pc'[q] = "filesRead" => seen'[q] = RowsRead(ids[q], Slot)'
  <2>1. q # p => ids'[q] = ids[q] /\ seen'[q] = seen[q] /\ pc'[q] = pc[q]
    BY <1>4 DEF PurgeReadVersions, Goto, TypeOK
  <2>2. ASSUME q = p
        PROVE  pc'[q] = "versionsRead" /\ seen'[q] = RowsRead(ids[q], Version)'
    <3>1. pc'[q] = "versionsRead" /\ key' = key
      BY <1>4, <2>2 DEF PurgeReadVersions, Goto, db, TypeOK
    <3>2. seen'[q] = RowsRead(ids'[q], Version)
      BY <1>4, <2>2 DEF PurgeReadVersions, TypeOK
    <3> QED
      BY <3>1, <3>2 DEF RowsRead
  <2> QED
    BY <1>2, <2>1, <2>2
<1>5. ASSUME NEW p \in Proc, PurgeReadFiles(p)
      PROVE  /\ pc'[q] = "versionsRead" => seen'[q] = RowsRead(ids[q], Version)'
             /\ pc'[q] = "filesRead" => seen'[q] = RowsRead(ids[q], Slot)'
  <2>1. q # p => ids'[q] = ids[q] /\ seen'[q] = seen[q] /\ pc'[q] = pc[q]
    BY <1>5 DEF PurgeReadFiles, Goto, TypeOK
  <2>2. ASSUME q = p
        PROVE  pc'[q] = "filesRead" /\ seen'[q] = RowsRead(ids[q], Slot)'
    <3>1. pc'[q] = "filesRead" /\ key' = key /\ ids' = ids
      BY <1>5, <2>2 DEF PurgeReadFiles, Goto, db, TypeOK
    <3>2. seen'[q] = RowsRead(ids[q], Version) \cup RowsRead(ids[q], {"file"})
      BY <1>5, <2>2 DEF PurgeReadFiles, ReadInv, TypeOK
    <3>3. RowsRead(ids[q], Version) \cup RowsRead(ids[q], {"file"}) = RowsRead(ids[q], Slot)
      BY DEF RowsRead, Slot
    <3> QED
      BY <3>1, <3>2, <3>3 DEF RowsRead
  <2> QED
    BY <1>2, <2>1, <2>2
<1>7. ASSUME NEW p \in Proc, NEW r \in TrashRoot, BeginRestore(p, r)
      PROVE  /\ pc'[q] = "versionsRead" => seen'[q] = RowsRead(ids[q], Version)'
             /\ pc'[q] = "filesRead" => seen'[q] = RowsRead(ids[q], Slot)'
  <2>1. q # p => ids'[q] = ids[q] /\ seen'[q] = seen[q] /\ pc'[q] = pc[q]
    BY <1>7 DEF BeginRestore, Goto, TypeOK
  <2>2. q = p => pc'[q] = "restoring"
    BY <1>7 DEF BeginRestore, Goto, TypeOK
  <2> QED
    BY <1>2, <2>1, <2>2
<1>6. ASSUME root'[q] = NoRoot, pc'[q] \notin {"restoring", "versionsRead", "filesRead"}
      PROVE  /\ pc'[q] = "versionsRead" => seen'[q] = RowsRead(ids[q], Version)'
             /\ pc'[q] = "filesRead" => seen'[q] = RowsRead(ids[q], Slot)'
  BY <1>6
<1> QED
  BY <1>2, <1>3, <1>4, <1>5, <1>6, <1>7, PurgeCases

(* One digest of the CAS health report, in numbers.                         *)
LEMMA HealthCount ==
    CASHealthOK <=>
        \A h \in Content : LET c == Cardinality(Refs(h)) IN
            /\ blobState[h] = "none" => c = 0
            /\ blobState[h] # "none" => refCount[h] = c /\ (blobState[h] = "ready" <=> c # 0)
BY RefsFinite DEF CASHealthOK

LEMMA HealthCountAfter ==
    CASHealthOK' <=>
        \A h \in Content : LET c == Cardinality(Refs(h)') IN
            /\ blobState'[h] = "none" => c = 0
            /\ blobState'[h] # "none" => refCount'[h] = c /\ (blobState'[h] = "ready" <=> c # 0)
<1>1. \A h \in Content : Referenced(h)' <=> Cardinality(Refs(h)') # 0
  <2> SUFFICES ASSUME NEW h \in Content
               PROVE  Referenced(h)' <=> Cardinality(Refs(h)') # 0
    OBVIOUS
  <2>1. IsFiniteSet(Refs(h)')
    BY RowFinite, FS_Subset DEF Refs
  <2>2. Referenced(h)' <=> Refs(h)' # {}
    BY DEF Referenced, Refs
  <2> QED
    BY <2>1, <2>2, FS_EmptySet
<1> QED
  BY <1>1 DEF CASHealthOK

(* What a step may do to counted references.                                *)
LEMMA CountCases ==
    ASSUME TypeOK, WantKnown, [Next]_vars
    PROVE  \/ UNCHANGED <<blobState, refCount, key>>
           \/ \E h \in Content, n \in Node :
                 /\ Retained(h) \/ (MayCopy(h) /\ blobState' = blobState
                                    /\ refCount' = [refCount EXCEPT ![h] = @ + 1])
                 /\ CreateRow(n, h) \/ OverwriteRow(n, h)
           \/ \E n \in Node, v \in Version : RestoreVersion(n, v)
           \/ \E p \in Proc : CommitPurge(p)
           \/ \E p \in Proc : CommitUnlink(p)
<1> DEFINE Counted == \E h \in Content, n \in Node :
                 /\ Retained(h) \/ (MayCopy(h) /\ blobState' = blobState
                                    /\ refCount' = [refCount EXCEPT ![h] = @ + 1])
                 /\ CreateRow(n, h) \/ OverwriteRow(n, h)
<1>1. ASSUME NEW n \in Node \cup {NoNode}, NEW h \in Content, AddRow(n, h), Retained(h)
      PROVE  Counted
  BY <1>1 DEF AddRow
<1>2. ASSUME NEW p \in Proc, CommitRetain(p) \/ CommitUnacknowledged(p)
      PROVE  Counted
  <2>1. Publish(p) /\ want[p] \in Content /\ target[p] \in Node \cup {NoNode}
    BY <1>2, WantContent DEF CommitRetain, CommitUnacknowledged, Publish, TypeOK
  <2> QED
    BY <1>1, <2>1 DEF Publish
<1>3. ASSUME NEW p \in Proc, CommitCopy(p)
      PROVE  Counted
  <2>1. want[p] \in Content
    BY <1>3, WantContent DEF CommitCopy
  <2> QED
    BY <1>3, <2>1 DEF CommitCopy
<1>4. ASSUME NEW h \in Content, NEW n \in Node \cup {NoNode}, InstantUpload(h, n)
      PROVE  Counted
  BY <1>1, <1>4 DEF InstantUpload
<1>5. ASSUME NEW p \in Proc,
             \/ Prepare(p) \/ PrepareFails(p) \/ BeginRetain(p)
             \/ RollbackRetain(p) \/ CreateBlobFails(p)
             \/ BeginCleanup(p) \/ FinishCleanup(p)
             \/ CopyFails(p) \/ CommitReuse(p)
             \/ PurgeReadFiles(p) \/ PurgeFails(p)
             \/ Unlink(p) \/ FinishDeletes(p)
             \/ UnlinkFails(p) \/ Crash(p)
             \/ \E h \in Content : BeginUnlink(p, h)
             \/ \E n \in Node : ReadCopySource(p, n) \/ ReadReuseSource(p, n)
             \/ \E r \in TrashRoot : PurgeReadVersions(p, r) \/ BeginRestore(p, r)
             \/ RestoreFails(p)
             \/ \E h \in Content, n \in Node \cup {NoNode} :
                    Stage(p, h, n) \/ StageReusingCAS(p, h, n)
      PROVE  UNCHANGED <<blobState, refCount, key>>
  BY <1>5 DEF Prepare, PrepareFails, BeginRetain, RollbackRetain, CreateBlobFails,
              BeginCleanup, FinishCleanup, CopyFails, CommitReuse, PurgeReadFiles,
              PurgeFails, Unlink, FinishDeletes, UnlinkFails, Crash,
              BeginUnlink, ReadCopySource, ReadReuseSource, PurgeReadVersions, Stage,
              StageReusingCAS, BeginRestore, RestoreFails, db
<1>6. ASSUME \/ Reap
             \/ \E s \in Session : EndSession(s)
             \/ \E r \in TrashRoot : MoveToTrash(r)
             \/ \E p \in Proc : CommitRestore(p)
             \/ UNCHANGED vars
      PROVE  UNCHANGED <<blobState, refCount, key>>
  BY <1>6 DEF Reap, EndSession, MoveToTrash, CommitRestore, db, vars
<1> QED
  BY <1>2, <1>3, <1>4, <1>5, <1>6, StepCases

(* Every step keeps the CAS health report OK, provided that what a          *)
(* permanent delete has read is what it deletes.                            *)
LEMMA HealthStep ==
    ASSUME IInv, ReadInv, CASHealthOK, [Next]_vars
    PROVE  CASHealthOK'
<1>0. TypeOK /\ WantKnown /\ RowInv /\ LockInv
  BY DEF IInv, SafeInv
<1> SUFFICES ASSUME NEW g \in Content
             PROVE  LET c == Cardinality(Refs(g)') IN
                      /\ blobState'[g] = "none" => c = 0
                      /\ blobState'[g] # "none" =>
                            refCount'[g] = c /\ (blobState'[g] = "ready" <=> c # 0)
  BY HealthCountAfter
<1> DEFINE c == Cardinality(Refs(g))
           cc == Cardinality(Refs(g)')
<1>c. /\ c \in Nat
      /\ blobState[g] = "none" => c = 0
      /\ blobState[g] # "none" => refCount[g] = c /\ (blobState[g] = "ready" <=> c # 0)
  BY HealthCount, RefsFinite
<1>t. /\ blobState \in [Content -> {"none", "ready", "deleting"}]
      /\ refCount \in [Content -> Nat]
  BY <1>0 DEF TypeOK
<1> SUFFICES /\ blobState'[g] = "none" => cc = 0
             /\ blobState'[g] # "none" =>
                   refCount'[g] = cc /\ (blobState'[g] = "ready" <=> cc # 0)
  OBVIOUS
<1>1. CASE UNCHANGED <<blobState, refCount, key>>
  <2>1. cc = c
    BY <1>1 DEF Refs
  <2> HIDE DEF c, cc
  <2> QED
    BY <1>1, <1>c, <2>1
<1>2. ASSUME NEW h \in Content, NEW n \in Node,
             Retained(h) \/ (MayCopy(h) /\ blobState' = blobState
                             /\ refCount' = [refCount EXCEPT ![h] = @ + 1]),
             CreateRow(n, h) \/ OverwriteRow(n, h)
      PROVE  /\ blobState'[g] = "none" => cc = 0
             /\ blobState'[g] # "none" =>
                   refCount'[g] = cc /\ (blobState'[g] = "ready" <=> cc # 0)
  <2>1. cc = c + (IF g = h THEN 1 ELSE 0)
    BY <1>0, <1>2, AddCard
  <2> HIDE DEF c, cc
  <2>2. CASE Retained(h)
    BY <1>c, <1>t, <2>1, <2>2 DEF Retained
  <2>3. CASE MayCopy(h) /\ blobState' = blobState
             /\ refCount' = [refCount EXCEPT ![h] = @ + 1]
    BY <1>c, <1>t, <2>1, <2>3 DEF MayCopy
  <2> QED
    BY <1>2, <2>2, <2>3
<1>3. ASSUME NEW n \in Node, NEW v \in Version, RestoreVersion(n, v)
      PROVE  /\ blobState'[g] = "none" => cc = 0
             /\ blobState'[g] # "none" =>
                   refCount'[g] = cc /\ (blobState'[g] = "ready" <=> cc # 0)
  <2>1. cc = c
    BY <1>0, <1>3, RestoreCard
  <2>2. UNCHANGED <<blobState, refCount>>
    BY <1>3 DEF RestoreVersion
  <2> HIDE DEF c, cc
  <2> QED
    BY <1>c, <2>1, <2>2
<1>4. ASSUME NEW p \in Proc, CommitPurge(p)
      PROVE  /\ blobState'[g] = "none" => cc = 0
             /\ blobState'[g] # "none" =>
                   refCount'[g] = cc /\ (blobState'[g] = "ready" <=> cc # 0)
  <2>1. seen[p] = RowsRead(ids[p], Slot)
    BY <1>4 DEF CommitPurge, ReadInv
  <2>2. ReleaseCount(p, g) \in Nat /\ cc = c - ReleaseCount(p, g)
    BY <1>0, <1>4, <2>1, PurgeCard
  <2>3. cc \in Nat
    <3>1. IsFiniteSet(Refs(g)')
      BY RowFinite, FS_Subset DEF Refs
    <3> QED
      BY <3>1, FS_CardinalityType
  <2> HIDE DEF c, cc
  <2>4. /\ refCount'[g] = refCount[g] - ReleaseCount(p, g)
        /\ blobState'[g] = IF ReleaseCount(p, g) = 0 THEN blobState[g]
                           ELSE IF refCount[g] = ReleaseCount(p, g) THEN "deleting" ELSE "ready"
        /\ ReleaseCount(p, g) > 0 => blobState[g] # "none"
    BY <1>4 DEF CommitPurge, CanRelease, Released
  <2>5. CASE ReleaseCount(p, g) = 0
    BY <1>c, <1>t, <2>2, <2>4, <2>5
  <2>6. CASE ReleaseCount(p, g) > 0
    BY <1>c, <1>t, <2>2, <2>3, <2>4, <2>6
  <2> QED
    BY <2>2, <2>5, <2>6
<1>5. ASSUME NEW p \in Proc, CommitUnlink(p)
      PROVE  /\ blobState'[g] = "none" => cc = 0
             /\ blobState'[g] # "none" =>
                   refCount'[g] = cc /\ (blobState'[g] = "ready" <=> cc # 0)
  <2>1. want[p] \in Content /\ pc[p] = "unlinked"
    BY <1>0, <1>5, WantContent DEF CommitUnlink
  <2>2. blobState[want[p]] = "deleting"
    BY <1>0, <2>1 DEF LockInv
  <2>3. cc = c
    BY <1>5 DEF CommitUnlink, rowVars, Refs
  <2> HIDE DEF c, cc
  <2>4. /\ blobState' = [blobState EXCEPT ![want[p]] = "none"]
        /\ refCount' = [refCount EXCEPT ![want[p]] = 0]
    BY <1>5 DEF CommitUnlink
  <2> QED
    BY <1>c, <1>t, <2>1, <2>2, <2>3, <2>4
<1> QED
  BY <1>0, <1>1, <1>2, <1>3, <1>4, <1>5, CountCases

(* ref_count is exact, and a row ready exactly when it is referenced, in    *)
(* every behaviour in which nothing live is left below a trashed folder and *)
(* permanent deletes that overlap cover different nodes: nothing else can   *)
(* make the CAS health report fail.                                         *)
THEOREM CountsExact ==
    Spec /\ []NothingLiveInTrash /\ []PurgesSeparate => [](ReadInv /\ CASHealthOK)
<1> DEFINE Inv == ReadInv /\ CASHealthOK
<1>1. Init => Inv
  <2> SUFFICES ASSUME Init PROVE Inv
    OBVIOUS
  <2>1. \A h \in Content : ~Referenced(h)
    BY ConstantsAssumption DEF Init, Referenced
  <2> QED
    BY <2>1 DEF Init, ReadInv, CASHealthOK
<1>2. IInv /\ RootInv /\ NothingLiveInTrash /\ PurgesSeparate /\ Inv /\ [Next]_vars => Inv'
  BY ReadStep, HealthStep DEF IInv
<1> QED
  BY <1>1, <1>2, RootAlone, InductiveInvariant, PTL DEF Spec

(* Where the folders a user can trash lie side by side and creates check    *)
(* their folder at COMMIT, the health report is always OK, and so is all    *)
(* the bookkeeping of trash and permanent deletes it rests on.              *)
THEOREM CountsExactSideBySide ==
    ASSUME ~LateCreate,
           \A r, s \in TrashRoot : Within(r, s) => r = s
    PROVE  Spec => [](CASHealthOK /\ ExactInv)
<1>1. TypeOK /\ RootInv => PurgesSeparate
  <2> SUFFICES ASSUME TypeOK, RootInv, NEW p \in Proc, NEW q \in Proc, p # q,
                      Purging(p), Purging(q)
               PROVE  Subtree[root[p]] \cap Subtree[root[q]] = {}
    BY DEF PurgesSeparate
  <2>1. root[p] \in TrashRoot /\ root[q] \in TrashRoot /\ root[p] # root[q]
    BY DEF RootInv, TypeOK
  <2> QED
    BY <2>1, TreeAssumption
<1>2. IInv => TypeOK
  BY DEF IInv
<1>5. TypeOK /\ RootInv /\ [Next]_vars => [RestoreInTime]_vars
  <2> SUFFICES ASSUME TypeOK, RootInv, NEW p \in Proc, CommitRestore(p)
               PROVE  ParentLive(root[p])
    BY DEF RestoreInTime
  <2>1. root[p] \in TrashRoot /\ inTrash \subseteq TrashRoot
    BY DEF CommitRestore, RootInv, TypeOK
  <2> QED
    BY <2>1 DEF ParentLive
<1>3. Spec => [](NothingLiveInTrash /\ TrashInv /\ IdsInv)
  BY <1>2, <1>5, RootAlone, InductiveInvariant, TrashClosed, PTL DEF Spec
<1>4. Spec => []PurgesSeparate
  BY <1>1, <1>2, RootAlone, InductiveInvariant, PTL
<1> QED
  BY <1>3, <1>4, CleanupIsDue, RootAlone, CountsExact, PTL DEF ExactInv

=============================================================================
