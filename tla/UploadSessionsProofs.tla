------------------------ MODULE UploadSessionsProofs ------------------------
(* Proofs about UploadSessions, for every value of its constants.            *)
EXTENDS UploadSessions, TLAPS

(* A request writes its chunk, the janitor scans and takes the lease.        *)
Advance(p) == BeginStore(p) \/ StoreChunk(p) \/ (p = Janitor /\ (ScanStaging \/ BeginSweep))

Advanced == {"storing", "stored", "scanned", "sweeping"}

LEMMA AdvanceMoves ==
    ASSUME NEW p \in Proc, Advance(p)
    PROVE  /\ \E l \in Advanced : Goto(p, l)
           /\ UNCHANGED <<status, expired, digest, row, old, file, sent, sess, chunk, key,
                          parts, expect, hidden, crashes, lostAcks, lost>>
<1>1. CASE BeginStore(p)
  BY <1>1 DEF BeginStore, Advanced, store, local, acks
<1>2. CASE StoreChunk(p)
  BY <1>2 DEF StoreChunk, Advanced, local, acks
<1>3. CASE p = Janitor /\ ScanStaging
  BY <1>3 DEF ScanStaging, Advanced, store, local, acks
<1>4. CASE p = Janitor /\ BeginSweep
  BY <1>4 DEF BeginSweep, Advanced, store, local, acks
<1> QED
  BY <1>1, <1>2, <1>3, <1>4 DEF Advance

(* The kinds of step, one per action.                                        *)
LEMMA StepCases ==
    ASSUME [Next]_vars
    PROVE  \/ \E s \in Session, d \in File \cup {NoFile} : Create(s, d)
           \/ \E p \in Proc, s \in Session : ResumeReads(p, s)
           \/ \E p \in Proc, d \in File : ResumeDeclares(p, d)
           \/ \E p \in Proc : ResumeFails(p)
           \/ \E p \in Proc, s \in Session, c \in Chunk, k \in Key : CheckChunk(p, s, c, k)
           \/ \E p \in Proc : Advance(p)
           \/ \E p \in Proc : StoreFails(p)
           \/ \E p \in Proc : LockForPut(p)
           \/ \E p \in Proc : CommitChunk(p)
           \/ \E p \in Proc : ChunkAckLost(p)
           \/ \E p \in Proc : ChunkFails(p)
           \/ \E p \in Proc, s \in Session : StartFinalize(p, s)
           \/ \E p \in Proc : ReadParts(p)
           \/ \E p \in Proc : ReadChunk(p)
           \/ \E p \in Proc : Verify(p)
           \/ \E p \in Proc : LockForFinish(p)
           \/ \E p \in Proc : Finish(p)
           \/ \E p \in Proc : FinishSkipped(p)
           \/ \E p \in Proc : AnswerIncomplete(p) \/ AssembleFails(p) \/ FinishFails(p) \/ Done(p)
           \/ \E p \in Proc : Crash(p)
           \/ \E p \in Proc, s \in Session : Abort(p, s)
           \/ \E p \in Proc, k \in Key : DeleteStaged(p, k)
           \/ \E s \in Session : ReadExpired(s)
           \/ DeleteRows
           \/ DeleteSession
           \/ DeadlockVictim \/ DeferSweep
           \/ \E s \in Session : Expire(s)
           \/ \E k \in Key : Age(k)
           \/ UNCHANGED vars
<1>1. Request \subseteq Proc /\ Janitor \in Proc
  BY DEF Proc
<1>2. CASE \E p \in Request : Start(p)
  BY <1>1, <1>2 DEF Start
<1>3. CASE \E p \in Proc : Continue(p)
  BY <1>3 DEF Continue, Advance
<1>4. CASE JanitorContinues
  BY <1>1, <1>3, <1>4 DEF JanitorContinues, Advance
<1>5. CASE ScanStaging
  BY <1>1, <1>5 DEF Advance
<1> QED
  BY <1>1, <1>2, <1>3, <1>4, <1>5 DEF Next

LEMMA PartType == \A s \in Session, c \in Chunk : <<s, c>> \in Part
BY DEF Part

LEMMA PartParts == \A x \in Part : x[1] \in Session /\ x[2] \in Chunk /\ x = <<x[1], x[2]>>
BY DEF Part

LEMMA NoPartsType == NoParts \in [Chunk -> Key \cup {NoKey}]
BY DEF NoParts

LEMMA KeysType ==
    ASSUME NEW ps \in [Chunk -> Key \cup {NoKey}]
    PROVE  Keys(ps) \in SUBSET Key
BY DEF Keys

LEMMA RowsType ==
    ASSUME TypeOK, NEW s \in Session
    PROVE  Rows(s) \in [Chunk -> Key \cup {NoKey}]
BY PartType DEF Rows, TypeOK

LEMMA ContentType ==
    ASSUME NEW ps \in [Chunk -> Key]
    PROVE  Content(ps) \in File
BY ConstantsAssumption DEF Content, File

(* Every step keeps the types of the variables.                              *)
LEMMA TypeStep == TypeOK /\ LocalInv /\ [Next]_vars => TypeOK'
<1> SUFFICES ASSUME TypeOK, LocalInv, [Next]_vars PROVE TypeOK'
  OBVIOUS
<1> USE DEF TypeOK, PC, Goto, Forget, Return, ThenDelete, store, local, acks
<1>0. Janitor \in Proc /\ 0 \in 0..ChunkCount
  BY ConstantsAssumption DEF Proc
<1> USE NoPartsType, <1>0
<1>1. ASSUME NEW s \in Session, NEW d \in File \cup {NoFile}, Create(s, d)
      PROVE  TypeOK'
  BY <1>1 DEF Create
<1>2. ASSUME NEW p \in Proc, NEW s \in Session, NEW c \in Chunk, NEW k \in Key, CheckChunk(p, s, c, k)
      PROVE  TypeOK'
  BY <1>2, ConstantsAssumption DEF CheckChunk, Chunk
<1>3. ASSUME NEW p \in Proc, LockForPut(p)
      PROVE  TypeOK'
  <2>1. key[p] \in Key
    BY <1>3 DEF LockForPut, LocalInv
  <2>2. CASE MayPut(sess[p])
    BY <1>3, <2>2 DEF LockForPut
  <2>3. CASE ~MayPut(sess[p])
    <3>1. ThenDelete(p, {key[p]})
      BY <1>3, <2>3 DEF LockForPut
    <3> QED
      BY <1>3, <2>1, <3>1 DEF LockForPut
  <2> QED
    BY <2>2, <2>3
<1>4. ASSUME NEW p \in Proc, RecordChunk(p),
             NEW ks \in SUBSET Key, ThenDelete(p, ks), crashes' = crashes,
             lostAcks' \in 0..MaxLostAcks, lost' \subseteq lost \cup {<<sess[p], chunk[p]>>}
      PROVE  TypeOK'
  <2>1. sess[p] \in Session /\ chunk[p] \in Chunk /\ key[p] \in Key
    BY <1>4 DEF RecordChunk, LocalInv
  <2>2. <<chunk[p], Written[key[p]]>> \in Chunk \X Data
    BY <2>1, ConstantsAssumption
  <2>3. row' \in [Part -> Key \cup {NoKey}] /\ sent' \in [Session -> SUBSET (Chunk \X Data)]
    BY <1>4, <2>1, <2>2 DEF RecordChunk
  <2>4. lost' \subseteq Part
    BY <1>4, <2>1, PartType
  <2> QED
    BY <1>4, <2>3, <2>4 DEF RecordChunk
<1>5. ASSUME NEW p \in Proc, CommitChunk(p)
      PROVE  TypeOK'
  <2>1. sess[p] \in Session /\ chunk[p] \in Chunk
    BY <1>5 DEF CommitChunk, RecordChunk, LocalInv
  <2>2. {row[<<sess[p], chunk[p]>>]} \ {NoKey} \in SUBSET Key
    BY <2>1, PartType
  <2>3. RecordChunk(p) /\ ThenDelete(p, {row[<<sess[p], chunk[p]>>]} \ {NoKey})
    BY <1>5 DEF CommitChunk
  <2>4. /\ crashes' = crashes /\ lostAcks' \in 0..MaxLostAcks
        /\ lost' \subseteq lost \cup {<<sess[p], chunk[p]>>}
    BY <1>5 DEF CommitChunk
  <2> HIDE DEF TypeOK, PC, Goto, Forget, Return, ThenDelete, store, local, acks
  <2> QED
    BY <2>2, <2>3, <2>4, <1>4
<1>6. ASSUME NEW p \in Proc, ChunkAckLost(p)
      PROVE  TypeOK'
  <2>1. {key[p]} \in SUBSET Key
    BY <1>6 DEF ChunkAckLost, RecordChunk, LocalInv
  <2>2. /\ lostAcks' \in 0..MaxLostAcks /\ crashes' = crashes
        /\ lost' \subseteq lost \cup {<<sess[p], chunk[p]>>}
    BY <1>6, ConstantsAssumption DEF ChunkAckLost
  <2> QED
    BY <1>6, <2>1, <2>2, <1>4 DEF ChunkAckLost
<1>7. ASSUME NEW p \in Proc, ChunkFails(p)
      PROVE  TypeOK'
  <2>1. {key[p]} \in SUBSET Key
    BY <1>7 DEF ChunkFails, LocalInv
  <2> QED
    BY <1>7, <2>1 DEF ChunkFails
<1>8. ASSUME NEW p \in Proc, NEW s \in Session, StartFinalize(p, s) \/ ResumeReads(p, s)
      PROVE  TypeOK'
  <2>1. CASE StartFinalize(p, s)
    BY <2>1 DEF StartFinalize
  <2>2. CASE ResumeReads(p, s)
    BY <2>2 DEF ResumeReads
  <2> QED
    BY <1>8, <2>1, <2>2
<1>9. ASSUME NEW p \in Proc, ReadParts(p)
      PROVE  TypeOK'
  <2>1. Rows(sess[p]) \in [Chunk -> Key \cup {NoKey}]
    BY <1>9, RowsType DEF ReadParts, LocalInv
  <2> QED
    BY <1>9, <2>1 DEF ReadParts
<1>10. ASSUME NEW p \in Proc, ReadChunk(p)
      PROVE  TypeOK'
  <2>1. chunk[p] + 1 \in 0..ChunkCount
    BY <1>10, ConstantsAssumption DEF ReadChunk
  <2>2. chunk' \in [Proc -> 0..ChunkCount]
    BY <1>10, <2>1 DEF ReadChunk
  <2> QED
    BY <1>10, <2>2 DEF ReadChunk
<1>11. ASSUME NEW p \in Proc, Verify(p) \/ LockForFinish(p)
      PROVE  TypeOK'
  <2>1. UNCHANGED <<status, expired, digest, row, store, file, sent, crashes, acks>>
    BY <1>11 DEF Verify, LockForFinish
  <2>2. \/ (Goto(p, "assembled") \/ Goto(p, "finLocked")) /\ UNCHANGED <<local, del>>
        \/ Return(p)
    BY <1>11 DEF Verify, LockForFinish
  <2>3. CASE (Goto(p, "assembled") \/ Goto(p, "finLocked")) /\ UNCHANGED <<local, del>>
    BY <2>1, <2>3
  <2>4. CASE Return(p)
    BY <2>1, <2>4
  <2> QED
    BY <2>2, <2>3, <2>4
<1>12. ASSUME NEW p \in Proc, Finish(p) \/ FinishSkipped(p)
      PROVE  TypeOK'
  <2>1. sess[p] \in Session /\ parts[p] \in [Chunk -> Key]
    BY <1>12 DEF Finish, FinishSkipped, LocalInv
  <2>2. Content(parts[p]) \in File /\ Keys(parts[p]) \in SUBSET Key
    BY <2>1, ContentType, KeysType
  <2>3. row' \in [Part -> Key \cup {NoKey}]
    BY <1>12 DEF Finish, FinishSkipped, DropRows
  <2>4. CASE Finish(p)
    BY <2>4, <2>1, <2>2, <2>3 DEF Finish
  <2>5. CASE FinishSkipped(p)
    BY <2>5, <2>1, <2>2, <2>3 DEF FinishSkipped
  <2> QED
    BY <1>12, <2>4, <2>5
<1>13. ASSUME NEW p \in Proc,
              ResumeFails(p) \/ AnswerIncomplete(p) \/ AssembleFails(p) \/ FinishFails(p) \/ Done(p)
      PROVE  TypeOK'
  <2>1. Return(p) /\ UNCHANGED <<status, expired, digest, row, store, file, sent, crashes, acks>>
    BY <1>13 DEF ResumeFails, AnswerIncomplete, AssembleFails, FinishFails, Done
  <2> QED
    BY <2>1
<1>14. ASSUME NEW p \in Proc, Crash(p)
      PROVE  TypeOK'
  BY <1>14, ConstantsAssumption DEF Crash
<1>15. ASSUME NEW p \in Proc, NEW s \in Session, Abort(p, s)
      PROVE  TypeOK'
  <2>1. Keys(Rows(s)) \in SUBSET Key
    BY RowsType, KeysType
  <2> QED
    BY <1>15, <2>1 DEF Abort, DropRows
<1>16. ASSUME NEW p \in Proc, NEW k \in Key, DeleteStaged(p, k)
      PROVE  TypeOK'
  BY <1>16 DEF DeleteStaged
<1>17. ASSUME NEW s \in Session, ReadExpired(s)
      PROVE  TypeOK'
  BY <1>0, <1>17, RowsType DEF ReadExpired
<1>18. CASE DeleteRows
  BY <1>0, <1>18 DEF DeleteRows
<1>19. CASE DeleteSession
  <2>1. sess[Janitor] \in Session
    BY <1>0, <1>19 DEF DeleteSession, LocalInv
  <2>2. Keys(parts[Janitor]) \in SUBSET Key
    BY <1>0, KeysType
  <2> QED
    BY <1>0, <1>19, <2>1, <2>2 DEF DeleteSession
<1>20. CASE DeadlockVictim
  BY <1>0, <1>20 DEF DeadlockVictim
<1>21. CASE DeferSweep
  BY <1>0, <1>21 DEF DeferSweep
<1>26. ASSUME NEW p \in Proc, Advance(p)
       PROVE  TypeOK'
  <2>1. /\ \E l \in PC : pc' = [pc EXCEPT ![p] = l]
        /\ UNCHANGED <<status, expired, digest, row, old, file, sent, sess, chunk, key,
                       parts, expect, hidden, crashes, lostAcks, lost>>
    BY <1>26, AdvanceMoves DEF Advanced
  <2>2. staged' \subseteq Key /\ del' \in [Proc -> SUBSET Key]
    <3>1. CASE BeginStore(p)
      BY <3>1 DEF BeginStore
    <3>2. CASE StoreChunk(p)
      BY <3>2 DEF StoreChunk, LocalInv
    <3>3. CASE ScanStaging
      BY <3>3 DEF ScanStaging, Orphans
    <3>4. CASE BeginSweep
      BY <3>4 DEF BeginSweep
    <3> QED
      BY <1>26, <3>1, <3>2, <3>3, <3>4 DEF Advance
  <2> QED
    BY <2>1, <2>2
<1>27. ASSUME NEW p \in Proc, StoreFails(p)
       PROVE  TypeOK'
  <2>1. key[p] \in Key
    BY <1>27 DEF StoreFails, LocalInv
  <2> QED
    BY <1>27, <2>1 DEF StoreFails
<1>22. ASSUME NEW s \in Session, Expire(s)
      PROVE  TypeOK'
  BY <1>22 DEF Expire
<1>23. ASSUME NEW k \in Key, Age(k)
      PROVE  TypeOK'
  BY <1>23 DEF Age
<1>24. ASSUME NEW p \in Proc, NEW d \in File, ResumeDeclares(p, d)
       PROVE  TypeOK'
  BY <1>24 DEF ResumeDeclares
<1>25. CASE UNCHANGED vars
  BY <1>25 DEF vars
<1> QED
  BY <1>1, <1>2, <1>3, <1>5, <1>6, <1>7, <1>8, <1>9, <1>10, <1>11, <1>12, <1>13, <1>14,
     <1>15, <1>16, <1>17, <1>18, <1>19, <1>20, <1>21, <1>22, <1>23, <1>24, <1>25, <1>26, <1>27,
     StepCases

(* Every step keeps what a process has consistent with where it is.          *)
LEMMA LocalStep == TypeOK /\ LocalInv /\ [Next]_vars => LocalInv'
<1> SUFFICES ASSUME TypeOK, LocalInv, [Next]_vars PROVE LocalInv'
  OBVIOUS
<1> USE DEF LocalInv, TypeOK, Goto, Forget, Return, ThenDelete, local
<1>0. Janitor \in Proc /\ NoKey \notin Key
  BY ConstantsAssumption DEF Proc
<1> USE <1>0
<1>1. ASSUME NEW s \in Session, NEW d \in File \cup {NoFile}, Create(s, d)
      PROVE  LocalInv'
  BY <1>1 DEF Create
<1>2. ASSUME NEW p \in Proc, NEW s \in Session, NEW c \in Chunk, NEW k \in Key, CheckChunk(p, s, c, k)
      PROVE  LocalInv'
  BY <1>2, ConstantsAssumption DEF CheckChunk, Chunk
<1>3. ASSUME NEW p \in Proc, LockForPut(p)
      PROVE  LocalInv'
  <2>1. CASE MayPut(sess[p])
    BY <1>3, <2>1 DEF LockForPut
  <2>2. CASE ~MayPut(sess[p])
    BY <1>3, <2>2 DEF LockForPut
  <2> QED
    BY <2>1, <2>2
<1>5. ASSUME NEW p \in Proc, NEW s \in Session, StartFinalize(p, s) \/ ResumeReads(p, s)
      PROVE  LocalInv'
  <2>1. CASE StartFinalize(p, s)
    BY <2>1 DEF StartFinalize
  <2>2. CASE ResumeReads(p, s)
    BY <2>2 DEF ResumeReads
  <2> QED
    BY <1>5, <2>1, <2>2
<1>6. ASSUME NEW p \in Proc, ReadParts(p)
      PROVE  LocalInv'
  <2>1. Rows(sess[p]) \in [Chunk -> Key]
    BY <1>6, PartType DEF ReadParts, Rows, Complete
  <2> QED
    BY <1>6, <2>1 DEF ReadParts
<1>7. ASSUME NEW p \in Proc, ReadChunk(p)
      PROVE  LocalInv'
  BY <1>7 DEF ReadChunk
<1>8. ASSUME NEW p \in Proc, Goto(p, "assembled"), pc[p] = "assembling",
             UNCHANGED <<local, del>>
      PROVE  LocalInv'
  BY <1>8
<1>9. ASSUME NEW p \in Proc, Goto(p, "finLocked"), pc[p] = "assembled",
             UNCHANGED <<local, del>>
      PROVE  LocalInv'
  BY <1>9
<1>10. ASSUME NEW p \in Proc, Return(p)
      PROVE  LocalInv'
  BY <1>10
<1>11. ASSUME NEW p \in Proc, Verify(p) \/ LockForFinish(p)
      PROVE  LocalInv'
  BY <1>8, <1>9, <1>10, <1>11 DEF Verify, LockForFinish
<1>12. ASSUME NEW p \in Proc, NEW ks, ThenDelete(p, ks)
      PROVE  LocalInv'
  BY <1>12
<1>4. ASSUME NEW p \in Proc, CommitChunk(p) \/ ChunkAckLost(p) \/ ChunkFails(p) \/ StoreFails(p)
      PROVE  LocalInv'
  <2>1. \E ks : ThenDelete(p, ks)
    BY <1>4 DEF CommitChunk, ChunkAckLost, ChunkFails, StoreFails
  <2> QED
    BY <2>1, <1>12
<1>13. ASSUME NEW p \in Proc, Finish(p) \/ FinishSkipped(p)
      PROVE  LocalInv'
  <2>1. ThenDelete(p, Keys(parts[p]))
    BY <1>13 DEF Finish, FinishSkipped
  <2> QED
    BY <2>1, <1>12
<1>14. ASSUME NEW p \in Proc,
              ResumeFails(p) \/ (\E d \in File : ResumeDeclares(p, d)) \/
              AnswerIncomplete(p) \/ AssembleFails(p) \/ FinishFails(p) \/ Done(p) \/ Crash(p)
      PROVE  LocalInv'
  <2>1. Return(p)
    BY <1>14 DEF ResumeFails, ResumeDeclares, AnswerIncomplete, AssembleFails, FinishFails, Done, Crash
  <2> QED
    BY <2>1, <1>10
<1>15. ASSUME NEW p \in Proc, NEW s \in Session, Abort(p, s)
      PROVE  LocalInv'
  BY <1>15, <1>12 DEF Abort
<1>16. ASSUME NEW p \in Proc, NEW k \in Key, DeleteStaged(p, k)
      PROVE  LocalInv'
  BY <1>16 DEF DeleteStaged
<1>17. ASSUME NEW s \in Session, ReadExpired(s)
      PROVE  LocalInv'
  BY <1>17 DEF ReadExpired
<1>18. CASE DeleteRows
  BY <1>18 DEF DeleteRows
<1>19. CASE DeleteSession
  BY <1>19, <1>12 DEF DeleteSession
<1>20. CASE DeadlockVictim \/ DeferSweep
  BY <1>20, <1>10 DEF DeadlockVictim, DeferSweep
<1>21. ASSUME NEW p \in Proc, Advance(p)
       PROVE  LocalInv'
  <2>1. UNCHANGED <<sess, chunk, key, parts>> /\ \E l \in Advanced : Goto(p, l)
    BY <1>21, AdvanceMoves
  <2>2. CASE BeginStore(p) \/ StoreChunk(p)
    <3>1. pc[p] \in {"checked", "storing"}
      BY <2>2 DEF BeginStore, StoreChunk
    <3>2. pc' = [pc EXCEPT ![p] = "storing"] \/ pc' = [pc EXCEPT ![p] = "stored"]
      BY <2>2 DEF BeginStore, StoreChunk
    <3> QED
      BY <2>1, <3>1, <3>2
  <2>3. CASE p = Janitor /\ (ScanStaging \/ BeginSweep)
    <3>1. pc[p] \in {"idle", "scanned"}
      BY <2>3 DEF ScanStaging, BeginSweep
    <3>2. pc' = [pc EXCEPT ![p] = "scanned"] \/ pc' = [pc EXCEPT ![p] = "sweeping"]
      BY <2>3 DEF ScanStaging, BeginSweep
    <3> QED
      BY <2>1, <3>1, <3>2
  <2> QED
    BY <1>21, <2>2, <2>3 DEF Advance
<1>22. ASSUME NEW s \in Session, Expire(s)
      PROVE  LocalInv'
  BY <1>22 DEF Expire
<1>23. ASSUME NEW k \in Key, Age(k)
      PROVE  LocalInv'
  BY <1>23 DEF Age
<1>24. CASE UNCHANGED vars
  BY <1>24 DEF vars
<1> QED
  BY <1>1, <1>2, <1>3, <1>4, <1>5, <1>6, <1>7, <1>11, <1>13, <1>14, <1>15, <1>16, <1>17,
     <1>18, <1>19, <1>20, <1>21, <1>22, <1>23, <1>24, StepCases

(* Actions that take no lock leave every lock where it was.                  *)
LEMMA NoNewLock ==
    ASSUME TypeOK, LockInv, NEW p \in Proc,
           status' = status,
           \A q \in Proc : q # p => pc'[q] = pc[q] /\ sess'[q] = sess[q],
           pc'[p] \notin {"putLocked", "finLocked"}
    PROVE  LockInv'
<1>1. \A q \in Proc, s \in Session : Locks(q, s)' => Locks(q, s)
  BY DEF Locks
<1> QED
  BY <1>1 DEF LockInv

(* A lock is taken when no one holds it and the session is active.           *)
LEMMA NewLock ==
    ASSUME TypeOK, LocalInv, LockInv, NEW p \in Proc, NEW l,
           pc[p] \in {"stored", "assembled"},
           status[sess[p]] = "active", LockFree(sess[p]),
           Goto(p, l), UNCHANGED <<status, sess>>
    PROVE  LockInv'
BY DEF LockInv, Locks, LockFree, TypeOK, Goto, LocalInv

(* The session that leaves status active is locked by the one who changes    *)
(* it, or by no one.                                                         *)
LEMMA EndUnlocks ==
    ASSUME TypeOK, LockInv, NEW p \in Proc, NEW s \in Session,
           \A q \in Proc : q # p => ~Locks(q, s),
           \A t \in Session : t # s => status'[t] = status[t],
           \A q \in Proc : q # p => pc'[q] = pc[q] /\ sess'[q] = sess[q],
           pc'[p] \notin {"putLocked", "finLocked"}
    PROVE  LockInv'
<1>1. \A q \in Proc, t \in Session : Locks(q, t)' => Locks(q, t) /\ t # s
  BY DEF Locks
<1> QED
  BY <1>1 DEF LockInv

LEMMA LockStep == TypeOK /\ LocalInv /\ LockInv /\ [Next]_vars => LockInv'
<1> SUFFICES ASSUME TypeOK, LocalInv, LockInv, [Next]_vars PROVE LockInv'
  OBVIOUS
<1> USE DEF Goto, Forget, Return, ThenDelete, local
<1>0. Janitor \in Proc /\ pc \in [Proc -> PC] /\ sess \in [Proc -> Session \cup {NoSession}]
      /\ status \in [Session -> {"none", "active", "finalized", "skipped", "gone"}]
  BY DEF Proc, TypeOK
<1>1. ASSUME UNCHANGED <<pc, sess>>,
             \A s \in Session : status[s] = "active" => status'[s] = "active"
      PROVE  LockInv'
  BY <1>1 DEF LockInv, Locks
<1>2. ASSUME NEW s \in Session, NEW d \in File \cup {NoFile}, Create(s, d)
      PROVE  LockInv'
  BY <1>0, <1>1, <1>2 DEF Create
<1>3. ASSUME NEW p \in Proc, NEW s \in Session,
             ResumeReads(p, s) \/ StartFinalize(p, s) \/ \E c \in Chunk, k \in Key : CheckChunk(p, s, c, k)
      PROVE  LockInv'
  <2>1. \/ pc' = [pc EXCEPT ![p] = "checked"]
        \/ pc' = [pc EXCEPT ![p] = "finalizing"]
        \/ pc' = [pc EXCEPT ![p] = "resuming"]
    BY <1>3 DEF ResumeReads, CheckChunk, StartFinalize
  <2>2. status' = status /\ sess' = [sess EXCEPT ![p] = s]
    BY <1>3 DEF ResumeReads, CheckChunk, StartFinalize
  <2> QED
    BY <1>0, <2>1, <2>2, NoNewLock
<1>4. ASSUME NEW p \in Proc, Return(p) \/ (\E ks : ThenDelete(p, ks)), status' = status
      PROVE  LockInv'
  <2>1. \/ pc' = [pc EXCEPT ![p] = "idle"]
        \/ pc' = [pc EXCEPT ![p] = "deleting"]
    BY <1>4
  <2>2. sess' = [sess EXCEPT ![p] = NoSession]
    BY <1>4
  <2> QED
    BY <1>0, <1>4, <2>1, <2>2, NoNewLock
<1>5. ASSUME NEW p \in Proc, LockForPut(p)
      PROVE  LockInv'
  <2>1. CASE MayPut(sess[p])
    BY <1>5, <2>1, NewLock DEF LockForPut, MayPut
  <2>2. CASE ~MayPut(sess[p])
    BY <1>4, <1>5, <2>2 DEF LockForPut
  <2> QED
    BY <2>1, <2>2
<1>6. ASSUME NEW p \in Proc, LockForFinish(p)
      PROVE  LockInv'
  <2>1. CASE MayFinish(sess[p])
    BY <1>6, <2>1, NewLock DEF LockForFinish, MayFinish
  <2>2. CASE ~MayFinish(sess[p])
    BY <1>4, <1>6, <2>2 DEF LockForFinish
  <2> QED
    BY <2>1, <2>2
<1>7. ASSUME NEW p \in Proc, CommitChunk(p) \/ ChunkAckLost(p) \/ ChunkFails(p) \/ StoreFails(p)
      PROVE  LockInv'
  <2>1. status' = status /\ \E ks : ThenDelete(p, ks)
    BY <1>7 DEF CommitChunk, ChunkAckLost, ChunkFails, StoreFails, RecordChunk
  <2> QED
    BY <2>1, <1>4
<1>8. ASSUME NEW p \in Proc, ReadParts(p) \/ ReadChunk(p)
      PROVE  LockInv'
  <2>1. UNCHANGED <<status, sess>>
    BY <1>8 DEF ReadParts, ReadChunk
  <2>2. \/ pc' = [pc EXCEPT ![p] = "assembling"]
        \/ UNCHANGED pc
    BY <1>8 DEF ReadParts, ReadChunk
  <2> QED
    BY <1>0, <1>1, <2>1, <2>2, NoNewLock
<1>9. ASSUME NEW p \in Proc, Verify(p)
      PROVE  LockInv'
  <2>1. CASE Verified(p)
    <3>1. UNCHANGED <<status, sess>> /\ pc' = [pc EXCEPT ![p] = "assembled"]
      BY <1>9, <2>1 DEF Verify
    <3> QED
      BY <1>0, <3>1, NoNewLock
  <2>2. CASE ~Verified(p)
    BY <1>4, <1>9, <2>2 DEF Verify
  <2> QED
    BY <2>1, <2>2
<1>10. ASSUME NEW p \in Proc, NEW s \in Session, NEW ks, NEW l,
              \A q \in Proc : q # p => ~Locks(q, s),
              status' = [status EXCEPT ![s] = l], ThenDelete(p, ks)
      PROVE  LockInv'
  <2>1. pc' = [pc EXCEPT ![p] = "deleting"] /\ sess' = [sess EXCEPT ![p] = NoSession]
    BY <1>10
  <2> QED
    BY <1>0, <1>10, <2>1, EndUnlocks
<1>11. ASSUME NEW p \in Proc, Finish(p) \/ FinishSkipped(p)
      PROVE  LockInv'
  <2>1. sess[p] \in Session /\ \A q \in Proc : q # p => ~Locks(q, sess[p])
    BY <1>11 DEF Finish, FinishSkipped, LocalInv, LockInv, Locks
  <2> QED
    BY <1>10, <1>11, <2>1 DEF Finish, FinishSkipped
<1>12. ASSUME NEW p \in Proc,
              ResumeFails(p) \/ (\E d \in File : ResumeDeclares(p, d)) \/
              AnswerIncomplete(p) \/ AssembleFails(p) \/ FinishFails(p) \/ Done(p) \/ Crash(p)
      PROVE  LockInv'
  <2>1. Return(p) /\ status' = status
    BY <1>12 DEF ResumeFails, ResumeDeclares, AnswerIncomplete, AssembleFails, FinishFails, Done, Crash
  <2> QED
    BY <2>1, <1>4
<1>13. ASSUME NEW p \in Proc, NEW s \in Session, Abort(p, s)
      PROVE  LockInv'
  BY <1>10, <1>13 DEF Abort, LockFree
<1>14. ASSUME NEW p \in Proc, NEW k \in Key, DeleteStaged(p, k)
      PROVE  LockInv'
  BY <1>1, <1>14 DEF DeleteStaged
<1>15. ASSUME NEW s \in Session, ReadExpired(s)
      PROVE  LockInv'
  <2>1. /\ status' = status
        /\ pc' = [pc EXCEPT ![Janitor] = "expiring"]
        /\ sess' = [sess EXCEPT ![Janitor] = s]
    BY <1>15 DEF ReadExpired
  <2> QED
    BY <1>0, <2>1, NoNewLock
<1>16. CASE DeleteRows
  <2>1. UNCHANGED <<status, sess>> /\ pc' = [pc EXCEPT ![Janitor] = "expired"]
    BY <1>16 DEF DeleteRows
  <2> QED
    BY <1>0, <2>1, NoNewLock
<1>17. CASE DeleteSession
  <2>1. sess[Janitor] \in Session
    BY <1>0, <1>17 DEF DeleteSession, LocalInv
  <2> QED
    BY <1>0, <1>10, <1>17, <2>1 DEF DeleteSession, LockFree
<1>18. CASE DeadlockVictim \/ DeferSweep
  BY <1>0, <1>4, <1>18 DEF DeadlockVictim, DeferSweep
<1>21. ASSUME NEW p \in Proc, Advance(p)
       PROVE  LockInv'
  <2>1. UNCHANGED <<status, sess>> /\ \E l \in Advanced : pc' = [pc EXCEPT ![p] = l]
    BY <1>21, AdvanceMoves
  <2> QED
    BY <1>0, <2>1, NoNewLock DEF Advanced
<1>19. CASE (\E s \in Session : Expire(s)) \/ (\E k \in Key : Age(k))
  BY <1>1, <1>19 DEF Expire, Age
<1>20. CASE UNCHANGED vars
  BY <1>1, <1>20 DEF vars, local
<1> QED
  BY <1>2, <1>3, <1>5, <1>6, <1>7, <1>8, <1>9, <1>11, <1>12, <1>13, <1>14, <1>15, <1>16,
     <1>17, <1>18, <1>19, <1>20, <1>21, StepCases

(* Reading and deleting rows keeps SentInv; recording and reading them all   *)
(* are treated below.                                                        *)
LEMMA SentFrame ==
    ASSUME SentInv, sent' = sent,
           \A s \in Session, c \in Chunk : row'[<<s, c>>] \in {NoKey, row[<<s, c>>]},
           \A q \in Proc : pc'[q] \in {"assembling", "assembled", "finLocked"} =>
               /\ pc[q] \in {"assembling", "assembled", "finLocked"}
               /\ parts'[q] = parts[q]
               /\ sess'[q] = sess[q]
    PROVE  SentInv'
BY DEF SentInv

LEMMA SentStep == TypeOK /\ LocalInv /\ SentInv /\ [Next]_vars => SentInv'
<1> SUFFICES ASSUME TypeOK, LocalInv, SentInv, [Next]_vars PROVE SentInv'
  OBVIOUS
<1> USE DEF Goto, Forget, Return, ThenDelete, local
<1>0. /\ Janitor \in Proc
      /\ pc \in [Proc -> PC] /\ sess \in [Proc -> Session \cup {NoSession}]
      /\ parts \in [Proc -> [Chunk -> Key \cup {NoKey}]]
      /\ row \in [Part -> Key \cup {NoKey}]
      /\ sent \in [Session -> SUBSET (Chunk \X Data)]
  BY DEF Proc, TypeOK
<1>1. ASSUME NEW p \in Proc, NEW l, Goto(p, l), UNCHANGED <<row, sent>>,
             \/ l \notin {"assembling", "assembled", "finLocked"}
             \/ pc[p] \in {"assembling", "assembled", "finLocked"} /\ UNCHANGED <<parts, sess>>,
             \A q \in Proc \ {p} : parts'[q] = parts[q] /\ sess'[q] = sess[q]
      PROVE  SentInv'
  BY <1>0, <1>1, SentFrame
<1>2. ASSUME NEW p \in Proc, Return(p) \/ (\E ks : ThenDelete(p, ks)), sent' = sent,
             \A s \in Session, c \in Chunk : row'[<<s, c>>] \in {NoKey, row[<<s, c>>]}
      PROVE  SentInv'
  <2>1. /\ pc' = [pc EXCEPT ![p] = "idle"] \/ pc' = [pc EXCEPT ![p] = "deleting"]
        /\ sess' = [sess EXCEPT ![p] = NoSession] /\ parts' = [parts EXCEPT ![p] = NoParts]
    BY <1>2
  <2> QED
    BY <1>0, <1>2, <2>1, SentFrame
<1>3. CASE UNCHANGED <<pc, row, sent, parts, sess>>
  BY <1>3, SentFrame
<1>4. ASSUME NEW s \in Session, DropRows(s)
      PROVE  \A t \in Session, c \in Chunk : row'[<<t, c>>] \in {NoKey, row[<<t, c>>]}
  BY <1>4, PartType DEF DropRows
<1>5. ASSUME NEW s \in Session, NEW d \in File \cup {NoFile}, Create(s, d)
      PROVE  SentInv'
  BY <1>3, <1>5 DEF Create
<1>6. ASSUME NEW p \in Proc, NEW s \in Session, NEW c \in Chunk, NEW k \in Key, CheckChunk(p, s, c, k)
      PROVE  SentInv'
  BY <1>0, <1>1, <1>6 DEF CheckChunk
<1>7. ASSUME NEW p \in Proc, NEW s \in Session, StartFinalize(p, s) \/ ResumeReads(p, s)
      PROVE  SentInv'
  BY <1>0, <1>1, <1>7 DEF StartFinalize, ResumeReads
<1>8. ASSUME NEW p \in Proc, LockForPut(p)
      PROVE  SentInv'
  <2>1. CASE MayPut(sess[p])
    BY <1>1, <1>8, <2>1 DEF LockForPut
  <2>2. CASE ~MayPut(sess[p])
    BY <1>2, <1>8, <2>2 DEF LockForPut
  <2> QED
    BY <2>1, <2>2
<1>9. ASSUME NEW p \in Proc, Verify(p) \/ LockForFinish(p)
      PROVE  SentInv'
  <2>1. CASE Return(p)
    BY <1>2, <1>9, <2>1 DEF Verify, LockForFinish
  <2>2. CASE ~Return(p)
    BY <1>1, <1>9, <2>2 DEF Verify, LockForFinish
  <2> QED
    BY <2>1, <2>2
<1>10. ASSUME NEW p \in Proc, RecordChunk(p), NEW ks, ThenDelete(p, ks)
       PROVE  SentInv'
  <2> DEFINE s == sess[p]  c == chunk[p]  k == key[p]
  <2>1. s \in Session /\ c \in Chunk /\ k \in Key
    BY <1>10 DEF RecordChunk, LocalInv
  <2>2. /\ row' = [row EXCEPT ![<<s, c>>] = k]
        /\ sent' = [sent EXCEPT ![s] = sent[s] \cup {<<c, Written[k]>>}]
    BY <1>10 DEF RecordChunk
  <2>3. \A t \in Session : sent[t] \subseteq sent'[t]
    BY <1>0, <2>1, <2>2
  <2>4. /\ pc' = [pc EXCEPT ![p] = "deleting"]
        /\ sess' = [sess EXCEPT ![p] = NoSession] /\ parts' = [parts EXCEPT ![p] = NoParts]
    BY <1>10
  <2>5. ASSUME NEW t \in Session, NEW e \in Chunk, row'[<<t, e>>] # NoKey
        PROVE  <<e, Written[row'[<<t, e>>]]>> \in sent'[t]
    <3>1. CASE <<t, e>> = <<s, c>>
      BY <1>0, <2>1, <2>2, <3>1, PartType
    <3>2. CASE <<t, e>> # <<s, c>>
      <4>1. row'[<<t, e>>] = row[<<t, e>>]
        BY <1>0, <2>1, <2>2, <3>2, PartType
      <4> QED
        BY <2>3, <2>5, <4>1 DEF SentInv
    <3> QED
      BY <3>1, <3>2
  <2>6. ASSUME NEW q \in Proc, pc'[q] \in {"assembling", "assembled", "finLocked"}, NEW e \in Chunk
        PROVE  <<e, Written[parts'[q][e]]>> \in sent'[sess'[q]]
    <3>1. q # p /\ pc'[q] = pc[q] /\ sess'[q] = sess[q] /\ parts'[q] = parts[q]
      BY <1>0, <2>4, <2>6
    <3>2. sess[q] \in Session
      BY <2>6, <3>1 DEF LocalInv
    <3> QED
      BY <2>3, <2>6, <3>1, <3>2 DEF SentInv
  <2> QED
    BY <2>5, <2>6 DEF SentInv
<1>11. ASSUME NEW p \in Proc, CommitChunk(p) \/ ChunkAckLost(p)
       PROVE  SentInv'
  <2>1. RecordChunk(p) /\ \E ks : ThenDelete(p, ks)
    BY <1>11 DEF CommitChunk, ChunkAckLost
  <2> QED
    BY <1>10, <2>1
<1>12. ASSUME NEW p \in Proc, ChunkFails(p)
       PROVE  SentInv'
  BY <1>2, <1>12 DEF ChunkFails
<1>13. ASSUME NEW p \in Proc, ReadParts(p)
       PROVE  SentInv'
  <2>1. sess[p] \in Session
    BY <1>13 DEF ReadParts, LocalInv
  <2>2. \A c \in Chunk : <<c, Written[Rows(sess[p])[c]]>> \in sent[sess[p]]
    BY <1>13, <2>1 DEF SentInv, Rows, ReadParts, Complete
  <2>3. /\ pc' = [pc EXCEPT ![p] = "assembling"] /\ parts' = [parts EXCEPT ![p] = Rows(sess[p])]
        /\ UNCHANGED <<row, sent, sess>>
    BY <1>13 DEF ReadParts
  <2> QED
    BY <1>0, <2>1, <2>2, <2>3 DEF SentInv
<1>14. ASSUME NEW p \in Proc, ReadChunk(p)
       PROVE  SentInv'
  BY <1>3, <1>14 DEF ReadChunk
<1>15. ASSUME NEW p \in Proc, Finish(p) \/ FinishSkipped(p)
       PROVE  SentInv'
  <2>1. sess[p] \in Session
    BY <1>15 DEF Finish, FinishSkipped, LocalInv
  <2> QED
    BY <1>2, <1>4, <1>15, <2>1 DEF Finish, FinishSkipped
<1>16. ASSUME NEW p \in Proc,
              ResumeFails(p) \/ (\E d \in File : ResumeDeclares(p, d)) \/
              AnswerIncomplete(p) \/ AssembleFails(p) \/ FinishFails(p) \/ Done(p) \/ Crash(p)
       PROVE  SentInv'
  <2>1. Return(p) /\ UNCHANGED <<row, sent>>
    BY <1>16 DEF ResumeFails, ResumeDeclares, AnswerIncomplete, AssembleFails, FinishFails, Done, Crash
  <2> QED
    BY <2>1, <1>2
<1>17. ASSUME NEW p \in Proc, NEW s \in Session, Abort(p, s)
       PROVE  SentInv'
  BY <1>2, <1>4, <1>17 DEF Abort
<1>18. ASSUME NEW p \in Proc, NEW k \in Key, DeleteStaged(p, k)
       PROVE  SentInv'
  BY <1>3, <1>18 DEF DeleteStaged
<1>19. ASSUME NEW s \in Session, ReadExpired(s)
       PROVE  SentInv'
  <2>1. /\ UNCHANGED <<row, sent>> /\ Goto(Janitor, "expiring")
        /\ sess' = [sess EXCEPT ![Janitor] = s] /\ parts' = [parts EXCEPT ![Janitor] = Rows(s)]
    BY <1>19 DEF ReadExpired
  <2> QED
    BY <1>0, <1>1, <2>1
<1>20. CASE DeleteRows
  BY <1>0, <1>1, <1>20 DEF DeleteRows
<1>21. CASE DeleteSession
  <2>1. \A s \in Session, c \in Chunk : row'[<<s, c>>] \in {NoKey, row[<<s, c>>]}
    BY <1>21, PartType DEF DeleteSession
  <2> QED
    BY <1>0, <1>2, <1>21, <2>1 DEF DeleteSession
<1>22. CASE DeadlockVictim \/ DeferSweep
  BY <1>0, <1>2, <1>22 DEF DeadlockVictim, DeferSweep
<1>24. ASSUME NEW p \in Proc, Advance(p)
       PROVE  SentInv'
  <2>1. UNCHANGED <<row, sent, parts, sess>> /\ \E l \in Advanced : Goto(p, l)
    BY <1>24, AdvanceMoves
  <2> QED
    BY <1>0, <1>1, <2>1 DEF Advanced
<1>25. ASSUME NEW p \in Proc, StoreFails(p)
       PROVE  SentInv'
  <2>1. UNCHANGED <<row, sent>> /\ ThenDelete(p, {key[p]})
    BY <1>25 DEF StoreFails
  <2> QED
    BY <1>2, <2>1
<1>23. CASE (\E s \in Session : Expire(s)) \/ (\E k \in Key : Age(k)) \/ UNCHANGED vars
  BY <1>3, <1>23 DEF Expire, Age, vars
<1> QED
  BY <1>5, <1>6, <1>7, <1>8, <1>9, <1>11, <1>12, <1>13, <1>14, <1>15, <1>16, <1>17, <1>18,
     <1>19, <1>20, <1>21, <1>22, <1>23, <1>24, <1>25, StepCases

(* What DigestInv says of a finalize stays true while the finalize keeps     *)
(* what it read, and its session keeps its digest or stops being active.     *)
LEMMA DigestFrame ==
    ASSUME DigestInv,
           \A q \in Proc, s \in Session : Finalizing(q, s)' =>
               Finalizing(q, s) /\ expect'[q] = expect[q],
           \A q \in Proc : pc'[q] \in {"assembled", "finLocked"} =>
               /\ pc[q] \in {"assembled", "finLocked"}
               /\ parts'[q] = parts[q]
               /\ expect'[q] = expect[q],
           \A s \in Session :
               /\ status'[s] = "none" => status[s] = "none"
               /\ status'[s] = "active" => status[s] \in {"none", "active"}
               /\ status'[s] = "active" /\ status[s] = "active" => digest'[s] = digest[s]
    PROVE  DigestInv'
BY DEF DigestInv, Verified, Content

LEMMA DigestStep == TypeOK /\ LocalInv /\ DigestInv /\ [Next]_vars => DigestInv'
<1> SUFFICES ASSUME TypeOK, LocalInv, DigestInv, [Next]_vars PROVE DigestInv'
  OBVIOUS
<1> USE DEF Goto, Forget, Return, ThenDelete, local
<1>0. /\ Janitor \in Proc
      /\ pc \in [Proc -> PC] /\ sess \in [Proc -> Session \cup {NoSession}]
      /\ parts \in [Proc -> [Chunk -> Key \cup {NoKey}]]
      /\ expect \in [Proc -> File \cup {NoFile}]
      /\ digest \in [Session -> File \cup {NoFile}]
      /\ status \in [Session -> {"none", "active", "finalized", "skipped", "gone"}]
      /\ NoSession \notin Session
  BY ConstantsAssumption DEF Proc, TypeOK
<1>1. ASSUME NEW p \in Proc, NEW l, Goto(p, l), UNCHANGED <<status, digest>>,
             \/ l \notin {"finalizing", "assembling", "assembled", "finLocked"}
             \/ /\ l = "assembling" /\ pc[p] = "finalizing"
                /\ UNCHANGED <<sess, expect>>
             \/ /\ l = "finLocked" /\ pc[p] = "assembled"
                /\ UNCHANGED <<sess, parts, expect>>,
             \A q \in Proc \ {p} : parts'[q] = parts[q] /\ sess'[q] = sess[q] /\ expect'[q] = expect[q]
      PROVE  DigestInv'
  <2>1. \A q \in Proc \ {p} : pc'[q] = pc[q]
    BY <1>0, <1>1
  <2>2. pc'[p] = l
    BY <1>0, <1>1
  <2>3. \A q \in Proc, s \in Session : Finalizing(q, s)' =>
               Finalizing(q, s) /\ expect'[q] = expect[q]
    BY <1>1, <2>1, <2>2 DEF Finalizing
  <2>4. \A q \in Proc : pc'[q] \in {"assembled", "finLocked"} =>
               /\ pc[q] \in {"assembled", "finLocked"}
               /\ parts'[q] = parts[q]
               /\ expect'[q] = expect[q]
    BY <1>1, <2>1, <2>2
  <2> QED
    BY <1>1, <2>3, <2>4, DigestFrame
<1>2. ASSUME NEW p \in Proc, Return(p) \/ (\E ks : ThenDelete(p, ks)),
             \A s \in Session :
               /\ status'[s] = "none" => status[s] = "none"
               /\ status'[s] = "active" => status[s] = "active" /\ digest'[s] = digest[s]
      PROVE  DigestInv'
  <2>1. /\ pc' = [pc EXCEPT ![p] = "idle"] \/ pc' = [pc EXCEPT ![p] = "deleting"]
        /\ sess' = [sess EXCEPT ![p] = NoSession] /\ parts' = [parts EXCEPT ![p] = NoParts]
        /\ expect' = [expect EXCEPT ![p] = NoFile]
    BY <1>2
  <2>2. \A q \in Proc, s \in Session : Finalizing(q, s)' =>
               Finalizing(q, s) /\ expect'[q] = expect[q]
    BY <1>0, <2>1 DEF Finalizing
  <2>3. \A q \in Proc : pc'[q] \in {"assembled", "finLocked"} =>
               /\ pc[q] \in {"assembled", "finLocked"}
               /\ parts'[q] = parts[q]
               /\ expect'[q] = expect[q]
    BY <1>0, <2>1
  <2> QED
    BY <1>2, <2>2, <2>3, DigestFrame
<1>3. ASSUME UNCHANGED <<status, digest>>
      PROVE  \A s \in Session :
               /\ status'[s] = "none" => status[s] = "none"
               /\ status'[s] = "active" => status[s] = "active" /\ digest'[s] = digest[s]
  BY <1>3
<1>4. CASE UNCHANGED <<status, digest, pc, parts, sess, expect>>
  BY <1>4 DEF DigestInv, Finalizing, Verified, Content
<1>5. ASSUME NEW s \in Session, NEW d \in File \cup {NoFile}, Create(s, d)
      PROVE  DigestInv'
  <2>1. /\ status[s] = "none" /\ status' = [status EXCEPT ![s] = "active"]
        /\ digest' = [digest EXCEPT ![s] = d] /\ UNCHANGED <<pc, parts, sess, expect>>
    BY <1>5 DEF Create
  <2>2. \A q \in Proc : ~Finalizing(q, s)
    BY <2>1 DEF DigestInv
  <2> QED
    BY <1>0, <2>1, <2>2 DEF DigestInv, Finalizing, Verified, Content
<1>6. ASSUME NEW p \in Proc, NEW d \in File, ResumeDeclares(p, d)
      PROVE  DigestInv'
  <2> DEFINE s == sess[p]
  <2>1. /\ s \in Session /\ pc[p] = "resuming"
        /\ LateDigest \/ \A q \in Proc : ~Finalizing(q, s)
        /\ digest' = [digest EXCEPT ![s] = d] /\ UNCHANGED status
        /\ pc' = [pc EXCEPT ![p] = "idle"] /\ sess' = [sess EXCEPT ![p] = NoSession]
        /\ expect' = [expect EXCEPT ![p] = NoFile] /\ parts' = [parts EXCEPT ![p] = NoParts]
    BY <1>6 DEF ResumeDeclares, LocalInv
  <2>2. \A q \in Proc : q # p =>
            pc'[q] = pc[q] /\ sess'[q] = sess[q] /\ expect'[q] = expect[q] /\ parts'[q] = parts[q]
    BY <1>0, <2>1
  <2>3. pc'[p] = "idle"
    BY <1>0, <2>1
  <2>4. \A q \in Proc, t \in Session : Finalizing(q, t)' => q # p /\ Finalizing(q, t)
    BY <2>2, <2>3 DEF Finalizing
  <2>5. \A q \in Proc, t \in Session : Finalizing(q, t) /\ ~LateDigest => t # s /\ digest'[t] = digest[t]
    BY <1>0, <2>1
  <2>6. \A q \in Proc : pc'[q] \in {"assembled", "finLocked"} =>
            q # p /\ pc[q] \in {"assembled", "finLocked"} /\ expect'[q] = expect[q] /\ parts'[q] = parts[q]
    BY <2>2, <2>3
  <2>7. \A q \in Proc : pc'[q] \in {"assembled", "finLocked"} => Verified(q)'
    BY <2>6 DEF DigestInv, Verified, Content
  <2> QED
    BY <2>1, <2>2, <2>4, <2>5, <2>7 DEF DigestInv
<1>26. ASSUME NEW p \in Proc, NEW s \in Session, ResumeReads(p, s)
      PROVE  DigestInv'
  BY <1>0, <1>1, <1>26 DEF ResumeReads
<1>7. ASSUME NEW p \in Proc, NEW s \in Session, NEW c \in Chunk, NEW k \in Key, CheckChunk(p, s, c, k)
      PROVE  DigestInv'
  BY <1>0, <1>1, <1>7 DEF CheckChunk
<1>8. ASSUME NEW p \in Proc, NEW s \in Session, StartFinalize(p, s)
      PROVE  DigestInv'
  <2>1. /\ status[s] # "none" /\ pc' = [pc EXCEPT ![p] = "finalizing"]
        /\ sess' = [sess EXCEPT ![p] = s] /\ expect' = [expect EXCEPT ![p] = digest[s]]
        /\ UNCHANGED <<status, digest, parts>>
    BY <1>8 DEF StartFinalize
  <2> QED
    BY <1>0, <2>1 DEF DigestInv, Finalizing, Verified, Content
<1>9. ASSUME NEW p \in Proc, LockForPut(p)
      PROVE  DigestInv'
  <2>1. CASE MayPut(sess[p])
    BY <1>1, <1>9, <2>1 DEF LockForPut
  <2>2. CASE ~MayPut(sess[p])
    BY <1>2, <1>3, <1>9, <2>2 DEF LockForPut
  <2> QED
    BY <2>1, <2>2
<1>10. ASSUME NEW p \in Proc, Verify(p)
       PROVE  DigestInv'
  <2>1. CASE Verified(p)
    <3>1. /\ pc[p] = "assembling" /\ pc' = [pc EXCEPT ![p] = "assembled"]
          /\ UNCHANGED <<status, digest, parts, sess, expect>>
      BY <1>10, <2>1 DEF Verify
    <3> QED
      BY <1>0, <2>1, <3>1 DEF DigestInv, Finalizing, Verified, Content
  <2>2. CASE ~Verified(p)
    BY <1>2, <1>3, <1>10, <2>2 DEF Verify
  <2> QED
    BY <2>1, <2>2
<1>11. ASSUME NEW p \in Proc, LockForFinish(p)
       PROVE  DigestInv'
  <2>1. CASE MayFinish(sess[p])
    BY <1>1, <1>11, <2>1 DEF LockForFinish
  <2>2. CASE ~MayFinish(sess[p])
    BY <1>2, <1>3, <1>11, <2>2 DEF LockForFinish
  <2> QED
    BY <2>1, <2>2
<1>12. ASSUME NEW p \in Proc, CommitChunk(p) \/ ChunkAckLost(p) \/ ChunkFails(p)
       PROVE  DigestInv'
  <2>1. UNCHANGED <<status, digest>> /\ \E ks : ThenDelete(p, ks)
    BY <1>12 DEF CommitChunk, ChunkAckLost, ChunkFails, RecordChunk
  <2> QED
    BY <2>1, <1>2, <1>3
<1>13. ASSUME NEW p \in Proc, ReadParts(p)
       PROVE  DigestInv'
  <2>1. /\ pc[p] = "finalizing" /\ Goto(p, "assembling") /\ parts' = [parts EXCEPT ![p] = Rows(sess[p])]
        /\ UNCHANGED <<status, digest, sess, expect>>
    BY <1>13 DEF ReadParts
  <2> QED
    BY <1>0, <1>1, <2>1
<1>14. ASSUME NEW p \in Proc, ReadChunk(p)
       PROVE  DigestInv'
  BY <1>4, <1>14 DEF ReadChunk
<1>15. ASSUME NEW p \in Proc, NEW s \in Session, NEW l, l \in {"finalized", "skipped", "gone"},
              status' = [status EXCEPT ![s] = l],
              \A t \in Session : t # s => digest'[t] = digest[t]
       PROVE  \A t \in Session :
               /\ status'[t] = "none" => status[t] = "none"
               /\ status'[t] = "active" => status[t] = "active" /\ digest'[t] = digest[t]
  BY <1>0, <1>15
<1>16. ASSUME NEW p \in Proc, Finish(p)
       PROVE  DigestInv'
  <2>1. sess[p] \in Session
    BY <1>16 DEF Finish, LocalInv
  <2>2. /\ status' = [status EXCEPT ![sess[p]] = "finalized"]
        /\ digest' = [digest EXCEPT ![sess[p]] = Content(parts[p])]
        /\ ThenDelete(p, Keys(parts[p]))
    BY <1>16 DEF Finish
  <2>3. \A t \in Session : t # sess[p] => digest'[t] = digest[t]
    BY <1>0, <2>2
  <2> QED
    BY <1>2, <1>15, <2>1, <2>2, <2>3
<1>17. ASSUME NEW p \in Proc, FinishSkipped(p)
       PROVE  DigestInv'
  <2>1. sess[p] \in Session
    BY <1>17 DEF FinishSkipped, LocalInv
  <2>2. /\ status' = [status EXCEPT ![sess[p]] = "skipped"] /\ digest' = digest
        /\ ThenDelete(p, Keys(parts[p]))
    BY <1>17 DEF FinishSkipped
  <2> QED
    BY <1>2, <1>15, <2>1, <2>2
<1>18. ASSUME NEW p \in Proc,
              ResumeFails(p) \/ AnswerIncomplete(p) \/ AssembleFails(p) \/ FinishFails(p) \/ Done(p) \/ Crash(p)
       PROVE  DigestInv'
  <2>1. Return(p) /\ UNCHANGED <<status, digest>>
    BY <1>18 DEF ResumeFails, AnswerIncomplete, AssembleFails, FinishFails, Done, Crash
  <2> QED
    BY <2>1, <1>2, <1>3
<1>19. ASSUME NEW p \in Proc, NEW s \in Session, Abort(p, s)
       PROVE  DigestInv'
  <2>1. /\ status' = [status EXCEPT ![s] = "gone"] /\ digest' = digest
        /\ ThenDelete(p, Keys(Rows(s)))
    BY <1>19 DEF Abort
  <2> QED
    BY <1>2, <1>15, <2>1
<1>20. ASSUME NEW p \in Proc, NEW k \in Key, DeleteStaged(p, k)
       PROVE  DigestInv'
  BY <1>4, <1>20 DEF DeleteStaged
<1>21. ASSUME NEW s \in Session, ReadExpired(s)
       PROVE  DigestInv'
  <2>1. /\ UNCHANGED <<status, digest, expect>> /\ Goto(Janitor, "expiring")
        /\ sess' = [sess EXCEPT ![Janitor] = s] /\ parts' = [parts EXCEPT ![Janitor] = Rows(s)]
    BY <1>21 DEF ReadExpired
  <2> QED
    BY <1>0, <1>1, <2>1
<1>22. CASE DeleteRows
  BY <1>0, <1>1, <1>22 DEF DeleteRows
<1>23. CASE DeleteSession
  <2>1. sess[Janitor] \in Session
    BY <1>0, <1>23 DEF DeleteSession, LocalInv
  <2>2. /\ status' = [status EXCEPT ![sess[Janitor]] = "gone"] /\ digest' = digest
        /\ ThenDelete(Janitor, Keys(parts[Janitor]))
    BY <1>23 DEF DeleteSession
  <2> QED
    BY <1>0, <1>2, <1>15, <2>1, <2>2
<1>24. CASE DeadlockVictim \/ DeferSweep
  BY <1>0, <1>2, <1>3, <1>24 DEF DeadlockVictim, DeferSweep
<1>27. ASSUME NEW p \in Proc, Advance(p)
       PROVE  DigestInv'
  <2>1. UNCHANGED <<status, digest, parts, sess, expect>> /\ \E l \in Advanced : Goto(p, l)
    BY <1>27, AdvanceMoves
  <2> QED
    BY <1>0, <1>1, <2>1 DEF Advanced
<1>28. ASSUME NEW p \in Proc, StoreFails(p)
       PROVE  DigestInv'
  <2>1. UNCHANGED <<status, digest>> /\ ThenDelete(p, {key[p]})
    BY <1>28 DEF StoreFails
  <2> QED
    BY <1>2, <1>3, <2>1
<1>25. CASE (\E s \in Session : Expire(s)) \/ (\E k \in Key : Age(k)) \/ UNCHANGED vars
  BY <1>4, <1>25 DEF Expire, Age, vars
<1> QED
  BY <1>5, <1>6, <1>7, <1>8, <1>9, <1>10, <1>11, <1>12, <1>13, <1>14, <1>16, <1>17, <1>18,
     <1>19, <1>20, <1>21, <1>22, <1>23, <1>24, <1>25, <1>26, <1>27, <1>28,
     StepCases

LEMMA KeysNoParts == NoKey \notin Key => Keys(NoParts) = {}
BY DEF Keys, NoParts

(* Rows that are dropped, requests that return and objects that are deleted  *)
(* keep KeyInv, as long as no request loses the object it will record.       *)
LEMMA KeyFrame ==
    ASSUME TypeOK, KeyInv,
           old' \subseteq staged',
           \A x \in Part : row'[x] \in {NoKey, row[x]},
           \A s \in Session : status'[s] = "none" => status[s] = "none",
           \A q \in Proc : parts'[q] = NoParts \/ (parts'[q] = parts[q] /\ sess'[q] = sess[q]),
           \A q \in Proc : key'[q] # NoKey =>
               /\ key'[q] = key[q]
               /\ key[q] \notin old'
               /\ \A r \in Proc : key[q] \notin del'[r]
    PROVE  KeyInv'
<1>1. Keys(NoParts) = {}
  BY KeysNoParts, ConstantsAssumption
<1>2. \A x \in Part : status'[x[1]] = "none" => row'[x] = NoKey
  BY PartParts DEF KeyInv
<1>3. \A x, y \in Part : row'[x] = row'[y] /\ row'[x] # NoKey => x = y
  BY DEF KeyInv
<1>4. ASSUME NEW q \in Proc
      PROVE  \/ Keys(parts'[q]) = {}
             \/ Keys(parts'[q]) = Keys(parts[q]) /\ sess'[q] = sess[q]
  BY <1>1
<1>5. \A x \in Part, p \in Proc : row'[x] # NoKey /\ row'[x] \in Keys(parts'[p]) => x[1] = sess'[p]
  BY <1>4 DEF KeyInv
<1>6. ASSUME NEW p \in Proc, key'[p] # NoKey
      PROVE  /\ key'[p] \notin old'
             /\ \A x \in Part : row'[x] # key'[p]
             /\ \A q \in Proc : key'[p] \notin del'[q] \cup Keys(parts'[q])
             /\ \A q \in Proc : key'[q] = key'[p] => q = p
  <2>1. key'[p] = key[p] /\ \A q \in Proc : key'[q] = key'[p] => key'[q] = key[q]
    BY <1>6
  <2>2. \A q \in Proc : key[p] \notin Keys(parts'[q])
    BY <1>4, <1>6, <2>1 DEF KeyInv
  <2>3. \A x \in Part : row'[x] # key[p]
    BY <1>6, <2>1 DEF KeyInv
  <2>4. \A q \in Proc : key'[q] = key'[p] => q = p
    BY <1>6, <2>1 DEF KeyInv
  <2> QED
    BY <1>6, <2>1, <2>2, <2>3, <2>4
<1> QED
  BY <1>2, <1>3, <1>5, <1>6 DEF KeyInv, Keys

LEMMA LockActive ==
    ASSUME LocalInv, LockInv, NEW p \in Proc, pc[p] \in {"putLocked", "finLocked"}
    PROVE  sess[p] \in Session /\ status[sess[p]] = "active"
BY DEF LocalInv, LockInv, Locks

(* No row names the object a request is about to record.                     *)
LEMMA KeysOfRows ==
    ASSUME KeyInv, NEW s \in Session, NEW q \in Proc, key[q] # NoKey
    PROVE  key[q] \notin Keys(Rows(s))
<1>1. \A c \in Chunk : row[<<s, c>>] # key[q]
  BY PartType DEF KeyInv
<1> QED
  BY <1>1 DEF Keys, Rows

LEMMA KeyStep == TypeOK /\ LocalInv /\ LockInv /\ KeyInv /\ [Next]_vars => KeyInv'
<1> SUFFICES ASSUME TypeOK, LocalInv, LockInv, KeyInv, [Next]_vars PROVE KeyInv'
  OBVIOUS
<1> USE DEF Goto, Forget, Return, ThenDelete, local, store
<1>0. /\ Janitor \in Proc
      /\ pc \in [Proc -> PC] /\ sess \in [Proc -> Session \cup {NoSession}]
      /\ parts \in [Proc -> [Chunk -> Key \cup {NoKey}]]
      /\ key \in [Proc -> Key \cup {NoKey}] /\ del \in [Proc -> SUBSET Key]
      /\ row \in [Part -> Key \cup {NoKey}] /\ staged \subseteq Key
      /\ status \in [Session -> {"none", "active", "finalized", "skipped", "gone"}]
      /\ NoKey \notin Key
  BY ConstantsAssumption DEF Proc, TypeOK
<1>1. CASE /\ UNCHANGED <<row, staged, old, parts, sess, key, del>>
           /\ \A s \in Session : status'[s] = "none" => status[s] = "none"
  BY <1>1, KeyFrame DEF KeyInv
<1>2. ASSUME NEW p \in Proc, NEW ks, old' = old, staged \subseteq staged',
             del' = [del EXCEPT ![p] = ks], Forget(p),
             \A x \in Part : row'[x] \in {NoKey, row[x]},
             \A s \in Session : status'[s] = "none" => status[s] = "none",
             \A q \in Proc : q # p /\ key[q] # NoKey => key[q] \notin ks
      PROVE  KeyInv'
  <2>1. old' \subseteq staged'
    BY <1>2 DEF KeyInv
  <2>2. \A q \in Proc : parts'[q] = NoParts \/ (parts'[q] = parts[q] /\ sess'[q] = sess[q])
    BY <1>0, <1>2
  <2>3. \A q \in Proc : key'[q] # NoKey => q # p /\ key'[q] = key[q]
    BY <1>0, <1>2
  <2>4. \A q, r \in Proc : key'[q] # NoKey => key[q] \notin del'[r]
    BY <1>0, <1>2, <2>3 DEF KeyInv
  <2>5. \A q \in Proc : key'[q] # NoKey =>
               /\ key'[q] = key[q]
               /\ key[q] \notin old'
               /\ \A r \in Proc : key[q] \notin del'[r]
    BY <1>2, <2>3, <2>4 DEF KeyInv
  <2> HIDE DEF Forget
  <2> QED
    BY <1>2, <2>1, <2>2, <2>5, KeyFrame
<1>3. ASSUME NEW p \in Proc, Return(p), UNCHANGED <<staged, old, row, status>>
      PROVE  KeyInv'
  <2>1. Forget(p) /\ del' = [del EXCEPT ![p] = {}] /\ UNCHANGED <<staged, old>>
    BY <1>3
  <2>2. \A x \in Part : row'[x] \in {NoKey, row[x]}
    BY <1>3
  <2> HIDE DEF Forget
  <2> QED
    BY <1>2, <1>3, <2>1, <2>2
<1>4. ASSUME NEW s \in Session, NEW d \in File \cup {NoFile}, Create(s, d)
      PROVE  KeyInv'
  BY <1>0, <1>1, <1>4 DEF Create
<1>5. ASSUME NEW p \in Proc, NEW s \in Session, NEW c \in Chunk, NEW k \in Key, CheckChunk(p, s, c, k)
      PROVE  KeyInv'
  <2>1. /\ Fresh(k) /\ key' = [key EXCEPT ![p] = k]
        /\ sess' = [sess EXCEPT ![p] = s] /\ UNCHANGED <<row, status, staged, old, parts, del>>
    BY <1>5 DEF CheckChunk
  <2>2. \A q \in Proc : key'[q] = IF q = p THEN k ELSE key[q]
    BY <1>0, <2>1
  <2>3. /\ k \notin old /\ \A x \in Part : row[x] # k
        /\ \A q \in Proc : key[q] # k /\ k \notin Keys(parts[q]) \cup del[q]
    BY <2>1 DEF Fresh, KeyInv
  <2>4. Keys(parts[p]) = {}
    BY <1>0, <1>5, KeysNoParts DEF CheckChunk, LocalInv
  <2> QED
    BY <1>0, <2>1, <2>2, <2>3, <2>4 DEF KeyInv
<1>6. ASSUME NEW p \in Proc, NEW s \in Session, StartFinalize(p, s) \/ ResumeReads(p, s)
      PROVE  KeyInv'
  <2>1. /\ UNCHANGED <<staged, old, row, status, key, del, parts>> /\ sess' = [sess EXCEPT ![p] = s]
        /\ parts[p] = NoParts
    BY <1>6 DEF StartFinalize, ResumeReads, LocalInv
  <2>2. \A q \in Proc : parts'[q] = NoParts \/ (parts'[q] = parts[q] /\ sess'[q] = sess[q])
    BY <1>0, <2>1
  <2> QED
    BY <2>1, <2>2, KeyFrame DEF KeyInv
<1>7. ASSUME NEW p \in Proc, UNCHANGED <<old, row, status>>, staged \subseteq staged',
             ThenDelete(p, {key[p]})
      PROVE  KeyInv'
  <2>1. \A q \in Proc : q # p /\ key[q] # NoKey => key[q] \notin {key[p]}
    BY <1>7 DEF KeyInv
  <2> QED
    BY <1>2, <1>7, <2>1
<1>8. ASSUME NEW p \in Proc, LockForPut(p)
      PROVE  KeyInv'
  <2>1. CASE MayPut(sess[p])
    BY <1>1, <1>8, <2>1 DEF LockForPut
  <2>2. CASE ~MayPut(sess[p])
    BY <1>7, <1>8, <2>2 DEF LockForPut
  <2> QED
    BY <2>1, <2>2
<1>9. ASSUME NEW p \in Proc, ChunkFails(p)
      PROVE  KeyInv'
  BY <1>7, <1>9 DEF ChunkFails
<1>10. ASSUME NEW p \in Proc, RecordChunk(p), NEW ks, ThenDelete(p, ks),
              \A q \in Proc : q # p /\ key[q] # NoKey => key[q] \notin ks
       PROVE  KeyInv'
  <2> DEFINE x == <<sess[p], chunk[p]>>
  <2>1. x \in Part /\ sess[p] \in Session /\ key[p] \in Key
    BY <1>10, PartType DEF RecordChunk, LocalInv
  <2>2. \A y \in Part : row'[y] = IF y = x THEN key[p] ELSE row[y]
    BY <1>0, <1>10, <2>1 DEF RecordChunk
  <2>3. /\ key' = [key EXCEPT ![p] = NoKey] /\ parts' = [parts EXCEPT ![p] = NoParts]
        /\ sess' = [sess EXCEPT ![p] = NoSession] /\ del' = [del EXCEPT ![p] = ks]
        /\ UNCHANGED <<status, staged, old>>
    BY <1>10 DEF RecordChunk
  <2>4. /\ \A y \in Part : row[y] # key[p]
        /\ \A q \in Proc : key[p] \notin Keys(parts[q])
        /\ \A q \in Proc : q # p => key[q] # key[p]
    BY <2>1, <1>0 DEF KeyInv
  <2>5. \A y \in Part : status'[y[1]] = "none" => row'[y] = NoKey
    <3>1. status[sess[p]] # "none"
      BY <1>10, LockActive DEF RecordChunk
    <3> QED
      BY <2>2, <2>3, <3>1 DEF KeyInv
  <2>6. \A y, z \in Part : row'[y] = row'[z] /\ row'[y] # NoKey => y = z
    BY <2>2, <2>4 DEF KeyInv
  <2>7. ASSUME NEW y \in Part, NEW q \in Proc, row'[y] # NoKey, row'[y] \in Keys(parts[q])'
        PROVE  y[1] = sess'[q]
    <3>1. q # p
      BY <1>0, <2>3, <2>7, KeysNoParts DEF Keys
    <3>2. Keys(parts[q])' = Keys(parts[q]) /\ sess'[q] = sess[q]
      BY <1>0, <2>3, <3>1 DEF Keys
    <3> QED
      BY <2>2, <2>4, <2>7, <3>2 DEF KeyInv
  <2>8. ASSUME NEW q \in Proc, key'[q] # NoKey
        PROVE  /\ key'[q] \notin old'
               /\ \A y \in Part : row'[y] # key'[q]
               /\ \A r \in Proc : key'[q] \notin del'[r] \cup Keys(parts[r])'
               /\ \A r \in Proc : key'[r] = key'[q] => r = q
    <3>1. q # p /\ key'[q] = key[q]
      BY <1>0, <2>3, <2>8
    <3>2. \A r \in Proc : Keys(parts[r])' \subseteq Keys(parts[r])
      BY <1>0, <2>3, KeysNoParts DEF Keys
    <3>3. \A r \in Proc : key'[q] \notin del'[r]
      BY <1>0, <1>10, <2>3, <2>8, <3>1 DEF KeyInv
    <3>4. \A r \in Proc : key'[r] = key'[q] => r = q
      BY <1>0, <2>3, <2>8, <3>1 DEF KeyInv
    <3> QED
      BY <2>2, <2>3, <2>4, <2>8, <3>1, <3>2, <3>3, <3>4 DEF KeyInv
  <2> QED
    BY <2>3, <2>5, <2>6, <2>7, <2>8 DEF KeyInv
<1>11. ASSUME NEW p \in Proc, CommitChunk(p)
       PROVE  KeyInv'
  <2>1. <<sess[p], chunk[p]>> \in Part
    BY <1>11, PartType DEF CommitChunk, RecordChunk, LocalInv
  <2>2. \A q \in Proc : q # p /\ key[q] # NoKey => key[q] \notin {row[<<sess[p], chunk[p]>>]} \ {NoKey}
    BY <2>1 DEF KeyInv
  <2> QED
    BY <1>10, <1>11, <2>2 DEF CommitChunk
<1>12. ASSUME NEW p \in Proc, ChunkAckLost(p)
       PROVE  KeyInv'
  <2>1. \A q \in Proc : q # p /\ key[q] # NoKey => key[q] \notin {key[p]}
    BY DEF KeyInv
  <2>2. RecordChunk(p) /\ ThenDelete(p, {key[p]})
    BY <1>12 DEF ChunkAckLost
  <2> QED
    BY <1>10, <2>1, <2>2
<1>13. ASSUME NEW p \in Proc, NEW s \in Session,
              sess' = [sess EXCEPT ![p] = s], parts' = [parts EXCEPT ![p] = Rows(s)],
              UNCHANGED <<row, status, staged, old, key, del>>
       PROVE  KeyInv'
  <2>1. ASSUME NEW x \in Part, row[x] # NoKey, row[x] \in Keys(Rows(s))
        PROVE  x[1] = s
    <3>1. PICK c \in Chunk : row[x] = row[<<s, c>>]
      BY <2>1 DEF Keys, Rows
    <3>2. x = <<s, c>>
      BY <2>1, <3>1, PartType DEF KeyInv
    <3> QED
      BY <3>2
  <2>2. \A q \in Proc : key[q] # NoKey => key[q] \notin Keys(Rows(s))
    BY KeysOfRows
  <2>3. \A q \in Proc : /\ q = p => Keys(parts[q])' = Keys(Rows(s)) /\ sess'[q] = s
                        /\ q # p => Keys(parts[q])' = Keys(parts[q]) /\ sess'[q] = sess[q]
    BY <1>0, <1>13 DEF Keys, Rows
  <2>4. \A x \in Part, q \in Proc : row'[x] # NoKey /\ row'[x] \in Keys(parts[q])' => x[1] = sess'[q]
    BY <1>13, <2>1, <2>3 DEF KeyInv
  <2>5. \A q, r \in Proc : key'[q] # NoKey => key'[q] \notin del'[r] \cup Keys(parts[r])'
    BY <1>13, <2>2, <2>3 DEF KeyInv
  <2> QED
    BY <1>13, <2>4, <2>5 DEF KeyInv
<1>14. ASSUME NEW p \in Proc, ReadParts(p)
       PROVE  KeyInv'
  <2>1. sess[p] \in Session /\ sess' = [sess EXCEPT ![p] = sess[p]]
    BY <1>0, <1>14 DEF ReadParts, LocalInv
  <2> QED
    BY <1>13, <1>14, <2>1 DEF ReadParts
<1>15. ASSUME NEW s \in Session, ReadExpired(s)
       PROVE  KeyInv'
  BY <1>0, <1>13, <1>15 DEF ReadExpired
<1>16. ASSUME NEW p \in Proc, ReadChunk(p)
       PROVE  KeyInv'
  BY <1>1, <1>16 DEF ReadChunk
<1>17. ASSUME NEW p \in Proc, Verify(p) \/ LockForFinish(p)
       PROVE  KeyInv'
  <2>1. CASE Return(p)
    BY <1>3, <1>17, <2>1 DEF Verify, LockForFinish
  <2>2. CASE ~Return(p)
    BY <1>1, <1>17, <2>2 DEF Verify, LockForFinish
  <2> QED
    BY <2>1, <2>2
<1>18. ASSUME NEW p \in Proc, NEW s \in Session, NEW l, l # "none",
              status' = [status EXCEPT ![s] = l], UNCHANGED <<staged, old>>,
              \A x \in Part : row'[x] \in {NoKey, row[x]},
              NEW ks, ThenDelete(p, ks), \A q \in Proc : key[q] # NoKey => key[q] \notin ks
       PROVE  KeyInv'
  BY <1>0, <1>2, <1>18
<1>19. ASSUME NEW s \in Session, DropRows(s)
       PROVE  \A x \in Part : row'[x] \in {NoKey, row[x]}
  BY <1>19 DEF DropRows
<1>20. \A p, q \in Proc : key[q] # NoKey => key[q] \notin Keys(parts[p])
  BY DEF KeyInv
<1>21. ASSUME NEW p \in Proc, Finish(p) \/ FinishSkipped(p)
       PROVE  KeyInv'
  <2>1. sess[p] \in Session
    BY <1>21 DEF Finish, FinishSkipped, LocalInv
  <2>2. PICK l : /\ l # "none" /\ status' = [status EXCEPT ![sess[p]] = l]
                 /\ DropRows(sess[p]) /\ ThenDelete(p, Keys(parts[p])) /\ UNCHANGED <<staged, old>>
    <3>1. CASE Finish(p)
      BY <3>1 DEF Finish
    <3>2. CASE FinishSkipped(p)
      BY <3>2 DEF FinishSkipped
    <3> QED
      BY <1>21, <3>1, <3>2
  <2>3. \A x \in Part : row'[x] \in {NoKey, row[x]}
    BY <1>19, <2>1, <2>2
  <2> HIDE DEF ThenDelete
  <2> QED
    BY <1>18, <1>20, <2>1, <2>2, <2>3
<1>22. ASSUME NEW p \in Proc,
              ResumeFails(p) \/ (\E d \in File : ResumeDeclares(p, d)) \/
              AnswerIncomplete(p) \/ AssembleFails(p) \/ FinishFails(p) \/ Done(p) \/ Crash(p)
       PROVE  KeyInv'
  <2>1. Return(p) /\ UNCHANGED <<staged, old, row, status>>
    BY <1>22 DEF ResumeFails, ResumeDeclares, AnswerIncomplete, AssembleFails, FinishFails, Done, Crash
  <2> QED
    BY <1>3, <2>1
<1>23. ASSUME NEW p \in Proc, NEW s \in Session, Abort(p, s)
       PROVE  KeyInv'
  <2>1. \A q \in Proc : key[q] # NoKey => key[q] \notin Keys(Rows(s))
    BY KeysOfRows
  <2> QED
    BY <1>18, <1>19, <1>23, <2>1 DEF Abort
<1>24. ASSUME NEW p \in Proc, NEW k \in Key, DeleteStaged(p, k)
       PROVE  KeyInv'
  <2>1. /\ k \in del[p] /\ del' = [del EXCEPT ![p] = @ \ {k}]
        /\ staged' = staged \ {k} /\ old' = old \ {k} /\ UNCHANGED <<row, status, parts, sess, key>>
    BY <1>24 DEF DeleteStaged
  <2>2. \A q \in Proc : key[q] # NoKey => key[q] # k
    BY <2>1 DEF KeyInv
  <2>3. \A q \in Proc : del'[q] \subseteq del[q]
    BY <1>0, <2>1
  <2>4. \A q \in Proc : key'[q] # NoKey =>
               /\ key'[q] = key[q]
               /\ key[q] \notin old'
               /\ \A r \in Proc : key[q] \notin del'[r]
    BY <2>1, <2>2, <2>3 DEF KeyInv
  <2> QED
    BY <2>1, <2>4, KeyFrame DEF KeyInv
<1>25. CASE DeleteRows
  BY <1>1, <1>25 DEF DeleteRows
<1>26. CASE DeleteSession
  <2>1. sess[Janitor] \in Session
    BY <1>0, <1>26 DEF DeleteSession, LocalInv
  <2>2. \A x \in Part : row'[x] \in {NoKey, row[x]}
    BY <1>26 DEF DeleteSession
  <2> QED
    BY <1>0, <1>18, <1>20, <1>26, <2>1, <2>2 DEF DeleteSession
<1>27. CASE DeadlockVictim \/ DeferSweep
  BY <1>0, <1>3, <1>27 DEF DeadlockVictim, DeferSweep
<1>28. ASSUME NEW p \in Proc, Advance(p)
       PROVE  KeyInv'
  <2>1. UNCHANGED <<row, status, old, parts, sess, key>>
    BY <1>28, AdvanceMoves
  <2>2. staged \subseteq staged' /\ \A q \in Proc : del'[q] \subseteq del[q] \cup Orphans
    <3>1. CASE BeginStore(p) \/ StoreChunk(p) \/ BeginSweep
      BY <3>1 DEF BeginStore, StoreChunk, BeginSweep
    <3>2. CASE ScanStaging
      BY <1>0, <3>2 DEF ScanStaging
    <3> QED
      BY <1>28, <3>1, <3>2 DEF Advance
  <2>3. \A q \in Proc : key[q] # NoKey => key[q] \notin Orphans
    BY DEF Orphans, KeyInv
  <2>4. \A q \in Proc : key'[q] # NoKey =>
               /\ key'[q] = key[q]
               /\ key[q] \notin old'
               /\ \A r \in Proc : key[q] \notin del'[r]
    BY <2>1, <2>2, <2>3 DEF KeyInv
  <2>5. old' \subseteq staged'
    BY <2>1, <2>2 DEF KeyInv
  <2> QED
    BY <2>1, <2>4, <2>5, KeyFrame
<1>31. ASSUME NEW p \in Proc, StoreFails(p)
       PROVE  KeyInv'
  <2>1. /\ UNCHANGED <<old, row, status>> /\ staged \subseteq staged'
        /\ ThenDelete(p, {key[p]})
    BY <1>31 DEF StoreFails
  <2> QED
    BY <1>7, <2>1
<1>29. ASSUME NEW k \in Key, Age(k)
       PROVE  KeyInv'
  <2>1. /\ k \in staged /\ old' = old \cup {k} /\ \A q \in Proc : key[q] # k
        /\ UNCHANGED <<row, status, staged, parts, sess, key, del>>
    BY <1>29 DEF Age
  <2> QED
    BY <2>1, KeyFrame DEF KeyInv
<1>30. CASE (\E s \in Session : Expire(s)) \/ UNCHANGED vars
  BY <1>1, <1>30 DEF Expire, vars
<1> QED
  BY <1>4, <1>5, <1>6, <1>8, <1>9, <1>11, <1>12, <1>14, <1>15, <1>16, <1>17, <1>21, <1>22,
     <1>23, <1>24, <1>25, <1>26, <1>27, <1>28, <1>29, <1>30, <1>31,
     StepCases

(* What is recorded next is in the store: no one deletes the object of a     *)
(* request that has not recorded it.                                        *)
LEMMA StoredFrame ==
    ASSUME StoredInv, NEW p \in Proc, NEW l, TypeOK,
           pc' = [pc EXCEPT ![p] = l], l \notin {"stored", "putLocked"},
           \A q \in Proc \ {p} : key'[q] = key[q], staged \subseteq staged'
    PROVE  StoredInv'
BY DEF StoredInv, TypeOK

LEMMA StoredKept ==
    ASSUME StoredInv, UNCHANGED <<pc, key>>, staged \subseteq staged'
    PROVE  StoredInv'
BY DEF StoredInv

LEMMA StoredStep == TypeOK /\ LocalInv /\ KeyInv /\ StoredInv /\ [Next]_vars => StoredInv'
<1> SUFFICES ASSUME TypeOK, LocalInv, KeyInv, StoredInv, [Next]_vars PROVE StoredInv'
  OBVIOUS
<1> USE DEF Goto, Forget, Return, ThenDelete, store, local
<1>0. /\ Janitor \in Proc /\ pc \in [Proc -> PC] /\ key \in [Proc -> Key \cup {NoKey}]
      /\ del \in [Proc -> SUBSET Key] /\ NoKey \notin Key
  BY ConstantsAssumption DEF Proc, TypeOK
<1>1. ASSUME NEW p \in Proc, Return(p) \/ (\E ks : ThenDelete(p, ks)), staged \subseteq staged'
      PROVE  StoredInv'
  <2>1. /\ pc' = [pc EXCEPT ![p] = "idle"] \/ pc' = [pc EXCEPT ![p] = "deleting"]
        /\ \A q \in Proc \ {p} : key'[q] = key[q]
    BY <1>0, <1>1
  <2> QED
    BY <1>1, <2>1, StoredFrame
<1>2. ASSUME NEW p \in Proc, NEW s \in Session,
             ResumeReads(p, s) \/ StartFinalize(p, s) \/ \E c \in Chunk, k \in Key : CheckChunk(p, s, c, k)
      PROVE  StoredInv'
  <2>1. /\ \/ pc' = [pc EXCEPT ![p] = "checked"]
           \/ pc' = [pc EXCEPT ![p] = "finalizing"]
           \/ pc' = [pc EXCEPT ![p] = "resuming"]
        /\ staged' = staged /\ \A q \in Proc \ {p} : key'[q] = key[q]
    BY <1>0, <1>2 DEF ResumeReads, CheckChunk, StartFinalize
  <2> QED
    BY <2>1, StoredFrame
<1>3. ASSUME NEW p \in Proc, Advance(p)
      PROVE  StoredInv'
  <2>1. CASE StoreChunk(p)
    BY <1>0, <2>1 DEF StoreChunk, StoredInv
  <2>2. CASE ~StoreChunk(p)
    <3>1. /\ \/ pc' = [pc EXCEPT ![p] = "storing"]
             \/ pc' = [pc EXCEPT ![p] = "scanned"]
             \/ pc' = [pc EXCEPT ![p] = "sweeping"]
          /\ UNCHANGED <<staged, key>>
      BY <1>3, <2>2 DEF Advance, BeginStore, ScanStaging, BeginSweep
    <3> QED
      BY <3>1, StoredFrame
  <2> QED
    BY <2>1, <2>2
<1>4. ASSUME NEW p \in Proc, LockForPut(p)
      PROVE  StoredInv'
  <2>1. CASE MayPut(sess[p])
    <3>1. /\ pc[p] = "stored" /\ pc' = [pc EXCEPT ![p] = "putLocked"]
          /\ UNCHANGED <<staged, key>>
      BY <1>4, <2>1 DEF LockForPut
    <3> QED
      BY <1>0, <3>1 DEF StoredInv
  <2>2. CASE ~MayPut(sess[p])
    BY <1>1, <1>4, <2>2 DEF LockForPut
  <2> QED
    BY <2>1, <2>2
<1>5. ASSUME NEW p \in Proc,
             \/ CommitChunk(p) \/ ChunkAckLost(p) \/ ChunkFails(p) \/ StoreFails(p)
             \/ Finish(p) \/ FinishSkipped(p) \/ \E s \in Session : Abort(p, s)
      PROVE  StoredInv'
  <2>1. staged \subseteq staged' /\ \E ks : ThenDelete(p, ks)
    BY <1>5 DEF CommitChunk, ChunkAckLost, ChunkFails, StoreFails, RecordChunk, Finish, FinishSkipped, Abort
  <2> QED
    BY <1>1, <2>1
<1>6. ASSUME NEW p \in Proc,
             \/ ResumeFails(p) \/ \E d \in File : ResumeDeclares(p, d)
             \/ AnswerIncomplete(p) \/ AssembleFails(p) \/ FinishFails(p) \/ Done(p) \/ Crash(p)
      PROVE  StoredInv'
  <2>1. Return(p) /\ staged' = staged
    BY <1>6 DEF ResumeFails, ResumeDeclares, AnswerIncomplete, AssembleFails, FinishFails, Done, Crash
  <2> QED
    BY <1>1, <2>1
<1>7. ASSUME NEW p \in Proc, ReadParts(p) \/ Verify(p) \/ LockForFinish(p)
      PROVE  StoredInv'
  <2>1. \/ Return(p)
        \/ pc' = [pc EXCEPT ![p] = "assembling"] /\ key' = key
        \/ pc' = [pc EXCEPT ![p] = "assembled"] /\ key' = key
        \/ pc' = [pc EXCEPT ![p] = "finLocked"] /\ key' = key
    BY <1>7 DEF ReadParts, Verify, LockForFinish
  <2>2. staged' = staged
    BY <1>7 DEF ReadParts, Verify, LockForFinish
  <2> QED
    BY <1>1, <2>1, <2>2, StoredFrame
<1>8. ASSUME NEW p \in Proc, NEW k \in Key, DeleteStaged(p, k)
      PROVE  StoredInv'
  <2>1. k \in del[p] /\ staged' = staged \ {k} /\ UNCHANGED <<pc, key>>
    BY <1>8 DEF DeleteStaged
  <2>2. \A q \in Proc : pc[q] \in {"stored", "putLocked"} => key[q] # NoKey
    BY <1>0 DEF LocalInv
  <2>3. \A q \in Proc : pc[q] \in {"stored", "putLocked"} => key[q] # k
    BY <2>1, <2>2 DEF KeyInv
  <2> QED
    BY <2>1, <2>3 DEF StoredInv
<1>9. CASE \/ DeleteRows \/ \E s \in Session : ReadExpired(s)
  <2>1. /\ pc' = [pc EXCEPT ![Janitor] = "expired"] \/ pc' = [pc EXCEPT ![Janitor] = "expiring"]
        /\ UNCHANGED <<staged, key>>
    BY <1>9 DEF DeleteRows, ReadExpired
  <2> QED
    BY <1>0, <2>1, StoredFrame
<1>10. CASE DeleteSession \/ DeadlockVictim \/ DeferSweep
  <2>1. staged' = staged /\ (Return(Janitor) \/ \E ks : ThenDelete(Janitor, ks))
    BY <1>10 DEF DeleteSession, DeadlockVictim, DeferSweep
  <2> QED
    BY <1>0, <1>1, <2>1
<1>11. ASSUME \/ \E s \in Session, d \in File \cup {NoFile} : Create(s, d)
              \/ \E p \in Proc : ReadChunk(p)
              \/ \E s \in Session : Expire(s)
              \/ \E k \in Key : Age(k)
              \/ UNCHANGED vars
       PROVE  StoredInv'
  BY <1>11, StoredKept DEF Create, ReadChunk, Expire, Age, vars
<1> QED
  BY <1>2, <1>3, <1>4, <1>5, <1>6, <1>7, <1>8, <1>9, <1>10, <1>11, StepCases

(* A step that deletes no row's object, and at most adds keys to delete that *)
(* no remaining row has, keeps RowInv.                                       *)
LEMMA RowFrame ==
    ASSUME RowInv, NEW ks, lost \subseteq lost', staged \subseteq staged',
           \A q \in Proc : del'[q] \subseteq del[q] \cup ks,
           \A x \in Part \ lost' : row'[x] # NoKey /\ status'[x[1]] = "active" =>
               row'[x] = row[x] /\ status[x[1]] = "active" /\ row[x] \notin ks
    PROVE  RowInv'
BY DEF RowInv

LEMMA RowKept ==
    ASSUME RowInv, lost' = lost, row' = row, staged \subseteq staged',
           \A q \in Proc : del'[q] \subseteq del[q],
           \A x \in Part : row[x] # NoKey /\ status'[x[1]] = "active" => status[x[1]] = "active"
    PROVE  RowInv'
BY DEF RowInv

LEMMA RowStep == TypeOK /\ LocalInv /\ LockInv /\ KeyInv /\ StoredInv /\ RowInv /\ [Next]_vars => RowInv'
<1> SUFFICES ASSUME TypeOK, LocalInv, LockInv, KeyInv, StoredInv, RowInv, [Next]_vars PROVE RowInv'
  OBVIOUS
<1> USE DEF local, store, acks
<1>0. /\ Janitor \in Proc
      /\ del \in [Proc -> SUBSET Key] /\ row \in [Part -> Key \cup {NoKey}]
      /\ status \in [Session -> {"none", "active", "finalized", "skipped", "gone"}]
  BY ConstantsAssumption DEF Proc, TypeOK
<1>1. CASE UNCHANGED <<row, status, del, lost>> /\ staged \subseteq staged'
  BY <1>1, RowKept
<1>2. ASSUME NEW p \in Proc, NEW ks, ThenDelete(p, ks), lost' = lost, staged \subseteq staged',
             \A x \in Part : row'[x] # NoKey /\ status'[x[1]] = "active" =>
                 row'[x] = row[x] /\ status[x[1]] = "active" /\ row[x] \notin ks
      PROVE  RowInv'
  <2>1. \A q \in Proc : del'[q] \subseteq del[q] \cup ks
    BY <1>0, <1>2 DEF ThenDelete
  <2> QED
    BY <1>2, <2>1, RowFrame
<1>3. ASSUME NEW p \in Proc, Return(p), UNCHANGED <<row, status, staged, lost>>
      PROVE  RowInv'
  <2>1. \A q \in Proc : del'[q] \subseteq del[q]
    BY <1>0, <1>3 DEF Return
  <2> QED
    BY <1>3, <2>1, RowKept
<1>4. ASSUME NEW s \in Session, NEW d \in File \cup {NoFile}, Create(s, d)
      PROVE  RowInv'
  <2>1. UNCHANGED <<row, staged, del, lost>>
    BY <1>4 DEF Create
  <2>2. \A x \in Part : row'[x] # NoKey /\ status'[x[1]] = "active" => status[x[1]] = "active"
    BY <1>0, <1>4, PartParts DEF Create, KeyInv
  <2> QED
    BY <2>1, <2>2, RowKept
<1>5. ASSUME NEW p \in Proc, NEW s \in Session, NEW c \in Chunk, NEW k \in Key, CheckChunk(p, s, c, k)
      PROVE  RowInv'
  BY <1>1, <1>5 DEF CheckChunk
<1>6. ASSUME NEW p \in Proc, pc[p] \in {"storing", "stored", "putLocked"}, ThenDelete(p, {key[p]}),
             UNCHANGED <<row, status, lost>>, staged \subseteq staged'
      PROVE  RowInv'
  <2>1. \A x \in Part : row[x] # key[p]
    BY <1>6, ConstantsAssumption DEF KeyInv, LocalInv
  <2> QED
    BY <1>2, <1>6, <2>1
<1>7. ASSUME NEW p \in Proc, LockForPut(p) \/ ChunkFails(p) \/ StoreFails(p)
      PROVE  RowInv'
  <2>1. /\ UNCHANGED <<row, status, lost>> /\ staged \subseteq staged'
        /\ pc[p] \in {"storing", "stored", "putLocked"}
    BY <1>7 DEF LockForPut, ChunkFails, StoreFails
  <2>2. ThenDelete(p, {key[p]}) \/ UNCHANGED del
    BY <1>7 DEF LockForPut, ChunkFails, StoreFails
  <2> QED
    BY <1>1, <1>6, <2>1, <2>2
<1>8. ASSUME NEW p \in Proc, CommitChunk(p)
      PROVE  RowInv'
  <2> DEFINE x == <<sess[p], chunk[p]>>
  <2>1. x \in Part /\ key[p] \in Key /\ key[p] # NoKey
    BY <1>8, PartType, ConstantsAssumption DEF CommitChunk, RecordChunk, LocalInv
  <2>2. \A y \in Part : row'[y] = IF y = x THEN key[p] ELSE row[y]
    BY <1>0, <1>8, <2>1 DEF CommitChunk, RecordChunk
  <2>3. /\ UNCHANGED <<status, staged>> /\ lost' = lost \ {x}
        /\ del' = [del EXCEPT ![p] = {row[x]} \ {NoKey}]
    BY <1>8 DEF CommitChunk, RecordChunk, ThenDelete
  <2>4. key[p] \in staged /\ \A q \in Proc : key[p] \notin del[q]
    BY <1>8, <2>1 DEF CommitChunk, RecordChunk, StoredInv, KeyInv
  <2>5. \A y \in Part : row[y] # key[p]
    BY <2>1 DEF KeyInv
  <2>6. \A q \in Proc : del'[q] \subseteq del[q] \cup ({row[x]} \ {NoKey})
    BY <1>0, <2>3
  <2>7. \A y \in Part : y # x => row[y] \notin {row[x]} \ {NoKey}
    BY <2>1 DEF KeyInv
  <2> QED
    BY <2>1, <2>2, <2>3, <2>4, <2>5, <2>6, <2>7 DEF RowInv
<1>9. ASSUME NEW p \in Proc, ChunkAckLost(p)
      PROVE  RowInv'
  <2> DEFINE x == <<sess[p], chunk[p]>>
  <2>1. x \in Part /\ key[p] \in Key /\ key[p] # NoKey
    BY <1>9, PartType, ConstantsAssumption DEF ChunkAckLost, RecordChunk, LocalInv
  <2>2. \A y \in Part : row'[y] = IF y = x THEN key[p] ELSE row[y]
    BY <1>0, <1>9, <2>1 DEF ChunkAckLost, RecordChunk
  <2>3. /\ UNCHANGED <<status, staged>> /\ lost' = lost \cup {x}
        /\ del' = [del EXCEPT ![p] = {key[p]}]
    BY <1>9 DEF ChunkAckLost, RecordChunk, ThenDelete
  <2>4. \A q \in Proc : del'[q] \subseteq del[q] \cup {key[p]}
    BY <1>0, <2>3
  <2>5. \A y \in Part : row[y] # key[p]
    BY <2>1 DEF KeyInv
  <2> QED
    BY <2>2, <2>3, <2>4, <2>5, RowFrame
<1>10. ASSUME NEW p \in Proc, NEW s \in Session, StartFinalize(p, s) \/ ResumeReads(p, s)
       PROVE  RowInv'
  BY <1>1, <1>10 DEF StartFinalize, ResumeReads
<1>11. ASSUME NEW p \in Proc, ReadParts(p) \/ ReadChunk(p)
       PROVE  RowInv'
  BY <1>1, <1>11 DEF ReadParts, ReadChunk
<1>12. ASSUME NEW p \in Proc, Verify(p) \/ LockForFinish(p)
       PROVE  RowInv'
  BY <1>1, <1>3, <1>12 DEF Verify, LockForFinish
<1>13. ASSUME NEW p \in Proc, NEW s \in Session, NEW l, l # "active",
              status' = [status EXCEPT ![s] = l], NEW ks, ThenDelete(p, ks),
              UNCHANGED <<staged, lost>>,
              \A x \in Part : row'[x] \in {NoKey, row[x]},
              \A x \in Part : row[x] # NoKey /\ row[x] \in ks => x[1] = s
       PROVE  RowInv'
  <2>1. \A x \in Part : row'[x] # NoKey /\ status'[x[1]] = "active" =>
            row'[x] = row[x] /\ status[x[1]] = "active" /\ row[x] \notin ks
    BY <1>0, <1>13, PartParts
  <2> HIDE DEF ThenDelete
  <2> QED
    BY <1>2, <1>13, <2>1
<1>14. ASSUME NEW s \in Session, DropRows(s)
       PROVE  \A x \in Part : row'[x] \in {NoKey, row[x]}
  BY <1>14 DEF DropRows
<1>15. ASSUME NEW p \in Proc, Finish(p) \/ FinishSkipped(p)
       PROVE  RowInv'
  <2>1. sess[p] \in Session
    BY <1>15 DEF Finish, FinishSkipped, LocalInv
  <2>2. PICK l : /\ l # "active" /\ status' = [status EXCEPT ![sess[p]] = l]
                 /\ DropRows(sess[p]) /\ ThenDelete(p, Keys(parts[p])) /\ UNCHANGED <<staged, lost>>
    <3>1. CASE Finish(p)
      BY <3>1 DEF Finish
    <3>2. CASE FinishSkipped(p)
      BY <3>2 DEF FinishSkipped
    <3> QED
      BY <1>15, <3>1, <3>2
  <2>3. \A x \in Part : row'[x] \in {NoKey, row[x]}
    BY <1>14, <2>1, <2>2
  <2>4. \A x \in Part : row[x] # NoKey /\ row[x] \in Keys(parts[p]) => x[1] = sess[p]
    BY DEF KeyInv
  <2> QED
    BY <1>13, <2>1, <2>2, <2>3, <2>4
<1>16. ASSUME NEW p \in Proc,
              ResumeFails(p) \/ (\E d \in File : ResumeDeclares(p, d)) \/
              AnswerIncomplete(p) \/ AssembleFails(p) \/ FinishFails(p) \/ Done(p) \/ Crash(p)
       PROVE  RowInv'
  <2>1. Return(p) /\ UNCHANGED <<row, status, staged, lost>>
    BY <1>16 DEF ResumeFails, ResumeDeclares, AnswerIncomplete, AssembleFails, FinishFails, Done, Crash
  <2> QED
    BY <1>3, <2>1
<1>17. ASSUME NEW p \in Proc, NEW s \in Session, Abort(p, s)
       PROVE  RowInv'
  <2>1. ASSUME NEW x \in Part, row[x] # NoKey, row[x] \in Keys(Rows(s))
        PROVE  x[1] = s
    <3>1. PICK c \in Chunk : row[x] = row[<<s, c>>]
      BY <2>1 DEF Keys, Rows
    <3>2. x = <<s, c>>
      BY <2>1, <3>1, PartType DEF KeyInv
    <3> QED
      BY <3>2
  <2>2. /\ status' = [status EXCEPT ![s] = "gone"] /\ DropRows(s)
        /\ ThenDelete(p, Keys(Rows(s))) /\ UNCHANGED <<staged, lost>>
    BY <1>17 DEF Abort
  <2>3. \A x \in Part : row'[x] \in {NoKey, row[x]}
    BY <1>14, <2>2
  <2> QED
    BY <1>13, <2>1, <2>2, <2>3
<1>18. ASSUME NEW p \in Proc, NEW k \in Key, DeleteStaged(p, k)
       PROVE  RowInv'
  <2>1. /\ k \in del[p] /\ del' = [del EXCEPT ![p] = @ \ {k}]
        /\ staged' = staged \ {k} /\ UNCHANGED <<row, status, lost>>
    BY <1>18 DEF DeleteStaged
  <2>2. \A q \in Proc : del'[q] \subseteq del[q]
    BY <1>0, <2>1
  <2> QED
    BY <2>1, <2>2 DEF RowInv
<1>19. ASSUME NEW s \in Session, ReadExpired(s)
       PROVE  RowInv'
  BY <1>1, <1>19 DEF ReadExpired
<1>20. CASE DeleteRows
  BY <1>1, <1>20 DEF DeleteRows
<1>21. CASE DeleteSession
  <2>1. sess[Janitor] \in Session
    BY <1>0, <1>21 DEF DeleteSession, LocalInv
  <2>2. /\ status' = [status EXCEPT ![sess[Janitor]] = "gone"]
        /\ ThenDelete(Janitor, Keys(parts[Janitor])) /\ UNCHANGED <<staged, lost>>
    BY <1>21 DEF DeleteSession
  <2>3. \A x \in Part : row'[x] \in {NoKey, row[x]}
    BY <1>21 DEF DeleteSession
  <2>4. \A x \in Part : row[x] # NoKey /\ row[x] \in Keys(parts[Janitor]) => x[1] = sess[Janitor]
    BY <1>0 DEF KeyInv
  <2> QED
    BY <1>0, <1>13, <2>1, <2>2, <2>3, <2>4
<1>22. CASE DeadlockVictim \/ DeferSweep
  BY <1>0, <1>3, <1>22 DEF DeadlockVictim, DeferSweep
<1>23. ASSUME NEW p \in Proc, Advance(p)
       PROVE  RowInv'
  <2>1. UNCHANGED <<row, status, lost>>
    BY <1>23, AdvanceMoves
  <2>2. staged \subseteq staged' /\ \A q \in Proc : del'[q] \subseteq del[q] \cup Orphans
    <3>1. CASE BeginStore(p) \/ StoreChunk(p) \/ BeginSweep
      BY <3>1 DEF BeginStore, StoreChunk, BeginSweep
    <3>2. CASE ScanStaging
      BY <1>0, <3>2 DEF ScanStaging
    <3> QED
      BY <1>23, <3>1, <3>2 DEF Advance
  <2>3. \A x \in Part : status[x[1]] = "active" => row[x] \in Known
    BY PartParts DEF Known
  <2>4. \A x \in Part : status[x[1]] = "active" => row[x] \notin Orphans
    BY <2>3 DEF Orphans
  <2> QED
    BY <2>1, <2>2, <2>4, RowFrame
<1>24. CASE (\E s \in Session : Expire(s)) \/ (\E k \in Key : Age(k)) \/ UNCHANGED vars
  BY <1>1, <1>24 DEF Expire, Age, vars
<1> QED
  BY <1>4, <1>5, <1>7, <1>8, <1>9, <1>10, <1>11, <1>12, <1>15, <1>16, <1>17, <1>18, <1>19,
     <1>20, <1>21, <1>22, <1>23, <1>24, StepCases

(* Which steps touch what a client of the session sees.                      *)
LEMMA PublicSteps ==
    ASSUME [Next]_vars
    PROVE  \/ UNCHANGED <<status, digest, sent, file>>
           \/ \E s \in Session, d \in File \cup {NoFile} : Create(s, d)
           \/ \E p \in Proc, d \in File : ResumeDeclares(p, d)
           \/ \E p \in Proc : RecordChunk(p) \/ Finish(p) \/ FinishSkipped(p)
           \/ \E p \in Proc, s \in Session : Abort(p, s)
           \/ DeleteSession
<1> DEFINE Quiet == UNCHANGED <<status, digest, sent, file>>
<1>1. ASSUME NEW p \in Proc, NEW s \in Session, ResumeReads(p, s) \/ StartFinalize(p, s)
      PROVE  Quiet
  BY <1>1 DEF ResumeReads, StartFinalize
<1>2. ASSUME NEW p \in Proc, ResumeFails(p) \/ StoreFails(p) \/ LockForPut(p) \/ ChunkFails(p)
      PROVE  Quiet
  BY <1>2 DEF ResumeFails, StoreFails, LockForPut, ChunkFails
<1>3. ASSUME NEW p \in Proc, NEW s \in Session, NEW c \in Chunk, NEW k \in Key, CheckChunk(p, s, c, k)
      PROVE  Quiet
  BY <1>3 DEF CheckChunk
<1>4. ASSUME NEW p \in Proc, CommitChunk(p) \/ ChunkAckLost(p)
      PROVE  RecordChunk(p)
  BY <1>4 DEF CommitChunk, ChunkAckLost
<1>5. ASSUME NEW p \in Proc, ReadParts(p) \/ ReadChunk(p) \/ Verify(p) \/ LockForFinish(p)
      PROVE  Quiet
  BY <1>5 DEF ReadParts, ReadChunk, Verify, LockForFinish
<1>6. ASSUME NEW p \in Proc,
             AnswerIncomplete(p) \/ AssembleFails(p) \/ FinishFails(p) \/ Done(p) \/ Crash(p)
      PROVE  Quiet
  BY <1>6 DEF AnswerIncomplete, AssembleFails, FinishFails, Done, Crash
<1>7. ASSUME NEW p \in Proc, NEW k \in Key, DeleteStaged(p, k)
      PROVE  Quiet
  BY <1>7 DEF DeleteStaged
<1>8. ASSUME NEW s \in Session, ReadExpired(s) \/ Expire(s)
      PROVE  Quiet
  BY <1>8 DEF ReadExpired, Expire
<1>9. ASSUME DeleteRows \/ DeadlockVictim \/ DeferSweep \/ (\E k \in Key : Age(k)) \/ UNCHANGED vars
      PROVE  Quiet
  BY <1>9 DEF DeleteRows, DeadlockVictim, DeferSweep, Age, vars
<1>11. ASSUME NEW p \in Proc, Advance(p)
       PROVE  Quiet
  BY <1>11, AdvanceMoves
<1> HIDE DEF Quiet
<1>10. \/ Quiet
       \/ \E s \in Session, d \in File \cup {NoFile} : Create(s, d)
       \/ \E p \in Proc, d \in File : ResumeDeclares(p, d)
       \/ \E p \in Proc : RecordChunk(p) \/ Finish(p) \/ FinishSkipped(p)
       \/ \E p \in Proc, s \in Session : Abort(p, s)
       \/ DeleteSession
  BY <1>1, <1>2, <1>3, <1>4, <1>5, <1>6, <1>7, <1>8, <1>9, <1>11, StepCases
<1> QED
  BY <1>10 DEF Quiet

LEMMA StatusSteps ==
    ASSUME [Next]_vars
    PROVE  \/ UNCHANGED status
           \/ \E s \in Session, d \in File \cup {NoFile} : Create(s, d)
           \/ \E p \in Proc : Finish(p) \/ FinishSkipped(p)
           \/ \E p \in Proc, s \in Session : Abort(p, s)
           \/ DeleteSession
<1>1. ASSUME NEW p \in Proc, NEW d \in File, ResumeDeclares(p, d)
      PROVE  UNCHANGED status
  BY <1>1 DEF ResumeDeclares
<1>2. ASSUME NEW p \in Proc, RecordChunk(p)
      PROVE  UNCHANGED status
  BY <1>2 DEF RecordChunk
<1> QED
  BY <1>1, <1>2, PublicSteps

LEMMA ExpiringStep == TypeOK /\ LocalInv /\ ExpiringInv /\ [Next]_vars => ExpiringInv'
<1> SUFFICES ASSUME TypeOK, LocalInv, ExpiringInv, [Next]_vars PROVE ExpiringInv'
  OBVIOUS
<1> USE DEF Goto, Forget, Return, ThenDelete, local
<1>0. /\ Janitor \in Proc
      /\ pc \in [Proc -> PC] /\ sess \in [Proc -> Session \cup {NoSession}]
      /\ status \in [Session -> {"none", "active", "finalized", "skipped", "gone"}]
      /\ pc[Janitor] \in {"expiring", "expired"} => sess[Janitor] \in Session
  BY DEF Proc, TypeOK, LocalInv
<1>1. \A s \in Session : status'[s] = "none" => status[s] = "none"
  <2>1. CASE UNCHANGED status
    BY <2>1
  <2>2. CASE \E s \in Session, l \in {"active", "finalized", "skipped", "gone"} :
                 status' = [status EXCEPT ![s] = l]
    BY <1>0, <2>2
  <2>3. \A p \in Proc : Finish(p) \/ FinishSkipped(p) => sess[p] \in Session
    BY DEF LocalInv, Finish, FinishSkipped
  <2>4. DeleteSession => sess[Janitor] \in Session
    BY <1>0 DEF DeleteSession
  <2>5. \/ UNCHANGED status
        \/ \E s \in Session, d \in File \cup {NoFile} : Create(s, d)
        \/ \E p \in Proc : Finish(p) \/ FinishSkipped(p)
        \/ \E p \in Proc, s \in Session : Abort(p, s)
        \/ DeleteSession
    BY StatusSteps
  <2>6. CASE \E s \in Session, d \in File \cup {NoFile} : Create(s, d)
    BY <2>2, <2>6 DEF Create
  <2>7. CASE \E p \in Proc : Finish(p) \/ FinishSkipped(p)
    BY <2>2, <2>3, <2>7 DEF Finish, FinishSkipped
  <2>8. CASE \E p \in Proc, s \in Session : Abort(p, s)
    BY <2>2, <2>8 DEF Abort
  <2>9. CASE DeleteSession
    BY <2>2, <2>4, <2>9 DEF DeleteSession
  <2> QED
    BY <2>1, <2>5, <2>6, <2>7, <2>8, <2>9
<1>2. CASE /\ pc'[Janitor] \in {"expiring", "expired"} =>
                 pc[Janitor] \in {"expiring", "expired"} /\ sess'[Janitor] = sess[Janitor]
  BY <1>0, <1>1, <1>2 DEF ExpiringInv
<1>3. ASSUME NEW s \in Session, ReadExpired(s)
      PROVE  ExpiringInv'
  BY <1>0, <1>3 DEF ReadExpired, Expirable, ExpiringInv
<1>4. ASSUME NEW p \in Proc, NEW l \in PC \ {"expiring", "expired"}, Goto(p, l),
             \/ sess' = sess
             \/ \E s \in Session \cup {NoSession} : sess' = [sess EXCEPT ![p] = s]
      PROVE  ExpiringInv'
  BY <1>0, <1>2, <1>4
<1>5. ASSUME NEW p \in Proc, Return(p) \/ \E ks : ThenDelete(p, ks)
      PROVE  ExpiringInv'
  <2>1. sess' = [sess EXCEPT ![p] = NoSession]
    BY <1>5
  <2>2. pc' = [pc EXCEPT ![p] = "idle"] \/ pc' = [pc EXCEPT ![p] = "deleting"]
    BY <1>5
  <2> QED
    BY <2>1, <2>2, <1>4 DEF PC
<1>6. CASE UNCHANGED <<pc, sess>>
  BY <1>2, <1>6
<1>7. ASSUME NEW p \in Proc,
             \/ \E s \in Session, c \in Chunk, k \in Key : CheckChunk(p, s, c, k)
             \/ \E s \in Session : ResumeReads(p, s) \/ StartFinalize(p, s)
             \/ ReadParts(p)
      PROVE  ExpiringInv'
  BY <1>4, <1>7 DEF ResumeReads, CheckChunk, StartFinalize, ReadParts, PC
<1>8. ASSUME NEW p \in Proc, LockForPut(p) \/ Verify(p) \/ LockForFinish(p)
      PROVE  ExpiringInv'
  <2>1. CASE UNCHANGED local /\ (Goto(p, "putLocked") \/ Goto(p, "assembled") \/ Goto(p, "finLocked"))
    BY <1>4, <2>1 DEF PC
  <2> QED
    BY <1>5, <1>8, <2>1 DEF LockForPut, Verify, LockForFinish
<1>9. ASSUME NEW p \in Proc,
             \/ StoreFails(p) \/ CommitChunk(p) \/ ChunkAckLost(p) \/ ChunkFails(p)
             \/ Finish(p) \/ FinishSkipped(p)
             \/ ResumeFails(p) \/ \E d \in File : ResumeDeclares(p, d)
             \/ AnswerIncomplete(p) \/ AssembleFails(p) \/ FinishFails(p) \/ Done(p) \/ Crash(p)
             \/ \E s \in Session : Abort(p, s)
      PROVE  ExpiringInv'
  <2>1. Return(p) \/ \E ks : ThenDelete(p, ks)
    BY <1>9 DEF ResumeFails, ResumeDeclares, StoreFails, CommitChunk, ChunkAckLost, ChunkFails,
                Finish, FinishSkipped, AnswerIncomplete, AssembleFails, FinishFails, Done, Crash, Abort
  <2> QED
    BY <1>5, <2>1
<1>10. CASE DeleteSession \/ DeadlockVictim \/ DeferSweep
  <2>1. Return(Janitor) \/ \E ks : ThenDelete(Janitor, ks)
    BY <1>10 DEF DeleteSession, DeadlockVictim, DeferSweep
  <2> QED
    BY <1>0, <1>5, <2>1
<1>13. ASSUME NEW p \in Proc, Advance(p)
       PROVE  ExpiringInv'
  BY <1>4, <1>13, AdvanceMoves DEF Advanced, PC
<1>11. CASE DeleteRows
  BY <1>0, <1>2, <1>11 DEF DeleteRows
<1>12. ASSUME \/ \E s \in Session, d \in File \cup {NoFile} : Create(s, d)
              \/ \E p \in Proc : ReadChunk(p) \/ \E k \in Key : DeleteStaged(p, k)
              \/ \E s \in Session : Expire(s)
              \/ \E k \in Key : Age(k)
              \/ UNCHANGED vars
       PROVE  ExpiringInv'
  BY <1>6, <1>12 DEF Create, ReadChunk, DeleteStaged, Expire, Age, vars
<1> QED
  BY <1>3, <1>7, <1>8, <1>9, <1>10, <1>11, <1>12, <1>13, StepCases

LEMMA InitInvariant == Init => IInv
<1> SUFFICES ASSUME Init PROVE IInv
  OBVIOUS
<1> USE DEF Init
<1>1. TypeOK
  BY ConstantsAssumption, NoPartsType DEF TypeOK, PC
<1>2. LocalInv
  BY DEF LocalInv
<1>3. LockInv
  BY DEF LockInv, Locks
<1>4. SentInv
  BY PartType DEF SentInv
<1>5. DigestInv
  BY DEF DigestInv, Finalizing
<1>6. ExpiringInv
  BY DEF ExpiringInv, Proc
<1>7. KeyInv
  BY KeysNoParts, ConstantsAssumption DEF KeyInv
<1>8. RowInv /\ StoredInv
  BY DEF RowInv, StoredInv
<1> QED
  BY <1>1, <1>2, <1>3, <1>4, <1>5, <1>6, <1>7, <1>8 DEF IInv

LEMMA NextInvariant == IInv /\ [Next]_vars => IInv'
BY TypeStep, LocalStep, LockStep, SentStep, DigestStep, ExpiringStep, KeyStep, StoredStep, RowStep DEF IInv

(* Whatever requests and janitor passes overlap, fail or die: a session is   *)
(* locked by one transaction, a storage key has one owner, rows and the rows *)
(* a finalize works on hold what was sent, and no recorded chunk of an open  *)
(* session is ever given up, unless its commit was taken for a failure.      *)
THEOREM InductiveInvariant == Spec => []IInv
BY InitInvariant, NextInvariant, PTL DEF Spec

(* Every variable keeps its type.                                            *)
THEOREM TypeCorrect == Spec => []TypeOK
<1>1. IInv => TypeOK
  BY DEF IInv
<1> QED
  BY <1>1, InductiveInvariant, PTL

(* A recorded chunk of an open session can be read, unless the answer to     *)
(* its last commit was lost: no overlapping put, finalize, abort, janitor   *)
(* pass or sweep, no crash and no failure deletes the object a row names.   *)
THEOREM PartsSafe == Spec => []PartsReadable
<1>1. IInv => PartsReadable
  BY DEF IInv, RowInv, PartsReadable
<1> QED
  BY <1>1, InductiveInvariant, PTL

-----------------------------------------------------------------------------
(* UploadSessions implements UploadPromise.                                  *)
LEMMA PhaseOf ==
    ASSUME TypeOK
    PROVE  \A s \in Session :
               /\ status[s] = "none" <=> Phase[status[s]] = "none"
               /\ status[s] = "active" <=> Phase[status[s]] = "open"
               /\ status[s] = "finalized" <=> Phase[status[s]] = "done"
               /\ status[s] = "skipped" <=> Phase[status[s]] = "skipped"
               /\ status[s] = "gone" <=> Phase[status[s]] = "closed"
BY DEF TypeOK, Phase

Phases == [s \in Session |-> Phase[status[s]]]

(* The phases after a step that changes the status of one session.           *)
LEMMA PhaseChange ==
    ASSUME TypeOK, NEW s \in Session
    PROVE  /\ status' = [status EXCEPT ![s] = "active"] => Phases' = [Phases EXCEPT ![s] = "open"]
           /\ status' = [status EXCEPT ![s] = "finalized"] => Phases' = [Phases EXCEPT ![s] = "done"]
           /\ status' = [status EXCEPT ![s] = "skipped"] => Phases' = [Phases EXCEPT ![s] = "skipped"]
           /\ status' = [status EXCEPT ![s] = "gone"] => Phases' = [Phases EXCEPT ![s] = "closed"]
<1>1. /\ Phase["active"] = "open" /\ Phase["finalized"] = "done"
      /\ Phase["skipped"] = "skipped" /\ Phase["gone"] = "closed"
  BY DEF Phase
<1>2. ASSUME NEW l, status' = [status EXCEPT ![s] = l]
      PROVE  Phases' = [Phases EXCEPT ![s] = Phase[l]]
  <2>1. \A t \in Session : status'[t] = IF t = s THEN l ELSE status[t]
    BY <1>2 DEF TypeOK
  <2> QED
    BY <2>1 DEF Phases
<1> QED
  BY <1>1, <1>2

LEMMA PhaseKept ==
    status' = status => Phases' = Phases
BY DEF Phases

LEMMA RefineInit == Init => Promise!Init
BY DEF Init, Promise!Init, Phase

LEMMA RefineStep ==
    ASSUME ~LateDigest, IInv, [Next]_vars
    PROVE  [Promise!Next]_(Promise!vars)
<1> USE DEF Promise!File, File
<1>0. /\ TypeOK /\ LocalInv /\ LockInv /\ SentInv /\ DigestInv /\ Janitor \in Proc
      /\ digest \in [Session -> File \cup {NoFile}]
  BY DEF IInv, Proc, TypeOK
<1>1. CASE UNCHANGED <<status, digest, sent, file>>
  BY <1>1, PhaseKept DEF Promise!vars, Phases
<1>2. ASSUME NEW s \in Session, NEW d \in File \cup {NoFile}, Create(s, d)
      PROVE  Promise!Next
  <2>1. Phases' = [Phases EXCEPT ![s] = "open"]
    BY <1>0, <1>2, PhaseChange DEF Create
  <2>2. Promise!Open(s, d)
    BY <1>0, <1>2, <2>1, PhaseOf DEF Phases, Create, Promise!Open
  <2> QED
    BY <2>2 DEF Promise!Next
<1>3. ASSUME NEW p \in Proc, NEW d \in File, ResumeDeclares(p, d)
      PROVE  Promise!Next
  <2>1. sess[p] \in Session
    BY <1>0, <1>3 DEF ResumeDeclares, LocalInv
  <2>2. Promise!Declare(sess[p], d)
    BY <1>0, <1>3, <2>1, PhaseOf, PhaseKept DEF Phases, ResumeDeclares, Promise!Declare
  <2> QED
    BY <2>1, <2>2 DEF Promise!Next
<1>4. ASSUME NEW p \in Proc, RecordChunk(p)
      PROVE  Promise!Next
  <2>1. sess[p] \in Session /\ chunk[p] \in Chunk /\ key[p] \in Key /\ status[sess[p]] = "active"
    BY <1>0, <1>4, LockActive DEF RecordChunk, LocalInv
  <2>2. Written[key[p]] \in Data
    BY <2>1, ConstantsAssumption
  <2>3. Promise!Send(sess[p], chunk[p], Written[key[p]])
    BY <1>0, <1>4, <2>1, PhaseOf, PhaseKept DEF Phases, RecordChunk, Promise!Send
  <2> QED
    BY <2>1, <2>2, <2>3 DEF Promise!Next
<1>5. ASSUME NEW p \in Proc, Finish(p)
      PROVE  Promise!Next
  <2>1. sess[p] \in Session /\ status[sess[p]] = "active" /\ parts[p] \in [Chunk -> Key]
    BY <1>0, <1>5, LockActive DEF Finish, LocalInv
  <2>2. Content(parts[p]) \in File
    BY <2>1, ContentType
  <2>3. PICK s \in Session, f \in File : s = sess[p] /\ f = Content(parts[p])
    BY <2>1, <2>2
  <2>4. \A c \in Chunk : <<c, f[c]>> \in sent[s]
    BY <1>0, <1>5, <2>3 DEF Finish, SentInv, Content
  <2>5. expect[p] = digest[s] /\ expect[p] \in {NoFile, f}
    <3>1. pc[p] = "finLocked" /\ Finalizing(p, s)
      BY <1>5, <2>3 DEF Finish, Finalizing
    <3>2. expect[p] = digest[s]
      BY <1>0, <2>1, <2>3, <3>1 DEF DigestInv
    <3>3. Verified(p)
      BY <1>0, <3>1 DEF DigestInv
    <3> QED
      BY <2>3, <3>2, <3>3 DEF Verified
  <2>6. Phases' = [Phases EXCEPT ![s] = "done"]
    BY <1>0, <1>5, <2>1, <2>3, PhaseChange DEF Finish
  <2>7. Promise!Finish(s, f)
    BY <1>0, <1>5, <2>1, <2>3, <2>4, <2>5, <2>6, PhaseOf DEF Phases, Finish, Promise!Finish
  <2> QED
    BY <2>7 DEF Promise!Next
<1>6. ASSUME NEW p \in Proc, FinishSkipped(p)
      PROVE  Promise!Next
  <2>1. sess[p] \in Session /\ status[sess[p]] = "active"
    BY <1>0, <1>6, LockActive DEF FinishSkipped
  <2>2. PICK s \in Session : s = sess[p]
    BY <2>1
  <2>3. Phases' = [Phases EXCEPT ![s] = "skipped"]
    BY <1>0, <1>6, <2>1, <2>2, PhaseChange DEF FinishSkipped
  <2>4. Promise!Skip(s)
    BY <1>0, <1>6, <2>1, <2>2, <2>3, PhaseOf DEF Phases, FinishSkipped, Promise!Skip
  <2> QED
    BY <2>4 DEF Promise!Next
<1>7. ASSUME NEW s \in Session, status[s] \in {"active", "finalized", "skipped"},
             status' = [status EXCEPT ![s] = "gone"], UNCHANGED <<digest, sent, file>>
      PROVE  Promise!Next
  <2>1. Phases' = [Phases EXCEPT ![s] = "closed"]
    BY <1>0, <1>7, PhaseChange
  <2>2. Promise!Close(s)
    BY <1>0, <1>7, <2>1, PhaseOf DEF Phases, Promise!Close
  <2> QED
    BY <2>2 DEF Promise!Next
<1>8. ASSUME NEW p \in Proc, NEW s \in Session, Abort(p, s)
      PROVE  Promise!Next
  BY <1>7, <1>8 DEF Abort
<1>9. CASE DeleteSession
  <2>1. sess[Janitor] \in Session /\ status[sess[Janitor]] # "none"
    BY <1>0, <1>9 DEF DeleteSession, LocalInv, IInv, ExpiringInv
  <2>2. /\ status' = [status EXCEPT ![sess[Janitor]] = "gone"]
        /\ UNCHANGED <<digest, sent, file>>
    BY <1>9 DEF DeleteSession
  <2>3. CASE status[sess[Janitor]] = "gone"
    BY <1>0, <1>1, <2>1, <2>2, <2>3 DEF TypeOK
  <2>4. CASE status[sess[Janitor]] # "gone"
    BY <1>0, <1>7, <2>1, <2>2, <2>4 DEF TypeOK
  <2> QED
    BY <2>3, <2>4
<1>10. \/ UNCHANGED <<status, digest, sent, file>>
       \/ \E s \in Session, d \in File \cup {NoFile} : Create(s, d)
       \/ \E p \in Proc, d \in File : ResumeDeclares(p, d)
       \/ \E p \in Proc : RecordChunk(p) \/ Finish(p) \/ FinishSkipped(p)
       \/ \E p \in Proc, s \in Session : Abort(p, s)
       \/ DeleteSession
  BY PublicSteps
<1> QED
  BY <1>1, <1>2, <1>3, <1>4, <1>5, <1>6, <1>8, <1>9, <1>10

(* A session keeps its promise: it publishes at most one file, made of what  *)
(* was sent for its chunks, with the digest the client declared - unless a   *)
(* resume declares the digest while a finalize runs.                         *)
THEOREM SessionsKeepPromise == ASSUME ~LateDigest PROVE Spec => PromiseKept
<1>1. Init => Promise!Init
  BY RefineInit
<1>2. IInv /\ [Next]_vars => [Promise!Next]_(Promise!vars)
  BY RefineStep
<1> QED
  BY <1>1, <1>2, InductiveInvariant, PTL DEF Spec, PromiseKept, Promise!Spec
=============================================================================
