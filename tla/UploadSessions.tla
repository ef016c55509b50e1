---------------------------- MODULE UploadSessions ----------------------------
(***************************************************************************)
(* Resumable upload sessions of the xdrive server: xd_upload_sessions,     *)
(* xd_upload_parts and the staged chunk objects below .xdrive-uploads/,    *)
(* used by concurrent requests (create or resume, put a chunk, finalize,   *)
(* abort) and by the janitor (expired sessions, untracked objects).        *)
(*                                                                         *)
(* Chunk puts, finalize and abort change a session under the row lock of   *)
(* the session (SELECT ... FOR UPDATE); the janitor deletes part rows      *)
(* before it asks for that lock.  The store is not transactional.          *)
(* How finalize publishes content is the subject of module ContentBlobs.   *)
(***************************************************************************)
EXTENDS Integers, FiniteSets

CONSTANTS
    Session,      \* session ids; an id is used once
    ChunkCount,   \* chunks of an upload
    Data,         \* contents of a chunk (the server knows them by SHA-256)
    Key,          \* storage keys of staged chunks (uuids)
    Written,      \* what is written under each key: a key is written once
    Request,      \* concurrent requests
    Janitor,      \* cleanupUploadStaging
    LateDigest,   \* may resumes declare a digest late: while a finalize runs,
                  \* or when another resume has declared one?
    MaySkip,      \* is conflict_policy = skip used?
    MaxCrashes,   \* bound on crashes
    MaxLostAcks,  \* bound on chunk commits whose answer from SQL is lost
    NoKey, NoFile, NoSession

Chunk == 1..ChunkCount
File == [Chunk -> Data]
Proc == Request \cup {Janitor}
Part == Session \X Chunk

ASSUME ConstantsAssumption ==
    /\ ChunkCount \in Nat \ {0}
    /\ Written \in [Key -> Data]
    /\ NoKey \notin Key
    /\ NoFile \notin File
    /\ NoSession \notin Session
    /\ Janitor \notin Request
    /\ LateDigest \in BOOLEAN
    /\ MaySkip \in BOOLEAN
    /\ MaxCrashes \in Nat
    /\ MaxLostAcks \in Nat

VARIABLES
    status,    \* status of each session; "none" before, "gone" when deleted
    expired,   \* sessions whose expires_at has passed
    digest,    \* content whose SHA-256 the session row has
    row,       \* storage key in each part row
    staged,    \* keys that have an object in the store
    old,       \* staged objects older than stagingOrphanGrace
    file,      \* content each session published
    sent,      \* history: contents recorded for the chunks of each session
    pc,        \* where each process is in its handler
    sess,      \* session it works on
    chunk,     \* chunk it puts, or reads next
    key,       \* storage key of the chunk it puts
    parts,     \* part rows it finalizes
    expect,    \* digest it read with the session row
    hidden,    \* chunks whose rows the janitor's open transaction deleted
    del,       \* storage keys it still has to delete from the store
    crashes,
    lostAcks,
    lost       \* history: parts whose last commit was taken for a failure

store == <<staged, old>>
local == <<sess, chunk, key, parts, expect, hidden>>
acks == <<lostAcks, lost>>
vars == <<status, expired, digest, row, store, file, sent, pc, local, del,
          crashes, acks>>

PC == {"idle", "resuming", "checked", "storing", "stored", "putLocked",
       "finalizing", "assembling", "assembled", "finLocked",
       "expiring", "expired", "scanned", "sweeping", "deleting"}

TypeOK ==
    /\ status \in [Session -> {"none", "active", "finalized", "skipped", "gone"}]
    /\ expired \subseteq Session
    /\ digest \in [Session -> File \cup {NoFile}]
    /\ row \in [Part -> Key \cup {NoKey}]
    /\ staged \subseteq Key
    /\ old \subseteq Key
    /\ file \in [Session -> File \cup {NoFile}]
    /\ sent \in [Session -> SUBSET (Chunk \X Data)]
    /\ pc \in [Proc -> PC]
    /\ sess \in [Proc -> Session \cup {NoSession}]
    /\ chunk \in [Proc -> 0..ChunkCount]
    /\ key \in [Proc -> Key \cup {NoKey}]
    /\ parts \in [Proc -> [Chunk -> Key \cup {NoKey}]]
    /\ expect \in [Proc -> File \cup {NoFile}]
    /\ hidden \in [Proc -> SUBSET Chunk]
    /\ del \in [Proc -> SUBSET Key]
    /\ crashes \in 0..MaxCrashes
    /\ lostAcks \in 0..MaxLostAcks
    /\ lost \subseteq Part

-----------------------------------------------------------------------------
NoParts == [c \in Chunk |-> NoKey]
Rows(s) == [c \in Chunk |-> row[<<s, c>>]]
Keys(ps) == {ps[c] : c \in Chunk} \ {NoKey}
Content(ps) == [c \in Chunk |-> Written[ps[c]]]

(* Open transactions that hold the session row FOR UPDATE.                  *)
Locks(p, s) == sess[p] = s /\ pc[p] \in {"putLocked", "finLocked"}

(* Bug: the session is read without FOR UPDATE.                             *)
LockFreeUnlocked(s) == TRUE

LockFree(s) == \A p \in Proc : ~Locks(p, s)

(* Local.Put holds the shared temp lease while it writes an object: a staged *)
(* chunk, or the file a finalize assembles; a sweep holds it exclusively.   *)
HoldsLease(p) == pc[p] = "storing" \/ (pc[p] = "assembling" /\ chunk[p] > 0)
Sweeping == pc[Janitor] = "sweeping"

(* Part rows that an open transaction of the janitor has deleted.           *)
RowFree(s, c) == \A p \in Proc : sess[p] = s => c \notin hidden[p]
RowsFree(s) == \A c \in Chunk : RowFree(s, c)

(* A storage key is a fresh uuid: nothing remembers it.                     *)
Fresh(k) ==
    /\ k \notin staged
    /\ \A x \in Part : row[x] # k
    /\ \A p \in Proc : key[p] # k /\ k \notin Keys(parts[p]) \cup del[p]

Goto(p, l) == pc' = [pc EXCEPT ![p] = l]

Forget(p) ==
    /\ sess' = [sess EXCEPT ![p] = NoSession]
    /\ chunk' = [chunk EXCEPT ![p] = 0]
    /\ key' = [key EXCEPT ![p] = NoKey]
    /\ parts' = [parts EXCEPT ![p] = NoParts]
    /\ expect' = [expect EXCEPT ![p] = NoFile]
    /\ hidden' = [hidden EXCEPT ![p] = {}]

(* The handler returns; what it still had to delete stays.                  *)
Return(p) ==
    /\ Goto(p, "idle")
    /\ Forget(p)
    /\ del' = [del EXCEPT ![p] = {}]

(* The rest of the handler deletes these keys from the store.               *)
ThenDelete(p, ks) ==
    /\ Goto(p, "deleting")
    /\ Forget(p)
    /\ del' = [del EXCEPT ![p] = ks]

Init ==
    /\ status = [s \in Session |-> "none"]
    /\ expired = {}
    /\ digest = [s \in Session |-> NoFile]
    /\ row = [x \in Part |-> NoKey]
    /\ staged = {}
    /\ old = {}
    /\ file = [s \in Session |-> NoFile]
    /\ sent = [s \in Session |-> {}]
    /\ pc = [p \in Proc |-> "idle"]
    /\ sess = [p \in Proc |-> NoSession]
    /\ chunk = [p \in Proc |-> 0]
    /\ key = [p \in Proc |-> NoKey]
    /\ parts = [p \in Proc |-> NoParts]
    /\ expect = [p \in Proc |-> NoFile]
    /\ hidden = [p \in Proc |-> {}]
    /\ del = [p \in Proc |-> {}]
    /\ crashes = 0
    /\ lostAcks = 0
    /\ lost = {}

-----------------------------------------------------------------------------
(* createUploadSession: a new session, or a resumed one: if it finds that    *)
(* the session has no digest it declares that of the file, ...              *)
Create(s, d) ==
    /\ status[s] = "none"
    /\ status' = [status EXCEPT ![s] = "active"]
    /\ digest' = [digest EXCEPT ![s] = d]
    /\ UNCHANGED <<expired, row, store, file, sent, pc, local, del, crashes, acks>>

ResumeReads(p, s) ==
    /\ pc[p] = "idle"
    /\ status[s] = "active"
    /\ s \notin expired
    /\ digest[s] = NoFile
    /\ Goto(p, "resuming")
    /\ sess' = [sess EXCEPT ![p] = s]
    /\ UNCHANGED <<status, expired, digest, row, store, file, sent, chunk, key,
                   parts, expect, hidden, del, crashes, acks>>

Finalizing(p, s) == sess[p] = s /\ pc[p] \in {"finalizing", "assembling", "assembled", "finLocked"}

(* ... under the lock, where it does not look again for a digest.           *)
ResumeDeclares(p, d) ==
    LET s == sess[p] IN
    /\ pc[p] = "resuming"
    /\ status[s] = "active"
    /\ LockFree(s)
    /\ LateDigest \/ (digest[s] = NoFile /\ \A q \in Proc : ~Finalizing(q, s))
    /\ digest' = [digest EXCEPT ![s] = d]
    /\ Return(p)
    /\ UNCHANGED <<status, expired, row, store, file, sent, crashes, acks>>

ResumeFails(p) ==
    /\ pc[p] = "resuming"
    /\ Return(p)
    /\ UNCHANGED <<status, expired, digest, row, store, file, sent, crashes, acks>>

-----------------------------------------------------------------------------
(* putUploadChunk checks the session without a lock, acknowledges at once a *)
(* chunk whose row has the same hash, and else takes a fresh key ...        *)
Recorded(s, c, h) == row[<<s, c>>] # NoKey /\ Written[row[<<s, c>>]] = h

CheckChunk(p, s, c, k) ==
    /\ pc[p] = "idle"
    /\ status[s] = "active"
    /\ s \notin expired
    /\ ~Recorded(s, c, Written[k])
    /\ Fresh(k)
    /\ Goto(p, "checked")
    /\ sess' = [sess EXCEPT ![p] = s]
    /\ chunk' = [chunk EXCEPT ![p] = c]
    /\ key' = [key EXCEPT ![p] = k]
    /\ UNCHANGED <<status, expired, digest, row, store, file, sent, parts, expect,
                   hidden, del, crashes, acks>>

(* ... under which Local.Put writes the chunk, when no sweep is going on;   *)
BeginStore(p) ==
    /\ pc[p] = "checked"
    /\ ~Sweeping
    /\ Goto(p, "storing")
    /\ UNCHANGED <<status, expired, digest, row, store, file, sent, local, del,
                   crashes, acks>>

StoreChunk(p) ==
    /\ pc[p] = "storing"
    /\ Goto(p, "stored")
    /\ staged' = staged \cup {key[p]}
    /\ UNCHANGED <<status, expired, digest, row, old, file, sent, local, del,
                   crashes, acks>>

(* the client goes away, or sends another length or hash than it announced; *)
StoreFails(p) ==
    /\ pc[p] = "storing"
    /\ ThenDelete(p, {key[p]})
    /\ staged' \in {staged, staged \cup {key[p]}}
    /\ UNCHANGED <<status, expired, digest, row, old, file, sent, crashes, acks>>

(* ... then locks the session and looks again ...                           *)
MayPut(s) == status[s] = "active" /\ s \notin expired

LockForPut(p) ==
    LET s == sess[p] IN
    /\ pc[p] = "stored"
    /\ LockFree(s)
    /\ IF MayPut(s) THEN Goto(p, "putLocked") /\ UNCHANGED <<local, del>>
                    ELSE ThenDelete(p, {key[p]})
    /\ UNCHANGED <<status, expired, digest, row, store, file, sent, crashes, acks>>

(* ... and records the chunk, over an earlier row if there is one.          *)
RecordChunk(p) ==
    LET x == <<sess[p], chunk[p]>> IN
    /\ pc[p] = "putLocked"
    /\ RowFree(sess[p], chunk[p])
    /\ row' = [row EXCEPT ![x] = key[p]]
    /\ sent' = [sent EXCEPT ![sess[p]] = @ \cup {<<chunk[p], Written[key[p]]>>}]
    /\ UNCHANGED <<status, expired, digest, store, file>>

CommitChunk(p) ==
    /\ RecordChunk(p)
    /\ ThenDelete(p, {row[<<sess[p], chunk[p]>>]} \ {NoKey})
    /\ lost' = lost \ {<<sess[p], chunk[p]>>}
    /\ UNCHANGED <<crashes, lostAcks>>

(* Authority, reservation or SQL fails: the object goes.                    *)
ChunkFails(p) ==
    /\ pc[p] = "putLocked"
    /\ ThenDelete(p, {key[p]})
    /\ UNCHANGED <<status, expired, digest, row, store, file, sent, crashes, acks>>

(* The transaction commits but its answer is lost: to the handler this is   *)
(* the same failure.                                                        *)
ChunkAckLost(p) ==
    /\ lostAcks < MaxLostAcks
    /\ lostAcks' = lostAcks + 1
    /\ RecordChunk(p)
    /\ ThenDelete(p, {key[p]})
    /\ lost' = lost \cup {<<sess[p], chunk[p]>>}
    /\ UNCHANGED crashes

-----------------------------------------------------------------------------
(* finalizeUploadSession reads the session (a finalized one is answered     *)
(* with its result) ...                                                     *)
StartFinalize(p, s) ==
    /\ pc[p] = "idle"
    /\ status[s] \in {"active", "skipped"}
    /\ s \notin expired
    /\ Goto(p, "finalizing")
    /\ sess' = [sess EXCEPT ![p] = s]
    /\ expect' = [expect EXCEPT ![p] = digest[s]]
    /\ UNCHANGED <<status, expired, digest, row, store, file, sent, chunk, key,
                   parts, hidden, del, crashes, acks>>

(* ... and its part rows, which must be complete, without a lock ...        *)
Complete(s) == NoKey \notin {row[<<s, c>>] : c \in Chunk}

ReadParts(p) ==
    /\ pc[p] = "finalizing"
    /\ Complete(sess[p])
    /\ Goto(p, "assembling")
    /\ parts' = [parts EXCEPT ![p] = Rows(sess[p])]
    /\ UNCHANGED <<status, expired, digest, row, store, file, sent, sess, chunk,
                   key, expect, hidden, del, crashes, acks>>

(* 409 upload_incomplete                                                    *)
AnswerIncomplete(p) ==
    /\ pc[p] = "finalizing"
    /\ ~Complete(sess[p])
    /\ Return(p)
    /\ UNCHANGED <<status, expired, digest, row, store, file, sent, crashes, acks>>

(* ... reads the staged objects one after the other, as Local.Put asks for  *)
(* them ...                                                                 *)
ReadChunk(p) ==
    /\ pc[p] = "assembling"
    /\ chunk[p] < ChunkCount
    /\ chunk[p] = 0 => ~Sweeping
    /\ parts[p][chunk[p] + 1] \in staged
    /\ chunk' = [chunk EXCEPT ![p] = @ + 1]
    /\ UNCHANGED <<status, expired, digest, row, store, file, sent, pc, sess, key,
                   parts, expect, hidden, del, crashes, acks>>

AssembleFails(p) ==
    /\ pc[p] = "assembling"
    /\ chunk[p] < ChunkCount
    /\ parts[p][chunk[p] + 1] \notin staged
    /\ Return(p)
    /\ UNCHANGED <<status, expired, digest, row, store, file, sent, crashes, acks>>

(* Bug: what was read is published whatever its digest.                     *)
VerifiedNever(p) == TRUE

(* ... compares what it read with the declared digest ...                   *)
Verified(p) == expect[p] \in {NoFile, Content(parts[p])}

Verify(p) ==
    /\ pc[p] = "assembling"
    /\ chunk[p] = ChunkCount
    /\ IF Verified(p) THEN Goto(p, "assembled") /\ UNCHANGED <<local, del>>
                      ELSE Return(p)
    /\ UNCHANGED <<status, expired, digest, row, store, file, sent, crashes, acks>>

(* ... locks the session and looks again ...                                *)
MayFinishUnchecked(s) == s \notin expired  \* bug: it may have ended

MayFinish(s) == status[s] = "active" /\ s \notin expired

LockForFinish(p) ==
    LET s == sess[p] IN
    /\ pc[p] = "assembled"
    /\ LockFree(s)
    /\ IF MayFinish(s) THEN Goto(p, "finLocked") /\ UNCHANGED <<local, del>>
                       ELSE Return(p)
    /\ UNCHANGED <<status, expired, digest, row, store, file, sent, crashes, acks>>

(* ... publishes the file, drops the part rows, and deletes the objects of  *)
(* the rows it had read.                                                    *)
DropRows(s) == row' = [x \in Part |-> IF x[1] = s THEN NoKey ELSE row[x]]

Finish(p) ==
    LET s == sess[p] IN
    /\ pc[p] = "finLocked"
    /\ RowsFree(s)
    /\ status' = [status EXCEPT ![s] = "finalized"]
    /\ digest' = [digest EXCEPT ![s] = Content(parts[p])]
    /\ file' = [file EXCEPT ![s] = Content(parts[p])]
    /\ DropRows(s)
    /\ ThenDelete(p, Keys(parts[p]))
    /\ UNCHANGED <<expired, store, sent, crashes, acks>>

(* The name is taken by now and the policy is skip.                         *)
FinishSkipped(p) ==
    LET s == sess[p] IN
    /\ MaySkip
    /\ pc[p] = "finLocked"
    /\ RowsFree(s)
    /\ status' = [status EXCEPT ![s] = "skipped"]
    /\ DropRows(s)
    /\ ThenDelete(p, Keys(parts[p]))
    /\ UNCHANGED <<expired, digest, store, file, sent, crashes, acks>>

(* Bug: the staged objects go although the session stays.                   *)
FinishFailsCleansUp(p) ==
    /\ pc[p] = "finLocked"
    /\ ThenDelete(p, Keys(parts[p]))
    /\ UNCHANGED <<status, expired, digest, row, store, file, sent, crashes, acks>>

(* Taken name, stale revision, quota, authority: the session stays active.  *)
FinishFails(p) ==
    /\ pc[p] = "finLocked"
    /\ Return(p)
    /\ UNCHANGED <<status, expired, digest, row, store, file, sent, crashes, acks>>

-----------------------------------------------------------------------------
(* abortUploadSessionAuthorized: for an abort, and for every request that   *)
(* finds the session expired.                                               *)
Abort(p, s) ==
    /\ pc[p] = "idle"
    /\ status[s] = "active"
    /\ LockFree(s)
    /\ RowsFree(s)
    /\ status' = [status EXCEPT ![s] = "gone"]
    /\ DropRows(s)
    /\ ThenDelete(p, Keys(Rows(s)))
    /\ UNCHANGED <<expired, digest, store, file, sent, crashes, acks>>

-----------------------------------------------------------------------------
(* cleanupUploadStaging.  For each expired session the part rows are read   *)
(* without a lock ...                                                       *)
Expirable(s) == s \in expired /\ status[s] \in {"active", "finalized", "skipped"}

ReadExpired(s) ==
    /\ pc[Janitor] = "idle"
    /\ Expirable(s)
    /\ Goto(Janitor, "expiring")
    /\ sess' = [sess EXCEPT ![Janitor] = s]
    /\ parts' = [parts EXCEPT ![Janitor] = Rows(s)]
    /\ UNCHANGED <<status, expired, digest, row, store, file, sent, chunk, key,
                   expect, hidden, del, crashes, acks>>

(* ... a transaction deletes the rows it sees, ...                          *)
DeleteRows ==
    /\ pc[Janitor] = "expiring"
    /\ Goto(Janitor, "expired")
    /\ hidden' = [hidden EXCEPT ![Janitor] =
                     {c \in Chunk : row[<<sess[Janitor], c>>] # NoKey}]
    /\ UNCHANGED <<status, expired, digest, row, store, file, sent, sess, chunk,
                   key, parts, expect, del, crashes, acks>>

(* ... then the session, for which it waits, and the objects follow.        *)
DeleteSession ==
    LET s == sess[Janitor] IN
    /\ pc[Janitor] = "expired"
    /\ LockFree(s)
    /\ status' = [status EXCEPT ![s] = "gone"]
    /\ row' = [x \in Part |->
          IF x[1] = s /\ x[2] \in hidden[Janitor] THEN NoKey ELSE row[x]]
    /\ ThenDelete(Janitor, Keys(parts[Janitor]))
    /\ UNCHANGED <<expired, digest, store, file, sent, crashes, acks>>

(* It holds the rows a request needs, which holds the session it needs.     *)
DeadlockVictim ==
    /\ pc[Janitor] = "expired"
    /\ ~LockFree(sess[Janitor])
    /\ hidden[Janitor] # {}
    /\ Return(Janitor)
    /\ UNCHANGED <<status, expired, digest, row, store, file, sent, crashes, acks>>

(* Objects older than the grace period that no part row of a session names  *)
(* when the pass reads the rows ...                                         *)
KnownWithoutJoin == {row[x] : x \in Part}  \* bug: rows without a session count

Known == {row[<<s, c>>] : s \in {t \in Session : status[t] \notin {"none", "gone"}}, c \in Chunk}

Orphans == {k \in staged \cap old : k \notin Known}

ScanStaging ==
    /\ pc[Janitor] = "idle"
    /\ Orphans # {}
    /\ Goto(Janitor, "scanned")
    /\ del' = [del EXCEPT ![Janitor] = Orphans]
    /\ UNCHANGED <<status, expired, digest, row, store, file, sent, local, crashes, acks>>

(* ... are deleted if nothing is being written at that moment: it does not  *)
(* wait for the lease, and without it the sweep is left to a later pass.    *)
LeaseFree == \A p \in Request : ~HoldsLease(p)

BeginSweep ==
    /\ pc[Janitor] = "scanned"
    /\ LeaseFree
    /\ Goto(Janitor, "sweeping")
    /\ UNCHANGED <<status, expired, digest, row, store, file, sent, local, del,
                   crashes, acks>>

DeferSweep ==
    /\ pc[Janitor] = "scanned"
    /\ ~LeaseFree
    /\ Return(Janitor)
    /\ UNCHANGED <<status, expired, digest, row, store, file, sent, crashes, acks>>

-----------------------------------------------------------------------------
(* Store.Delete, one key after the other; errors are ignored.               *)
DeleteStaged(p, k) ==
    /\ pc[p] \in {"deleting", "sweeping"}
    /\ k \in del[p]
    /\ del' = [del EXCEPT ![p] = @ \ {k}]
    /\ staged' = staged \ {k}
    /\ old' = old \ {k}
    /\ UNCHANGED <<status, expired, digest, row, file, sent, pc, local, crashes, acks>>

Done(p) ==
    /\ pc[p] \in {"deleting", "sweeping"}
    /\ del[p] = {}
    /\ Return(p)
    /\ UNCHANGED <<status, expired, digest, row, store, file, sent, crashes, acks>>

(* Time passes.  A request takes less than stagingOrphanGrace (an hour)     *)
(* from writing a chunk to recording it.                                    *)
Expire(s) ==
    /\ status[s] \in {"active", "finalized", "skipped"}
    /\ s \notin expired
    /\ expired' = expired \cup {s}
    /\ UNCHANGED <<status, digest, row, store, file, sent, pc, local, del, crashes, acks>>

Age(k) ==
    /\ k \in staged \ old
    /\ \A p \in Proc : key[p] # k
    /\ old' = old \cup {k}
    /\ UNCHANGED <<status, expired, digest, row, staged, file, sent, pc, local, del,
                   crashes, acks>>

(* The server dies: open transactions roll back, deletes do not happen.     *)
Crash(p) ==
    /\ pc[p] # "idle"
    /\ crashes < MaxCrashes
    /\ crashes' = crashes + 1
    /\ Return(p)
    /\ UNCHANGED <<status, expired, digest, row, store, file, sent, acks>>

-----------------------------------------------------------------------------
Start(p) ==
    \E s \in Session :
        \/ \E c \in Chunk, k \in Key : CheckChunk(p, s, c, k)
        \/ ResumeReads(p, s)
        \/ StartFinalize(p, s)
        \/ Abort(p, s)

(* A request that has started runs to its end, and so does a janitor pass.  *)
Continue(p) ==
    \/ \E d \in File : ResumeDeclares(p, d)
    \/ ResumeFails(p)
    \/ BeginStore(p) \/ StoreChunk(p) \/ StoreFails(p)
    \/ LockForPut(p) \/ CommitChunk(p) \/ ChunkFails(p)
    \/ ReadParts(p) \/ AnswerIncomplete(p) \/ ReadChunk(p) \/ AssembleFails(p)
    \/ Verify(p) \/ LockForFinish(p) \/ Finish(p) \/ FinishSkipped(p) \/ FinishFails(p)
    \/ \E k \in Key : DeleteStaged(p, k)
    \/ Done(p)

JanitorContinues ==
    \/ DeleteRows \/ DeleteSession \/ DeadlockVictim
    \/ BeginSweep \/ DeferSweep
    \/ Continue(Janitor)

Next ==
    \/ \E s \in Session, d \in File \cup {NoFile} : Create(s, d)
    \/ \E p \in Request : Start(p) \/ Continue(p) \/ ChunkAckLost(p)
    \/ JanitorContinues
    \/ \E s \in Session : ReadExpired(s) \/ Expire(s)
    \/ ScanStaging
    \/ \E k \in Key : Age(k)
    \/ \E p \in Proc : Crash(p)

Spec == Init /\ [][Next]_vars
-----------------------------------------------------------------------------
(* Properties.                                                              *)

(* "Chunk PUTs are idempotent, so a lost response can be retried safely": a   *)
(* recorded chunk of an open session, for which a repeated PUT is answered  *)
(* from its row, can be read.                                               *)
ChunksIdempotent ==
    \A s \in Session, c \in Chunk :
        status[s] = "active" /\ row[<<s, c>>] # NoKey => row[<<s, c>>] \in staged

(* It can, whatever requests overlap, fail, die or are retried and whatever  *)
(* the janitor deletes, except one whose last commit the handler took for a *)
(* failure because its answer was lost; putting it again with other content *)
(* makes it readable for good.                                              *)
PartsReadable ==
    \A x \in Part \ lost :
        status[x[1]] = "active" /\ row[x] # NoKey => row[x] \in staged

(* Why these hold.  What a process has follows from where it is.             *)
LocalInv ==
    \A p \in Proc :
        /\ pc[p] \in {"checked", "storing", "stored", "putLocked"} =>
              sess[p] \in Session /\ chunk[p] \in Chunk /\ key[p] \in Key
        /\ key[p] # NoKey => pc[p] \in {"checked", "storing", "stored", "putLocked"}
        /\ pc[p] \in {"resuming", "finalizing", "assembling", "assembled", "finLocked"} =>
              sess[p] \in Session
        /\ pc[p] \in {"assembling", "assembled", "finLocked"} => parts[p] \in [Chunk -> Key]
        /\ pc[p] \in {"expiring", "expired"} => sess[p] \in Session
        /\ parts[p] # NoParts =>
              pc[p] \in {"assembling", "assembled", "finLocked", "expiring", "expired"}

(* One open transaction holds a session, which stays active meanwhile.       *)
LockInv ==
    \A p \in Proc, s \in Session : Locks(p, s) =>
        /\ status[s] = "active"
        /\ \A q \in Proc : Locks(q, s) => q = p

(* Rows, and the rows a finalize has read, hold what was sent.               *)
SentInv ==
    /\ \A s \in Session, c \in Chunk :
          row[<<s, c>>] # NoKey => <<c, Written[row[<<s, c>>]]>> \in sent[s]
    /\ \A p \in Proc : pc[p] \in {"assembling", "assembled", "finLocked"} =>
          \A c \in Chunk : <<c, Written[parts[p][c]]>> \in sent[sess[p]]

(* Without late declarations a finalize knows the digest of its session.     *)
DigestInv ==
    /\ \A p \in Proc, s \in Session : Finalizing(p, s) =>
          /\ status[s] # "none"
          /\ ~LateDigest /\ status[s] = "active" => expect[p] = digest[s]
    /\ \A p \in Proc : pc[p] \in {"assembled", "finLocked"} => Verified(p)

(* The session the janitor deletes exists, or existed until now.             *)
ExpiringInv ==
    pc[Janitor] \in {"expiring", "expired"} => status[sess[Janitor]] # "none"

(* A storage key has one owner: a row, or a request that is about to record  *)
(* it; only the keys of rows that are gone are deleted.                      *)
KeyInv ==
    /\ old \subseteq staged
    /\ \A x \in Part : status[x[1]] = "none" => row[x] = NoKey
    /\ \A x, y \in Part : row[x] = row[y] /\ row[x] # NoKey => x = y
    /\ \A x \in Part, p \in Proc : row[x] # NoKey /\ row[x] \in Keys(parts[p]) => x[1] = sess[p]
    /\ \A p \in Proc : key[p] # NoKey =>
          /\ key[p] \notin old
          /\ \A x \in Part : row[x] # key[p]
          /\ \A q \in Proc : key[p] \notin del[q] \cup Keys(parts[q])
          /\ \A q \in Proc : key[q] = key[p] => q = p

StoredInv == \A p \in Proc : pc[p] \in {"stored", "putLocked"} => key[p] \in staged

RowInv ==
    \A x \in Part \ lost : row[x] # NoKey /\ status[x[1]] = "active" =>
        /\ row[x] \in staged
        /\ \A p \in Proc : row[x] \notin del[p]

IInv ==
    /\ TypeOK /\ LocalInv /\ LockInv /\ SentInv /\ DigestInv /\ ExpiringInv
    /\ KeyInv /\ StoredInv /\ RowInv

(* A session keeps its promise to the client: it publishes at most one file, *)
(* made of what was sent for its chunks, with the declared digest.          *)
Phase == [none |-> "none", active |-> "open", finalized |-> "done",
          skipped |-> "skipped", gone |-> "closed"]

Promise == INSTANCE UploadPromise WITH
    phase <- [s \in Session |-> Phase[status[s]]],
    declared <- digest

PromiseKept == Promise!Spec

(* "Finalize is also idempotent": a repeated finalize of a session that has  *)
(* ended without expiring is answered with its result, not as incomplete.   *)
FinalizeIdempotent ==
    [][\A p \in Request : AnswerIncomplete(p) => status[sess[p]] # "skipped"]_vars

(* A file is published under the digest its session row declares.            *)
DigestVerified ==
    [][\A s \in Session : file'[s] # file[s] => digest[s] \in {NoFile, file'[s]}]_vars

(* A request that has begun ends, waits for locks are served in order, time  *)
(* passes, and the janitor runs periodically; a pass in which no session is *)
(* left to expire reaches the staging area, where the lease decides.        *)
Fairness ==
    /\ \A p \in Request : SF_vars(Continue(p))
    /\ SF_vars(JanitorContinues)
    /\ \A s \in Session : SF_vars(ReadExpired(s)) /\ WF_vars(Expire(s))
    /\ SF_vars((\A s \in Session : ~Expirable(s)) /\ ScanStaging)
    /\ \A k \in Key : WF_vars(Age(k))

FairSpec == Spec /\ Fairness

(* "In-progress resumable-upload chunks are temporary staging data; they are *)
(* deleted after finalize/abort or session expiry": they are, if from some  *)
(* time on the janitor meets no write.  (Here sessions are finitely many    *)
(* and expire, so writes end; in the program nothing makes a sweep run      *)
(* while uploads go on.)                                                    *)
StagingReclaimed ==
    <>[]LeaseFree => \A k \in Key : k \in staged ~> k \notin staged

(* "Expired upload-session metadata ... are cleaned by the upload janitor."  *)
MetadataCleaned ==
    \A s \in Session : s \in expired ~>
        status[s] = "gone" /\ \A c \in Chunk : row[<<s, c>>] = NoKey
=============================================================================
