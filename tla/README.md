# Formal models of xdrive

xdrive ("Mount your cloud as a local drive") is a self-hosted file server with
clients. This directory holds TLA+ models of the parts of the server, the agent
and the file explorer whose correctness depends on interleavings, crashes and
retries, the TLC runs that check them on small instances, and TLAPS proofs of
the results that matter most.

Check a run with `tlc -config X.cfg MCModule`, a proof module with `tlapm`.

## 1. The system

| Component | State it keeps | Operations | Hard behaviour |
|---|---|---|---|
| Content-addressed objects (`internal/api/content_blobs.go`) | one object per digest in the store, a row of `xd_content_blobs` with `ref_count` and `state` | retain, release, clean up an uncommitted object, unlink, reap | the store is not transactional: objects are written and removed before COMMIT, next to concurrent uploads, deletes and crashes |
| Files, versions, trash (`internal/api/handlers.go`, `history_trash.go`) | `xd_nodes` (tree, `deleted_at`, `trash_root_id`), `xd_files`, `xd_file_versions` | upload, overwrite, copy, restore a version, trash, restore, delete permanently | READ COMMITTED transactions read without locks; each delete must release exactly the references it removes |
| Upload sessions (`internal/api/uploads.go`, `upload_staging.go`) | `xd_upload_sessions`, `xd_upload_parts`, staged objects | create or resume, put a chunk, finalize, abort, expire, staging cleanup | lost answers and retries, finalize racing chunk uploads, expiry in the middle of a request |
| Quota and reservations (`internal/api/quota.go`, `upload_reservations.go`) | `quota_reserved_bytes`, `reserved_bytes` of sessions, push holds | reserve, re-check at commit, rebuild | check-then-act across requests, expiry by two clocks, deduplicated content that stops being owned |
| Node journal (`internal/api/changes.go`, `internal/meta`) | a change row per mutation, client cursors | append, list since cursor | commit order differs from id order |
| File explorer (`ui/shared/src/mui/CloudFilesController.ts`) | the directory shown, a cursor, a debounce timer, what was marked for a refresh | load, poll, refresh, hide, disconnect, rebind | answers overtake each other between any two awaits |
| Transfer manager (`internal/transfer`, `cmd/xdrive-agent`) | transfers with state, attempts, parent and children, history | start, progress, bind cancel, cancel, retry, clear, finish | callbacks run without the mutex; account switches |
| Background scheduler (`internal/background`) | queue, registry of identities, workers, leases, turns of the owners | submit, join, promote, supersede, cancel, run, retry, close | the mutex is released around leases, runs and handle completion |
| Windows mount (`internal/mount/*_windows.go`) | a folder, the persisted baseline, a journal cursor, pending watcher events | flush, poll, full comparison, audit, conflict copy, first mount, restart | user, other clients, lost answers and crashes between any two requests of a pass |
| File store (`internal/storage`) | directories of objects, `flock` lock files | Put, Open, Promote, Delete, staging walk, pinned reads | lock order between content, staging and temp leases, across processes |
| File operations (`internal/api`) | queued copy, move and delete jobs, undo and redo | claim, run, cancel, undo | crash between steps, claims by several workers |
| Sources (`internal/source*`, `pullsync`, `synology*`, `yike*`) | runs, leases, cursors | claim, heartbeat, checkpoint, finish | lease expiry against a live worker |
| Local push (`internal/localpush*`) | journal, checkpoints, stage | scan, stage, upload, commit | power loss between journal and upload |
| Linux mount, backup repository, media, photo intelligence, auth, Caddy host, update | see PROJECT.json | | derived data, formats, sequential tools |

Handlers run in goroutines of one or more server replicas. They share the
PostgreSQL database (row locks, advisory locks, READ COMMITTED), the file
store, and nothing else, so a model of a server component is a set of processes
that interleave at every point where a handler holds no lock that protects what
it read, and wherever it touches the store before its transaction commits. The
transfer manager and the scheduler are guarded by one mutex each: their models
take a critical section as a step and let everything interleave where the mutex
is released. The explorer and the mount are single threads: their models
interleave at awaits and at requests.

Interactions: an upload session publishes by retaining content (`UploadSessions`
and `ContentBlobs`) and books bytes (`UploadQuota`); every change of a node
writes a journal row, which explorers (`DirectoryFeed`) and mounts (`MountSync`)
follow; mounts and the explorer report their transfers to the manager
(`TransferManager`); media analysis runs as tasks of the scheduler
(`BackgroundScheduler`); file operations
change the tree (`FileOperations`) whose contents and references are the subject of
`ContentBlobs`.

## 2. Modules

| Module | Models |
|---|---|
| `ContentBlobs` | life cycle of content-addressed objects and of all their references |
| `UploadPromise` | what a resumable upload session promises its client |
| `UploadSessions` | the sessions, their part rows and staged chunks |
| `UploadQuota` | checks and bookings against one user's quota |
| `DirectoryFeed` | the node journal and the explorer's controller that follows it |
| `TransferManager` | the agent's tasks, workers, callbacks and account switches |
| `BackgroundScheduler` | queue, registry, workers, leases and closing of the scheduler |
| `SchedulerTurns` | the scheduler with a history of turns, for one property |
| `MountSync` | a folder of a Windows mount, the user, the server, other clients |
| `FileOperations` | the queue of copies, moves, deletions, undos and redos, its worker, and the tree they share with other requests |
| `MC...` | constants and symmetry for TLC |
| `ContentBlobsProofs`, `UploadSessionsProofs`, `UploadQuotaProofs`, `DirectoryFeedProofs`, `TransferManagerProofs`, `BackgroundSchedulerProofs`, `FileOperationsProofs`, `MountSyncProofs` | TLAPS proofs |

### 2.1 ContentBlobs

**State.** `object` is the set of digests whose canonical object exists in the
store (the key is a function of the digest). `blobState` and `refCount` are the
row of `xd_content_blobs`. `key[<<n, slot>>]` is the content of the File row
(`slot = "file"`) or of a FileVersion row of node `n`. `part[s]` is the content
that the committed reused parts of session `s` read. `trashedBy[n]` is
`trash_root_id`, `inTrash` the folders that are trash roots. The other
variables are the local state of a request: `pc`, the digest it works on
(`want`), the node it overwrites (`target`), the trash root whose row it holds
(`root`), the ids and rows it has read (`ids`, `seen`), the
`contentDeleteCandidate`s it has left (`cand`), and whether its staged
temporary object exists (`tmp`).

**Locks.** `lockContentHash` takes a transaction-scoped advisory lock and
`SELECT ... FOR UPDATE` a row lock. Both are held to COMMIT, so who holds one
follows from `pc` and `want` (`HoldsHash`, `HoldsRow`, `RootFree`); no variable
repeats it.

**Steps.** A transaction is split where it reads without a lock
(`PurgeReadVersions`, `PurgeReadFiles`, `ReadCopySource`, `ReadReuseSource`) and
where it touches the store before COMMIT (`BeginRetain`, `BeginCleanup`,
`Unlink`), and where it takes a lock after such a read (`BeginRestore`, which reads the
parent's row without a lock, and `CommitRestore`). What it does under locks up to COMMIT
is one step. `older` orders the rows by `updated_at`: a pass of the janitor takes the
`ReapLimit` oldest deleting ones (128 in the code), and one it cannot delete keeps its
place. A fault
(`Crash`, `CommitUnacknowledged`, `UnlinkFails`) drops the request-local state
and rolls the open transaction back, what the store did stays.

A digest names its object, so `Content` stands for bytes, SHA-256 and storage
key at once. New content never gets a key that is not content-addressed; the
legacy keys that older rows may still have are left out, and so are sizes. The
`ids` of deleted nodes are reused by the model only when no request remembers
them, because the database never gives out an id twice.

**Two constants describe what handlers allow.** `LateCreate` lets a new node be
inserted below a folder that was trashed after the handler had checked it
(`handlers.go:846`); `Subtree` may contain nested folders, which can be trash
roots at the same time (trash the inner one, then the outer one).

### 2.2 UploadSessions and UploadPromise

`UploadPromise` is what a client of the resumable upload may rely on: a session
ends at most once; the file it publishes is made, chunk by chunk, of contents
the client sent for that chunk of that session; it has the digest the client
declared. It knows nothing of rows, objects, locks or janitors.

`UploadSessions` is the implementation. **State:** `status`, `digest` and
`expired` are the row of `xd_upload_sessions` (`expired` is a session whose
`expires_at` has passed; no request moves `expires_at`), `row` the storage key in
each row of `xd_upload_parts`, `staged` the objects below `.xdrive-uploads/`,
`old` those older than `stagingOrphanGrace`, `file` what the session published.
`sent` and `lost` are history variables: what the client sent, and the parts whose last
commit the handler took for a failure because its answer was lost. Per process there are the session and chunk it
works on, the key it wrote (`key`), the part rows it read (`parts`), the digest
it read (`expect`), the part rows its open transaction has deleted (`hidden`)
and the keys it still has to delete (`del`).

**Locks.** A put and a finalize hold the session row `FOR UPDATE` in the states
`putLocked` and `finLocked` (`Locks`); the janitor holds the part rows it has
deleted before it asks for the session row (`RowFree`, `hidden`). A put that writes its
object shares the temp lease of the store (`HoldsLease`); the staging sweep tries to get
it alone and gives up, until a later pass, when a put has it (`DeferSweep`).

| Code | Actions |
|---|---|
| `createUploadSession` | `Create`; a resume is `ResumeReads` (unlocked), then `ResumeDeclares` (under the lock) or `ResumeFails` |
| `putUploadChunk` | `CheckChunk` (unlocked), `BeginStore` (lease), `StoreChunk` (object written) or `StoreFails`, `LockForPut`, then `CommitChunk`, `ChunkFails` or `ChunkAckLost` |
| `finalizeUploadSession` | `StartFinalize`, `ReadParts` or `AnswerIncomplete`, `ReadChunk` per chunk or `AssembleFails`, `Verify`, `LockForFinish`, then `Finish`, `FinishSkipped` or `FinishFails` |
| `abortUploadSessionAuthorized` | `Abort` |
| `cleanupUploadStaging` | `ReadExpired`, `DeleteRows`, `DeleteSession` or `DeadlockVictim`; `ScanStaging`, then `BeginSweep` or `DeferSweep` |
| the deletions every one of them ends with | `DeleteStaged` per key, `Done` |
| time, crashes | `Expire`, `Age`, `Crash` |

A repeated chunk that is already recorded, a finalize of a finalized session and
a resume that finds a digest change nothing and are therefore no actions.
Temporary files that a crash leaves in the middle of `Local.Put` are left out.
How `Finish` publishes content is the subject of `ContentBlobs`: the two modules
share the boundary "the assembled content is retained, the file row points at
it", and finalize appears in `ContentBlobs` as `Stage` or `StageReusingCAS` up to
`CommitRetain`.

### 2.3 UploadQuota

`row` holds the content of every file and version row of one user; what they
retain is the sum of the distinct contents (`Used`). A booking is an active
session or a push hold with `booked` bytes until it is `expired`. A request is
`begun`, has `counted` (the usage statement) and is `admitted` or refused; the
user row is locked in between, but permanent deletes and copies do not take that
lock, and each READ COMMITTED statement sees what has committed by then. `gone`
keeps which bookings had expired when the transaction began, because `NOW()` is
the start of the transaction while the own booking is compared with the clock of
the server. `Shared` contents are retained by other users as well, and a file
that is instantly reused costs nothing if its user owns it already. `excuse` and
`returned` are history variables: they name the two reasons for which the sum (`Sum`
counts the bytes of every member once, as the query does with distinct storage keys)
may exceed the quota legitimately, an administrator who lowers it and a copy
that brings content back which a permanent delete has just removed.

### 2.4 DirectoryFeed

`seq`, `row` and `touches` are the journal: a transaction takes its id when the
trigger writes the row (`Change`) and becomes visible at `Commit`, in any order.
A poll reads the largest visible id (`CountChanges`) and then a page
(`ReadChanges`). The controller variables carry the names of its refs in their
comments. A directory's content is the set of committed changes that touch it,
so "up to date" is equality of sets. `late` collects ids that became visible
after a larger one; the properties except `NothingForgotten` do not speak of
those, and finding 6 does.

| Code | Actions |
|---|---|
| trigger, COMMIT, ROLLBACK | `Change`, `Commit`, `Abort` |
| `listNodeChanges` | `CountChanges`, `ReadChanges` |
| `loadInitial`, `refreshDirectory` and the range requests | `OpenRoot`, `ReadRange`, `FinishLoad`, `FailLoad`, `RefreshIfIdle` |
| `refreshChanges` | `StartPoll`, `PollFails`, `Handshake`, `HoldPage`, `TakePage`, `TakeLastPage` |
| debounce timer, effect | `TimerFires`, `RunEffect` |
| host and network | `Hide`, `Show`, `Disconnect`, `Reconnect`, `Rebind` |

### 2.5 TransferManager

Each critical section of `Manager.mu` is a step. `entries`, `state`, `bound` and
`pending` are the manager's; `worker` is where the goroutine that moves the bytes
is, by kind of task. `fired` is the `sync.OnceFunc` around a cancel callback: who
calls it while it runs waits for it. `Clear` takes its callbacks in one step,
waits for them and for an earlier `Clear` (`prior`), and returns. `cancels` and
`finishes` are calls that have settled a task and still run its callback.
`attached` and `before` are history variables for `ClearJoins`. Kinds: single
transfers, transfers of a mount (which may be retried and not cancelled), folder
downloads with their files, upload groups driven by the desktop window.

### 2.6 BackgroundScheduler and SchedulerTurns

One resource class is modelled (classes share the mutex but neither queue nor
workers). Entries are numbered by submission. A worker pops an entry, waits for
the previous run of the identity (`slot`), acquires a lease, runs, settles the
lease, and requeues, finishes or leaves; between any two of these steps `Submit`,
`CancelQueued`, `CancelRunning` and `Shutdown` may come. `ownerOrder` and
`lastOwnerOrder` are abstracted to the `order` of the owners of a priority and the
set of those that have been `turned` already: the code only compares the numbers.
The handle is completed in the step that ends the entry. Errors of the task, a
lost lease and the run timeout are one result (`"failed"`), of which
`Retryable` decides whether it may be repeated. `SchedulerTurns` adds `passed`,
the owners that were served since an owner began to wait.

### 2.7 MountSync

`node`, `journal`, `late` and `receipts` are the server: nodes with path,
revision and content, the nodes changed after the mount's cursor (compacted to
one row per node, as `listNodeChanges` does), and the finalized upload sessions
that answer a repeated upload. `disk` and `events` are the folder and what the
watcher reported. `base` is the persisted baseline, `tracked` whether the
journal works. The rest is the goroutine: a pass has a copy `work` of the
baseline, the `batch` of events it handles, what a loop still has to visit, the
answer of `Walk` (`snap`) or of the journal (`page`), and the file it is sending
(`job`). A file is its `stamp` (size and modification time, what the code
compares), its bytes and the node id of its placeholder.

| Code | Actions |
|---|---|
| `reconcileLocalChanges` | `SendRename`, `SendMoved`, `VisitPath`, `SendDelete`, `EndFlush` |
| `syncLocalFile`, the same code in `reconcile` | `Upload`, `Overwrite`, `CopyConflict`, `SendCopy`, `Refresh` |
| `reconcile` | `Scan`, `Add`, `Edit`, `Missing`, `WalkAudit`, `Pull` and the ends of its loops |
| `reconcileRemote`, `applyRemoteChangePage` | `Request`, `FastUpserts`, `FastDeletes`, `Slow`, `ApplyDelete`, `ApplyMove`, `ApplyUpsert`, `ApplySent`, `EndPage` |
| `reconcileRemoteFull` | `List`, `Match`, `Prune` |
| mount, first mount, restart | `Start`, `ListFirst`, `Adopt`, `Crash` |
| the select loop | `Wake` with a tick |
| user, other clients | `UserWrite`, `UserRemove`, `UserRename`, `Overflow`; `WebCreate`, `WebWrite`, `WebDelete`, `WebMove`, `WebRestore` |

Every request and every read of a local file before it is sent is a step. What a
pass does in the folder between two requests is one step, and `Crash` may leave
any of the files that step replaces as they were, removed, or replaced already, with the
old baseline (`After`). A request may be
carried out and its answer lost (`Answered`), which fails the pass: a flush or a
poll then stores its baseline so far, an audit forgets it. `watched`, `due` and
`dropped` are history variables: edits reported at the path they are still at,
edits the running pass knew or found, and nodes whose file the user
removed or renamed. A changed file that was fetched within the last second
(`windowsHydrationSettling`) is not sent: the audit passes it over (`PassOver`), a flush
fails and is repeated, a poll and a full comparison take it for unchanged; in the model
this may happen to any changed file. An edit leaves the first two when the user or the mount renames
its file (`UserRename`, `ApplyMove`) or a pass takes its file for a moved one or moves
the entry of its name away (`SendMoved`), or an audit passes it over while its report is
at hand no more, and is not watched at a name that an unsent
rename leads away from: such edits the code can lose (findings 12a, c, j, k, l). Conflict copies have names of their own (`Copy`), because
`conflictName` puts the time into them. Left out: directories, exclusions, pins,
the cache limit, and hydration itself. Receipts
do not expire (the code keeps them for a day).

### 2.8 FileOperations

`node` is the table of nodes of one user: parent, name, trash root, revision. `op`
is `xd_file_operations`: status, kind (`base` and whether it is new, an undo or a
redo), item, target, policy, what it reverts (`of`), who reserves it (`by`) and the
plan to revert it. `tx` is the open transaction of a process on the tree with the
rows it has read and locked. `pc`, `running` and `interrupted` are the workers, one
per server; `calls` are cancelling requests that have written the row and have yet to
interrupt the worker. `applied`, `changed` and `stranded` are history: how often an
operation changed the tree, where it took each node from and to, and which rows an error
of the database has left `running` or `cancel_requested` without a worker.

| Code | Actions |
|---|---|
| `updateNode`, `createDirectory`, `deleteNode`, `trashRestore`, `trashDeletePermanently` | `CheckUpdate`, `CheckCreate`, `LockDelete`, `LockRestore`, `LockPurge`, then `CommitRequest` or `Refuse` |
| `enqueueFileOperation...`, retry, undo, redo | `Submit`, `Undo`, `Redo` |
| `requestFileOperationCancel`, `interruptFileOperation` | `Cancel`, then `Interrupt` |
| `clearFileOperationHistoryTx` | `ClearHistory` |
| `claimNextFileOperation` | `Claim`, `ClaimUnacknowledged` |
| `executeQueued...`, `executeUndo...`, `executeRedo...` | `Begin`, `LockTree` when a tree is to be compared, then `Commit`, `CommitUnacknowledged`, `Fail`, `GiveUp` or `NotRunning` |
| `cancelRunningFileOperation`, `failFileOperation` | `CancelRunning`, `FailOperation`, `OutcomeUnwritten` |
| `StartFileOperationWorker`, `recoverFileOperations` | `Start`, `StartUnrecovered`, `Stop` |

A transaction on the tree has two steps. The first reads, checks and locks rows
`FOR UPDATE`; the second writes and commits. The undo of a copy and the redo of a deletion
have one more in between: they read the ids of the subtree without a lock, and then lock
and compare those that are still live (`LockTree`), so that a node created meanwhile is
not seen. `Write` is the database: a row others
have locked is not written, nor is a row put below a locked one (the foreign key of
`parent_id` takes a shared lock on the parent), no two live siblings have one name,
and a row that has children is not deleted without them. Pruning of the history
(`Pruned`) and the release of reservations (`Released`) are part of the step that ends
an operation, as in the code.

The rows a copy reads are read at its commit. The cause of an error is not kept:
`Fail` may happen at any time, and what it leads to depends on the context
(`AfterError`). The errors that the server only logs are actions of their own and counted
(`errors`): the answer to the commit of a claim is lost (`ClaimUnacknowledged`), a call
to the database runs out of time, which looks like a shutdown (`GiveUp`), the
transaction that is to write the outcome fails (`OutcomeUnwritten`), the recovery at the
start fails (`StartUnrecovered`). A shutdown is a `Stop`, like a crash. Left out: the policy
`replace`, operations on several items, contents, shares, managed sources, notes,
progress, wake-ups.

## 3. Plan

| # | Module | Abstract specification and composition | Theorems worth proving | State |
|---|---|---|---|---|
| 1 | `ContentBlobs` | — | type correctness, no dangling reference, reused parts readable, no orphan object, exactness of `ref_count` | done, proved |
| 2 | `UploadSessions` | implements `UploadPromise` | inductive invariant, parts readable, refinement | done, proved |
| 3 | `TransferManager` | — | `ClearJoins`, `OutcomeStands`, `HistoryBounded` | done, proved |
| 4 | `DirectoryFeed` | journal of the server composed with a client | `MissingRemembered` | done, proved |
| 5 | `BackgroundScheduler` | one run per identity; `SchedulerTurns` extends it | exclusion, cancellation, closing, bounded queue, turns | done, proved |
| 6 | `UploadQuota` | its rows are the references of `ContentBlobs`, its bookings belong to sessions of `UploadSessions` | `WithinQuota`, what is booked is not refused | done, proved |
| 7 | `MountSync` | server, folder and mount in one module | an invariant over `base`, `work`, `job`, `page` and `snap`, `DeletesAreUsers`, `EarlierEditsKept` | done, proved |
| 8 | `StoreLifecycle` | composed with the lock order of `ContentBlobs` | lock order, absence of wait cycles | later |
| 9 | `FileOperations` | a queue that runs each job at most once | claims are exclusive, an outcome is what happened to the tree, reservations match | done, proved but `Reverts` |
| 10 | `SourceRuns`, `LocalPush` | a run with a lease and a checkpoint | the checkpoint never passes unfinished work | later |
| 11 | deleting a user, as an action of `ContentBlobs` | | `BytesSafe` and `CountsExact` again | later |

## 4. Runs

| Run | Instance | Properties | Result |
|---|---|---|---|
| `blobs_exact` | 1 content, 2 nodes in 2 folders side by side, 1 version, 1 session, 2 handlers, 1 fault | `NoDanglingReference`, `ReusedPartsReadable`, `CASHealthOK`, `NoOrphanObject`, `ExactInv` | hold |
| `blobs_reaped` | 2 contents, 2 nodes in 2 folders side by side, 1 session, 1 handler, a janitor that takes one row at a time, 1 fault, `FairSpec` | `DeletingBlobsReclaimed` | hold |
| `blobs_overlap` | 1 content, 3 nodes, nested trash roots, late creates, 2 handlers, 2 faults | `TypeOK`, `IInv` | hold |
| `uploads_safe` | 1 session of 2 chunks, 2 contents, 3 keys, 2 requests, a crash, a lost acknowledgement | `IInv`, `PartsReadable`, `PromiseKept` | hold |
| `uploads_reclaim` | 1 chunk, 1 content, 2 keys, 2 requests, a crash, `FairSpec` | `PromiseKept`, `StagingReclaimed` | hold |
| `quota_safe` | 2 contents, 2 rows, 1 session, 1 hold, 2 requests, 1 quota change or server start | `IInv`, `WithinQuota`, `ReservationHonoured`, `HoldHonoured` | hold |
| `feed` | 2 directories, 2 changes, pages of one row, 3 disturbances, `FairSpec` | `IInv`, `MissingRemembered`, `CatchesUp` | hold |
| `feed_overtaken` | the same, undisturbed | `NothingForgotten` | violated (finding 6) |
| `transfers_ends` | 2 transfers of any kinds, 2 account switches, 1 retry, `FairSpec` | `IInv`, `ClearJoins`, `HistoryBounded`, `OutcomeStands`, `ClearEnds` | hold |
| `scheduler` | 3 tasks of 2 owners, 2 submissions, 2 workers, 2 troubles, `FairSpec` | `IInv`, `OneRunPerIdentity`, `LiveIsRegistered`, `CancelStands`, `CloseJoins`, `TurnsMatchQueue`, `EveryTaskEnds` | hold |
| `mount_safe` | 2 names, 1 copy, 3 nodes, 2 user steps, 1 step of another client, 1 fault | `SyncInv`, `DeletesAreUsers`, `EarlierEditsKept` | hold |
| `operations_safe` | 4 nodes (a directory, a file, room for a copy of both), 2 names, 1 server, 3 operations of which one is new, 1 request, 1 stop, 1 lost acknowledgement, 2 errors of the database | `IInv`, `WorkersMatch`, `OutcomeIsEffect`, `ReservationsMatch`, `Reverts` | hold |

The remaining configurations belong to no run; they are larger instances, or show
a finding of section 6 and end with the counterexample named there:

| Configuration | Property | What TLC reports |
|---|---|---|
| `TransferManager_all` | those of `transfers_ends` but `ClearEnds`, 3 transfers of one sort | hold |
| `ContentBlobs_drift` | `CASHealthOK` | violated (finding 1) |
| `UploadSessions_lostack` | `ChunksIdempotent` | violated (finding 2) |
| `UploadSessions_skipped` | `FinalizeIdempotent` | violated (finding 3) |
| `UploadSessions_digest` | `DigestVerified` | violated (finding 4) |
| `UploadSessions_metadata` | `MetadataCleaned` | violated (finding 5) |
| `TransferManager_committed`, `TransferManager_unbound` | `CommittedStands`, `OldIOStopped` | violated (findings 8, 9) |
| `SchedulerTurns_starved` | `RoundRobin` | violated (finding 10) |
| `BackgroundScheduler_settling`, `BackgroundScheduler_settled` | `CancelSuppressesRetry`, `SettlementAgrees` | violated (finding 11) |
| `MountSync_stale` | `Converges`: 1 name, 2 nodes, no user, no fault, 2 steps of another client, `FairSpec` | violated (finding 7) |
| `MountSync_kept`, `MountSync_insync` | `EditsKept`, `InSyncIsStored` | violated (finding 12) |
| `FileOperations_twoservers` | `OutcomeIsEffect` with two servers | violated (finding 14) |
| `FileOperations_lostack` | `OutcomeIsEffectAlways` | violated (finding 14) |
| `FileOperations_stuck` | `OperationsEnd` under `FairSpec` | violated (finding 15) |
| `FileOperations_cycle` | `Acyclic` | violated (finding 16) |
| `FileOperations_orphans` | `LiveUnderLive` | violated (finding 17) |

**Why the bounds are enough.** *ContentBlobs*: every hazard involves one digest
and two requests besides the janitor: one that adds a reference and one that
removes it, or two that remove it. A version gives a node two references. One
fault at any point covers a crash between any two steps; the safety proofs hold
for every number of them, and of contents. With nested trash roots ref_count drifts
only when three nodes share a content: one below both roots, one below the outer one
and one outside, whose reference the others' double release takes away. Two folders
side by side let two permanent deletes release the same digest at the same time; the
node's file and version make one of them release it twice. A second content makes the
lock of one digest different from that of another and lets an overwrite move a node
from one to the other; with it a janitor that takes one row at a time (`ReapLimit = 1`)
sees fewer rows than are due, as the code's janitor does with more than 128.
`blobs_overlap` is about what happens to one digest and has one content.
*UploadSessions*: sessions do not share rows, keys or
locks, so one is enough. Two chunks make a finalize that has read half of them
possible, two contents a chunk that is replaced, two keys of one content a chunk
that is put twice. `uploads_reclaim` has one chunk and no
lost acknowledgement because liveness multiplies the states; `uploads_safe` has two
chunks, a crash and a lost acknowledgement together. *UploadQuota*: a check races one other writer; a session and
a hold are the two sorts of booking, a shared and an own content the two prices.
*DirectoryFeed*: two transactions commit out of order, a page of one row makes a
poll read twice, two directories let a navigation overtake a load.
*TransferManager*: two overlapping account switches join each other; two tasks
make a parent and its member; a third adds a second member
(`TransferManager_all`). *BackgroundScheduler*: a task, its replacement and one
more make replacing, superseding and a full queue possible, with a queue of one entry
and two submissions beside the retries; two workers let the predecessor run meanwhile. *MountSync*: two names make renames and swaps, a third
node a recreated file, two user steps an edit and a rename, one fault a crash or a
lost answer or an overflow anywhere. *FileOperations*: three operations are an operation, its undo
and its redo; a request changes the tree
before, during or after one of them; a directory with a file makes subtrees, copies of them and moves
into them possible. One stop is a restart at any point. Two errors of the database are
an error that leaves an operation behind, and a recovery that fails to take it up
after the stop.

Counters (`faults`, `crashes`, `lostAcks`, `changes`, `events`, `retries`,
`troubles`, `writes`, `userSteps`, `webSteps`, `requests`, `errors`) are bounded by constants of the
module. `MaxRev` and `NumNodes` bound `MountSync`: a node that has reached
`MaxRev` is changed no more, and a create waits for an unused node; without
`MaxRev` the mount may move a node back and forth for ever (finding 12g).
`CHECK_DEADLOCK FALSE` is used where the system may come to rest: all sessions
closed, all tasks ended, all changes made.

**Fairness.** *ContentBlobs, UploadSessions*: strong fairness of the steps of a
process that has started: PostgreSQL serves waiting lock requests in queue order,
and a handler that got its locks runs to its end or fails. Strong, not weak,
because a lock that is taken and released by others is only free now and then.
`Reap` and `ReadExpired` are repeated by the janitor's timer, `Expire` and `Age` are the
passing of time, `EndSession` follows from `expires_at`. `ScanStaging` is repeated by the
same timer, after the expired sessions; `SF` is asked for it only while no session is
left to expire. A sweep needs the lease of the temporary files, which every write of the
store shares: `BeginSweep` has the guard `LeaseFree`, `DeferSweep` gives the sweep up. No
fairness makes the janitor meet a moment without a write, and none would be justified:
`StagingReclaimed` has `<>[]LeaseFree` as its premise. In `uploads_reclaim` sessions are
finite and expire, so writes end; a server that is always uploading has no such moment
(finding 18). `DeletingBlobsReclaimed` has no premise of the sort: every row the janitor
takes is deleted, revived or tried again, faults are finitely many, and a reused part that
holds a row back ends with its session. With rows that can never be deleted, which the
instance has none of, it is false (finding 19).
No fairness is assumed for requests to start, for `ChunkAckLost`, or for crashes.
*DirectoryFeed*: requests are answered and timers fire. A poll every 1500 ms does
not keep the debounce of 120 ms from firing, which justifies weak fairness of
`TimerFires`; nothing forces the host, the user or a transaction. *TransferManager*:
goroutines go on and a cancel callback, a `context.CancelFunc`, returns; the I/O
itself need not end. *BackgroundScheduler*: workers go on, tasks return, delays
pass, and the goroutine that watches the context shuts the scheduler down.
*MountSync*: the one goroutine goes on and its tickers fire.
*FileOperations*: the worker looks at the queue every five seconds whether or not it is
woken, open transactions end, and a server that is down starts again.

## 5. Proofs

Everything below is proved for every value of the constants: any number of
contents, nodes, requests, sessions, chunks, tasks, workers, changes and faults.

**ContentBlobsProofs.** `ref_count` cannot be part of the argument that bytes are
safe, because it drifts (finding 1). The inductive invariant `IInv` therefore never
mentions its value: it says that the advisory lock of a digest has one holder
(`HashExclusive`), that a digest a row or a reused part needs has a blob row and an
object (`RowInv`), and what a lock holder has established about its digest
(`LockInv`: a retained object exists, a digest being cleaned up has no row, one
being unlinked is needed by nobody). `TypeStep`, `WantStep` and `SafeStep` treat one
action each; the `NeededAfter...` lemmas say which digests become needed or cease to.
From `InductiveInvariant` follow `BytesSafe` (`NoDanglingReference`) and
`ReusedPartsSafe` (`ReusedPartsReadable`). They hold with nested permanent deletes,
late creates, late restores and every fault, the drift of `ref_count` included: the finalizer's
second look at the rows under the locks is what protects content.

`NothingOrphaned` (`NoOrphanObject`) rests on `CleanupDue`: while no fault has
happened, an object without a row, or whose row an unlink is about to delete, belongs
to a request that is still to make the row or to remove the object. A request gives
that up only where `cleanupUncommittedContentBlob` finds a row under the lock of the
digest, which no unlink can then be holding (`DueStep`).

The counts are another argument. A permanent delete counts rows it has not locked, so
`ref_count` is exact only if they cannot change under it. `RootAlone` proves, for all
constants, that it has its trash root to itself; `KeyFrozen` that the rows it has read
stay as they are if nothing live is below its root and no other delete covers the same
nodes; `AddCard`, `RestoreCard` and `PurgeCard` count the rows of a digest before and
after each step, and `HealthStep` compares them with `ref_count`. `CountsExact` states the
result with exactly those two conditions as temporal hypotheses:
`Spec /\ []NothingLiveInTrash /\ []PurgesSeparate` implies `[]CASHealthOK`, for nested
folders too. Both are needed (finding 1). `TrashClosed` shows where
the first comes from: with creates that check their folder at COMMIT, and restores that
find their parent live still when they write (`RestoreInTime`: the code reads the parent
without a lock, `BeginRestore`, and updates later, `CommitRestore`), it holds for any
tree of folders and any overlap of deletes (a node belongs to the innermost trashed
folder above it, `TrashInv`, and a delete misses no node, `IdsInv`). The code has
neither guarantee in general, so `CASHealthOK` is not a theorem of `Spec`;
`CountsExactSideBySide` states it, with the whole invariant `ExactInv`, for the constants
that `blobs_exact` has: folders side by side, where no restored folder has a parent that can be
trashed, and no late create.

**UploadSessionsProofs.** `IInv` has one conjunct per reason: where a process is
determines what it has (`LocalInv`); an open transaction is alone with an active
session (`LockInv`); rows hold what was sent (`SentInv`); a finalize knows the
session's digest (`DigestInv`); the session the janitor deletes exists
(`ExpiringInv`); a storage key has one owner (`KeyInv`), so what a request deletes is
never what a row of an active session names (`RowInv`); what has been put is there until
its request has recorded or removed it (`StoredInv`). Each has a step lemma, and
`NextInvariant` joins them. Consequences:

- `TypeCorrect` and `InductiveInvariant`, without further assumptions;
- `PartsSafe`, without further assumptions: every recorded chunk of an active session can
  be read, except one whose own commit went unacknowledged (`lost`). So a crash, an expiry
  or a lost acknowledgement of one chunk never costs another. What the repository
  promises, that the chunk itself survives too, is `ChunksIdempotent` and false (finding 2);
- `SessionsKeepPromise`: if no digest is declared late (`~LateDigest`), the module
  implements `UploadPromise`: `Create` maps to `Open`, `ResumeDeclares` to `Declare`,
  `CommitChunk` and `ChunkAckLost` to `Send`, `Finish` to `Finish`, `FinishSkipped` to
  `Skip`, `Abort` and `DeleteSession` to `Close`, and every other step to a stutter.
  It holds with lost acknowledgements and any number of crashes. Finding 4 is what
  happens with late digests.

**DirectoryFeedProofs.** `IInv` relates each place a change may be remembered in
(the load in flight, the answer of a poll, the marked directory, the timer) to the
cursor: what a load in flight has read contains every change up to the cursor that
touches its directory, unless the directory is marked. One lemma per action.
`InvariantHolds` and `MissingRememberedAlways`: a change the shown directory lacks
is ahead of the cursor or owed a refresh, whatever answers overtake each other.

**TransferManagerProofs.** `IInv` says of each callback who is responsible for it:
the task that is still bound, a `Cancel` or `Finish` that runs it, or a `Clear`
that has not returned and has it, or a chain of earlier `Clear`s that has it.
`InvariantHolds`, `ClearJoinsAlways` (a `Clear` that has returned left nothing
running) and `OutcomeStandsAlways` (an action property: the first outcome stands).
`HistoryBoundedAlways` is about cardinalities: the surplus a trim takes is the set of
the oldest removable roots, as many as exceed the limit. That such a set exists, and
that what remains is within the limit or cannot go, rests on the least number with a
property (`LeastMember`, from the well-foundedness of `<`) and on the cardinality of
finite sets; steps that trim nothing make no root removable (`QuietBounds`).

**UploadQuotaProofs.** A sum is the cardinality of a set of bytes, so that the
theorems about finite sets give those about sums (`SumUnion`, `SumSubset`, `SumAdd`)
without an induction. `WithinQuota` alone is not inductive: a check and the commit it
admits are separate steps, and permanent deletes, copies, expiries and aborts come
between them. `IInv` therefore follows a request through them. One request has the
user's row (`LockInv`); a booking about to be made is not there yet, and one whose
session is locked stays active (`RequestInv`); a booking that had expired when the
transaction began has expired (`PastInv`), which is why reading the clock twice does no
harm. While a request has `counted`, what it has read bounds the bytes used and the bytes
booked by others and by itself (`CountedInv`). Once it is `admitted`, there is room for
its content, or the content was there already and its room still is (`AdmittedInv`).
Whatever else happens in the meantime only lowers usage and bookings (`Shrinks`: a
content that a copy brings back does not count, it is in `returned`), so both bounds
persist (`ShrinkCounted`, `ShrinkAdmitted`), and the commit uses what they leave
(`CommitUses`). `InvariantHolds`, and from it `WithinQuotaAlways`,
`ReservationHonouredAlways` and `HoldHonouredAlways`, for any quota, contents,
bookings, requests and any number of quota changes and server starts. The constants
`Row`, `Session` and `Hold` are assumed finite, because sums over them are.

**BackgroundSchedulerProofs.** `IInv` has conjuncts for the registry (a live entry
is registered or cancelled), the slot (one worker per identity), the queue
and the workers' entries. From it: `OneRunAlways`, `LiveIsRegisteredAlways`,
`CancelStandsAlways`, `CloseJoinsAlways`. `QueueBoundedAlways` (queued and retried
entries never exceed the capacity plus the workers) needs the cardinality of both
sets and an argument of its own; it is checked by TLC with one worker and four
submissions, not in a run. `TurnsMatchQueueAlways`: the owners with queued tasks, and
no others, have a turn; the turns of a priority are a linear order; those served since
the round began are an initial piece of it. Every way a task enters or leaves the
queue (submit, pop, cancel, retry, replace, shutdown) keeps that.

**FileOperationsProofs.** `IInv` consists of types, of what an open transaction and the
process that has it agree on (`TransactionsMatch`), of what a cancelling request that has
written the row still owes (`CancelsMatch`), of `ReservationsMatch`, and, when
one server runs, of `OutcomesMatch`: whether an operation has changed the tree follows
from its status and from where its worker is. `InvariantHolds`;
`ReservationsAreReleased` for any number of servers; `RunningHasWorker` and
`OutcomeTellsEffect` under `SoleServer`. `RunningHasWorker` does not say that every running
row has a worker, which is false (finding 20), but that only the four errors of 2.8
leave one without: `stranded` records them, such an operation has not ended, no worker
has it, and where no error happened there is none. `SoleServer` is needed because a
second server that starts queues again what the first one runs (finding 14b).
`OutcomeIsEffect` itself speaks of executions in which every commit is acknowledged
(finding 14a).

**MountSyncProofs.** A mount deletes a node because its baseline has a file that the
folder has not. That the user took the file away follows only if no step of the mount
itself, of another client or of a crash leaves such an entry behind. `DeletesAreUsers`
says nothing of the states in between, so `IInv` follows the baseline (`base`) and the
copy a pass works on (`work`). An entry *stands* when its node is live, has the
entry's revision and is at the entry's name. `RevsInv`: whatever the mount
holds of a node (entry, listing, page) is a revision the node has had, so it stands
again only if nothing happened to the node. `PresentInv`: the file of an entry that
stands is in the folder unless the user took it. `QuietInv`: an entry that is current
at another name, without its file, is not about to be reported, because the report
would bring it back to its name. `WorkInv`: in the middle of a pass, what stands in the
baseline stands in the copy, so that a crash, which forgets the copy, and a failure,
which stores it, are both harmless; `PageInv` and `SnapInv` give that for changes and
listings that were read some steps ago. `GoneInv`, `ScanInv` and `MissingInv` say of the
paths the loops still have to delete that the user took them, `ControlInv` what
the loops rely on.

Server steps are summed up by `Newer` (a node that changes gets a new revision, and
only such a node enters the journal), which makes one lemma (`OutsideStep`) of everything
user and clients do; a pass goes on by `PassStep`, `SendingStep`, `BackStep` or
`DoneStep`, ends by `EnterStep`, begins by `BeginStep`, and each action has a lemma
`Step...` that finds which one applies. For a crash, `RemovedGone`: a file that is
being replaced belongs to no entry that stands. `InvariantHolds`, and
`DeletesAreUsersAlways`: `Spared` says which node a request may delete, `OneIsFine`
that this one was the user's. It holds for any number of names, nodes,
edits, faults and clients' steps. `DeletesAreUsers` is about nodes the
mount has at one name; for others it is false (finding 12f).

`EarlierEditsKept` needs a second invariant, `KeepInv`, that follows an edit the server
has not been given (`AtRisk`) through the passes. An edit is known to the code only as a
stamp, so `StampInv` says that no two files have the stamp of one edit and nothing has
one of a later edit. `WatchedInv`: the stamp of a reported edit is in no entry of `base` or
`work`, so the file does not pass for unchanged. `ReportInv`: its report is still at
hand, in `events` or in the batch of the running pass, which then counts the edit
as due. `DueInv`: a pass has still to visit each edit that is due, or is sending it;
once it has sent the local changes none is at risk, and only then does it take
files of the server. `JobInv` and `KeyInv` say that what is sent is what the folder has,
and that an upload answered from a receipt is of content the server has.
The user's and the clients' steps preserve it by `Tame` and `Reporting` (no file gets the
stamp of an edit it did not have, and what is written is reported), the loops by
`LoopKeeps`, one file's requests by `SendingKeeps`, changes applied one by one by
`AppliedKeeps`, the rest by `GoesOn`; a failed pass by `KeepFail`, which hands the batch
back to `events`. `SyncInvAlways`: `IInv` and `KeepInv` hold always;
`EarlierEditsKeptAlways`: in the steps that touch a file (`SafeSteps`, `RefreshedKeeps`) no due
edit is at risk. The proof found two histories that `mount_safe` is too
small for, in which the code does lose an edit of which it had the report or the
scan (findings 12j and k); `watched` and `due` leave those edits out (2.7).

**Only model-checked.** Liveness (`DeletingBlobsReclaimed`, `StagingReclaimed`,
`CatchesUp`, `ClearEnds`, `EveryTaskEnds`): out of the prover's reach.
`Reverts`, which needs an invariant that relates the plan of an operation to the
tree while other requests move the same nodes.

**Assumptions.** (1) A request needs less than `stagingOrphanGrace`, one hour, from
writing a chunk to recording it (guard of `Age`): the code has no other protection of
a chunk whose row is not committed. (2) Storage keys are unique (`Fresh`). (3) SHA-256
does not collide. (4) Store operations are atomic and a completed one survives a
crash. (5) PostgreSQL row and advisory locks exclude, and READ COMMITTED statements see
what had committed when they started. (6) Two writes of a file by the user differ in
size or modification time.

## 6. Findings

Finding 6 is a run; the others are shown by the configurations named.

1. **Overlapping permanent deletes drift `ref_count`** (`history_trash.go:331`,
   `ContentBlobs_drift`). A trash root inside another one can be deleted permanently while the
   outer one is. Each locks only its own root, reads the shared nodes, and releases their
   references: `ref_count` ends too low, or the blob stays in state `deleting` although
   a node refers to it. `cas_health.go:36-42` calls such a store not OK. No byte is lost
   (`BytesSafe`). One folder is enough if a file is created below it after it went to the
   trash, which a request can do that looked at the folder before (`handlers.go:846`): the
   file is live, and an overwrite changes its row between the reads of a permanent delete
   and its release (`CASHealthOK` with `LateCreate = TRUE` and one folder of two nodes).
   A restore does the same without a late create (reading): it looks for the parent
   without a lock (`history_trash.go:246-250`) and updates the nodes at 267; when the parent
   goes to the trash in between, live nodes are left below a trashed folder.
   `CountsExact` proves that there is no other cause than these two: something live
   below a trashed folder, and permanent deletes that overlap.
2. **A chunk whose acknowledgement is lost is destroyed** (`uploads.go:1024`,
   `UploadSessions_lostack`). README.md:857 says that chunk PUTs are idempotent and a lost response
   can be retried. When the lost response is the database's answer to COMMIT, the handler
   deletes the object of the row it has just committed (`ChunksIdempotent`: a recorded
   chunk of an active session can be read); the retry is then answered from the row and
   the upload can never be finalized. `PartsReadable` excludes exactly these chunks.
3. **A finalize that skipped a conflict is not repeatable** (`uploads.go:1093`,
   `UploadSessions_skipped`). The repeated request is answered 409 `upload_incomplete`; README.md:861
   promises the already-created result.
4. **A late digest is not verified** (`uploads.go:1256`, `UploadSessions_digest`). A resume that
   declares a digest while a finalize is assembling is acknowledged, and a file with
   another digest is published.
5. **Part rows may outlive their session** (`uploads.go:1999`, `UploadSessions_metadata`). A put that
   held the session before it expired records its chunk between the janitor's two
   deletes. The row is never deleted; its object is (`StagingReclaimed`).
6. **A cursor passes a change that commits later** (`changes.go:79`, run
   `feed_overtaken`). Journal ids come from a sequence before COMMIT. A client that has
   read a larger id never reads the smaller one, and the directory stays out of date
   until the next change or load of it.
7. **A recreated file keeps its old content in a mount** (`mount_windows.go:682`,
   `reconcile_windows.go:1234` and `1381`, `MountSync_stale`). The comparison is by revision, and
   a new node has revision 1 like the one it replaced. docs/sync-contract.md:32 calls
   the audit a "convergence safety net".
8. **A cancel after the last byte leaves a task in `cancelling`** (`model.go:1290`,
   `TransferManager_committed`). The report of the success is refused and nobody reports
   again; docs/transfers-and-tasks.md:305 promises the completion.
9. **A cleared task that was not bound yet runs on** (`cloud_files.go:1198`,
   `TransferManager_unbound`). The callers of `BindCancel` ignore its answer.
10. **An owner with one task at a time overtakes a backlog** (`scheduler.go:548`,
   `SchedulerTurns_starved`). A bucket that empties loses its place and gets a new
   turn with the next task, ahead of an owner that waits; docs/background-scheduler.md
   says "work-conserving round-robin".
11. **Cancellation around the lease release.** (a) `settling` is set at
   `scheduler.go:1380` and never reset: when the attempt is then repeated, `Cancel` is
   refused for ever (`BackgroundScheduler_settling`; docs/background-scheduler.md:215
   "Explicit cancellation suppresses retry"). (b) A cancel between the return of the task
   and `settling = true`: the lease is released as a success, the handle reports a
   cancellation (`BackgroundScheduler_settled`). By reading only: (c) `ErrLeaseLost` is
   retried when no `Retryable` is given (`188-203`) though docs line 217 calls it
   terminal; (d) `RunTimeout` counts from the pop, the wait for a predecessor included.
12. **Edits that a mount loses or forgets.** `EditsKept` (an edit is in the folder or on
   the server as long as the user does not remove it) and `InSyncIsStored` (a file
   that passes for in sync is on the server) are violated in several ways:
   (a) a file that is edited and renamed before the mount sees it is recorded with its
   present size and time and never sent (`reconcile_windows.go:267-272`); (b) a
   first mount takes local files of the same name for in sync
   (`mount_windows.go:433-448`, `MountSync_insync`); (c) a new file that is written
   while a poll waits for its page is replaced, without a copy, when the page
   reports a file of that name (`reconcile_windows.go:1243-1248`, `MountSync_kept`);
   the same holds for longer when an application saves by renaming the old file
   and writing a new one, because a batch with both drops the path from its list
   (`watch_windows.go:289-291`) and the new file waits for the next audit; (d) an edit during the upload of
   its conflict copy, or during the last requests of an audit, is discarded with the
   file; (e) a page [create, delete] of one name, or a full comparison after a moved
   and recreated file, may attach the old content or leave a node at two paths of the
   baseline; (f) a crash between the removal of a file and its placeholder, while the
   baseline has the node at a path it was moved away from, deletes that node at the next
   start, and the same happens to a node the baseline has at two names: its file at name 2
   is overwritten and the answer lost, another client moves it back to name 1
   and creates a file at 2, the repeated overwrite is answered by the finalized
   session, so that the entry at 2 gets the current revision of a node that is at 1; the
   user writes at 1 what was there first, the upload is answered with that node as
   well, and an audit that finds no file at 2 deletes it (TLC finds this
   with more user and client steps than `mount_safe` has). `DeletesAreUsers` therefore
   speaks of nodes that stand where the mount has them, and at no other name; (g) a rename during an audit may leave two files of one node, which the mount then
   moves back and forth; (h) a file that was deleted cannot be uploaded again with
   the same content under its name for a day (the receipt answers without a node), and the
   failing flush holds every poll up; (i) a full comparison that fails in the middle
   stores a baseline with paths it has not compared; (j) an application saves by
   renaming the old file and writing a new one while the watcher overflows: the audit
   skips the new file in its first loop, because the baseline has the name
   (`mount_windows.go:475`), then moves that entry to the other file (`486`), and the
   second loop skips the new file because the baseline has the name no more (`531`); if
   another client then creates the name, the next poll replaces the new file (TLC, in 21 steps, when
   `SendMoved` drops only the edit of the file that it moves); (k) a poll renames an edited
   file as another client did (`reconcile_windows.go:1201`) and the watcher reports that
   rename like the user's. With two renames of the user that meet it in one batch, three names
   in a chain, `applyLocalRename` moves an entry along the whole chain, no name
   is visited, and the edited file is left without an entry until an audit (TLC, with 4 names,
   when `ApplyMove` leaves `watched` alone); (l) for one second after a file has been
   fetched, an audit passes over an edit of it that its own scan found
   (`mount_windows.go:535-537`), then replaces the file when the server has a newer one (`682-684`) or
   removes it when the server has it no more; polls and the flush have the same guard
   (`reconcile_windows.go:776`, `930`, `1098`, `1219`, `1330`). `PassOver` takes such an edit out of
   `due`, and out of `watched` unless the watcher has reported it again.
13. **Small.** `reserveUploadQuota` refuses a file that is already owned when the
   user is over quota, `ensureQuota` does not (README.md:637).
14. **An operation that was carried out is called failed** (`file_operations.go:1727`).
   `failFileOperation` writes over every status but `cancel_requested`. (a) The answer to
   a commit is lost (`FileOperations_lostack`): the row says completed, then failed, and
   cannot be undone. (b) A second server starts (`FileOperations_twoservers`):
   `recoverFileOperations` (`806`) queues again what the first one is running; both
   carry it out or one completes it and the other calls it failed.
15. **A cancel that meets a failure never ends** (`file_operations.go:923`,
   `FileOperations_stuck`). `failFileOperation` uses the context of the operation. A
   cancel that arrives after the worker has looked at the error and before the write
   cancels that write; the row stays `cancel_requested` until the server restarts,
   and repeating the cancel does nothing.
16. **Two directories can be moved into each other** (`handlers.go:1098`,
   `FileOperations_cycle`). `updateNode` looks for descendants before its transaction and
   locks only the node it moves. docs/android-ios-pwa-ui-parity.md:109 calls the server's
   check of ancestors the final authority. `subtreeIDsDB` then recurses for ever.
17. **A directory is created in one that is being deleted** (`handlers.go:459`,
   `FileOperations_orphans`). The parent is checked before the transaction; the insert
   waits for the delete at the foreign key and then succeeds, because the parent's row still
   exists. node_parent_owner_fence.go:9-12 calls that lock "a real writer fence". The new
   directory is live in a trashed one and is destroyed when that is deleted permanently.
18. **A sweep of staged objects waits for a moment without a write** (reading,
   `upload_staging.go:451-471`, `local.go:67-73`). The janitor only tries the lease of the
   temporary files, which every `Local.Put` shares, and skips the sweep when it does not
   get it. Nothing makes it succeed on a server that is always writing.
19. **128 rows that cannot be deleted hide the others** (reading, `content_blobs.go:540-556`). The
   janitor takes the 128 rows in state `deleting` with the oldest `updated_at`. A row it
   leaves, because files still refer to it (`466-470`: after a drift, finding 1), because a
   session reuses its parts (`475-479`), or because the store fails, keeps its `updated_at`
   and is among the first again. The comment at 476-478 relies on the next pass.
20. **Operations that stay `running` without a worker** (reading). The server only logs it when
   the failure of an operation cannot be written (`file_operations.go:785-788`,
   `1740-1791`), when the recovery at the start fails (`776-778`, the worker starts all the
   same), and when a call runs out of time (`917-921`, taken for a shutdown); the answer to the commit
   of a claim may be lost (`926-971`). The row is then `running` and nobody's until
   a later start recovers it, and a cancel leaves it `cancel_requested`. In
   `FileOperations` they are `stranded`.

`EarlierEditsKept`, the part of `EditsKept` that holds, is about an edit whose event
the pass had, or that its scan found, and whose file was not renamed since (2.7). No
remote change, conflict, lost answer or crash makes such an edit disappear, unless an
audit has passed over it because its file was fetched less than a second before
(12l): the next change of the server then does.

## 7. Not modelled

PROJECT.json lists every component with its status. Within the modelled ones:
authority checks and audit records of the server (an error at any point is an action),
capacity of the disk, shares, listing and paging, legacy storage keys, progress, rates
and metrics; in the mount: directories, exclusions, pins, cache limit, hydration.
Planned: the file store's locks, source runs, local push, deleting a user. Left out for good: token and signature formats, media
analysis, start-up and configuration, the Linux mount (callbacks around a cache without
a baseline) and the sequential backup tool; remote services (Synology, Yike, DSM) are
outside the repository. Most of the repository's lines are user interface, desktop
packaging and test drivers, which keep no state that these properties speak of. A
hazard in PROJECT.json without a property has a note that says why.
