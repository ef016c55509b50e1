------------------------------ MODULE UploadQuota ------------------------------
(***************************************************************************)
(* The storage quota of one user: what the user's file and version rows    *)
(* retain, what active upload sessions and local push holds have booked,   *)
(* and the transactions that check one against the other.                  *)
(*                                                                         *)
(* A check locks the user's row, and then reads usage, its own booking and *)
(* the ownership of its content in separate READ COMMITTED statements.     *)
(* Permanent deletes and copies do not take that lock.  NOW() in the usage *)
(* query is the start of the transaction; the own booking is compared with *)
(* the clock of the server.                                                *)
(*                                                                         *)
(* Left out: the unlocked checks that only reject early, the capacity of   *)
(* the disk, and the rows of other users, of which Shared keeps what       *)
(* matters.  One server runs: its start finds no request open.             *)
(***************************************************************************)
EXTENDS Integers, FiniteSets

CONSTANTS
    Content, NoContent,  \* digests of whole files
    Size,                \* their lengths
    Shared,              \* contents that rows of other users retain as well
    Row,                 \* file and version rows of the user
    Session, Hold,       \* resumable upload sessions, local push quota holds
    NoBooking,
    Request,             \* requests that run at the same time
    Quotas,              \* quotas an administrator sets, 0 for none
    MaxChanges           \* bound on quota changes and server starts

Booking == Session \cup Hold

ASSUME ConstantsAssumption ==
    /\ NoContent \notin Content
    /\ Size \in [Content -> Nat \ {0}]
    /\ Shared \subseteq Content
    /\ NoBooking \notin Booking
    /\ Session \cap Hold = {}
    /\ IsFiniteSet(Row) /\ IsFiniteSet(Booking)
    /\ Quotas \subseteq Nat
    /\ MaxChanges \in Nat

VARIABLES
    quota,     \* xd_users.quota_bytes
    row,       \* storage key of a file or version row, NoContent: no such row
    status,    \* of a booking: "none", "active" or "closed"
    content,   \* the file the client of a booking uploads
    declared,  \* the session knows its digest
    booked,    \* quota_reserved_bytes of a session, bytes of a hold
    expired,   \* active bookings whose expires_at has passed
    pc, op, what, who,   \* a request: where it is, what it does, with what
    gone,      \* bookings that had expired when its transaction began, until it reads usage
    seen,      \* what its usage statement returned, until it is admitted
    need,      \* bytes it was admitted with
    returned,  \* history: contents a copy brought back, and no write was admitted for
    excuse,    \* history: bytes above the quota when it was last changed
    changes

rows == <<row, returned>>
bookings == <<status, content, declared, booked, expired>>
request == <<pc, op, what, who, gone, seen, need>>
admin == <<quota, changes>>
vars == <<quota, row, bookings, request, returned, excuse, changes>>

(* The sum of f[x] for x in S: the bytes of all x, each counted once.      *)
BytesOf(f, x) == {x} \X (1 .. f[x])
Bytes(f, S) == UNION {BytesOf(f, x) : x \in S}
Sum(f, S) == Cardinality(Bytes(f, S))

(* Bug: what expires while it is subtracted makes the difference negative. *)
ExcessUnclamped(n) == n

Excess(n) == IF n > 0 THEN n ELSE 0

NothingSeen == [used |-> 0, reserved |-> 0, clean |-> FALSE]

ValuesOK ==
    /\ quota \in Quotas
    /\ row \in [Row -> Content \cup {NoContent}]
    /\ status \in [Booking -> {"none", "active", "closed"}]
    /\ content \in [Booking -> Content]
    /\ declared \in [Session -> BOOLEAN]
    /\ booked \in [Booking -> Nat]
    /\ expired \subseteq Booking
    /\ pc \in [Request -> {"idle", "begun", "session", "counted", "admitted",
                           "copying"}]
    /\ op \in [Request -> {"upload", "create", "resume", "declare", "finish", "hold",
                           "commit"}]
    /\ what \in [Request -> Content \cup {NoContent}]
    /\ who \in [Request -> Booking \cup {NoBooking}]
    /\ gone \in [Request -> SUBSET Booking]
    /\ seen \in [Request -> [used : Nat, reserved : Nat, clean : BOOLEAN]]
    /\ need \in [Request -> Nat]
    /\ returned \subseteq Content
    /\ changes \in 0..MaxChanges

TypeOK == ValuesOK /\ excuse \in Nat

Init ==
    /\ quota \in Quotas
    /\ row = [r \in Row |-> NoContent]
    /\ status = [b \in Booking |-> "none"]
    /\ content \in [Booking -> Content]
    /\ \A b \in Hold : content[b] \notin Shared
    /\ declared \in [Session -> BOOLEAN]
    /\ booked = [b \in Booking |-> 0]
    /\ expired = {}
    /\ pc = [p \in Request |-> "idle"]
    /\ op = [p \in Request |-> "upload"]
    /\ what = [p \in Request |-> NoContent]
    /\ who = [p \in Request |-> NoBooking]
    /\ gone = [p \in Request |-> {}]
    /\ seen = [p \in Request |-> NothingSeen]
    /\ need = [p \in Request |-> 0]
    /\ returned = {}
    /\ excuse = 0
    /\ changes = 0

-----------------------------------------------------------------------------
(* What the queries return, and who holds which lock                       *)

Owned == {row[r] : r \in Row} \ {NoContent}
Used == Sum(Size, Owned)
Active(b) == status[b] = "active"
Live(b) == Active(b) /\ b \notin expired
LiveBookings == {b \in Booking : Live(b)}
Reserved == Sum(booked, LiveBookings)

(* The reserved bytes by the clock of a transaction.                       *)
ReservedAt(past) == Sum(booked, {b \in Booking : Active(b) /\ b \notin past})

(* Bug: the usage is read without the lock of the user's row.              *)
UserFreeUnlocked == TRUE

UserFree == \A p \in Request : pc[p] \notin {"counted", "admitted"}

(* A resume and a finalize lock the row of their session before the user.  *)
OnSession(p) == op[p] \in {"resume", "declare", "finish"}
LocksSession(p) == OnSession(p) /\ pc[p] \in {"session", "counted", "admitted"}
SessionFree(b) == \A p \in Request : ~(LocksSession(p) /\ who[p] = b)

(* Bytes above the quota that no copy explains.                            *)
Over == IF quota = 0 THEN 0 ELSE Excess(Used + Reserved - quota - Sum(Size, returned \cap Owned))

-----------------------------------------------------------------------------
(* Admission                                                               *)

Forget(p) ==
    /\ pc' = [pc EXCEPT ![p] = "idle"]
    /\ op' = [op EXCEPT ![p] = "upload"]
    /\ what' = [what EXCEPT ![p] = NoContent]
    /\ who' = [who EXCEPT ![p] = NoBooking]
    /\ gone' = [gone EXCEPT ![p] = {}]
    /\ seen' = [seen EXCEPT ![p] = NothingSeen]
    /\ need' = [need EXCEPT ![p] = 0]

Goto(p, place) == pc' = [pc EXCEPT ![p] = place]

(* Every create makes a booking with an id of its own.                     *)
Fresh(b) == status[b] = "none" /\ \A p \in Request : who[p] # b

(* The transaction begins.  A finalize comes when its client has sent the  *)
(* whole content; a resume has found the session active and not expired.   *)
MayBegin(o, c, b) ==
    \/ o = "upload" /\ b = NoBooking
    \/ b \in Booking /\ c = content[b] /\
         \/ o = "create" /\ b \in Session /\ Fresh(b)
         \/ o = "hold" /\ b \in Hold /\ Fresh(b)
         \/ o \in {"resume", "declare", "finish"} /\ b \in Session /\ Live(b)
         \/ o = "commit" /\ b \in Hold /\ Active(b)

Begin(p, o, c, b) ==
    /\ pc[p] = "idle"
    /\ MayBegin(o, c, b)
    /\ Goto(p, "begun")
    /\ op' = [op EXCEPT ![p] = o]
    /\ what' = [what EXCEPT ![p] = c]
    /\ who' = [who EXCEPT ![p] = b]
    /\ gone' = [gone EXCEPT ![p] = expired]
    /\ UNCHANGED <<seen, need, bookings, rows, admin>>

LockSession(p) ==
    /\ pc[p] = "begun"
    /\ OnSession(p)
    /\ SessionFree(who[p])
    /\ Active(who[p])
    /\ op[p] = "finish" => who[p] \notin expired
    /\ Goto(p, "session")
    /\ UNCHANGED <<op, what, who, gone, seen, need, bookings, rows, admin>>

(* It waits for the user's row and reads usage; no other step depends on   *)
(* the lock alone.                                                         *)
LockUser(p) ==
    /\ pc[p] = IF OnSession(p) THEN "session" ELSE "begun"
    /\ UserFree
    /\ Goto(p, "counted")
    /\ seen' = [seen EXCEPT ![p] = [used |-> Used, reserved |-> ReservedAt(gone[p]),
                                    clean |-> /\ excuse = 0 /\ returned \cap Owned = {}
                                              /\ expired \subseteq gone[p]]]
    /\ gone' = [gone EXCEPT ![p] = {}]
    /\ UNCHANGED <<op, what, who, need, bookings, rows, admin>>

(* Bug: a finalize counts its own reservation against itself.              *)
OwnOfResume(p) == IF op[p] \in {"resume", "declare"} THEN booked[who[p]] ELSE 0

(* The bytes of its own booking that a check does not count against it.    *)
Own(p) ==
    CASE op[p] \in {"resume", "declare"} -> booked[who[p]]
      [] op[p] = "finish" /\ Live(who[p]) -> booked[who[p]]
      [] OTHER -> 0

(* The digest of the content is known when its bytes are checked.          *)
KeyKnown(p) == op[p] \in {"create", "resume"} => declared[who[p]]

Additional(p) == IF KeyKnown(p) /\ what[p] \in Owned THEN 0 ELSE Size[what[p]]

Remaining(p) == quota - seen[p].used - Excess(seen[p].reserved - Own(p))

(* Bug: a hold counts its own bytes twice when it is committed.            *)
FitsTwice(p) ==
    \/ quota = 0
    \/ op[p] \in {"upload", "finish"} /\ Additional(p) = 0
    \/ Additional(p) <= Remaining(p)

(* A commit of a hold finds its bytes among the reserved ones.             *)
Fits(p) ==
    \/ quota = 0
    \/ op[p] \in {"upload", "finish"} /\ Additional(p) = 0
    \/ op[p] # "commit" /\ Additional(p) <= Remaining(p)
    \/ op[p] = "commit" /\ 0 <= Remaining(p)

(* A hold is for content that nobody retains yet.                          *)
NewContent(p) ==
    op[p] \in {"hold", "commit"} =>
       /\ what[p] \notin Owned \cup Shared
       /\ op[p] = "commit" => Live(who[p]) /\ seen[p].reserved >= booked[who[p]]

Admit(p) ==
    /\ pc[p] = "counted"
    /\ NewContent(p)
    /\ Fits(p)
    /\ Goto(p, "admitted")
    /\ need' = [need EXCEPT ![p] = IF quota = 0 THEN 0 ELSE Additional(p)]
    /\ seen' = [seen EXCEPT ![p] = NothingSeen]
    /\ UNCHANGED <<op, what, who, gone, bookings, rows, admin>>

(* A refusal, or any other error: the transaction is rolled back.          *)
Abort(p) ==
    /\ pc[p] # "idle"
    /\ Forget(p)
    /\ UNCHANGED <<bookings, rows, admin>>

-----------------------------------------------------------------------------
(* Commits                                                                 *)

AddRow(p) ==
    /\ \E r \in Row : row[r] = NoContent /\ row' = [row EXCEPT ![r] = what[p]]
    /\ returned' = IF need[p] = 0 THEN returned ELSE returned \ {what[p]}

Close(b) ==
    /\ status' = [status EXCEPT ![b] = "closed"]
    /\ booked' = [booked EXCEPT ![b] = 0]
    /\ expired' = expired \ {b}
    /\ UNCHANGED <<content, declared>>

Book(b, n) ==
    /\ status' = [status EXCEPT ![b] = "active"]
    /\ booked' = [booked EXCEPT ![b] = n]
    /\ UNCHANGED <<content, expired>>

CommitUpload(p) ==
    /\ pc[p] = "admitted" /\ op[p] = "upload"
    /\ AddRow(p)
    /\ Forget(p)
    /\ UNCHANGED <<bookings, admin>>

CommitCreate(p) ==
    /\ pc[p] = "admitted" /\ op[p] = "create"
    /\ Book(who[p], need[p])
    /\ Forget(p)
    /\ UNCHANGED <<declared, rows, admin>>

CommitResume(p) ==
    /\ pc[p] = "admitted" /\ op[p] \in {"resume", "declare"}
    /\ Book(who[p], need[p])
    /\ declared' = [declared EXCEPT ![who[p]] = @ \/ op[p] = "declare"]
    /\ Forget(p)
    /\ UNCHANGED <<rows, admin>>

CommitHold(p) ==
    /\ pc[p] = "admitted" /\ op[p] = "hold"
    /\ Book(who[p], Size[what[p]])
    /\ Forget(p)
    /\ UNCHANGED <<declared, rows, admin>>

(* The file of a session or of a hold is published.                        *)
CommitFile(p) ==
    /\ pc[p] = "admitted" /\ op[p] \in {"finish", "commit"}
    /\ AddRow(p)
    /\ Close(who[p])
    /\ Forget(p)
    /\ UNCHANGED admin

(* A finalize that skips a name conflict does not lock the user.           *)
Skip(p) ==
    /\ pc[p] = "session" /\ op[p] = "finish"
    /\ Close(who[p])
    /\ Forget(p)
    /\ UNCHANGED <<rows, admin>>

-----------------------------------------------------------------------------
(* What changes usage and bookings without the lock of the user's row      *)

Expire(b) ==
    /\ Live(b)
    /\ expired' = expired \cup {b}
    /\ UNCHANGED <<status, content, declared, booked, request, rows, admin>>

(* An abort, the janitor, or the cancellation of a stage; only the last    *)
(* one locks the user.                                                     *)
CloseBooking(b) ==
    /\ Active(b)
    /\ SessionFree(b)
    /\ b \in Hold => UserFree
    /\ Close(b)
    /\ UNCHANGED <<request, rows, admin>>

(* A permanent delete removes rows of the user.                            *)
Purge(rs) ==
    /\ \A r \in rs : row[r] # NoContent
    /\ row' = [r \in Row |-> IF r \in rs THEN NoContent ELSE row[r]]
    /\ UNCHANGED <<returned, bookings, request, admin>>

CopyReads(p, r) ==
    /\ pc[p] = "idle"
    /\ row[r] # NoContent
    /\ Goto(p, "copying")
    /\ what' = [what EXCEPT ![p] = row[r]]
    /\ UNCHANGED <<op, who, gone, seen, need, bookings, rows, admin>>

(* The blob is still ready if somebody retains it.                         *)
CopyCommits(p) ==
    /\ pc[p] = "copying"
    /\ what[p] \in Owned \cup Shared
    /\ \E r \in Row : row[r] = NoContent /\ row' = [row EXCEPT ![r] = what[p]]
    /\ returned' = returned \cup ({what[p]} \ Owned)
    /\ Forget(p)
    /\ UNCHANGED <<bookings, admin>>

-----------------------------------------------------------------------------
(* Changes of the quota                                                    *)

Rebuilt(q) ==
    [b \in Booking |->
        CASE b \in Hold -> booked[b]
          [] b \in Session /\ Live(b) /\ q > 0 /\ ~(declared[b] /\ content[b] \in Owned)
               -> Size[content[b]]
          [] OTHER -> 0]

(* The administrator's transaction locks the user and then the sessions; a *)
(* request that already holds a session waits for the user, and PostgreSQL *)
(* aborts one of the two.                                                  *)
SetQuota(q) ==
    /\ changes < MaxChanges
    /\ q # quota
    /\ UserFree
    /\ \A p \in Request : pc[p] # "session"
    /\ quota' = q
    /\ booked' = Rebuilt(q)
    /\ changes' = changes + 1
    /\ UNCHANGED <<status, content, declared, expired, request, rows>>

(* A start of the server rebuilds the reservations of every session.       *)
ServerStart ==
    /\ changes < MaxChanges
    /\ \A p \in Request : pc[p] = "idle"
    /\ booked' = Rebuilt(quota)
    /\ changes' = changes + 1
    /\ UNCHANGED <<quota, status, content, declared, expired, request, rows>>

(* The history variable excuse: what is above the quota when it changes or *)
(* reservations are rebuilt; it only shrinks until the next change.        *)
Excuse ==
    excuse' = IF changes' # changes THEN Over'
              ELSE IF UserFree' /\ Over' < excuse THEN Over' ELSE excuse

Step ==
    \/ \E p \in Request :
         \/ \E o \in {"create", "resume", "declare", "finish", "hold", "commit"},
              b \in Booking : Begin(p, o, content[b], b)
         \/ \E c \in Content : Begin(p, "upload", c, NoBooking)
         \/ LockSession(p) \/ LockUser(p) \/ Admit(p) \/ Abort(p)
         \/ CommitUpload(p) \/ CommitCreate(p) \/ CommitResume(p) \/ CommitHold(p)
         \/ CommitFile(p) \/ Skip(p)
         \/ \E r \in Row : CopyReads(p, r)
         \/ CopyCommits(p)
    \/ \E b \in Booking : Expire(b) \/ CloseBooking(b)
    \/ \E rs \in SUBSET Row \ {{}} : Purge(rs)
    \/ \E q \in Quotas : SetQuota(q)
    \/ ServerStart

Next == Step /\ Excuse

Spec == Init /\ [][Next]_vars

-----------------------------------------------------------------------------
(* Properties                                                              *)

(* Whatever uploads, finalizes, pushes, deletes, copies and expiries       *)
(* overlap, used and reserved bytes together exceed the quota only by what *)
(* they exceeded it by when it was last set and by the contents that a     *)
(* copy brought back after a permanent delete.                             *)
WithinQuota == Over <= excuse

(* A session that has booked its whole size and has not expired is never   *)
(* refused its finalize, whoever else uploads meanwhile: unless the quota  *)
(* was set below what was in use or booked, a copy brought content back,   *)
(* or a booking expired since the transaction began.                       *)
ReservationHonoured ==
    \A p \in Request :
       /\ pc[p] = "counted" /\ op[p] = "finish" /\ seen[p].clean
       /\ Live(who[p]) /\ booked[who[p]] = Size[what[p]]
       => Fits(p)

(* The same for a push that holds its quota.                               *)
HoldHonoured ==
    \A p \in Request :
       /\ pc[p] = "counted" /\ op[p] = "commit" /\ seen[p].clean
       /\ Live(who[p])
       => Fits(p)

-----------------------------------------------------------------------------
(* The inductive invariant                                                 *)

(* One request has the row of the user, and one that of a session.         *)
AtUser(p) == pc[p] \in {"counted", "admitted"}

LockInv ==
    \A p, q \in Request :
       \/ AtUser(p) /\ AtUser(q)
       \/ LocksSession(p) /\ LocksSession(q) /\ who[p] = who[q]
       => p = q

BookingInv ==
    /\ \A b \in expired : Active(b)
    /\ \A b \in Hold : Active(b) => booked[b] = Size[content[b]]

(* What a request works on: a booking that it is about to make is its own, *)
(* one whose session it has locked stays active.                           *)
RequestInv(p) ==
    /\ pc[p] \in {"idle", "copying"} => op[p] = "upload"
    /\ pc[p] # "idle" => what[p] \in Content
    /\ pc[p] = "session" => OnSession(p)
    /\ IF op[p] = "upload" THEN who[p] = NoBooking
       ELSE /\ who[p] \in IF op[p] \in {"hold", "commit"} THEN Hold ELSE Session
            /\ what[p] = content[who[p]]
    /\ op[p] \in {"create", "hold"} =>
          status[who[p]] = "none" /\ \A q \in Request \ {p} : who[q] # who[p]
    /\ LocksSession(p) => Active(who[p])

(* A booking that had expired when the transaction began is expired now,   *)
(* if it is still active; the one of a session had not.                    *)
PastInv(p) ==
    /\ \A b \in gone[p] : status[b] # "none" /\ (Active(b) => b \in expired)
    /\ OnSession(p) => who[p] \notin gone[p]

(* Contents whose bytes were admitted, and the bookings of other requests. *)
Net == Owned \ returned
NetUsed == Sum(Size, Net)
Others(p) == Sum(booked, LiveBookings \ {who[p]})

(* The bytes of its own booking that the usage statement has counted.      *)
OwnCounted(p) ==
    IF OnSession(p) \/ (op[p] = "commit" /\ Live(who[p])) THEN booked[who[p]] ELSE 0

(* What a request has read bounds what is used and booked until it commits.*)
CountedInv(p) ==
    pc[p] = "counted" =>
       /\ NetUsed <= seen[p].used
       /\ Others(p) + OwnCounted(p) <= seen[p].reserved
       /\ seen[p].clean /\ quota # 0 => seen[p].used + seen[p].reserved <= quota

(* There is room for the content of an admitted request, or the content    *)
(* was there, and if it has been purged meanwhile its room still is.       *)
AdmittedInv(p) ==
    pc[p] = "admitted" /\ quota # 0 =>
       \/ need[p] = Size[what[p]] /\ NetUsed + Others(p) + need[p] <= quota
       \/ /\ need[p] = 0 /\ op[p] \notin {"hold", "commit"}
          /\ op[p] \in {"upload", "finish"} =>
                Sum(Size, (Owned \cup {what[p]}) \ returned) + Reserved <= quota + excuse

ControlInv == LockInv /\ BookingInv /\ \A p \in Request : RequestInv(p) /\ PastInv(p)

IInv ==
    /\ TypeOK /\ ControlInv /\ WithinQuota
    /\ \A p \in Request : CountedInv(p) /\ AdmittedInv(p)
=============================================================================
