--------------------------- MODULE DirectoryFeed ---------------------------
(***************************************************************************)
(* The node change journal of the server and the controller of the file    *)
(* explorer that keeps the directory on the screen up to date with it.     *)
(*                                                                         *)
(* A trigger on xd_nodes writes one journal row per changed node, in the   *)
(* transaction of the change; the row takes its id from a sequence when it *)
(* is written and becomes visible when the transaction commits, so ids may *)
(* become visible out of order.  A client asks for the rows after a cursor *)
(* and the server answers from two reads: the largest id, then the rows.   *)
(*                                                                         *)
(* The controller (a React hook) runs one load of a directory and one poll *)
(* of the journal at a time, plus a debounce timer and an effect; between  *)
(* any two awaits any of the others may run.  A later request supersedes   *)
(* an earlier one, whose answer is then ignored.                           *)
(*                                                                         *)
(* What a directory holds is abstracted to the set of the changes that     *)
(* touch it: two contents are equal when they come from the same changes.  *)
(***************************************************************************)
EXTENDS Integers, FiniteSets

CONSTANTS
  Dir,         \* the directories of one owner
  Root,        \* the one loadInitial opens
  NoDir,       \* no directory: null in the code
  MaxChanges,  \* how many journal rows are written at most
  MaxOpen,     \* how many transactions may be open at a time
  PageLimit,   \* rows of one page of the journal (the code: 200)
  MaxPages,    \* pages one poll reads at most (the code: 8)
  MaxEvents    \* how often the user, the host or the network interferes

ASSUME FeedAssumption ==
  /\ Root \in Dir /\ NoDir \notin Dir
  /\ MaxChanges \in Nat /\ MaxEvents \in Nat /\ MaxOpen \in Nat
  /\ PageLimit \in Nat \ {0} /\ MaxPages \in Nat \ {0}

Id == 1..MaxChanges

VARIABLES
  \* the journal
  seq,       \* the last id the sequence gave out
  row,       \* what became of the transaction of each id
  touches,   \* the parent and the previous parent in each row
  late,      \* rows that became visible after a row with a larger id
  \* the controller
  enabled,   \* enabledRef: a session with a reachable port
  foreground,\* foregroundRef: the explorer is on the screen
  target,    \* virtualTargetRef: the directory shown
  shown,     \* the changes its loaded range contains
  load,      \* the directory request in flight
  poll,      \* the refreshChanges in flight
  seeded,    \* changeCursorRef # null
  cursor,    \* changeCursorRef
  handshake, \* changeHandshakeRefreshRef
  mark,      \* changeRefreshParentIDRef
  timer,     \* changeRefreshTimerRef: the directory a refresh is due for
  effect,    \* a render with a new target is about to run its effect
  events     \* how often the environment has interfered

journal == <<seq, row, touches, late>>
view    == <<target, shown>>
feed    == <<seeded, cursor, handshake, mark>>
host    == <<enabled, foreground>>
vars == <<journal, host, view, load, poll, feed, timer, effect, events>>

NoLoad == [st |-> "none", dir |-> NoDir, rows |-> {}, refresh |-> FALSE]
NoPoll == [st |-> "idle", after |-> 0, latest |-> 0, next |-> 0,
           rows |-> {}, left |-> 0, affected |-> FALSE]

Loads == [st : {"none", "root", "asked", "read"}, dir : Dir \cup {NoDir},
          rows : SUBSET Id, refresh : BOOLEAN]
Polls == [st : {"idle", "asked", "counted", "answered"}, after : 0..MaxChanges,
          latest : 0..MaxChanges, next : 0..MaxChanges, rows : SUBSET Id,
          left : 0..MaxPages, affected : BOOLEAN]

TypeOK ==
  /\ seq \in 0..MaxChanges
  /\ row \in [Id -> {"free", "open", "committed", "aborted"}]
  /\ touches \in [Id -> SUBSET Dir]
  /\ late \in SUBSET Id
  /\ enabled \in BOOLEAN /\ foreground \in BOOLEAN
  /\ target \in Dir \cup {NoDir}
  /\ shown \in SUBSET Id
  /\ load \in Loads
  /\ poll \in Polls
  /\ seeded \in BOOLEAN
  /\ cursor \in 0..MaxChanges
  /\ handshake \in BOOLEAN
  /\ mark \in Dir \cup {NoDir}
  /\ timer \in Dir \cup {NoDir}
  /\ effect \in BOOLEAN
  /\ events \in 0..MaxEvents

Init ==
  /\ seq = 0
  /\ row = [i \in Id |-> "free"]
  /\ touches = [i \in Id |-> {}]
  /\ late = {}
  /\ enabled = TRUE /\ foreground = TRUE
  /\ target = NoDir /\ shown = {}
  /\ load = [NoLoad EXCEPT !.st = "root"]
  /\ poll = NoPoll
  /\ seeded = FALSE /\ cursor = 0 /\ handshake = FALSE /\ mark = NoDir
  /\ timer = NoDir /\ effect = FALSE
  /\ events = 0

----------------------------------------------------------------------------
(* The server. *)

Visible == {i \in Id : row[i] = "committed"}

\* The changes a listing of a directory reflects.
Content(d) == {i \in Visible : d \in touches[i]}

\* A transaction changes a node: the trigger writes the row with the next id
\* of the sequence and with the parent and the previous parent.  Creating,
\* renaming and deleting touch one directory, moving touches two.
Change ==
  /\ seq < MaxChanges
  /\ Cardinality({i \in Id : row[i] = "open"}) < MaxOpen
  /\ seq' = seq + 1
  /\ row' = [row EXCEPT ![seq + 1] = "open"]
  /\ \E parent, previous \in Dir :
       touches' = [touches EXCEPT ![seq + 1] = {parent, previous}]
  /\ UNCHANGED <<late, host, view, load, poll, feed, timer, effect, events>>

Commit(i) ==
  /\ row[i] = "open"
  /\ row' = [row EXCEPT ![i] = "committed"]
  /\ late' = IF \E j \in Visible : i < j THEN late \cup {i} ELSE late
  /\ UNCHANGED <<seq, touches, host, view, load, poll, feed, timer, effect,
                 events>>

\* The id of a transaction that fails is not given out again.
Rollback(i) ==
  /\ row[i] = "open"
  /\ row' = [row EXCEPT ![i] = "aborted"]
  /\ UNCHANGED <<seq, touches, late, host, view, load, poll, feed, timer,
                 effect, events>>

IsLast(n, S, default) ==
  /\ n \in S \cup {default}
  /\ S # {} => n \in S
  /\ \A i \in S : i =< n

\* listNodeChanges, first read: the largest id the owner has.
CountChanges ==
  /\ poll.st = "asked"
  /\ \E n \in Visible \cup {0} :
       /\ IsLast(n, Visible, 0)
       /\ poll' = [poll EXCEPT !.st = "counted", !.latest = n]
  /\ UNCHANGED <<journal, host, view, load, feed, timer, effect, events>>

\* The rows of one page: the first PageLimit rows after the cursor.
Page(after) ==
  {i \in Visible :
     /\ after < i
     /\ Cardinality({j \in Visible : after < j /\ j =< i}) =< PageLimit}

\* listNodeChanges, second read, and the cursor to go on from.
ReadChanges ==
  /\ poll.st = "counted"
  /\ \E n \in Page(poll.after) \cup {poll.after} :
       /\ IsLast(n, Page(poll.after), poll.after)
       /\ poll' = [poll EXCEPT !.st = "answered", !.rows = Page(poll.after),
                               !.next = n]
  /\ UNCHANGED <<journal, host, view, load, feed, timer, effect, events>>

----------------------------------------------------------------------------
(* Loading a directory. *)

Loading == load.st # "none"
Ask(d, refresh) ==
  [st |-> "asked", dir |-> d, rows |-> {}, refresh |-> refresh]

\* The environment interferes a bounded number of times.
Interfere ==
  /\ events < MaxEvents
  /\ events' = events + 1

\* loadDirectory: the user opens a directory; a load in flight is superseded.
Navigate(d) ==
  /\ enabled
  /\ Interfere
  /\ load' = Ask(d, FALSE)
  /\ UNCHANGED <<journal, host, view, poll, feed, timer, effect>>

\* loadInitial asks for the root before it asks for its range; until then the
\* request in flight has no directory.
OpenRoot ==
  /\ load.st = "root"
  /\ load' = Ask(Root, FALSE)
  /\ UNCHANGED <<journal, host, view, poll, feed, timer, effect, events>>

ReadRange ==
  /\ load.st = "asked"
  /\ load' = [load EXCEPT !.st = "read", !.rows = Content(load.dir)]
  /\ UNCHANGED <<journal, host, view, poll, feed, timer, effect, events>>

\* The first page arrives: activateVirtualDirectory publishes it, and a
\* refresh that succeeded takes back the refresh the handshake asked for.
FinishLoad ==
  /\ load.st = "read"
  /\ target' = load.dir
  /\ shown' = load.rows
  /\ mark' = IF mark = load.dir THEN NoDir ELSE mark
  /\ handshake' = (handshake /\ ~ load.refresh)
  /\ load' = NoLoad
  /\ effect' = TRUE
  /\ UNCHANGED <<journal, host, poll, seeded, cursor, timer, events>>

FailLoad ==
  /\ Loading
  /\ Interfere
  /\ load' = NoLoad
  /\ UNCHANGED <<journal, host, view, poll, feed, timer, effect>>

\* refreshChangedDirectory for the directory on the screen.
CanRefresh(d) == enabled /\ ~ Loading /\ target = d

\* The host asks for a refresh of its own (after an upload, say).
RefreshIfIdle ==
  /\ target # NoDir
  /\ CanRefresh(target)
  /\ Interfere
  /\ load' = Ask(target, FALSE)
  /\ UNCHANGED <<journal, host, view, poll, feed, timer, effect>>

\* The debounce timer of scheduleChangedDirectoryRefresh.
TimerFires ==
  /\ timer # NoDir
  /\ timer' = NoDir
  /\ load' = IF CanRefresh(timer) THEN Ask(timer, TRUE) ELSE load
  /\ UNCHANGED <<journal, host, view, poll, feed, effect, events>>

\* The effect on the new target, after the render.
RunEffect ==
  /\ effect
  /\ effect' = FALSE
  /\ timer' = IF /\ enabled /\ foreground /\ target # NoDir /\ ~ Loading
                 /\ handshake \/ mark = target
              THEN target ELSE timer
  /\ UNCHANGED <<journal, host, view, load, poll, feed, events>>

----------------------------------------------------------------------------
(* Polling the journal: refreshChanges. *)

StartPoll ==
  /\ enabled /\ foreground /\ poll.st = "idle"
  /\ poll' = [NoPoll EXCEPT !.st = "asked", !.left = MaxPages,
                            !.after = IF seeded THEN cursor ELSE 0]
  /\ UNCHANGED <<journal, host, view, load, feed, timer, effect, events>>

PollFails ==
  /\ poll.st # "idle"
  /\ Interfere
  /\ poll' = NoPoll
  /\ UNCHANGED <<journal, host, view, load, feed, timer, effect>>

\* Mutant: nothing is owed when no directory is shown yet.
HandshakeOfShown ==
  /\ poll.st = "answered" /\ ~ seeded
  /\ seeded' = TRUE
  /\ cursor' = poll.latest
  /\ handshake' = (target # NoDir)
  /\ timer' = IF target # NoDir /\ ~ Loading THEN target ELSE timer
  /\ poll' = NoPoll
  /\ UNCHANGED <<journal, host, view, load, mark, effect, events>>

\* The first answer only gives the cursor to start from; what was loaded
\* before may be older, so the directory is to be refreshed once.
Handshake ==
  /\ poll.st = "answered" /\ ~ seeded
  /\ seeded' = TRUE
  /\ cursor' = poll.latest
  /\ handshake' = TRUE
  /\ timer' = IF target # NoDir /\ ~ Loading THEN target ELSE timer
  /\ poll' = NoPoll
  /\ UNCHANGED <<journal, host, view, load, mark, effect, events>>

Affects(d) == \E i \in poll.rows : d \in touches[i]

\* Mutant: only the directory on the screen holds a page back.
PageTooEarlyForShown == Loading /\ target # NoDir /\ Affects(target)

\* A page that touches the directory being loaded is left for the next poll.
PageTooEarly == load.dir # NoDir /\ Affects(load.dir)

HoldPage ==
  /\ poll.st = "answered" /\ seeded
  /\ PageTooEarly
  /\ poll' = NoPoll
  /\ UNCHANGED <<journal, host, view, load, feed, timer, effect, events>>

ShownAffected == target # NoDir /\ Affects(target)
MarkOfPage == IF ShownAffected THEN target ELSE mark
MorePages == poll.next < poll.latest /\ poll.left > 1

\* A page that is followed by another one of the same poll.
TakePage ==
  /\ poll.st = "answered" /\ seeded
  /\ ~ PageTooEarly
  /\ MorePages
  /\ mark' = MarkOfPage
  /\ poll' = [poll EXCEPT !.st = "asked", !.after = poll.next, !.rows = {},
                          !.left = @ - 1, !.affected = @ \/ ShownAffected]
  /\ UNCHANGED <<journal, host, view, load, seeded, cursor, handshake, timer,
                 effect, events>>

\* Mutant: a refresh is scheduled for what this poll has read only.
TakeLastPageOnce ==
  /\ poll.st = "answered" /\ seeded
  /\ ~ PageTooEarly
  /\ ~ MorePages
  /\ mark' = MarkOfPage
  /\ cursor' = poll.next
  /\ timer' = IF target # NoDir /\ (poll.affected \/ ShownAffected)
              THEN target ELSE timer
  /\ poll' = NoPoll
  /\ UNCHANGED <<journal, host, view, load, seeded, handshake, effect, events>>

\* The last page: the cursor moves, and a refresh is scheduled when one is due.
TakeLastPage ==
  /\ poll.st = "answered" /\ seeded
  /\ ~ PageTooEarly
  /\ ~ MorePages
  /\ mark' = MarkOfPage
  /\ cursor' = poll.next
  /\ timer' = IF /\ target # NoDir
                 /\ \/ poll.affected \/ ShownAffected
                    \/ handshake \/ mark' = target
              THEN target ELSE timer
  /\ poll' = NoPoll
  /\ UNCHANGED <<journal, host, view, load, seeded, handshake, effect, events>>

----------------------------------------------------------------------------
(* The host: hiding the explorer, losing and regaining the connection, a    *)
(* new port for the same session.                                           *)

\* The polling effect is cleaned up; loads and the timer go on.
Hide ==
  /\ foreground
  /\ Interfere
  /\ foreground' = FALSE
  /\ poll' = NoPoll
  /\ UNCHANGED <<journal, enabled, view, load, feed, timer, effect>>

Show ==
  /\ ~ foreground
  /\ foreground' = TRUE
  /\ effect' = TRUE
  /\ UNCHANGED <<journal, enabled, view, load, poll, feed, timer, events>>

\* invalidateAsyncWork; the desktop keeps the directory it shows
\* (preserveStateOnDisable), the web drops it.
Disconnect ==
  /\ enabled
  /\ Interfere
  /\ enabled' = FALSE
  /\ load' = NoLoad /\ poll' = NoPoll
  /\ seeded' = FALSE /\ cursor' = 0 /\ handshake' = FALSE /\ mark' = NoDir
  /\ timer' = NoDir
  /\ \/ UNCHANGED view
     \/ target' = NoDir /\ shown' = {}
  /\ UNCHANGED <<journal, foreground, effect>>

\* The directory shown is loaded again, or the root when there is none.
Reopen ==
  load' = IF target = NoDir THEN [NoLoad EXCEPT !.st = "root"]
                            ELSE Ask(target, FALSE)

Reconnect ==
  /\ ~ enabled
  /\ enabled' = TRUE
  /\ Reopen
  /\ UNCHANGED <<journal, foreground, view, poll, feed, timer, effect, events>>

\* A renewed token makes a new port: the poll restarts with its cursor, and
\* the directory is loaded again.
Rebind ==
  /\ enabled
  /\ Interfere
  /\ Reopen
  /\ poll' = NoPoll
  /\ UNCHANGED <<journal, host, view, feed, timer, effect>>

----------------------------------------------------------------------------
Server == CountChanges \/ ReadChanges \/ ReadRange
Client ==
  \/ OpenRoot \/ FinishLoad \/ TimerFires \/ RunEffect
  \/ StartPoll \/ Handshake \/ HoldPage \/ TakePage \/ TakeLastPage
Environment ==
  \/ Change \/ (\E i \in Id : Commit(i) \/ Rollback(i))
  \/ (\E d \in Dir : Navigate(d)) \/ RefreshIfIdle
  \/ FailLoad \/ PollFails
  \/ Hide \/ Show \/ Disconnect \/ Reconnect \/ Rebind

Next == Server \/ Client \/ Environment

Spec == Init /\ [][Next]_vars

\* Requests are answered, timers fire and the polling loop of a visible,
\* connected explorer goes on; nothing forces a user, a host or a transaction
\* to move.
Fairness ==
  /\ WF_vars(CountChanges) /\ WF_vars(ReadChanges) /\ WF_vars(ReadRange)
  /\ WF_vars(OpenRoot) /\ WF_vars(FinishLoad)
  /\ WF_vars(TimerFires) /\ WF_vars(RunEffect)
  /\ WF_vars(StartPoll) /\ WF_vars(Handshake)
  /\ WF_vars(HoldPage \/ TakePage \/ TakeLastPage)

FairSpec == Spec /\ Fairness

----------------------------------------------------------------------------
(* Properties. *)

\* The changes the shown directory lacks.
Missing == IF target = NoDir THEN {} ELSE Content(target) \ shown

\* The controller has not forgotten that a change may be missing: it has yet
\* to take a cursor, it owes the handshake refresh or it has marked the
\* directory, or the change is still ahead of the cursor.
Remembered(i) ==
  \/ ~ seeded
  \/ handshake
  \/ mark = target
  \/ cursor < i

\* docs/file-explorer.md, "Client refresh behavior": the handshake closes "the
\* race between the initial directory range and cursor acquisition", and a
\* page that a load in flight may predate is replayed.  Whatever loads, polls,
\* failures and reconnects do to each other, no change the shown directory
\* lacks is behind the cursor and forgotten, unless its row became visible
\* after a row with a larger id.
MissingRemembered ==
  \A i \in Missing \ late : Remembered(i)

\* The same without the exception.  docs/sync-contract.md calls the journal
\* monotonic and readable from a cursor on; rows become visible out of order,
\* so a cursor may pass a row that its transaction has not committed yet.
NothingForgotten ==
  \A i \in Missing : Remembered(i)

\* An explorer that stays connected and on the screen in the end shows
\* everything that has happened to its directory.
CatchesUp ==
  <>[](enabled /\ foreground) => <>[](Missing \subseteq late)

(***************************************************************************)
(* The inductive invariant behind MissingRemembered.                       *)
(***************************************************************************)
LoadShape ==
  /\ load.st \in {"none", "root"} <=> load.dir = NoDir
  /\ load.st \in {"none", "root"} => ~ load.refresh

\* Ids the sequence has not given out are free.
JournalShape == \A i \in Id : seq < i => row[i] = "free"

\* Nothing is owed before the first cursor: no mark, no refresh.
NothingOwedYet ==
  ~ seeded => /\ ~ handshake /\ mark = NoDir /\ timer = NoDir
              /\ ~ load.refresh

\* Whatever is used as a cursor is the id of a visible row, or 0.
Seen(n) == n = 0 \/ n \in Visible

CursorsSeen ==
  /\ Seen(cursor)
  /\ Seen(poll.after)
  /\ poll.st \in {"counted", "answered"} => Seen(poll.latest)
  /\ poll.st = "answered" => Seen(poll.next)

\* A page holds every row up to its cursor, but for those that came late.
PageComplete ==
  poll.st = "answered" =>
    \A i \in Visible \ late :
      poll.after < i /\ i =< poll.next => i \in poll.rows

\* The feed will come to i.
Ahead(i) == cursor < i /\ (poll.st # "idle" => poll.after < i)

\* What a range in flight lacks is ahead, unless publishing the range leaves
\* the handshake refresh owed.
LoadCovered ==
  load.st = "read" /\ seeded /\ (handshake => load.refresh) =>
    \A i \in Content(load.dir) \ (load.rows \cup late) : Ahead(i)

ShownCovered ==
  seeded /\ ~ handshake /\ mark # target =>
    \A i \in Missing \ late : Ahead(i)

IInv ==
  /\ TypeOK /\ LoadShape /\ JournalShape /\ NothingOwedYet
  /\ CursorsSeen /\ PageComplete /\ LoadCovered /\ ShownCovered

=============================================================================
