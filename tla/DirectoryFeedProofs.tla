-------------------------- MODULE DirectoryFeedProofs --------------------------
(***************************************************************************)
(* Proofs about DirectoryFeed: the inductive invariant IInv, and from it   *)
(* that no change the shown directory lacks is forgotten.  One lemma per   *)
(* action shows that it keeps IInv, conjunct by conjunct.  The conjuncts   *)
(* that carry the argument are PageComplete (a page holds every row up to  *)
(* its cursor but those that come late, because whatever is committed      *)
(* below a visible id is late by definition), LoadCovered and ShownCovered.*)
(***************************************************************************)
EXTENDS DirectoryFeed, FiniteSetTheorems, TLAPS

LEMMA NoPollType ==
  NoPoll \in Polls
BY FeedAssumption DEF NoPoll, Polls, Id

LEMMA PageClosed ==
  ASSUME NEW after \in Int, NEW n \in Page(after), NEW k \in Visible,
         after < k, k =< n
  PROVE  k \in Page(after)
<1> DEFINE Upto(m) == {j \in Visible : after < j /\ j =< m}
<1>1. n \in Id /\ k \in Id /\ Visible \subseteq Id
  BY DEF Page, Visible
<1>2. IsFiniteSet(Id)
  BY FeedAssumption, FS_Interval DEF Id
<1>3. IsFiniteSet(Upto(n)) /\ Upto(k) \subseteq Upto(n)
  <2>1. Upto(n) \subseteq Id
    BY <1>1
  <2>2. Upto(k) \subseteq Upto(n)
    <3> SUFFICES ASSUME NEW j \in Visible, j =< k  PROVE  j =< n
      OBVIOUS
    <3>1. j \in Int /\ k \in Int /\ n \in Int
      BY <1>1 DEF Id
    <3> QED
      BY <3>1
  <2> QED
    BY <1>2, <2>1, <2>2, FS_Subset
<1>4. /\ IsFiniteSet(Upto(k))
      /\ Cardinality(Upto(k)) \in Nat /\ Cardinality(Upto(n)) \in Nat
      /\ Cardinality(Upto(k)) =< Cardinality(Upto(n))
  BY <1>3, FS_Subset, FS_CardinalityType
<1>5. Cardinality(Upto(n)) =< PageLimit
  BY DEF Page
<1> QED
  BY <1>4, <1>5, FeedAssumption DEF Page

LEMMA ChangeKeeps ==
  ASSUME IInv, Change
  PROVE  IInv'
<1> USE FeedAssumption DEF IInv
<1>1. TypeOK'
  BY DEF TypeOK, Change, journal, host, view, feed, Id, Loads, Polls
<1>2. LoadShape'
  BY DEF LoadShape, Change, journal, host, view, feed, Id, TypeOK, Loads,
  Polls
<1>3. JournalShape'
  BY DEF JournalShape, Change, journal, host, view, feed, Id, TypeOK, Loads,
  Polls
<1>4. NothingOwedYet'
  BY DEF NothingOwedYet, Change, journal, host, view, feed, Id, TypeOK,
  Loads, Polls, LoadShape
<1>5. CursorsSeen'
  <2>1. Visible' = Visible
    BY DEF JournalShape, Change, Visible, Id, TypeOK
  <2> QED
    BY <2>1 DEF CursorsSeen, Seen, Change, feed
<1>6. PageComplete'
  BY DEF PageComplete, Visible, Change, journal, host, view, feed, Id,
  TypeOK, Loads, Polls
<1>7. LoadCovered'
  BY DEF LoadCovered, Content, Visible, Ahead, Change, journal, host, view,
  feed, Id, TypeOK, Loads, Polls, LoadShape, NothingOwedYet, CursorsSeen,
  Seen
<1>8. ShownCovered'
  BY DEF ShownCovered, Missing, Content, Visible, Ahead, Change, journal,
  host, view, feed, Id, TypeOK, Loads, Polls, LoadShape, NothingOwedYet,
  CursorsSeen, Seen
<1> QED BY <1>1, <1>2, <1>3, <1>4, <1>5, <1>6, <1>7, <1>8

LEMMA CommitKeeps ==
  ASSUME NEW i \in Id,
         IInv, Commit(i)
  PROVE  IInv'
<1> USE FeedAssumption DEF IInv
<1>1. TypeOK'
  BY DEF TypeOK, Commit, journal, host, view, feed, Visible, Id, Loads,
  Polls
<1>2. LoadShape'
  BY DEF LoadShape, Commit, journal, host, view, feed, Visible, Id, TypeOK,
  Loads, Polls
<1>3. JournalShape'
  BY DEF JournalShape, Commit, journal, host, view, feed, Visible, Id,
  TypeOK, Loads, Polls
<1>4. NothingOwedYet'
  BY DEF NothingOwedYet, Commit, journal, host, view, feed, Visible, Id,
  TypeOK, Loads, Polls, LoadShape
<1>5. CursorsSeen'
  BY DEF CursorsSeen, Seen, Visible, Commit, journal, host, view, feed, Id,
  TypeOK, Loads, Polls
<1>6. PageComplete'
  <2>1. Visible' = Visible \cup {i}
    BY DEF Commit, Visible, Id, TypeOK
  <2>2. late \subseteq late'
    BY DEF Commit
  <2>3. /\ poll' = poll
        /\ (\E j \in Visible : i < j) => i \in late'
    BY DEF Commit
  <2> SUFFICES ASSUME poll.st = "answered", NEW k \in Visible' \ late',
                      poll.after < k, k =< poll.next
               PROVE  k \in poll.rows
    BY <2>3 DEF PageComplete
  <2>4. CASE k \in Visible
    BY <2>2, <2>4 DEF PageComplete
  <2>5. CASE k \notin Visible
    <3>1. k = i
      BY <2>1, <2>5
    <3>2. poll.next \in Visible /\ poll.next \in Id
      BY <3>1 DEF CursorsSeen, Seen, TypeOK, Visible, Id, Polls
    <3>3. i < poll.next
      BY <2>5, <3>1, <3>2 DEF Id, TypeOK, Polls
    <3> QED
      BY <2>3, <3>1, <3>2, <3>3
  <2> QED
    BY <2>4, <2>5
<1>7. LoadCovered'
  BY DEF LoadCovered, Content, Visible, Ahead, Commit, journal, host, view,
  feed, Id, TypeOK, Loads, Polls, LoadShape, NothingOwedYet, CursorsSeen,
  Seen
<1>8. ShownCovered'
  BY DEF ShownCovered, Missing, Content, Visible, Ahead, Commit, journal,
  host, view, feed, Id, TypeOK, Loads, Polls, LoadShape, NothingOwedYet,
  CursorsSeen, Seen
<1> QED BY <1>1, <1>2, <1>3, <1>4, <1>5, <1>6, <1>7, <1>8

LEMMA RollbackKeeps ==
  ASSUME NEW i \in Id,
         IInv, Rollback(i)
  PROVE  IInv'
<1> USE FeedAssumption DEF IInv
<1>1. TypeOK'
  BY DEF TypeOK, Rollback, journal, host, view, feed, Id, Loads, Polls
<1>2. LoadShape'
  BY DEF LoadShape, Rollback, journal, host, view, feed, Id, TypeOK, Loads,
  Polls
<1>3. JournalShape'
  BY DEF JournalShape, Rollback, journal, host, view, feed, Id, TypeOK,
  Loads, Polls
<1>4. NothingOwedYet'
  BY DEF NothingOwedYet, Rollback, journal, host, view, feed, Id, TypeOK,
  Loads, Polls, LoadShape
<1>5. CursorsSeen'
  BY DEF CursorsSeen, Seen, Visible, Rollback, journal, host, view, feed,
  Id, TypeOK, Loads, Polls
<1>6. PageComplete'
  BY DEF PageComplete, Visible, Rollback, journal, host, view, feed, Id,
  TypeOK, Loads, Polls
<1>7. LoadCovered'
  BY DEF LoadCovered, Content, Visible, Ahead, Rollback, journal, host,
  view, feed, Id, TypeOK, Loads, Polls, LoadShape, NothingOwedYet,
  CursorsSeen, Seen
<1>8. ShownCovered'
  BY DEF ShownCovered, Missing, Content, Visible, Ahead, Rollback, journal,
  host, view, feed, Id, TypeOK, Loads, Polls, LoadShape, NothingOwedYet,
  CursorsSeen, Seen
<1> QED BY <1>1, <1>2, <1>3, <1>4, <1>5, <1>6, <1>7, <1>8

LEMMA CountChangesKeeps ==
  ASSUME IInv, CountChanges
  PROVE  IInv'
<1> USE FeedAssumption DEF IInv
<1>1. TypeOK'
  <2>1. PICK n \in Visible \cup {0} :
          poll' = [poll EXCEPT !.st = "counted", !.latest = n]
    BY DEF CountChanges
  <2>2. n \in 0..MaxChanges
    BY DEF Visible, Id
  <2>3. poll' \in Polls
    BY <2>1, <2>2 DEF TypeOK, Polls
  <2> QED
    BY <2>3 DEF TypeOK, CountChanges, journal, host, view, feed
<1>2. LoadShape'
  BY DEF LoadShape, CountChanges, journal, host, view, feed, IsLast,
  Visible, Id, TypeOK, Loads, Polls
<1>3. JournalShape'
  BY DEF JournalShape, CountChanges, journal, host, view, feed, IsLast,
  Visible, Id, TypeOK, Loads, Polls
<1>4. NothingOwedYet'
  BY DEF NothingOwedYet, CountChanges, journal, host, view, feed, IsLast,
  Visible, Id, TypeOK, Loads, Polls, LoadShape
<1>5. CursorsSeen'
  BY DEF CursorsSeen, Seen, Visible, CountChanges, journal, host, view,
  feed, IsLast, Id, TypeOK, Loads, Polls
<1>6. PageComplete'
  BY DEF PageComplete, Visible, CountChanges, journal, host, view, feed,
  IsLast, Id, TypeOK, Loads, Polls
<1>7. LoadCovered'
  BY DEF LoadCovered, Content, Visible, Ahead, CountChanges, journal, host,
  view, feed, IsLast, Id, TypeOK, Loads, Polls, LoadShape, NothingOwedYet,
  CursorsSeen, Seen
<1>8. ShownCovered'
  BY DEF ShownCovered, Missing, Content, Visible, Ahead, CountChanges,
  journal, host, view, feed, IsLast, Id, TypeOK, Loads, Polls, LoadShape,
  NothingOwedYet, CursorsSeen, Seen
<1> QED BY <1>1, <1>2, <1>3, <1>4, <1>5, <1>6, <1>7, <1>8

LEMMA ReadChangesKeeps ==
  ASSUME IInv, ReadChanges
  PROVE  IInv'
<1> USE FeedAssumption DEF IInv
<1>1. TypeOK'
  <2>1. PICK n \in Page(poll.after) \cup {poll.after} :
          poll' = [poll EXCEPT !.st = "answered", !.rows = Page(poll.after),
                               !.next = n]
    BY DEF ReadChanges
  <2>2. n \in 0..MaxChanges /\ Page(poll.after) \in SUBSET Id
    BY DEF Page, Visible, Id, TypeOK, Polls
  <2>3. poll' \in Polls
    BY <2>1, <2>2 DEF TypeOK, Polls
  <2> QED
    BY <2>3 DEF TypeOK, ReadChanges, journal, host, view, feed
<1>2. LoadShape'
  BY DEF LoadShape, ReadChanges, journal, host, view, feed, IsLast, Page,
  Visible, Id, TypeOK, Loads, Polls
<1>3. JournalShape'
  BY DEF JournalShape, ReadChanges, journal, host, view, feed, IsLast, Page,
  Visible, Id, TypeOK, Loads, Polls
<1>4. NothingOwedYet'
  BY DEF NothingOwedYet, ReadChanges, journal, host, view, feed, IsLast,
  Page, Visible, Id, TypeOK, Loads, Polls, LoadShape
<1>5. CursorsSeen'
  BY DEF CursorsSeen, Seen, Visible, ReadChanges, journal, host, view, feed,
  IsLast, Page, Id, TypeOK, Loads, Polls
<1>6. PageComplete'
  <2>1. PICK n \in Page(poll.after) \cup {poll.after} :
          /\ IsLast(n, Page(poll.after), poll.after)
          /\ poll' = [poll EXCEPT !.st = "answered", !.rows = Page(poll.after),
                                  !.next = n]
    BY DEF ReadChanges
  <2>2. Visible' = Visible /\ late' = late
    BY DEF ReadChanges, journal, Visible
  <2>3. poll'.after = poll.after /\ poll'.next = n
        /\ poll'.rows = Page(poll.after)
    BY <2>1 DEF TypeOK, Polls
  <2> SUFFICES ASSUME NEW k \in Visible, poll.after < k, k =< n
               PROVE  k \in Page(poll.after)
    BY <2>2, <2>3 DEF PageComplete
  <2>4. n \in Page(poll.after) /\ n \in Id /\ poll.after \in Int /\ k \in Id
    BY <2>1 DEF TypeOK, Visible, Page, Id, Polls
  <2> QED
    BY <2>4, PageClosed
<1>7. LoadCovered'
  BY DEF LoadCovered, Content, Visible, Ahead, ReadChanges, journal, host,
  view, feed, IsLast, Page, Id, TypeOK, Loads, Polls, LoadShape,
  NothingOwedYet, CursorsSeen, Seen
<1>8. ShownCovered'
  BY DEF ShownCovered, Missing, Content, Visible, Ahead, ReadChanges,
  journal, host, view, feed, IsLast, Page, Id, TypeOK, Loads, Polls,
  LoadShape, NothingOwedYet, CursorsSeen, Seen
<1> QED BY <1>1, <1>2, <1>3, <1>4, <1>5, <1>6, <1>7, <1>8

LEMMA NavigateKeeps ==
  ASSUME NEW d \in Dir,
         IInv, Navigate(d)
  PROVE  IInv'
<1> USE FeedAssumption DEF IInv
<1>1. TypeOK'
  BY DEF TypeOK, Navigate, journal, host, view, feed, Ask, Interfere, Loads,
  Polls, Id
<1>2. LoadShape'
  BY DEF LoadShape, Navigate, journal, host, view, feed, Ask, Interfere,
  TypeOK, Loads, Polls
<1>3. JournalShape'
  BY DEF JournalShape, Navigate, journal, host, view, feed, Ask, Interfere,
  TypeOK, Loads, Polls
<1>4. NothingOwedYet'
  BY DEF NothingOwedYet, Navigate, journal, host, view, feed, Ask,
  Interfere, TypeOK, Loads, Polls, LoadShape
<1>5. CursorsSeen'
  BY DEF CursorsSeen, Seen, Visible, Navigate, journal, host, view, feed,
  Ask, Interfere, TypeOK, Loads, Polls, Id
<1>6. PageComplete'
  BY DEF PageComplete, Visible, Navigate, journal, host, view, feed, Ask,
  Interfere, TypeOK, Loads, Polls, Id
<1>7. LoadCovered'
  BY DEF LoadCovered, Content, Visible, Ahead, Navigate, journal, host,
  view, feed, Ask, Interfere, TypeOK, Loads, Polls, Id, LoadShape,
  NothingOwedYet, CursorsSeen, Seen
<1>8. ShownCovered'
  BY DEF ShownCovered, Missing, Content, Visible, Ahead, Navigate, journal,
  host, view, feed, Ask, Interfere, TypeOK, Loads, Polls, Id, LoadShape,
  NothingOwedYet, CursorsSeen, Seen
<1> QED BY <1>1, <1>2, <1>3, <1>4, <1>5, <1>6, <1>7, <1>8

LEMMA OpenRootKeeps ==
  ASSUME IInv, OpenRoot
  PROVE  IInv'
<1> USE FeedAssumption DEF IInv
<1>1. TypeOK'
  BY DEF TypeOK, OpenRoot, journal, host, view, feed, Ask, Loads, Polls, Id
<1>2. LoadShape'
  BY DEF LoadShape, OpenRoot, journal, host, view, feed, Ask, TypeOK, Loads,
  Polls
<1>3. JournalShape'
  BY DEF JournalShape, OpenRoot, journal, host, view, feed, Ask, TypeOK,
  Loads, Polls
<1>4. NothingOwedYet'
  BY DEF NothingOwedYet, OpenRoot, journal, host, view, feed, Ask, TypeOK,
  Loads, Polls, LoadShape
<1>5. CursorsSeen'
  BY DEF CursorsSeen, Seen, Visible, OpenRoot, journal, host, view, feed,
  Ask, TypeOK, Loads, Polls, Id
<1>6. PageComplete'
  BY DEF PageComplete, Visible, OpenRoot, journal, host, view, feed, Ask,
  TypeOK, Loads, Polls, Id
<1>7. LoadCovered'
  BY DEF LoadCovered, Content, Visible, Ahead, OpenRoot, journal, host,
  view, feed, Ask, TypeOK, Loads, Polls, Id, LoadShape, NothingOwedYet,
  CursorsSeen, Seen
<1>8. ShownCovered'
  BY DEF ShownCovered, Missing, Content, Visible, Ahead, OpenRoot, journal,
  host, view, feed, Ask, TypeOK, Loads, Polls, Id, LoadShape,
  NothingOwedYet, CursorsSeen, Seen
<1> QED BY <1>1, <1>2, <1>3, <1>4, <1>5, <1>6, <1>7, <1>8

LEMMA ReadRangeKeeps ==
  ASSUME IInv, ReadRange
  PROVE  IInv'
<1> USE FeedAssumption DEF IInv
<1>1. TypeOK'
  <2>1. Content(load.dir) \in SUBSET Id
    BY DEF Content, Visible
  <2>2. load' \in Loads
    BY <2>1 DEF TypeOK, ReadRange, Loads
  <2> QED
    BY <2>2 DEF TypeOK, ReadRange, journal, host, view, feed
<1>2. LoadShape'
  BY DEF LoadShape, ReadRange, journal, host, view, feed, Content, Visible,
  Id, TypeOK, Loads, Polls
<1>3. JournalShape'
  BY DEF JournalShape, ReadRange, journal, host, view, feed, Content,
  Visible, Id, TypeOK, Loads, Polls
<1>4. NothingOwedYet'
  BY DEF NothingOwedYet, ReadRange, journal, host, view, feed, Content,
  Visible, Id, TypeOK, Loads, Polls, LoadShape
<1>5. CursorsSeen'
  BY DEF CursorsSeen, Seen, Visible, ReadRange, journal, host, view, feed,
  Content, Id, TypeOK, Loads, Polls
<1>6. PageComplete'
  BY DEF PageComplete, Visible, ReadRange, journal, host, view, feed,
  Content, Id, TypeOK, Loads, Polls
<1>7. LoadCovered'
  BY DEF LoadCovered, Content, Visible, Ahead, ReadRange, journal, host,
  view, feed, Id, TypeOK, Loads, Polls, LoadShape, NothingOwedYet,
  CursorsSeen, Seen
<1>8. ShownCovered'
  BY DEF ShownCovered, Missing, Content, Visible, Ahead, ReadRange, journal,
  host, view, feed, Id, TypeOK, Loads, Polls, LoadShape, NothingOwedYet,
  CursorsSeen, Seen
<1> QED BY <1>1, <1>2, <1>3, <1>4, <1>5, <1>6, <1>7, <1>8

LEMMA FinishLoadKeeps ==
  ASSUME IInv, FinishLoad
  PROVE  IInv'
<1> USE FeedAssumption DEF IInv
<1>1. TypeOK'
  BY DEF TypeOK, FinishLoad, journal, host, view, feed, NoLoad, Loads,
  Polls, Id
<1>2. LoadShape'
  BY DEF LoadShape, FinishLoad, journal, host, view, feed, NoLoad, TypeOK,
  Loads, Polls
<1>3. JournalShape'
  BY DEF JournalShape, FinishLoad, journal, host, view, feed, NoLoad,
  TypeOK, Loads, Polls
<1>4. NothingOwedYet'
  BY DEF NothingOwedYet, FinishLoad, journal, host, view, feed, NoLoad,
  TypeOK, Loads, Polls, LoadShape
<1>5. CursorsSeen'
  BY DEF CursorsSeen, Seen, Visible, FinishLoad, journal, host, view, feed,
  NoLoad, TypeOK, Loads, Polls, Id
<1>6. PageComplete'
  BY DEF PageComplete, Visible, FinishLoad, journal, host, view, feed,
  NoLoad, TypeOK, Loads, Polls, Id
<1>7. LoadCovered'
  BY DEF LoadCovered, Content, Visible, Ahead, FinishLoad, journal, host,
  view, feed, NoLoad, TypeOK, Loads, Polls, Id, LoadShape, NothingOwedYet,
  CursorsSeen, Seen
<1>8. ShownCovered'
  <2>1. target' = load.dir /\ shown' = load.rows /\ load.dir # NoDir
    BY FeedAssumption DEF FinishLoad, LoadShape
  <2>2. Missing' = Content(load.dir) \ load.rows
    BY <2>1 DEF Missing, Content, Visible, FinishLoad, journal
  <2>3. ~ handshake' => (handshake => load.refresh)
    BY DEF FinishLoad, TypeOK
  <2>4. \A k : Ahead(k)' <=> Ahead(k)
    BY DEF Ahead, FinishLoad
  <2> QED
    BY <2>2, <2>3, <2>4 DEF ShownCovered, LoadCovered, FinishLoad, journal
<1> QED BY <1>1, <1>2, <1>3, <1>4, <1>5, <1>6, <1>7, <1>8

LEMMA FailLoadKeeps ==
  ASSUME IInv, FailLoad
  PROVE  IInv'
<1> USE FeedAssumption DEF IInv
<1>1. TypeOK'
  BY DEF TypeOK, FailLoad, journal, host, view, feed, NoLoad, Interfere,
  Loads, Polls, Id
<1>2. LoadShape'
  BY DEF LoadShape, FailLoad, journal, host, view, feed, NoLoad, Interfere,
  TypeOK, Loads, Polls
<1>3. JournalShape'
  BY DEF JournalShape, FailLoad, journal, host, view, feed, NoLoad,
  Interfere, TypeOK, Loads, Polls
<1>4. NothingOwedYet'
  BY DEF NothingOwedYet, FailLoad, journal, host, view, feed, NoLoad,
  Interfere, TypeOK, Loads, Polls, LoadShape
<1>5. CursorsSeen'
  BY DEF CursorsSeen, Seen, Visible, FailLoad, journal, host, view, feed,
  NoLoad, Interfere, TypeOK, Loads, Polls, Id
<1>6. PageComplete'
  BY DEF PageComplete, Visible, FailLoad, journal, host, view, feed, NoLoad,
  Interfere, TypeOK, Loads, Polls, Id
<1>7. LoadCovered'
  BY DEF LoadCovered, Content, Visible, Ahead, FailLoad, journal, host,
  view, feed, NoLoad, Interfere, TypeOK, Loads, Polls, Id, LoadShape,
  NothingOwedYet, CursorsSeen, Seen
<1>8. ShownCovered'
  BY DEF ShownCovered, Missing, Content, Visible, Ahead, FailLoad, journal,
  host, view, feed, NoLoad, Interfere, TypeOK, Loads, Polls, Id, LoadShape,
  NothingOwedYet, CursorsSeen, Seen
<1> QED BY <1>1, <1>2, <1>3, <1>4, <1>5, <1>6, <1>7, <1>8

LEMMA RefreshIfIdleKeeps ==
  ASSUME IInv, RefreshIfIdle
  PROVE  IInv'
<1> USE FeedAssumption DEF IInv
<1>1. TypeOK'
  BY DEF TypeOK, RefreshIfIdle, journal, host, view, feed, Ask, CanRefresh,
  Interfere, Loads, Polls, Id
<1>2. LoadShape'
  BY DEF LoadShape, RefreshIfIdle, journal, host, view, feed, Ask,
  CanRefresh, Interfere, TypeOK, Loads, Polls
<1>3. JournalShape'
  BY DEF JournalShape, RefreshIfIdle, journal, host, view, feed, Ask,
  CanRefresh, Interfere, TypeOK, Loads, Polls
<1>4. NothingOwedYet'
  BY DEF NothingOwedYet, RefreshIfIdle, journal, host, view, feed, Ask,
  CanRefresh, Interfere, TypeOK, Loads, Polls, LoadShape
<1>5. CursorsSeen'
  BY DEF CursorsSeen, Seen, Visible, RefreshIfIdle, journal, host, view,
  feed, Ask, CanRefresh, Interfere, TypeOK, Loads, Polls, Id
<1>6. PageComplete'
  BY DEF PageComplete, Visible, RefreshIfIdle, journal, host, view, feed,
  Ask, CanRefresh, Interfere, TypeOK, Loads, Polls, Id
<1>7. LoadCovered'
  BY DEF LoadCovered, Content, Visible, Ahead, RefreshIfIdle, journal, host,
  view, feed, Ask, CanRefresh, Interfere, TypeOK, Loads, Polls, Id,
  LoadShape, NothingOwedYet, CursorsSeen, Seen
<1>8. ShownCovered'
  BY DEF ShownCovered, Missing, Content, Visible, Ahead, RefreshIfIdle,
  journal, host, view, feed, Ask, CanRefresh, Interfere, TypeOK, Loads,
  Polls, Id, LoadShape, NothingOwedYet, CursorsSeen, Seen
<1> QED BY <1>1, <1>2, <1>3, <1>4, <1>5, <1>6, <1>7, <1>8

LEMMA TimerFiresKeeps ==
  ASSUME IInv, TimerFires
  PROVE  IInv'
<1> USE FeedAssumption DEF IInv
<1>1. TypeOK'
  BY DEF TypeOK, TimerFires, journal, host, view, feed, Ask, CanRefresh,
  Loading, Loads, Polls, Id
<1>2. LoadShape'
  BY DEF LoadShape, TimerFires, journal, host, view, feed, Ask, CanRefresh,
  Loading, TypeOK, Loads, Polls
<1>3. JournalShape'
  BY DEF JournalShape, TimerFires, journal, host, view, feed, Ask,
  CanRefresh, Loading, TypeOK, Loads, Polls
<1>4. NothingOwedYet'
  BY DEF NothingOwedYet, TimerFires, journal, host, view, feed, Ask,
  CanRefresh, Loading, TypeOK, Loads, Polls, LoadShape
<1>5. CursorsSeen'
  BY DEF CursorsSeen, Seen, Visible, TimerFires, journal, host, view, feed,
  Ask, CanRefresh, Loading, TypeOK, Loads, Polls, Id
<1>6. PageComplete'
  BY DEF PageComplete, Visible, TimerFires, journal, host, view, feed, Ask,
  CanRefresh, Loading, TypeOK, Loads, Polls, Id
<1>7. LoadCovered'
  BY DEF LoadCovered, Content, Visible, Ahead, TimerFires, journal, host,
  view, feed, Ask, CanRefresh, Loading, TypeOK, Loads, Polls, Id, LoadShape,
  NothingOwedYet, CursorsSeen, Seen
<1>8. ShownCovered'
  BY DEF ShownCovered, Missing, Content, Visible, Ahead, TimerFires,
  journal, host, view, feed, Ask, CanRefresh, Loading, TypeOK, Loads, Polls,
  Id, LoadShape, NothingOwedYet, CursorsSeen, Seen
<1> QED BY <1>1, <1>2, <1>3, <1>4, <1>5, <1>6, <1>7, <1>8

LEMMA RunEffectKeeps ==
  ASSUME IInv, RunEffect
  PROVE  IInv'
<1> USE FeedAssumption DEF IInv
<1>1. TypeOK'
  <2>1. timer' \in Dir \cup {NoDir}
    BY DEF RunEffect, TypeOK
  <2> QED
    BY <2>1 DEF TypeOK, RunEffect, journal, host, view, feed
<1>2. LoadShape'
  BY DEF LoadShape, RunEffect, journal, host, view, feed, Loading, TypeOK,
  Loads, Polls
<1>3. JournalShape'
  BY DEF JournalShape, RunEffect, journal, host, view, feed, Loading,
  TypeOK, Loads, Polls
<1>4. NothingOwedYet'
  BY DEF NothingOwedYet, RunEffect, journal, host, view, feed, Loading,
  TypeOK, Loads, Polls, LoadShape
<1>5. CursorsSeen'
  BY DEF CursorsSeen, Seen, Visible, RunEffect, journal, host, view, feed,
  Loading, TypeOK, Loads, Polls, Id
<1>6. PageComplete'
  BY DEF PageComplete, Visible, RunEffect, journal, host, view, feed,
  Loading, TypeOK, Loads, Polls, Id
<1>7. LoadCovered'
  BY DEF LoadCovered, Content, Visible, Ahead, RunEffect, journal, host,
  view, feed, Loading, TypeOK, Loads, Polls, Id, LoadShape, NothingOwedYet,
  CursorsSeen, Seen
<1>8. ShownCovered'
  BY DEF ShownCovered, Missing, Content, Visible, Ahead, RunEffect, journal,
  host, view, feed, Loading, TypeOK, Loads, Polls, Id, LoadShape,
  NothingOwedYet, CursorsSeen, Seen
<1> QED BY <1>1, <1>2, <1>3, <1>4, <1>5, <1>6, <1>7, <1>8

LEMMA StartPollKeeps ==
  ASSUME IInv, StartPoll
  PROVE  IInv'
<1> USE FeedAssumption DEF IInv
<1>1. TypeOK'
  <2>1. poll' = [st |-> "asked", after |-> IF seeded THEN cursor ELSE 0,
                 latest |-> 0, next |-> 0, rows |-> {}, left |-> MaxPages,
                 affected |-> FALSE]
    BY DEF StartPoll, NoPoll
  <2>2. (IF seeded THEN cursor ELSE 0) \in 0..MaxChanges
    BY DEF TypeOK
  <2>3. MaxPages \in 0..MaxPages /\ 0 \in 0..MaxChanges
    OBVIOUS
  <2>4. poll' \in Polls
    BY <2>1, <2>2, <2>3 DEF Polls
  <2> QED
    BY <2>4 DEF TypeOK, StartPoll, journal, host, view, feed
<1>2. LoadShape'
  BY DEF LoadShape, StartPoll, journal, host, view, feed, NoPoll, TypeOK,
  Loads, Polls
<1>3. JournalShape'
  BY DEF JournalShape, StartPoll, journal, host, view, feed, NoPoll, TypeOK,
  Loads, Polls
<1>4. NothingOwedYet'
  BY DEF NothingOwedYet, StartPoll, journal, host, view, feed, NoPoll,
  TypeOK, Loads, Polls, LoadShape
<1>5. CursorsSeen'
  BY DEF CursorsSeen, Seen, Visible, StartPoll, journal, host, view, feed,
  NoPoll, TypeOK, Loads, Polls, Id
<1>6. PageComplete'
  BY DEF PageComplete, Visible, StartPoll, journal, host, view, feed,
  NoPoll, TypeOK, Loads, Polls, Id
<1>7. LoadCovered'
  BY DEF LoadCovered, Content, Visible, Ahead, StartPoll, journal, host,
  view, feed, NoPoll, TypeOK, Loads, Polls, Id, LoadShape, NothingOwedYet,
  CursorsSeen, Seen
<1>8. ShownCovered'
  BY DEF ShownCovered, Missing, Content, Visible, Ahead, StartPoll, journal,
  host, view, feed, NoPoll, TypeOK, Loads, Polls, Id, LoadShape,
  NothingOwedYet, CursorsSeen, Seen
<1> QED BY <1>1, <1>2, <1>3, <1>4, <1>5, <1>6, <1>7, <1>8

LEMMA PollFailsKeeps ==
  ASSUME IInv, PollFails
  PROVE  IInv'
<1> USE FeedAssumption DEF IInv
<1>1. TypeOK'
  BY DEF TypeOK, PollFails, journal, host, view, feed, NoPoll, Interfere,
  Loads, Polls, Id
<1>2. LoadShape'
  BY DEF LoadShape, PollFails, journal, host, view, feed, NoPoll, Interfere,
  TypeOK, Loads, Polls
<1>3. JournalShape'
  BY DEF JournalShape, PollFails, journal, host, view, feed, NoPoll,
  Interfere, TypeOK, Loads, Polls
<1>4. NothingOwedYet'
  BY DEF NothingOwedYet, PollFails, journal, host, view, feed, NoPoll,
  Interfere, TypeOK, Loads, Polls, LoadShape
<1>5. CursorsSeen'
  BY DEF CursorsSeen, Seen, Visible, PollFails, journal, host, view, feed,
  NoPoll, Interfere, TypeOK, Loads, Polls, Id
<1>6. PageComplete'
  BY DEF PageComplete, Visible, PollFails, journal, host, view, feed,
  NoPoll, Interfere, TypeOK, Loads, Polls, Id
<1>7. LoadCovered'
  BY DEF LoadCovered, Content, Visible, Ahead, PollFails, journal, host,
  view, feed, NoPoll, Interfere, TypeOK, Loads, Polls, Id, LoadShape,
  NothingOwedYet, CursorsSeen, Seen
<1>8. ShownCovered'
  BY DEF ShownCovered, Missing, Content, Visible, Ahead, PollFails, journal,
  host, view, feed, NoPoll, Interfere, TypeOK, Loads, Polls, Id, LoadShape,
  NothingOwedYet, CursorsSeen, Seen
<1> QED BY <1>1, <1>2, <1>3, <1>4, <1>5, <1>6, <1>7, <1>8

LEMMA HandshakeKeeps ==
  ASSUME IInv, Handshake
  PROVE  IInv'
<1> USE FeedAssumption DEF IInv
<1>1. TypeOK'
  BY DEF TypeOK, Handshake, journal, host, view, feed, NoPoll, Loading,
  Loads, Polls, Id
<1>2. LoadShape'
  BY DEF LoadShape, Handshake, journal, host, view, feed, NoPoll, Loading,
  TypeOK, Loads, Polls
<1>3. JournalShape'
  BY DEF JournalShape, Handshake, journal, host, view, feed, NoPoll,
  Loading, TypeOK, Loads, Polls
<1>4. NothingOwedYet'
  BY DEF NothingOwedYet, Handshake, journal, host, view, feed, NoPoll,
  Loading, TypeOK, Loads, Polls, LoadShape
<1>5. CursorsSeen'
  BY DEF CursorsSeen, Seen, Visible, Handshake, journal, host, view, feed,
  NoPoll, Loading, TypeOK, Loads, Polls, Id
<1>6. PageComplete'
  BY DEF PageComplete, Visible, Handshake, journal, host, view, feed,
  NoPoll, Loading, TypeOK, Loads, Polls, Id
<1>7. LoadCovered'
  BY DEF LoadCovered, Content, Visible, Ahead, Handshake, journal, host,
  view, feed, NoPoll, Loading, TypeOK, Loads, Polls, Id, LoadShape,
  NothingOwedYet, CursorsSeen, Seen
<1>8. ShownCovered'
  BY DEF ShownCovered, Missing, Content, Visible, Ahead, Handshake, journal,
  host, view, feed, NoPoll, Loading, TypeOK, Loads, Polls, Id, LoadShape,
  NothingOwedYet, CursorsSeen, Seen
<1> QED BY <1>1, <1>2, <1>3, <1>4, <1>5, <1>6, <1>7, <1>8

LEMMA HoldPageKeeps ==
  ASSUME IInv, HoldPage
  PROVE  IInv'
<1> USE FeedAssumption DEF IInv
<1>1. TypeOK'
  BY DEF TypeOK, HoldPage, journal, host, view, feed, NoPoll, Loads, Polls,
  Id
<1>2. LoadShape'
  BY DEF LoadShape, HoldPage, journal, host, view, feed, NoPoll, TypeOK,
  Loads, Polls
<1>3. JournalShape'
  BY DEF JournalShape, HoldPage, journal, host, view, feed, NoPoll, TypeOK,
  Loads, Polls
<1>4. NothingOwedYet'
  BY DEF NothingOwedYet, HoldPage, journal, host, view, feed, NoPoll,
  TypeOK, Loads, Polls, LoadShape
<1>5. CursorsSeen'
  BY DEF CursorsSeen, Seen, Visible, HoldPage, journal, host, view, feed,
  NoPoll, TypeOK, Loads, Polls, Id
<1>6. PageComplete'
  BY DEF PageComplete, Visible, HoldPage, journal, host, view, feed, NoPoll,
  TypeOK, Loads, Polls, Id
<1>7. LoadCovered'
  BY DEF LoadCovered, Content, Visible, Ahead, HoldPage, journal, host,
  view, feed, NoPoll, TypeOK, Loads, Polls, Id, LoadShape, NothingOwedYet,
  CursorsSeen, Seen
<1>8. ShownCovered'
  BY DEF ShownCovered, Missing, Content, Visible, Ahead, HoldPage, journal,
  host, view, feed, NoPoll, TypeOK, Loads, Polls, Id, LoadShape,
  NothingOwedYet, CursorsSeen, Seen
<1> QED BY <1>1, <1>2, <1>3, <1>4, <1>5, <1>6, <1>7, <1>8

LEMMA TakePageKeeps ==
  ASSUME IInv, TakePage
  PROVE  IInv'
<1> USE FeedAssumption DEF IInv
<1>1. TypeOK'
  <2>1. poll.left - 1 \in 0..MaxPages
    BY DEF TakePage, MorePages, TypeOK, Polls
  <2>2. ShownAffected \in BOOLEAN
    BY DEF ShownAffected, Affects
  <2>3. (poll.affected \/ ShownAffected) \in BOOLEAN
    BY <2>2
  <2>4. poll' \in Polls
    <3>1. poll' = [poll EXCEPT !.st = "asked", !.after = poll.next,
                     !.rows = {}, !.left = poll.left - 1,
                     !.affected = poll.affected \/ ShownAffected]
      BY DEF TakePage, TypeOK
    <3> HIDE DEF IInv
    <3>2. poll \in Polls
      BY DEF IInv, TypeOK
    <3> QED
      BY <2>1, <2>3, <3>1, <3>2 DEF Polls
  <2> QED
    BY <2>4 DEF TypeOK, TakePage, MarkOfPage, journal, host, view
<1>2. LoadShape'
  BY DEF LoadShape, TakePage, journal, host, view, feed, MorePages,
  MarkOfPage, ShownAffected, Affects, PageTooEarly, TypeOK, Loads, Polls
<1>3. JournalShape'
  BY DEF JournalShape, TakePage, journal, host, view, feed, MorePages,
  MarkOfPage, ShownAffected, Affects, PageTooEarly, TypeOK, Loads, Polls
<1>4. NothingOwedYet'
  BY DEF NothingOwedYet, TakePage, journal, host, view, feed, MorePages,
  MarkOfPage, ShownAffected, Affects, PageTooEarly, TypeOK, Loads, Polls,
  LoadShape
<1>5. CursorsSeen'
  BY DEF CursorsSeen, Seen, Visible, TakePage, journal, host, view, feed,
  MorePages, MarkOfPage, ShownAffected, Affects, PageTooEarly, TypeOK,
  Loads, Polls, Id
<1>6. PageComplete'
  BY DEF PageComplete, Visible, TakePage, journal, host, view, feed,
  MorePages, MarkOfPage, ShownAffected, Affects, PageTooEarly, TypeOK,
  Loads, Polls, Id
<1>7. LoadCovered'
  <2>1. poll'.after = poll.next /\ cursor' = cursor
    BY DEF TakePage, NoPoll, TypeOK, Polls
  <2>2. \A k \in Visible \ late : Ahead(k) /\ k \notin poll.rows => Ahead(k)'
    BY <2>1 DEF PageComplete, Ahead, TakePage, Visible, Id, TypeOK, Polls
  <2>3. Visible' = Visible /\ late' = late /\ touches' = touches
    BY DEF TakePage, journal, Visible
  <2>4. load.st = "read" => \A k \in Content(load.dir) : k \notin poll.rows
    BY FeedAssumption DEF Content, TakePage, PageTooEarly, Affects, LoadShape
  <2> SUFFICES ASSUME load.st = "read", NEW k \in Content(load.dir),
                      k \notin load.rows, k \notin late,
                      seeded, handshake => load.refresh
               PROVE  Ahead(k)'
    BY <2>3 DEF LoadCovered, Content, TakePage
  <2>5. Ahead(k)
    BY DEF LoadCovered
  <2> QED
    BY <2>2, <2>4, <2>5 DEF Content
<1>8. ShownCovered'
  <2>1. poll'.after = poll.next /\ cursor' = cursor
    BY DEF TakePage, NoPoll, TypeOK, Polls
  <2>2. \A k \in Visible \ late : Ahead(k) /\ k \notin poll.rows => Ahead(k)'
    BY <2>1 DEF PageComplete, Ahead, TakePage, Visible, Id, TypeOK, Polls
  <2>3. Visible' = Visible /\ late' = late /\ touches' = touches
    BY DEF TakePage, journal, Visible
  <2> SUFFICES ASSUME NEW k \in Missing, k \notin late,
                      seeded, ~ handshake, mark' # target
               PROVE  Ahead(k)'
    BY <2>3 DEF ShownCovered, Missing, Content, TakePage, view
  <2>4. target # NoDir /\ k \in Visible /\ target \in touches[k]
    BY DEF Missing, Content
  <2>5. ~ ShownAffected /\ mark' = mark
    BY <2>4 DEF TakePage, MarkOfPage
  <2>6. k \notin poll.rows
    BY <2>4, <2>5 DEF ShownAffected, Affects
  <2>7. Ahead(k)
    BY <2>5 DEF ShownCovered
  <2> QED
    BY <2>2, <2>4, <2>6, <2>7
<1> QED BY <1>1, <1>2, <1>3, <1>4, <1>5, <1>6, <1>7, <1>8

LEMMA TakeLastPageKeeps ==
  ASSUME IInv, TakeLastPage
  PROVE  IInv'
<1> USE FeedAssumption DEF IInv
<1>1. TypeOK'
  BY DEF TypeOK, TakeLastPage, journal, host, view, feed, MarkOfPage,
  ShownAffected, Affects, PageTooEarly, NoPoll, Loads, Polls, Id
<1>2. LoadShape'
  BY DEF LoadShape, TakeLastPage, journal, host, view, feed, MarkOfPage,
  ShownAffected, Affects, PageTooEarly, NoPoll, TypeOK, Loads, Polls
<1>3. JournalShape'
  BY DEF JournalShape, TakeLastPage, journal, host, view, feed, MarkOfPage,
  ShownAffected, Affects, PageTooEarly, NoPoll, TypeOK, Loads, Polls
<1>4. NothingOwedYet'
  BY DEF NothingOwedYet, TakeLastPage, journal, host, view, feed,
  MarkOfPage, ShownAffected, Affects, PageTooEarly, NoPoll, TypeOK, Loads,
  Polls, LoadShape
<1>5. CursorsSeen'
  BY DEF CursorsSeen, Seen, Visible, TakeLastPage, journal, host, view,
  feed, MarkOfPage, ShownAffected, Affects, PageTooEarly, NoPoll, TypeOK,
  Loads, Polls, Id
<1>6. PageComplete'
  BY DEF PageComplete, Visible, TakeLastPage, journal, host, view, feed,
  MarkOfPage, ShownAffected, Affects, PageTooEarly, NoPoll, TypeOK, Loads,
  Polls, Id
<1>7. LoadCovered'
  <2>1. poll'.st = "idle" /\ cursor' = poll.next
    BY DEF TakeLastPage, NoPoll, TypeOK, Polls
  <2>2. \A k \in Visible \ late : Ahead(k) /\ k \notin poll.rows => Ahead(k)'
    BY <2>1 DEF PageComplete, Ahead, TakeLastPage, Visible, Id, TypeOK, Polls
  <2>3. Visible' = Visible /\ late' = late /\ touches' = touches
    BY DEF TakeLastPage, journal, Visible
  <2>4. load.st = "read" => \A k \in Content(load.dir) : k \notin poll.rows
    BY FeedAssumption DEF Content, TakeLastPage, PageTooEarly, Affects, LoadShape
  <2> SUFFICES ASSUME load.st = "read", NEW k \in Content(load.dir),
                      k \notin load.rows, k \notin late,
                      seeded, handshake => load.refresh
               PROVE  Ahead(k)'
    BY <2>3 DEF LoadCovered, Content, TakeLastPage
  <2>5. Ahead(k)
    BY DEF LoadCovered
  <2> QED
    BY <2>2, <2>4, <2>5 DEF Content
<1>8. ShownCovered'
  <2>1. poll'.st = "idle" /\ cursor' = poll.next
    BY DEF TakeLastPage, NoPoll, TypeOK, Polls
  <2>2. \A k \in Visible \ late : Ahead(k) /\ k \notin poll.rows => Ahead(k)'
    BY <2>1 DEF PageComplete, Ahead, TakeLastPage, Visible, Id, TypeOK, Polls
  <2>3. Visible' = Visible /\ late' = late /\ touches' = touches
    BY DEF TakeLastPage, journal, Visible
  <2> SUFFICES ASSUME NEW k \in Missing, k \notin late,
                      seeded, ~ handshake, mark' # target
               PROVE  Ahead(k)'
    BY <2>3 DEF ShownCovered, Missing, Content, TakeLastPage, view
  <2>4. target # NoDir /\ k \in Visible /\ target \in touches[k]
    BY DEF Missing, Content
  <2>5. ~ ShownAffected /\ mark' = mark
    BY <2>4 DEF TakeLastPage, MarkOfPage
  <2>6. k \notin poll.rows
    BY <2>4, <2>5 DEF ShownAffected, Affects
  <2>7. Ahead(k)
    BY <2>5 DEF ShownCovered
  <2> QED
    BY <2>2, <2>4, <2>6, <2>7
<1> QED BY <1>1, <1>2, <1>3, <1>4, <1>5, <1>6, <1>7, <1>8

LEMMA HideKeeps ==
  ASSUME IInv, Hide
  PROVE  IInv'
<1> USE FeedAssumption DEF IInv
<1>1. TypeOK'
  <2>1. poll' \in Polls
    BY NoPollType DEF Hide
  <2>2. load' \in Loads
    BY DEF Hide, Reopen, Ask, NoLoad, TypeOK, Loads
  <2>3. events' \in 0..MaxEvents
    BY DEF Hide, Interfere, TypeOK
  <2> QED
    BY <2>1, <2>2, <2>3 DEF TypeOK, Hide, journal, view, feed, Interfere
<1>2. LoadShape'
  BY DEF LoadShape, Hide, journal, host, view, feed, NoPoll, Interfere,
  TypeOK, Loads, Polls
<1>3. JournalShape'
  BY DEF JournalShape, Hide, journal, host, view, feed, NoPoll, Interfere,
  TypeOK, Loads, Polls
<1>4. NothingOwedYet'
  BY DEF NothingOwedYet, Hide, journal, host, view, feed, NoPoll, Interfere,
  TypeOK, Loads, Polls, LoadShape
<1>5. CursorsSeen'
  BY DEF CursorsSeen, Seen, Visible, Hide, journal, host, view, feed,
  NoPoll, Interfere, TypeOK, Loads, Polls, Id
<1>6. PageComplete'
  BY DEF PageComplete, Visible, Hide, journal, host, view, feed, NoPoll,
  Interfere, TypeOK, Loads, Polls, Id
<1>7. LoadCovered'
  BY DEF LoadCovered, Content, Visible, Ahead, Hide, journal, host, view,
  feed, NoPoll, Interfere, TypeOK, Loads, Polls, Id, LoadShape,
  NothingOwedYet, CursorsSeen, Seen
<1>8. ShownCovered'
  BY DEF ShownCovered, Missing, Content, Visible, Ahead, Hide, journal,
  host, view, feed, NoPoll, Interfere, TypeOK, Loads, Polls, Id, LoadShape,
  NothingOwedYet, CursorsSeen, Seen
<1> QED BY <1>1, <1>2, <1>3, <1>4, <1>5, <1>6, <1>7, <1>8

LEMMA ShowKeeps ==
  ASSUME IInv, Show
  PROVE  IInv'
<1> USE FeedAssumption DEF IInv
<1>1. TypeOK'
  BY DEF TypeOK, Show, journal, host, view, feed, Loads, Polls, Id
<1>2. LoadShape'
  BY DEF LoadShape, Show, journal, host, view, feed, TypeOK, Loads, Polls
<1>3. JournalShape'
  BY DEF JournalShape, Show, journal, host, view, feed, TypeOK, Loads, Polls
<1>4. NothingOwedYet'
  BY DEF NothingOwedYet, Show, journal, host, view, feed, TypeOK, Loads,
  Polls, LoadShape
<1>5. CursorsSeen'
  BY DEF CursorsSeen, Seen, Visible, Show, journal, host, view, feed,
  TypeOK, Loads, Polls, Id
<1>6. PageComplete'
  BY DEF PageComplete, Visible, Show, journal, host, view, feed, TypeOK,
  Loads, Polls, Id
<1>7. LoadCovered'
  BY DEF LoadCovered, Content, Visible, Ahead, Show, journal, host, view,
  feed, TypeOK, Loads, Polls, Id, LoadShape, NothingOwedYet, CursorsSeen,
  Seen
<1>8. ShownCovered'
  BY DEF ShownCovered, Missing, Content, Visible, Ahead, Show, journal,
  host, view, feed, TypeOK, Loads, Polls, Id, LoadShape, NothingOwedYet,
  CursorsSeen, Seen
<1> QED BY <1>1, <1>2, <1>3, <1>4, <1>5, <1>6, <1>7, <1>8

LEMMA DisconnectKeeps ==
  ASSUME IInv, Disconnect
  PROVE  IInv'
<1> USE FeedAssumption DEF IInv
<1>1. TypeOK'
  <2>1. poll' \in Polls
    BY NoPollType DEF Disconnect
  <2>2. load' \in Loads
    BY DEF Disconnect, NoLoad, Loads
  <2>3. events' \in 0..MaxEvents
    BY DEF Disconnect, Interfere, TypeOK
  <2>4. target' \in Dir \cup {NoDir} /\ shown' \in SUBSET Id
    BY DEF Disconnect, view, TypeOK
  <2>5. 0 \in 0..MaxChanges
    OBVIOUS
  <2>6. /\ seeded' \in BOOLEAN /\ cursor' \in 0..MaxChanges
        /\ handshake' \in BOOLEAN /\ mark' \in Dir \cup {NoDir}
        /\ timer' \in Dir \cup {NoDir} /\ enabled' \in BOOLEAN
    BY <2>5 DEF Disconnect
  <2>7. /\ UNCHANGED <<seq, row, touches, late, foreground, effect>>
    BY DEF Disconnect, journal
  <2> QED
    BY <2>1, <2>2, <2>3, <2>4, <2>6, <2>7 DEF TypeOK
<1>2. LoadShape'
  BY DEF LoadShape, Disconnect, journal, host, view, feed, NoLoad, NoPoll,
  Interfere, TypeOK, Loads, Polls
<1>3. JournalShape'
  BY DEF JournalShape, Disconnect, journal, host, view, feed, NoLoad,
  NoPoll, Interfere, TypeOK, Loads, Polls
<1>4. NothingOwedYet'
  BY DEF NothingOwedYet, Disconnect, journal, host, view, feed, NoLoad,
  NoPoll, Interfere, TypeOK, Loads, Polls, LoadShape
<1>5. CursorsSeen'
  BY DEF CursorsSeen, Seen, Visible, Disconnect, journal, host, view, feed,
  NoLoad, NoPoll, Interfere, TypeOK, Loads, Polls, Id
<1>6. PageComplete'
  BY DEF PageComplete, Visible, Disconnect, journal, host, view, feed,
  NoLoad, NoPoll, Interfere, TypeOK, Loads, Polls, Id
<1>7. LoadCovered'
  BY DEF LoadCovered, Content, Visible, Ahead, Disconnect, journal, host,
  view, feed, NoLoad, NoPoll, Interfere, TypeOK, Loads, Polls, Id,
  LoadShape, NothingOwedYet, CursorsSeen, Seen
<1>8. ShownCovered'
  BY DEF ShownCovered, Missing, Content, Visible, Ahead, Disconnect,
  journal, host, view, feed, NoLoad, NoPoll, Interfere, TypeOK, Loads,
  Polls, Id, LoadShape, NothingOwedYet, CursorsSeen, Seen
<1> QED BY <1>1, <1>2, <1>3, <1>4, <1>5, <1>6, <1>7, <1>8

LEMMA ReconnectKeeps ==
  ASSUME IInv, Reconnect
  PROVE  IInv'
<1> USE FeedAssumption DEF IInv
<1>1. TypeOK'
  <2>1. load' \in Loads
    BY DEF Reconnect, Reopen, Ask, NoLoad, TypeOK, Loads
  <2> QED
    BY <2>1 DEF TypeOK, Reconnect, journal, view, feed
<1>2. LoadShape'
  BY DEF LoadShape, Reconnect, journal, host, view, feed, Reopen, Ask,
  NoLoad, TypeOK, Loads, Polls
<1>3. JournalShape'
  BY DEF JournalShape, Reconnect, journal, host, view, feed, Reopen, Ask,
  NoLoad, TypeOK, Loads, Polls
<1>4. NothingOwedYet'
  BY DEF NothingOwedYet, Reconnect, journal, host, view, feed, Reopen, Ask,
  NoLoad, TypeOK, Loads, Polls, LoadShape
<1>5. CursorsSeen'
  BY DEF CursorsSeen, Seen, Visible, Reconnect, journal, host, view, feed,
  Reopen, Ask, NoLoad, TypeOK, Loads, Polls, Id
<1>6. PageComplete'
  BY DEF PageComplete, Visible, Reconnect, journal, host, view, feed,
  Reopen, Ask, NoLoad, TypeOK, Loads, Polls, Id
<1>7. LoadCovered'
  BY DEF LoadCovered, Content, Visible, Ahead, Reconnect, journal, host,
  view, feed, Reopen, Ask, NoLoad, TypeOK, Loads, Polls, Id, LoadShape,
  NothingOwedYet, CursorsSeen, Seen
<1>8. ShownCovered'
  BY DEF ShownCovered, Missing, Content, Visible, Ahead, Reconnect, journal,
  host, view, feed, Reopen, Ask, NoLoad, TypeOK, Loads, Polls, Id,
  LoadShape, NothingOwedYet, CursorsSeen, Seen
<1> QED BY <1>1, <1>2, <1>3, <1>4, <1>5, <1>6, <1>7, <1>8

LEMMA RebindKeeps ==
  ASSUME IInv, Rebind
  PROVE  IInv'
<1> USE FeedAssumption DEF IInv
<1>1. TypeOK'
  <2>1. poll' \in Polls
    BY NoPollType DEF Rebind
  <2>2. load' \in Loads
    BY DEF Rebind, Reopen, Ask, NoLoad, TypeOK, Loads
  <2>3. events' \in 0..MaxEvents
    BY DEF Rebind, Interfere, TypeOK
  <2> QED
    BY <2>1, <2>2, <2>3 DEF TypeOK, Rebind, journal, host, view, feed, Interfere
<1>2. LoadShape'
  BY DEF LoadShape, Rebind, journal, host, view, feed, Reopen, Ask, NoLoad,
  NoPoll, Interfere, TypeOK, Loads, Polls
<1>3. JournalShape'
  BY DEF JournalShape, Rebind, journal, host, view, feed, Reopen, Ask,
  NoLoad, NoPoll, Interfere, TypeOK, Loads, Polls
<1>4. NothingOwedYet'
  BY DEF NothingOwedYet, Rebind, journal, host, view, feed, Reopen, Ask,
  NoLoad, NoPoll, Interfere, TypeOK, Loads, Polls, LoadShape
<1>5. CursorsSeen'
  BY DEF CursorsSeen, Seen, Visible, Rebind, journal, host, view, feed,
  Reopen, Ask, NoLoad, NoPoll, Interfere, TypeOK, Loads, Polls, Id
<1>6. PageComplete'
  BY DEF PageComplete, Visible, Rebind, journal, host, view, feed, Reopen,
  Ask, NoLoad, NoPoll, Interfere, TypeOK, Loads, Polls, Id
<1>7. LoadCovered'
  BY DEF LoadCovered, Content, Visible, Ahead, Rebind, journal, host, view,
  feed, Reopen, Ask, NoLoad, NoPoll, Interfere, TypeOK, Loads, Polls, Id,
  LoadShape, NothingOwedYet, CursorsSeen, Seen
<1>8. ShownCovered'
  BY DEF ShownCovered, Missing, Content, Visible, Ahead, Rebind, journal,
  host, view, feed, Reopen, Ask, NoLoad, NoPoll, Interfere, TypeOK, Loads,
  Polls, Id, LoadShape, NothingOwedYet, CursorsSeen, Seen
<1> QED BY <1>1, <1>2, <1>3, <1>4, <1>5, <1>6, <1>7, <1>8
----------------------------------------------------------------------------
LEMMA InitEstablishes == Init => IInv
<1> SUFFICES ASSUME Init  PROVE  IInv
  OBVIOUS
<1> USE FeedAssumption DEF Init
<1>1. TypeOK
  <2>1. load \in Loads
    BY DEF NoLoad, Loads
  <2>2. 0 \in 0..MaxChanges /\ 0 \in 0..MaxEvents
    OBVIOUS
  <2>3. /\ row \in [Id -> {"free", "open", "committed", "aborted"}]
        /\ touches \in [Id -> SUBSET Dir]
    OBVIOUS
  <2> QED
    BY <2>1, <2>2, <2>3, NoPollType DEF TypeOK
<1>2. Visible = {}
  BY DEF Visible, Id
<1>3. LoadShape /\ JournalShape /\ NothingOwedYet /\ LoadCovered /\ ShownCovered
  BY DEF LoadShape, JournalShape, NothingOwedYet, NoLoad, LoadCovered,
         ShownCovered
<1>4. CursorsSeen /\ PageComplete
  BY DEF CursorsSeen, PageComplete, Seen, NoPoll
<1> QED
  BY <1>1, <1>3, <1>4 DEF IInv

LEMMA StutterKeeps ==
  ASSUME IInv, UNCHANGED vars
  PROVE  IInv'
<1>1. UNCHANGED <<seq, row, touches, late, enabled, foreground, target, shown,
                  load, poll, seeded, cursor, handshake, mark, timer, effect,
                  events>>
  BY DEF vars, journal, host, view, feed
<1> QED
  BY <1>1 DEF IInv, TypeOK, LoadShape, JournalShape, NothingOwedYet,
              CursorsSeen, Seen, PageComplete, LoadCovered, ShownCovered,
              Missing, Content, Visible, Ahead

LEMMA NextKeeps == IInv /\ [Next]_vars => IInv'
<1> SUFFICES ASSUME IInv, [Next]_vars  PROVE  IInv'
  OBVIOUS
<1>1. CASE Server
  BY <1>1, CountChangesKeeps, ReadChangesKeeps, ReadRangeKeeps DEF Server
<1>2. CASE Client
  BY <1>2, OpenRootKeeps, FinishLoadKeeps, TimerFiresKeeps, RunEffectKeeps,
     StartPollKeeps, HandshakeKeeps, HoldPageKeeps, TakePageKeeps,
     TakeLastPageKeeps DEF Client
<1>3. CASE Environment
  BY <1>3, ChangeKeeps, CommitKeeps, RollbackKeeps, NavigateKeeps,
     RefreshIfIdleKeeps, FailLoadKeeps, PollFailsKeeps, HideKeeps, ShowKeeps,
     DisconnectKeeps, ReconnectKeeps, RebindKeeps DEF Environment
<1>4. CASE UNCHANGED vars
  BY <1>4, StutterKeeps
<1> QED
  BY <1>1, <1>2, <1>3, <1>4 DEF Next

\* Every reachable state satisfies the inductive invariant: what a load in
\* flight or the shown directory lacks is ahead of the cursor, or owed.
THEOREM InvariantHolds == Spec => []IInv
BY InitEstablishes, NextKeeps, PTL DEF Spec

\* For every number of directories, changes and open transactions, and for
\* every page size: no change the shown directory lacks is forgotten, unless
\* its journal row became visible after one with a larger id.
THEOREM MissingRememberedAlways == Spec => []MissingRemembered
<1>1. IInv => MissingRemembered
  BY DEF IInv, ShownCovered, MissingRemembered, Remembered, Ahead
<1> QED
  BY <1>1, InvariantHolds, PTL

================================================================================
