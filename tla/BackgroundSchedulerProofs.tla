---------------------- MODULE BackgroundSchedulerProofs ----------------------
(***************************************************************************)
(* Proofs about BackgroundScheduler: the inductive invariant IInv, and     *)
(* from it that an identity never runs twice at a time, that a cancel      *)
(* stands, that Close joins, that the queue stays bounded and that its     *)
(* owners keep their turns.  One lemma per action shows that it keeps      *)
(* IInv, conjunct by conjunct.  The conjuncts that carry the argument are  *)
(* OneHolder (a task is taken off the queue by one worker) and SlotHeld (a *)
(* run has the slot of its identity until it leaves).                      *)
(***************************************************************************)
EXTENDS BackgroundScheduler, FiniteSetTheorems, TLAPS

----------------------------------------------------------------------------
LEMMA InitEstablishes == Init => IInv
<1> SUFFICES ASSUME Init  PROVE  IInv
  OBVIOUS
<1> USE SchedulerAssumption DEF Init
<1>1. TypeOK
  <2>1. /\ (CHOOSE i \in Identity : TRUE) \in Identity
        /\ (CHOOSE p \in Priority : TRUE) \in Priority
    OBVIOUS
  <2>2. 0 \in 0..MaxSubmits /\ 0 \in 0..MaxTroubles /\ 1 \in 1..MaxAttempts
    OBVIOUS
  <2> QED
    BY <2>1, <2>2 DEF TypeOK, Results, Steps
<1>2. QueueKnown
  BY DEF QueueKnown, Entry
<1>3. HolderKnown /\ OneHolder /\ SlotHeld
  BY DEF HolderKnown, OneHolder, SlotHeld, Holding, Executing, Running
<1>4. ResultsKnown /\ JoinedExited /\ LiveIsRegistered /\ CancelStands
  BY DEF ResultsKnown, JoinedExited, LiveIsRegistered, CancelStands, Entry
<1> QED
  BY <1>1, <1>2, <1>3, <1>4 DEF IInv

LEMMA PromoteKeeps ==
  ASSUME NEW i \in Identity, NEW p \in Priority, IInv, Promote(i, p)
  PROVE  IInv'
<1> USE SchedulerAssumption DEF IInv
<1>1. TypeOK'
  BY DEF TypeOK, Results, Steps, Promote, entries, run, life, Entry, Live
<1>2. QueueKnown'
  BY DEF QueueKnown, Promote, entries, run, life, Entry, Live, TypeOK
<1>3. HolderKnown'
  BY DEF HolderKnown, Holding, Executing, Running, QueueKnown, OneHolder,
  Promote, entries, run, life, Entry, Live, TypeOK
<1>4. OneHolder'
  BY DEF OneHolder, Holding, Running, HolderKnown, Executing, Promote,
  entries, run, life, Entry, Live, TypeOK
<1>5. SlotHeld'
  BY DEF SlotHeld, Executing, Running, HolderKnown, Holding, OneHolder,
  Promote, entries, run, life, Entry, Live, TypeOK
<1>6. ResultsKnown'
  BY DEF ResultsKnown, Running, HolderKnown, Holding, Executing, OneHolder,
  QueueKnown, Promote, entries, run, life, Entry, Live, TypeOK
<1>7. JoinedExited'
  BY DEF JoinedExited, Promote, entries, run, life, Entry, Live, TypeOK
<1>8. LiveIsRegistered'
  BY DEF LiveIsRegistered, HolderKnown, Holding, Executing, Running,
  QueueKnown, Promote, entries, run, life, Entry, Live, TypeOK
<1>9. CancelStands'
  BY DEF CancelStands, ResultsKnown, Running, HolderKnown, Holding,
  Executing, QueueKnown, Promote, entries, run, life, Entry, Live, TypeOK
<1> QED BY <1>1, <1>2, <1>3, <1>4, <1>5, <1>6, <1>7, <1>8, <1>9

LEMMA SubmitKeeps ==
  ASSUME NEW i \in Identity, NEW p \in Priority, IInv, Submit(i, p)
  PROVE  IInv'
<1> USE SchedulerAssumption DEF IInv
<1>a. /\ submitted' = submitted + 1 /\ submitted \in Nat
      /\ submitted + 1 \in Entry /\ 1..submitted \subseteq Entry
  BY DEF Submit, TypeOK, Entry
<1>b. /\ \A f \in Superseded(i) : f \in queue /\ state[f] = "queued"
      /\ submitted + 1 \notin queue
      /\ state[submitted + 1] = "new"
  BY <1>a DEF Superseded, QueueKnown, TypeOK, Entry
<1>c. /\ ident' = [ident EXCEPT ![submitted + 1] = i]
      /\ prio' = [prio EXCEPT ![submitted + 1] = p]
      /\ state' = [f \in Entry |-> IF f = submitted + 1 THEN "queued"
                                   ELSE IF f \in Superseded(i) THEN "done"
                                   ELSE state[f]]
      /\ result' = [f \in Entry |-> IF f \in Superseded(i) THEN "superseded"
                                    ELSE result[f]]
      /\ registry' = [j \in Identity |->
           IF j = i THEN submitted + 1
           ELSE IF registry[j] \in Superseded(i) THEN 0 ELSE registry[j]]
      /\ queue' = (queue \ Superseded(i)) \cup {submitted + 1}
      /\ delayed' = delayed \ Superseded(i)
      /\ UNCHANGED <<attempt, cancelled, settling, slot, pc, cur, cause,
                     outcome, dead, closed, joined, troubles>>
      /\ ~ closed
  BY DEF Submit, run, life
<1>1. TypeOK'
  <2>1. /\ submitted' \in 0..MaxSubmits
        /\ ident' \in [Entry -> Identity] /\ prio' \in [Entry -> Priority]
    BY <1>a, <1>c DEF TypeOK, Entry
  <2>2. /\ state' \in [Entry -> {"new", "queued", "running", "done"}]
        /\ result' \in [Entry -> Results]
    BY <1>c DEF TypeOK, Results
  <2>3. registry' \in [Identity -> Entry \cup {0}]
    BY <1>a, <1>c DEF TypeOK
  <2>4. queue' \in SUBSET Entry /\ delayed' \in SUBSET queue'
    BY <1>a, <1>c DEF TypeOK
  <2> QED
    BY <1>c, <2>1, <2>2, <2>3, <2>4 DEF TypeOK
<1>2. QueueKnown'
  <2>1. queue' \subseteq 1..submitted'
    <3>1. /\ submitted + 1 \in 1..(submitted + 1)
          /\ 1..submitted \subseteq 1..(submitted + 1)
      BY <1>a
    <3> QED
      BY <1>a, <1>c, <3>1 DEF QueueKnown
  <2>2. \A f \in Entry : state'[f] = "new" <=> f > submitted'
    BY <1>a, <1>b, <1>c DEF QueueKnown, Entry, TypeOK
  <2>3. \A f \in cancelled' : f =< submitted'
    BY <1>a, <1>c DEF QueueKnown, Entry, TypeOK
  <2>4. \A j \in Identity : registry'[j] =< submitted'
    BY <1>a, <1>c DEF QueueKnown, Entry, TypeOK
  <2> QED
    BY <2>1, <2>2, <2>3, <2>4 DEF QueueKnown
<1>3. HolderKnown'
  BY DEF HolderKnown, Holding, Executing, Running, QueueKnown, OneHolder,
  Submit, entries, run, life, Entry, Live, Superseded, TypeOK
<1>4. OneHolder'
  BY DEF OneHolder, Holding, Running, HolderKnown, Executing, Submit,
  entries, run, life, Entry, Live, Superseded, TypeOK
<1>5. SlotHeld'
  BY DEF SlotHeld, Executing, Running, HolderKnown, Holding, OneHolder,
  Submit, entries, run, life, Entry, Live, Superseded, TypeOK
<1>6. ResultsKnown'
  <2> SUFFICES ASSUME NEW f \in Entry
               PROVE  /\ state'[f] = "running"
                           => \E w \in Worker : Running(w)' /\ cur'[w] = f
                      /\ state'[f] = "done" <=> result'[f] # "none"
    BY <1>c DEF ResultsKnown
  <2>1. \A w \in Worker : Running(w)' = Running(w)
    BY <1>c DEF Running
  <2>2. state'[f] = "running" => \E w \in Worker : Running(w)' /\ cur'[w] = f
    BY <1>c, <2>1 DEF ResultsKnown
  <2>3. result[submitted + 1] = "none" /\ submitted + 1 \notin Superseded(i)
    BY <1>a, <1>b DEF ResultsKnown
  <2>4. state'[f] = "done" <=> result'[f] # "none"
    BY <1>c, <2>3 DEF ResultsKnown
  <2> QED
    BY <2>2, <2>4
<1>7. JoinedExited'
  BY DEF JoinedExited, Submit, entries, run, life, Entry, Live, Superseded,
  TypeOK
<1>8. LiveIsRegistered'
  BY DEF LiveIsRegistered, HolderKnown, Holding, Executing, Running,
  QueueKnown, Submit, entries, run, life, Entry, Live, Superseded, TypeOK
<1>9. CancelStands'
  <2>1. \A f \in cancelled : f \in Entry /\ f # submitted + 1
    BY <1>a, <1>b DEF QueueKnown, TypeOK
  <2>2. \A f \in cancelled : f \notin Superseded(i)
    BY <1>b DEF CancelStands
  <2> QED
    BY <1>c, <2>1, <2>2 DEF CancelStands
<1> QED BY <1>1, <1>2, <1>3, <1>4, <1>5, <1>6, <1>7, <1>8, <1>9

LEMMA CancelQueuedKeeps ==
  ASSUME NEW i \in Identity, IInv, CancelQueued(i)
  PROVE  IInv'
<1> USE SchedulerAssumption DEF IInv
<1>a. PICK e \in Entry :
        /\ e = registry[i] /\ e \notin settling /\ state[e] = "queued"
        /\ queue' = queue \ {e} /\ delayed' = delayed \ {e}
        /\ state' = [state EXCEPT ![e] = "done"]
        /\ result' = [result EXCEPT ![e] = "cancelled"]
        /\ cancelled' = cancelled \cup {e}
        /\ registry' = [registry EXCEPT ![i] = 0]
  BY DEF CancelQueued, CancelAllowed, TypeOK
<1>1. TypeOK'
  BY <1>a DEF TypeOK, CancelQueued, run, life, Results
<1>2. QueueKnown'
  <2>1. UNCHANGED submitted /\ submitted \in Nat
    BY DEF CancelQueued, TypeOK
  <2>2. e =< submitted
    BY <1>a DEF QueueKnown
  <2>3. \A f \in Entry : state'[f] = "new" <=> f > submitted'
    BY <1>a, <2>1 DEF QueueKnown, TypeOK
  <2>4. \A j \in Identity : registry'[j] =< submitted'
    BY <1>a, <2>1 DEF QueueKnown, TypeOK
  <2> QED
    BY <1>a, <2>1, <2>2, <2>3, <2>4 DEF QueueKnown
<1>3. HolderKnown'
  BY DEF HolderKnown, Holding, Executing, Running, QueueKnown, OneHolder,
  CancelQueued, entries, run, life, Entry, CancelAllowed, TypeOK
<1>4. OneHolder'
  BY DEF OneHolder, Holding, Running, HolderKnown, Executing, CancelQueued,
  entries, run, life, Entry, CancelAllowed, TypeOK
<1>5. SlotHeld'
  BY DEF SlotHeld, Executing, Running, HolderKnown, Holding, OneHolder,
  CancelQueued, entries, run, life, Entry, CancelAllowed, TypeOK
<1>6. ResultsKnown'
  BY DEF ResultsKnown, Running, HolderKnown, Holding, Executing, OneHolder,
  QueueKnown, CancelQueued, entries, run, life, Entry, CancelAllowed, TypeOK
<1>7. JoinedExited'
  BY DEF JoinedExited, CancelQueued, entries, run, life, Entry,
  CancelAllowed, TypeOK
<1>8. LiveIsRegistered'
  BY DEF LiveIsRegistered, HolderKnown, Holding, Executing, Running,
  QueueKnown, CancelQueued, entries, run, life, Entry, CancelAllowed, TypeOK
<1>9. CancelStands'
  BY DEF CancelStands, ResultsKnown, Running, HolderKnown, Holding,
  Executing, QueueKnown, CancelQueued, entries, run, life, Entry,
  CancelAllowed, TypeOK
<1> QED BY <1>1, <1>2, <1>3, <1>4, <1>5, <1>6, <1>7, <1>8, <1>9

LEMMA CancelRunningKeeps ==
  ASSUME NEW i \in Identity, IInv, CancelRunning(i)
  PROVE  IInv'
<1> USE SchedulerAssumption DEF IInv
<1>1. TypeOK'
  <2>1. cause' \in [Worker -> {"none", "cancelled", "failed", "closed"}]
    BY DEF CancelRunning, Caused, TypeOK
  <2>2. cancelled' \in SUBSET Entry
    BY DEF CancelRunning, TypeOK
  <2> QED
    BY <2>1, <2>2 DEF CancelRunning, TypeOK, life
<1>2. QueueKnown'
  BY DEF QueueKnown, CancelRunning, entries, run, life, Entry,
  CancelAllowed, Caused, TypeOK
<1>3. HolderKnown'
  BY DEF HolderKnown, Holding, Executing, Running, QueueKnown, OneHolder,
  CancelRunning, entries, run, life, Entry, CancelAllowed, Caused, TypeOK
<1>4. OneHolder'
  BY DEF OneHolder, Holding, Running, HolderKnown, Executing, CancelRunning,
  entries, run, life, Entry, CancelAllowed, Caused, TypeOK
<1>5. SlotHeld'
  BY DEF SlotHeld, Executing, Running, HolderKnown, Holding, OneHolder,
  CancelRunning, entries, run, life, Entry, CancelAllowed, Caused, TypeOK
<1>6. ResultsKnown'
  BY DEF ResultsKnown, Running, HolderKnown, Holding, Executing, OneHolder,
  QueueKnown, CancelRunning, entries, run, life, Entry, CancelAllowed,
  Caused, TypeOK
<1>7. JoinedExited'
  BY DEF JoinedExited, CancelRunning, entries, run, life, Entry,
  CancelAllowed, Caused, TypeOK
<1>8. LiveIsRegistered'
  BY DEF LiveIsRegistered, HolderKnown, Holding, Executing, Running,
  QueueKnown, CancelRunning, entries, run, life, Entry, CancelAllowed,
  Caused, TypeOK
<1>9. CancelStands'
  BY DEF CancelStands, ResultsKnown, Running, HolderKnown, Holding,
  Executing, QueueKnown, CancelRunning, entries, run, life, Entry,
  CancelAllowed, Caused, TypeOK
<1> QED BY <1>1, <1>2, <1>3, <1>4, <1>5, <1>6, <1>7, <1>8, <1>9

LEMMA PopKeeps ==
  ASSUME NEW w \in Worker, IInv, Pop(w)
  PROVE  IInv'
<1> USE SchedulerAssumption DEF IInv
<1>1. TypeOK'
  BY DEF TypeOK, Results, Steps, Pop, entries, run, life, Entry, Goto,
  Foremost, Ready
<1>2. QueueKnown'
  BY DEF QueueKnown, Pop, entries, run, life, Entry, Goto, Foremost, Ready,
  TypeOK
<1>3. HolderKnown'
  BY DEF HolderKnown, Holding, Executing, Running, QueueKnown, OneHolder,
  Pop, entries, run, life, Entry, Goto, Foremost, Ready, TypeOK
<1>4. OneHolder'
  BY DEF OneHolder, Holding, Running, HolderKnown, Executing, Pop, entries,
  run, life, Entry, Goto, Foremost, Ready, TypeOK
<1>5. SlotHeld'
  BY DEF SlotHeld, Executing, Running, HolderKnown, Holding, OneHolder, Pop,
  entries, run, life, Entry, Goto, Foremost, Ready, TypeOK
<1>6. ResultsKnown'
  <2>1. \A v \in Worker : Running(v) => Running(v)' /\ cur'[v] = cur[v]
    BY DEF Pop, Goto, Running, TypeOK
  <2>2. UNCHANGED <<state, result, closed>>
    BY DEF Pop, life
  <2> QED
    BY <2>1, <2>2 DEF ResultsKnown
<1>7. JoinedExited'
  BY DEF JoinedExited, Pop, entries, run, life, Entry, Goto, Foremost,
  Ready, TypeOK
<1>8. LiveIsRegistered'
  BY DEF LiveIsRegistered, HolderKnown, Holding, Executing, Running,
  QueueKnown, Pop, entries, run, life, Entry, Goto, Foremost, Ready, TypeOK
<1>9. CancelStands'
  BY DEF CancelStands, ResultsKnown, Running, HolderKnown, Holding,
  Executing, QueueKnown, Pop, entries, run, life, Entry, Goto, Foremost,
  Ready, TypeOK
<1> QED BY <1>1, <1>2, <1>3, <1>4, <1>5, <1>6, <1>7, <1>8, <1>9

LEMMA ExitKeeps ==
  ASSUME NEW w \in Worker, IInv, Exit(w)
  PROVE  IInv'
<1> USE SchedulerAssumption DEF IInv
<1>1. TypeOK'
  BY DEF TypeOK, Results, Steps, Exit, entries, run, life, Entry, Goto
<1>2. QueueKnown'
  BY DEF QueueKnown, Exit, entries, run, life, Entry, Goto, TypeOK
<1>3. HolderKnown'
  BY DEF HolderKnown, Holding, Executing, Running, QueueKnown, OneHolder,
  Exit, entries, run, life, Entry, Goto, TypeOK
<1>4. OneHolder'
  BY DEF OneHolder, Holding, Running, HolderKnown, Executing, Exit, entries,
  run, life, Entry, Goto, TypeOK
<1>5. SlotHeld'
  BY DEF SlotHeld, Executing, Running, HolderKnown, Holding, OneHolder,
  Exit, entries, run, life, Entry, Goto, TypeOK
<1>6. ResultsKnown'
  <2>1. \A v \in Worker : Running(v) => Running(v)' /\ cur'[v] = cur[v]
    BY DEF Exit, Goto, Running, TypeOK
  <2>2. UNCHANGED <<state, result, closed>>
    BY DEF Exit, life
  <2> QED
    BY <2>1, <2>2 DEF ResultsKnown
<1>7. JoinedExited'
  BY DEF JoinedExited, Exit, entries, run, life, Entry, Goto, TypeOK
<1>8. LiveIsRegistered'
  BY DEF LiveIsRegistered, HolderKnown, Holding, Executing, Running,
  QueueKnown, Exit, entries, run, life, Entry, Goto, TypeOK
<1>9. CancelStands'
  BY DEF CancelStands, ResultsKnown, Running, HolderKnown, Holding,
  Executing, QueueKnown, Exit, entries, run, life, Entry, Goto, TypeOK
<1> QED BY <1>1, <1>2, <1>3, <1>4, <1>5, <1>6, <1>7, <1>8, <1>9

LEMMA AbandonKeeps ==
  ASSUME NEW w \in Worker, IInv, Abandon(w)
  PROVE  IInv'
<1> USE SchedulerAssumption DEF IInv
<1>1. TypeOK'
  BY DEF TypeOK, Results, Steps, Abandon, entries, run, life, Entry, Goto
<1>2. QueueKnown'
  BY DEF QueueKnown, Abandon, entries, run, life, Entry, Goto, TypeOK
<1>3. HolderKnown'
  BY DEF HolderKnown, Holding, Executing, Running, QueueKnown, OneHolder,
  Abandon, entries, run, life, Entry, Goto, TypeOK
<1>4. OneHolder'
  BY DEF OneHolder, Holding, Running, HolderKnown, Executing, Abandon,
  entries, run, life, Entry, Goto, TypeOK
<1>5. SlotHeld'
  BY DEF SlotHeld, Executing, Running, HolderKnown, Holding, OneHolder,
  Abandon, entries, run, life, Entry, Goto, TypeOK
<1>6. ResultsKnown'
  <2>1. \A v \in Worker : Running(v) => Running(v)' /\ cur'[v] = cur[v]
    BY DEF Abandon, Goto, Running, TypeOK
  <2>2. UNCHANGED <<state, result, closed>>
    BY DEF Abandon, life
  <2> QED
    BY <2>1, <2>2 DEF ResultsKnown
<1>7. JoinedExited'
  BY DEF JoinedExited, Abandon, entries, run, life, Entry, Goto, TypeOK
<1>8. LiveIsRegistered'
  BY DEF LiveIsRegistered, HolderKnown, Holding, Executing, Running,
  QueueKnown, Abandon, entries, run, life, Entry, Goto, TypeOK
<1>9. CancelStands'
  BY DEF CancelStands, ResultsKnown, Running, HolderKnown, Holding,
  Executing, QueueKnown, Abandon, entries, run, life, Entry, Goto, TypeOK
<1> QED BY <1>1, <1>2, <1>3, <1>4, <1>5, <1>6, <1>7, <1>8, <1>9

LEMMA ExpireKeeps ==
  ASSUME NEW w \in Worker, IInv, Expire(w)
  PROVE  IInv'
<1> USE SchedulerAssumption DEF IInv
<1>a. cur[w] \in Entry
  BY DEF Expire, Startable, HolderKnown, Holding, TypeOK, Entry
<1>1. TypeOK'
  <2>1. /\ state' \in [Entry -> {"new", "queued", "running", "done"}]
        /\ result' \in [Entry -> Results]
        /\ registry' \in [Identity -> Entry \cup {0}]
    BY <1>a DEF Expire, Unregistered, TypeOK, Results
  <2>2. /\ pc' \in [Worker -> Steps] /\ cur' \in [Worker -> Entry \cup {0}]
        /\ troubles' \in 0..MaxTroubles
    BY DEF Expire, Goto, Trouble, TypeOK, Steps
  <2> QED
    BY <2>1, <2>2 DEF Expire, TypeOK, entries, life
<1>2. QueueKnown'
  BY DEF QueueKnown, Expire, entries, run, life, Entry, Goto, Startable,
  Trouble, Unregistered, TypeOK
<1>3. HolderKnown'
  BY DEF HolderKnown, Holding, Executing, Running, QueueKnown, OneHolder,
  Expire, entries, run, life, Entry, Goto, Startable, Trouble, Unregistered,
  TypeOK
<1>4. OneHolder'
  BY DEF OneHolder, Holding, Running, HolderKnown, Executing, Expire,
  entries, run, life, Entry, Goto, Startable, Trouble, Unregistered, TypeOK
<1>5. SlotHeld'
  BY DEF SlotHeld, Executing, Running, HolderKnown, Holding, OneHolder,
  Expire, entries, run, life, Entry, Goto, Startable, Trouble, Unregistered,
  TypeOK
<1>6. ResultsKnown'
  BY DEF ResultsKnown, Running, HolderKnown, Holding, Executing, OneHolder,
  QueueKnown, Expire, entries, run, life, Entry, Goto, Startable, Trouble,
  Unregistered, TypeOK
<1>7. JoinedExited'
  BY DEF JoinedExited, Expire, entries, run, life, Entry, Goto, Startable,
  Trouble, Unregistered, TypeOK
<1>8. LiveIsRegistered'
  BY DEF LiveIsRegistered, HolderKnown, Holding, Executing, Running,
  QueueKnown, Expire, entries, run, life, Entry, Goto, Startable, Trouble,
  Unregistered, TypeOK
<1>9. CancelStands'
  BY DEF CancelStands, ResultsKnown, Running, HolderKnown, Holding,
  Executing, QueueKnown, Expire, entries, run, life, Entry, Goto, Startable,
  Trouble, Unregistered, TypeOK
<1> QED BY <1>1, <1>2, <1>3, <1>4, <1>5, <1>6, <1>7, <1>8, <1>9

LEMMA StartKeeps ==
  ASSUME NEW w \in Worker, IInv, Start(w)
  PROVE  IInv'
<1> USE SchedulerAssumption DEF IInv
<1>1. TypeOK'
  BY DEF TypeOK, Results, Steps, Start, entries, run, life, Entry, Goto,
  Startable
<1>2. QueueKnown'
  BY DEF QueueKnown, Start, entries, run, life, Entry, Goto, Startable,
  TypeOK
<1>3. HolderKnown'
  BY DEF HolderKnown, Holding, Executing, Running, QueueKnown, OneHolder,
  Start, entries, run, life, Entry, Goto, Startable, TypeOK
<1>4. OneHolder'
  <2>1. UNCHANGED cur
    BY DEF Start
  <2>2. \A v \in Worker : Holding(v)' => Holding(v)
    BY DEF Start, Startable, Goto, Holding, Running, TypeOK
  <2> QED
    BY <2>1, <2>2 DEF OneHolder
<1>5. SlotHeld'
  BY DEF SlotHeld, Executing, Running, HolderKnown, Holding, OneHolder,
  Start, entries, run, life, Entry, Goto, Startable, TypeOK
<1>6. ResultsKnown'
  BY DEF ResultsKnown, Running, HolderKnown, Holding, Executing, OneHolder,
  QueueKnown, Start, entries, run, life, Entry, Goto, Startable, TypeOK
<1>7. JoinedExited'
  BY DEF JoinedExited, Start, entries, run, life, Entry, Goto, Startable,
  TypeOK
<1>8. LiveIsRegistered'
  BY DEF LiveIsRegistered, HolderKnown, Holding, Executing, Running,
  QueueKnown, Start, entries, run, life, Entry, Goto, Startable, TypeOK
<1>9. CancelStands'
  BY DEF CancelStands, ResultsKnown, Running, HolderKnown, Holding,
  Executing, QueueKnown, Start, entries, run, life, Entry, Goto, Startable,
  TypeOK
<1> QED BY <1>1, <1>2, <1>3, <1>4, <1>5, <1>6, <1>7, <1>8, <1>9

LEMMA AcquireKeeps ==
  ASSUME NEW w \in Worker, IInv, Acquire(w)
  PROVE  IInv'
<1> USE SchedulerAssumption DEF IInv
<1>1. TypeOK'
  <2>1. /\ pc' \in [Worker -> Steps]
        /\ cause' \in [Worker -> {"none", "cancelled", "failed", "closed"}]
        /\ outcome' \in [Worker -> Results \cup {"unavailable"}]
    BY DEF Acquire, Goto, Leaves, TypeOK, Results, Steps
  <2> QED
    BY <2>1 DEF Acquire, TypeOK, entries, life
<1>2. QueueKnown'
  BY DEF QueueKnown, Acquire, entries, run, life, Entry, Goto, Leaves,
  TypeOK
<1>3. HolderKnown'
  BY DEF HolderKnown, Holding, Executing, Running, QueueKnown, OneHolder,
  Acquire, entries, run, life, Entry, Goto, Leaves, TypeOK
<1>4. OneHolder'
  <2>1. UNCHANGED cur
    BY DEF Acquire
  <2>2. \A v \in Worker : Holding(v)' => Holding(v)
    BY DEF Acquire, Goto, Leaves, Holding, Running, TypeOK
  <2> QED
    BY <2>1, <2>2 DEF OneHolder
<1>5. SlotHeld'
  BY DEF SlotHeld, Executing, Running, HolderKnown, Holding, OneHolder,
  Acquire, entries, run, life, Entry, Goto, Leaves, TypeOK
<1>6. ResultsKnown'
  <2>1. \A v \in Worker : Running(v) => Running(v)' /\ cur'[v] = cur[v]
    BY DEF Acquire, Goto, Leaves, Running, TypeOK
  <2>2. UNCHANGED <<state, result, closed>>
    BY DEF Acquire, life
  <2> QED
    BY <2>1, <2>2 DEF ResultsKnown
<1>7. JoinedExited'
  BY DEF JoinedExited, Acquire, entries, run, life, Entry, Goto, Leaves,
  TypeOK
<1>8. LiveIsRegistered'
  BY DEF LiveIsRegistered, HolderKnown, Holding, Executing, Running,
  QueueKnown, Acquire, entries, run, life, Entry, Goto, Leaves, TypeOK
<1>9. CancelStands'
  BY DEF CancelStands, ResultsKnown, Running, HolderKnown, Holding,
  Executing, QueueKnown, Acquire, entries, run, life, Entry, Goto, Leaves,
  TypeOK
<1> QED BY <1>1, <1>2, <1>3, <1>4, <1>5, <1>6, <1>7, <1>8, <1>9

LEMMA LeaseRefusedKeeps ==
  ASSUME NEW w \in Worker, IInv, LeaseRefused(w)
  PROVE  IInv'
<1> USE SchedulerAssumption DEF IInv
<1>1. TypeOK'
  BY DEF TypeOK, Results, Steps, LeaseRefused, entries, run, life, Entry,
  Goto, Trouble
<1>2. QueueKnown'
  BY DEF QueueKnown, LeaseRefused, entries, run, life, Entry, Goto, Trouble,
  TypeOK
<1>3. HolderKnown'
  BY DEF HolderKnown, Holding, Executing, Running, QueueKnown, OneHolder,
  LeaseRefused, entries, run, life, Entry, Goto, Trouble, TypeOK
<1>4. OneHolder'
  <2>1. UNCHANGED cur
    BY DEF LeaseRefused
  <2>2. \A v \in Worker : Holding(v)' => Holding(v)
    BY DEF LeaseRefused, Goto, Holding, Running, TypeOK
  <2> QED
    BY <2>1, <2>2 DEF OneHolder
<1>5. SlotHeld'
  BY DEF SlotHeld, Executing, Running, HolderKnown, Holding, OneHolder,
  LeaseRefused, entries, run, life, Entry, Goto, Trouble, TypeOK
<1>6. ResultsKnown'
  <2>1. \A v \in Worker : Running(v) => Running(v)' /\ cur'[v] = cur[v]
    BY DEF LeaseRefused, Goto, Running, TypeOK
  <2>2. UNCHANGED <<state, result, closed>>
    BY DEF LeaseRefused, life
  <2> QED
    BY <2>1, <2>2 DEF ResultsKnown
<1>7. JoinedExited'
  BY DEF JoinedExited, LeaseRefused, entries, run, life, Entry, Goto,
  Trouble, TypeOK
<1>8. LiveIsRegistered'
  BY DEF LiveIsRegistered, HolderKnown, Holding, Executing, Running,
  QueueKnown, LeaseRefused, entries, run, life, Entry, Goto, Trouble, TypeOK
<1>9. CancelStands'
  BY DEF CancelStands, ResultsKnown, Running, HolderKnown, Holding,
  Executing, QueueKnown, LeaseRefused, entries, run, life, Entry, Goto,
  Trouble, TypeOK
<1> QED BY <1>1, <1>2, <1>3, <1>4, <1>5, <1>6, <1>7, <1>8, <1>9

LEMMA LoseRunKeeps ==
  ASSUME NEW w \in Worker, IInv, LoseRun(w)
  PROVE  IInv'
<1> USE SchedulerAssumption DEF IInv
<1>1. TypeOK'
  BY DEF TypeOK, Results, Steps, LoseRun, entries, run, life, Entry, Trouble
<1>2. QueueKnown'
  BY DEF QueueKnown, LoseRun, entries, run, life, Entry, Trouble, TypeOK
<1>3. HolderKnown'
  BY DEF HolderKnown, Holding, Executing, Running, QueueKnown, OneHolder,
  LoseRun, entries, run, life, Entry, Trouble, TypeOK
<1>4. OneHolder'
  BY DEF OneHolder, Holding, Running, HolderKnown, Executing, LoseRun,
  entries, run, life, Entry, Trouble, TypeOK
<1>5. SlotHeld'
  BY DEF SlotHeld, Executing, Running, HolderKnown, Holding, OneHolder,
  LoseRun, entries, run, life, Entry, Trouble, TypeOK
<1>6. ResultsKnown'
  <2>1. \A v \in Worker : Running(v) => Running(v)' /\ cur'[v] = cur[v]
    BY DEF LoseRun, Goto, Running, TypeOK
  <2>2. UNCHANGED <<state, result, closed>>
    BY DEF LoseRun, life
  <2> QED
    BY <2>1, <2>2 DEF ResultsKnown
<1>7. JoinedExited'
  BY DEF JoinedExited, LoseRun, entries, run, life, Entry, Trouble, TypeOK
<1>8. LiveIsRegistered'
  BY DEF LiveIsRegistered, HolderKnown, Holding, Executing, Running,
  QueueKnown, LoseRun, entries, run, life, Entry, Trouble, TypeOK
<1>9. CancelStands'
  BY DEF CancelStands, ResultsKnown, Running, HolderKnown, Holding,
  Executing, QueueKnown, LoseRun, entries, run, life, Entry, Trouble, TypeOK
<1> QED BY <1>1, <1>2, <1>3, <1>4, <1>5, <1>6, <1>7, <1>8, <1>9

LEMMA RunReturnsKeeps ==
  ASSUME NEW w \in Worker, IInv, RunReturns(w)
  PROVE  IInv'
<1> USE SchedulerAssumption DEF IInv
<1>1. TypeOK'
  <2>1. /\ pc' \in [Worker -> Steps]
        /\ cause' \in [Worker -> {"none", "cancelled", "failed", "closed"}]
    BY DEF RunReturns, Return, Goto, Leaves, TypeOK, Steps
  <2>2. outcome' \in [Worker -> Results \cup {"unavailable"}]
    BY DEF RunReturns, Return, Leaves, TypeOK, Results
  <2>3. troubles' \in 0..MaxTroubles
    BY DEF RunReturns, Trouble, TypeOK
  <2> QED
    BY <2>1, <2>2, <2>3 DEF RunReturns, TypeOK, entries, life
<1>2. QueueKnown'
  BY DEF QueueKnown, RunReturns, entries, run, life, Entry, Goto, Leaves,
  Return, Trouble, TypeOK
<1>3. HolderKnown'
  BY DEF HolderKnown, Holding, Executing, Running, QueueKnown, OneHolder,
  RunReturns, entries, run, life, Entry, Goto, Leaves, Return, Trouble,
  TypeOK
<1>4. OneHolder'
  <2>1. UNCHANGED cur
    BY DEF RunReturns
  <2>2. \A v \in Worker : Holding(v)' => Holding(v)
    BY DEF RunReturns, Return, Goto, Leaves, Holding, Running, TypeOK
  <2> QED
    BY <2>1, <2>2 DEF OneHolder
<1>5. SlotHeld'
  BY DEF SlotHeld, Executing, Running, HolderKnown, Holding, OneHolder,
  RunReturns, entries, run, life, Entry, Goto, Leaves, Return, Trouble,
  TypeOK
<1>6. ResultsKnown'
  <2>1. \A v \in Worker : Running(v) => Running(v)' /\ cur'[v] = cur[v]
    BY DEF RunReturns, Goto, Return, Leaves, Running, TypeOK
  <2>2. UNCHANGED <<state, result, closed>>
    BY DEF RunReturns, life
  <2> QED
    BY <2>1, <2>2 DEF ResultsKnown
<1>7. JoinedExited'
  BY DEF JoinedExited, RunReturns, entries, run, life, Entry, Goto, Leaves,
  Return, Trouble, TypeOK
<1>8. LiveIsRegistered'
  BY DEF LiveIsRegistered, HolderKnown, Holding, Executing, Running,
  QueueKnown, RunReturns, entries, run, life, Entry, Goto, Leaves, Return,
  Trouble, TypeOK
<1>9. CancelStands'
  BY DEF CancelStands, ResultsKnown, Running, HolderKnown, Holding,
  Executing, QueueKnown, RunReturns, entries, run, life, Entry, Goto,
  Leaves, Return, Trouble, TypeOK
<1> QED BY <1>1, <1>2, <1>3, <1>4, <1>5, <1>6, <1>7, <1>8, <1>9

LEMMA SettleKeeps ==
  ASSUME NEW w \in Worker, IInv, Settle(w)
  PROVE  IInv'
<1> USE SchedulerAssumption DEF IInv
<1>1. TypeOK'
  <2>1. cur[w] \in Entry
    BY DEF Settle, HolderKnown, Holding, Running, TypeOK, Entry
  <2>2. /\ pc' \in [Worker -> Steps] /\ settling' \in SUBSET Entry
        /\ outcome' \in [Worker -> Results \cup {"unavailable"}]
    BY <2>1 DEF Settle, Goto, TypeOK, Steps, Results
  <2>3. troubles' \in 0..MaxTroubles
    BY DEF Settle, Trouble, TypeOK
  <2> QED
    BY <2>2, <2>3 DEF Settle, TypeOK, life
<1>2. QueueKnown'
  BY DEF QueueKnown, Settle, entries, run, life, Entry, Goto, Trouble,
  TypeOK
<1>3. HolderKnown'
  BY DEF HolderKnown, Holding, Executing, Running, QueueKnown, OneHolder,
  Settle, entries, run, life, Entry, Goto, Trouble, TypeOK
<1>4. OneHolder'
  <2>1. UNCHANGED cur
    BY DEF Settle
  <2>2. \A v \in Worker : Holding(v)' => Holding(v)
    BY DEF Settle, Goto, Holding, Running, TypeOK
  <2> QED
    BY <2>1, <2>2 DEF OneHolder
<1>5. SlotHeld'
  BY DEF SlotHeld, Executing, Running, HolderKnown, Holding, OneHolder,
  Settle, entries, run, life, Entry, Goto, Trouble, TypeOK
<1>6. ResultsKnown'
  <2>1. \A v \in Worker : Running(v) => Running(v)' /\ cur'[v] = cur[v]
    BY DEF Settle, Goto, Running, TypeOK
  <2>2. UNCHANGED <<state, result, closed>>
    BY DEF Settle, life
  <2> QED
    BY <2>1, <2>2 DEF ResultsKnown
<1>7. JoinedExited'
  BY DEF JoinedExited, Settle, entries, run, life, Entry, Goto, Trouble,
  TypeOK
<1>8. LiveIsRegistered'
  BY DEF LiveIsRegistered, HolderKnown, Holding, Executing, Running,
  QueueKnown, Settle, entries, run, life, Entry, Goto, Trouble, TypeOK
<1>9. CancelStands'
  BY DEF CancelStands, ResultsKnown, Running, HolderKnown, Holding,
  Executing, QueueKnown, Settle, entries, run, life, Entry, Goto, Trouble,
  TypeOK
<1> QED BY <1>1, <1>2, <1>3, <1>4, <1>5, <1>6, <1>7, <1>8, <1>9

LEMMA RequeueKeeps ==
  ASSUME NEW w \in Worker, IInv, Requeue(w)
  PROVE  IInv'
<1> USE SchedulerAssumption DEF IInv
<1>a. cur[w] \in 1..submitted /\ cur[w] \in Entry /\ state[cur[w]] = "running"
  BY DEF Requeue, HolderKnown, Holding, Running, TypeOK, Entry
<1>1. TypeOK'
  <2>1. attempt' \in [Entry -> 1..MaxAttempts]
    <3>1. CASE attempt' = attempt
      BY <3>1 DEF TypeOK
    <3>2. CASE /\ attempt[cur[w]] < MaxAttempts
               /\ attempt' = [attempt EXCEPT ![cur[w]] = @ + 1]
      BY <1>a, <3>2 DEF TypeOK
    <3> QED
      BY <3>1, <3>2 DEF Requeue, Retryable
  <2>2. /\ state' \in [Entry -> {"new", "queued", "running", "done"}]
        /\ queue' \in SUBSET Entry /\ delayed' \in SUBSET queue'
        /\ pc' \in [Worker -> Steps]
    BY <1>a DEF Requeue, Goto, TypeOK, Steps
  <2> QED
    BY <2>1, <2>2 DEF Requeue, TypeOK, life
<1>2. QueueKnown'
  <2>1. /\ UNCHANGED <<submitted, cancelled, registry>>
        /\ queue' = queue \cup {cur[w]}
        /\ state' = [state EXCEPT ![cur[w]] = "queued"]
    BY DEF Requeue
  <2> QED
    BY <1>a, <2>1 DEF QueueKnown, TypeOK, Entry
<1>3. HolderKnown'
  BY DEF HolderKnown, Holding, Executing, Running, QueueKnown, OneHolder,
  Requeue, entries, run, life, Entry, Goto, MayRequeue, Retryable, Verdict,
  TypeOK
<1>4. OneHolder'
  <2>1. UNCHANGED cur
    BY DEF Requeue
  <2>2. \A v \in Worker : Holding(v)' => Holding(v)
    BY DEF Requeue, Goto, Holding, Running, TypeOK
  <2> QED
    BY <2>1, <2>2 DEF OneHolder
<1>5. SlotHeld'
  BY DEF SlotHeld, Executing, Running, HolderKnown, Holding, OneHolder,
  Requeue, entries, run, life, Entry, Goto, MayRequeue, Retryable, Verdict,
  TypeOK
<1>6. ResultsKnown'
  BY DEF ResultsKnown, Running, HolderKnown, Holding, Executing, OneHolder,
  QueueKnown, Requeue, entries, run, life, Entry, Goto, MayRequeue,
  Retryable, Verdict, TypeOK
<1>7. JoinedExited'
  BY DEF JoinedExited, Requeue, entries, run, life, Entry, Goto, MayRequeue,
  Retryable, Verdict, TypeOK
<1>8. LiveIsRegistered'
  BY DEF LiveIsRegistered, HolderKnown, Holding, Executing, Running,
  QueueKnown, Requeue, entries, run, life, Entry, Goto, MayRequeue,
  Retryable, Verdict, TypeOK
<1>9. CancelStands'
  BY DEF CancelStands, ResultsKnown, Running, HolderKnown, Holding,
  Executing, QueueKnown, Requeue, entries, run, life, Entry, Goto,
  MayRequeue, Retryable, Verdict, TypeOK
<1> QED BY <1>1, <1>2, <1>3, <1>4, <1>5, <1>6, <1>7, <1>8, <1>9

LEMMA FinishKeeps ==
  ASSUME NEW w \in Worker, IInv, Finish(w)
  PROVE  IInv'
<1> USE SchedulerAssumption DEF IInv
<1>a. cur[w] \in Entry /\ state[cur[w]] = "running"
  BY DEF Finish, HolderKnown, Holding, Running, TypeOK, Entry
<1>1. TypeOK'
  BY DEF TypeOK, Results, Steps, Finish, entries, run, life, Entry, Goto,
  MayRequeue, Retryable, Verdict, Unregistered
<1>2. QueueKnown'
  <2>1. /\ UNCHANGED <<submitted, cancelled, queue>>
        /\ state' = [state EXCEPT ![cur[w]] = "done"]
        /\ \A i \in Identity : registry'[i] \in {registry[i], 0}
    BY DEF Finish, Unregistered, entries, TypeOK
  <2>2. submitted \in Nat
    BY DEF TypeOK
  <2>3. \A f \in Entry : state'[f] = "new" <=> f > submitted'
    BY <1>a, <2>1 DEF QueueKnown, TypeOK
  <2>4. \A i \in Identity : registry'[i] =< submitted'
    BY <2>1, <2>2 DEF QueueKnown
  <2> QED
    BY <2>1, <2>3, <2>4 DEF QueueKnown
<1>3. HolderKnown'
  BY DEF HolderKnown, Holding, Executing, Running, QueueKnown, OneHolder,
  Finish, entries, run, life, Entry, Goto, MayRequeue, Retryable, Verdict,
  Unregistered, TypeOK
<1>4. OneHolder'
  <2>1. UNCHANGED cur
    BY DEF Finish
  <2>2. \A v \in Worker : Holding(v)' => Holding(v)
    BY DEF Finish, Goto, Holding, Running, TypeOK
  <2> QED
    BY <2>1, <2>2 DEF OneHolder
<1>5. SlotHeld'
  BY DEF SlotHeld, Executing, Running, HolderKnown, Holding, OneHolder,
  Finish, entries, run, life, Entry, Goto, MayRequeue, Retryable, Verdict,
  Unregistered, TypeOK
<1>6. ResultsKnown'
  <2>1. Verdict(w) # "none"
    BY DEF Finish, Verdict, HolderKnown
  <2>2. /\ state' = [state EXCEPT ![cur[w]] = "done"]
        /\ UNCHANGED <<cur, closed>>
        /\ result' = [result EXCEPT ![cur[w]] =
             IF Verdict(w) = "unavailable" THEN "failed" ELSE Verdict(w)]
    BY DEF Finish, life
  <2>3. \A v \in Worker : v # w /\ Running(v) => Running(v)'
    BY DEF Finish, Goto, Running, TypeOK
  <2>4. ASSUME NEW e \in Entry
        PROVE  /\ state'[e] = "running"
                    => \E v \in Worker : Running(v)' /\ cur'[v] = e
               /\ state'[e] = "done" <=> result'[e] # "none"
               /\ closed' => state'[e] # "queued"
    <3>1. CASE e = cur[w]
      BY <1>a, <2>1, <2>2, <3>1 DEF TypeOK
    <3>2. CASE e # cur[w]
      BY <1>a, <2>2, <2>3, <3>2 DEF TypeOK, ResultsKnown
    <3> QED
      BY <3>1, <3>2
  <2> QED
    BY <2>4 DEF ResultsKnown
<1>7. JoinedExited'
  BY DEF JoinedExited, Finish, entries, run, life, Entry, Goto, MayRequeue,
  Retryable, Verdict, Unregistered, TypeOK
<1>8. LiveIsRegistered'
  BY DEF LiveIsRegistered, HolderKnown, Holding, Executing, Running,
  QueueKnown, Finish, entries, run, life, Entry, Goto, MayRequeue,
  Retryable, Verdict, Unregistered, TypeOK
<1>9. CancelStands'
  BY DEF CancelStands, ResultsKnown, Running, HolderKnown, Holding,
  Executing, QueueKnown, Finish, entries, run, life, Entry, Goto,
  MayRequeue, Retryable, Verdict, Unregistered, TypeOK
<1> QED BY <1>1, <1>2, <1>3, <1>4, <1>5, <1>6, <1>7, <1>8, <1>9

LEMMA LeaveKeeps ==
  ASSUME NEW w \in Worker, IInv, Leave(w)
  PROVE  IInv'
<1> USE SchedulerAssumption DEF IInv
<1>1. TypeOK'
  BY DEF TypeOK, Results, Steps, Leave, entries, run, life, Entry, Goto
<1>2. QueueKnown'
  BY DEF QueueKnown, Leave, entries, run, life, Entry, Goto, TypeOK
<1>3. HolderKnown'
  BY DEF HolderKnown, Holding, Executing, Running, QueueKnown, OneHolder,
  Leave, entries, run, life, Entry, Goto, TypeOK
<1>4. OneHolder'
  BY DEF OneHolder, Holding, Running, HolderKnown, Executing, Leave,
  entries, run, life, Entry, Goto, TypeOK
<1>5. SlotHeld'
  BY DEF SlotHeld, Executing, Running, HolderKnown, Holding, OneHolder,
  Leave, entries, run, life, Entry, Goto, TypeOK
<1>6. ResultsKnown'
  <2>1. \A v \in Worker : Running(v) => Running(v)' /\ cur'[v] = cur[v]
    BY DEF Leave, Goto, Running, TypeOK
  <2>2. UNCHANGED <<state, result, closed>>
    BY DEF Leave, life
  <2> QED
    BY <2>1, <2>2 DEF ResultsKnown
<1>7. JoinedExited'
  BY DEF JoinedExited, Leave, entries, run, life, Entry, Goto, TypeOK
<1>8. LiveIsRegistered'
  BY DEF LiveIsRegistered, HolderKnown, Holding, Executing, Running,
  QueueKnown, Leave, entries, run, life, Entry, Goto, TypeOK
<1>9. CancelStands'
  BY DEF CancelStands, ResultsKnown, Running, HolderKnown, Holding,
  Executing, QueueKnown, Leave, entries, run, life, Entry, Goto, TypeOK
<1> QED BY <1>1, <1>2, <1>3, <1>4, <1>5, <1>6, <1>7, <1>8, <1>9

LEMMA RipenKeeps ==
  ASSUME NEW e \in Entry, IInv, Ripen(e)
  PROVE  IInv'
<1> USE SchedulerAssumption DEF IInv
<1>1. TypeOK'
  BY DEF TypeOK, Results, Steps, Ripen, entries, run, life, Entry
<1>2. QueueKnown'
  BY DEF QueueKnown, Ripen, entries, run, life, Entry, TypeOK
<1>3. HolderKnown'
  BY DEF HolderKnown, Holding, Executing, Running, QueueKnown, OneHolder,
  Ripen, entries, run, life, Entry, TypeOK
<1>4. OneHolder'
  BY DEF OneHolder, Holding, Running, HolderKnown, Executing, Ripen,
  entries, run, life, Entry, TypeOK
<1>5. SlotHeld'
  BY DEF SlotHeld, Executing, Running, HolderKnown, Holding, OneHolder,
  Ripen, entries, run, life, Entry, TypeOK
<1>6. ResultsKnown'
  BY DEF ResultsKnown, Running, HolderKnown, Holding, Executing, OneHolder,
  QueueKnown, Ripen, entries, run, life, Entry, TypeOK
<1>7. JoinedExited'
  BY DEF JoinedExited, Ripen, entries, run, life, Entry, TypeOK
<1>8. LiveIsRegistered'
  BY DEF LiveIsRegistered, HolderKnown, Holding, Executing, Running,
  QueueKnown, Ripen, entries, run, life, Entry, TypeOK
<1>9. CancelStands'
  BY DEF CancelStands, ResultsKnown, Running, HolderKnown, Holding,
  Executing, QueueKnown, Ripen, entries, run, life, Entry, TypeOK
<1> QED BY <1>1, <1>2, <1>3, <1>4, <1>5, <1>6, <1>7, <1>8, <1>9

LEMMA ParentDiesKeeps ==
  ASSUME IInv, ParentDies
  PROVE  IInv'
<1> USE SchedulerAssumption DEF IInv
<1>1. TypeOK'
  BY DEF TypeOK, Results, Steps, ParentDies, entries, run, life, Entry,
  Interrupted, Caused
<1>2. QueueKnown'
  BY DEF QueueKnown, ParentDies, entries, run, life, Entry, Interrupted,
  Caused, TypeOK
<1>3. HolderKnown'
  BY DEF HolderKnown, Holding, Executing, Running, QueueKnown, OneHolder,
  ParentDies, entries, run, life, Entry, Interrupted, Caused, TypeOK
<1>4. OneHolder'
  BY DEF OneHolder, Holding, Running, HolderKnown, Executing, ParentDies,
  entries, run, life, Entry, Interrupted, Caused, TypeOK
<1>5. SlotHeld'
  BY DEF SlotHeld, Executing, Running, HolderKnown, Holding, OneHolder,
  ParentDies, entries, run, life, Entry, Interrupted, Caused, TypeOK
<1>6. ResultsKnown'
  BY DEF ResultsKnown, Running, HolderKnown, Holding, Executing, OneHolder,
  QueueKnown, ParentDies, entries, run, life, Entry, Interrupted, Caused,
  TypeOK
<1>7. JoinedExited'
  BY DEF JoinedExited, ParentDies, entries, run, life, Entry, Interrupted,
  Caused, TypeOK
<1>8. LiveIsRegistered'
  BY DEF LiveIsRegistered, HolderKnown, Holding, Executing, Running,
  QueueKnown, ParentDies, entries, run, life, Entry, Interrupted, Caused,
  TypeOK
<1>9. CancelStands'
  BY DEF CancelStands, ResultsKnown, Running, HolderKnown, Holding,
  Executing, QueueKnown, ParentDies, entries, run, life, Entry, Interrupted,
  Caused, TypeOK
<1> QED BY <1>1, <1>2, <1>3, <1>4, <1>5, <1>6, <1>7, <1>8, <1>9

LEMMA ShutdownKeeps ==
  ASSUME IInv, Shutdown
  PROVE  IInv'
<1> USE SchedulerAssumption DEF IInv
<1>1. TypeOK'
  BY DEF TypeOK, Results, Steps, Shutdown, entries, run, life, Entry,
  Interrupted, Caused, Drained
<1>2. QueueKnown'
  BY DEF QueueKnown, Shutdown, entries, run, life, Entry, Interrupted,
  Caused, Drained, TypeOK
<1>3. HolderKnown'
  BY DEF HolderKnown, Holding, Executing, Running, QueueKnown, OneHolder,
  Shutdown, entries, run, life, Entry, Interrupted, Caused, Drained, TypeOK
<1>4. OneHolder'
  BY DEF OneHolder, Holding, Running, HolderKnown, Executing, Shutdown,
  entries, run, life, Entry, Interrupted, Caused, Drained, TypeOK
<1>5. SlotHeld'
  BY DEF SlotHeld, Executing, Running, HolderKnown, Holding, OneHolder,
  Shutdown, entries, run, life, Entry, Interrupted, Caused, Drained, TypeOK
<1>6. ResultsKnown'
  <2>1. \A e \in Entry : state[e] = "queued" => e \in Drained
    BY DEF Drained, LiveIsRegistered, CancelStands
  <2>2. \A e \in Drained : e \in Entry /\ state[e] = "queued"
    BY DEF Drained
  <2>3. \A v \in Worker : Running(v)' = Running(v)
    BY DEF Shutdown, Running
  <2>4. UNCHANGED cur
    BY DEF Shutdown
  <2>5. /\ state' = [e \in Entry |-> IF e \in Drained THEN "done" ELSE state[e]]
        /\ result' = [e \in Entry |-> IF e \in Drained THEN "closed"
                                      ELSE result[e]]
    BY DEF Shutdown
  <2>6. ASSUME NEW e \in Entry
        PROVE  /\ state'[e] = "running"
                    => \E v \in Worker : Running(v)' /\ cur'[v] = e
               /\ state'[e] = "done" <=> result'[e] # "none"
               /\ state'[e] # "queued"
    <3>1. CASE e \in Drained
      BY <2>5, <3>1
    <3>2. CASE e \notin Drained
      BY <2>1, <2>3, <2>4, <2>5, <3>2 DEF ResultsKnown
    <3> QED
      BY <3>1, <3>2
  <2> QED
    BY <2>6 DEF ResultsKnown
<1>7. JoinedExited'
  BY DEF JoinedExited, Shutdown, entries, run, life, Entry, Interrupted,
  Caused, Drained, TypeOK
<1>8. LiveIsRegistered'
  BY DEF LiveIsRegistered, HolderKnown, Holding, Executing, Running,
  QueueKnown, Shutdown, entries, run, life, Entry, Interrupted, Caused,
  Drained, TypeOK
<1>9. CancelStands'
  BY DEF CancelStands, ResultsKnown, Running, HolderKnown, Holding,
  Executing, QueueKnown, Shutdown, entries, run, life, Entry, Interrupted,
  Caused, Drained, TypeOK
<1> QED BY <1>1, <1>2, <1>3, <1>4, <1>5, <1>6, <1>7, <1>8, <1>9

LEMMA JoinKeeps ==
  ASSUME IInv, Join
  PROVE  IInv'
<1> USE SchedulerAssumption DEF IInv
<1>1. TypeOK'
  BY DEF TypeOK, Results, Steps, Join, entries, run, life, Entry
<1>2. QueueKnown'
  BY DEF QueueKnown, Join, entries, run, life, Entry, TypeOK
<1>3. HolderKnown'
  BY DEF HolderKnown, Holding, Executing, Running, QueueKnown, OneHolder,
  Join, entries, run, life, Entry, TypeOK
<1>4. OneHolder'
  BY DEF OneHolder, Holding, Running, HolderKnown, Executing, Join, entries,
  run, life, Entry, TypeOK
<1>5. SlotHeld'
  BY DEF SlotHeld, Executing, Running, HolderKnown, Holding, OneHolder,
  Join, entries, run, life, Entry, TypeOK
<1>6. ResultsKnown'
  BY DEF ResultsKnown, Running, HolderKnown, Holding, Executing, OneHolder,
  QueueKnown, Join, entries, run, life, Entry, TypeOK
<1>7. JoinedExited'
  BY DEF JoinedExited, Join, entries, run, life, Entry, TypeOK
<1>8. LiveIsRegistered'
  BY DEF LiveIsRegistered, HolderKnown, Holding, Executing, Running,
  QueueKnown, Join, entries, run, life, Entry, TypeOK
<1>9. CancelStands'
  BY DEF CancelStands, ResultsKnown, Running, HolderKnown, Holding,
  Executing, QueueKnown, Join, entries, run, life, Entry, TypeOK
<1> QED BY <1>1, <1>2, <1>3, <1>4, <1>5, <1>6, <1>7, <1>8, <1>9

LEMMA StutterKeeps ==
  ASSUME IInv, UNCHANGED vars
  PROVE  IInv'
<1>1. UNCHANGED <<submitted, ident, prio, attempt, cancelled, settling, state,
                  result, registry, slot, queue, delayed, pc, cur, cause,
                  outcome, dead, closed, joined, troubles>>
  BY DEF vars, entries, run, life
<1> QED
  BY <1>1 DEF IInv, TypeOK, QueueKnown, HolderKnown, OneHolder, SlotHeld,
              ResultsKnown, JoinedExited, LiveIsRegistered, CancelStands,
              Holding, Executing, Running

LEMMA NextKeeps == IInv /\ [Next]_vars => IInv'
<1> SUFFICES ASSUME IInv, [Next]_vars  PROVE  IInv'
  OBVIOUS
<1>1. CASE \E i \in Identity : CancelQueued(i) \/ CancelRunning(i)
  BY <1>1, CancelQueuedKeeps, CancelRunningKeeps
<1>2. CASE \E i \in Identity, p \in Priority : Submit(i, p) \/ Promote(i, p)
  BY <1>2, SubmitKeeps, PromoteKeeps, SchedulerAssumption
<1>3. CASE \E w \in Worker :
             WorkerStep(w) \/ Expire(w) \/ LeaseRefused(w) \/ LoseRun(w)
  BY <1>3, PopKeeps, ExitKeeps, AbandonKeeps, StartKeeps, AcquireKeeps,
     RunReturnsKeeps, SettleKeeps, RequeueKeeps, FinishKeeps, LeaveKeeps,
     ExpireKeeps, LeaseRefusedKeeps, LoseRunKeeps DEF WorkerStep
<1>4. CASE \/ \E e \in Entry : Ripen(e)
           \/ ParentDies \/ Shutdown \/ Join
  BY <1>4, RipenKeeps, ParentDiesKeeps, ShutdownKeeps, JoinKeeps
<1>5. CASE UNCHANGED vars
  BY <1>5, StutterKeeps
<1> QED
  BY <1>1, <1>2, <1>3, <1>4, <1>5 DEF Next

----------------------------------------------------------------------------
\* Every reachable state satisfies the inductive invariant.
THEOREM InvariantHolds == Spec => []IInv
BY InitEstablishes, NextKeeps, PTL DEF Spec

LEMMA SlotsSuffice == IInv => OneRunPerIdentity
BY DEF IInv, SlotHeld, OneRunPerIdentity

LEMMA JoinedIsEnd == IInv => CloseJoins
<1> SUFFICES ASSUME IInv, joined  PROVE  CloseJoins
  BY DEF CloseJoins
<1>1. \A w \in Worker : pc[w] = "exited"
  BY DEF IInv, JoinedExited
<1>2. ASSUME NEW e \in 1..submitted
      PROVE  result[e] # "none"
  <2>1. e \in Entry /\ state[e] # "new"
    BY SchedulerAssumption DEF IInv, TypeOK, QueueKnown, Entry
  <2>2. state[e] # "queued"
    BY <2>1 DEF IInv, JoinedExited, ResultsKnown
  <2>3. state[e] # "running"
    BY <1>1, <2>1 DEF IInv, ResultsKnown, Running
  <2> QED
    BY <2>1, <2>2, <2>3 DEF IInv, TypeOK, ResultsKnown
<1> QED
  BY <1>1, <1>2 DEF CloseJoins, Executing, Running

\* runEntry: a task that was cancelled and submitted again does not run before
\* its predecessor has ended.
THEOREM OneRunAlways == Spec => []OneRunPerIdentity
BY InvariantHolds, SlotsSuffice, PTL

\* Of the tasks of one identity at most one is live, and it is registered.
THEOREM LiveIsRegisteredAlways == Spec => []LiveIsRegistered
<1>1. IInv => LiveIsRegistered
  BY DEF IInv
<1> QED
  BY <1>1, InvariantHolds, PTL

\* A cancel that was accepted is not undone by a retry, a deferral or a result.
THEOREM CancelStandsAlways == Spec => []CancelStands
<1>1. IInv => CancelStands
  BY DEF IInv
<1> QED
  BY <1>1, InvariantHolds, PTL

\* When Close has returned nothing runs and every handle is complete.
THEOREM CloseJoinsAlways == Spec => []CloseJoins
BY InvariantHolds, JoinedIsEnd, PTL

----------------------------------------------------------------------------
(* The queue. *)

Holders == {w \in Worker : Holding(w)}

LEMMA FiniteParts ==
  ASSUME TypeOK
  PROVE  /\ IsFiniteSet(queue) /\ Cardinality(queue) \in Nat
         /\ IsFiniteSet(Holders) /\ Cardinality(Holders) \in Nat
         /\ Cardinality(Worker) \in Nat
         /\ Cardinality(Holders) =< Cardinality(Worker)
<1>1. IsFiniteSet(Entry)
  BY SchedulerAssumption, FS_Interval DEF Entry
<1>2. IsFiniteSet(queue)
  BY <1>1, FS_Subset DEF TypeOK
<1>3. Holders \subseteq Worker
  BY DEF Holders
<1> QED
  BY <1>2, <1>3, SchedulerAssumption, FS_Subset, FS_CardinalityType

LEMMA LessStaysBounded ==
  ASSUME TypeOK, QueueBounded, queue' \subseteq queue, Holders' \subseteq Holders
  PROVE  QueueBounded'
<1>1. /\ Cardinality(queue') =< Cardinality(queue)
      /\ Cardinality(Holders') =< Cardinality(Holders)
      /\ Cardinality(queue') \in Nat /\ Cardinality(Holders') \in Nat
  BY FiniteParts, FS_Subset, FS_CardinalityType
<1> QED
  BY <1>1, FiniteParts, SchedulerAssumption DEF QueueBounded, Holders

LEMMA SubmitBounded ==
  ASSUME IInv, IInv', NEW i \in Identity, NEW p \in Priority, Submit(i, p)
  PROVE  QueueBounded'
<1> DEFINE items == queue \ Superseded(i)
<1>1. queue' = items \cup {submitted + 1} /\ Cardinality(items) < QueueCapacity
  BY DEF Submit, CanAdmit
<1>2. TypeOK
  BY DEF IInv
<1>3. IsFiniteSet(items) /\ Cardinality(items) \in Nat
  BY <1>2, FiniteParts, FS_Subset, FS_CardinalityType
<1>4. Cardinality(queue') =< Cardinality(items) + 1
      /\ Cardinality(queue') \in Nat
  <2>1. /\ IsFiniteSet(items \cup {submitted + 1})
        /\ Cardinality(items \cup {submitted + 1}) =
             IF submitted + 1 \in items THEN Cardinality(items)
             ELSE Cardinality(items) + 1
    BY <1>3, FS_AddElement
  <2> QED
    BY <1>1, <1>3, <2>1
<1>5. Cardinality(queue') =< QueueCapacity
  BY <1>1, <1>3, <1>4, SchedulerAssumption
<1>6. Holders' \subseteq Worker
  BY DEF Holders
<1>7. /\ Cardinality(Holders') =< Cardinality(Worker)
      /\ Cardinality(Holders') \in Nat /\ Cardinality(Worker) \in Nat
  BY <1>6, SchedulerAssumption, FS_Subset, FS_CardinalityType
<1> QED
  BY <1>4, <1>5, <1>7, SchedulerAssumption DEF QueueBounded, Holders

LEMMA PopBounded ==
  ASSUME IInv, QueueBounded, NEW w \in Worker, Pop(w)
  PROVE  QueueBounded'
<1>1. PICK e \in queue : queue' = queue \ {e}
  BY DEF Pop, Foremost, Ready
<1>2. w \notin Holders /\ Holders' = Holders \cup {w}
  BY DEF Pop, Goto, Holders, Holding, Running, IInv, TypeOK
<1>3. TypeOK
  BY DEF IInv
<1>4. Cardinality(queue') = Cardinality(queue) - 1
  BY <1>1, <1>3, FiniteParts, FS_RemoveElement
<1>5. Cardinality(Holders') = Cardinality(Holders) + 1
  BY <1>2, <1>3, FiniteParts, FS_AddElement
<1> QED
  BY <1>3, <1>4, <1>5, FiniteParts, SchedulerAssumption DEF QueueBounded, Holders

LEMMA RequeueBounded ==
  ASSUME IInv, QueueBounded, NEW w \in Worker, Requeue(w)
  PROVE  QueueBounded'
<1>1. queue' = queue \cup {cur[w]}
  BY DEF Requeue
<1>2. w \in Holders /\ Holders' = Holders \ {w}
  BY DEF Requeue, Goto, Holders, Holding, Running, IInv, TypeOK
<1>3. TypeOK
  BY DEF IInv
<1>4. Cardinality(queue') =< Cardinality(queue) + 1 /\ Cardinality(queue') \in Nat
  <2>1. IsFiniteSet(queue) /\ Cardinality(queue) \in Nat
    BY <1>3, FiniteParts
  <2>2. Cardinality(queue \cup {cur[w]}) =
          IF cur[w] \in queue THEN Cardinality(queue) ELSE Cardinality(queue) + 1
    BY <2>1, FS_AddElement
  <2> QED
    BY <1>1, <2>1, <2>2
<1>5. Cardinality(Holders') = Cardinality(Holders) - 1
  BY <1>2, <1>3, FiniteParts, FS_RemoveElement
<1> QED
  BY <1>3, <1>4, <1>5, FiniteParts, SchedulerAssumption DEF QueueBounded, Holders

LEMMA OthersBounded ==
  ASSUME IInv, QueueBounded, NEW w \in Worker,
         \/ Exit(w) \/ Abandon(w) \/ Expire(w) \/ Start(w) \/ Acquire(w)
         \/ LeaseRefused(w) \/ LoseRun(w) \/ RunReturns(w) \/ Settle(w)
         \/ Finish(w) \/ Leave(w)
  PROVE  QueueBounded'
<1>1. queue' = queue
  BY DEF Exit, Abandon, Expire, Start, Acquire, LeaseRefused, LoseRun,
         RunReturns, Settle, Finish, Leave
<1>2. Holders' \subseteq Holders
  <2>1. /\ \A v \in Worker \ {w} : pc'[v] = pc[v]
        /\ Holding(w)' => Holding(w)
    BY DEF Exit, Abandon, Expire, Start, Startable, Acquire, LeaseRefused,
           LoseRun, RunReturns, Return, Leaves, Settle, Finish, Leave, Goto,
           Holding, Running, IInv, TypeOK
  <2> QED
    BY <2>1 DEF Holders, Holding, Running
<1> QED
  BY <1>1, <1>2, LessStaysBounded DEF IInv

LEMMA BoundKept ==
  IInv /\ QueueBounded /\ [Next]_vars => QueueBounded'
<1> SUFFICES ASSUME IInv, QueueBounded, [Next]_vars  PROVE  QueueBounded'
  OBVIOUS
<1>1. IInv'
  BY NextKeeps
<1>2. CASE \E i \in Identity, p \in Priority : Submit(i, p)
  BY <1>1, <1>2, SubmitBounded
<1>3. CASE \E w \in Worker : WorkerStep(w) \/ Expire(w) \/ LeaseRefused(w) \/ LoseRun(w)
  BY <1>3, PopBounded, RequeueBounded, OthersBounded DEF WorkerStep
<1>4. CASE \/ \E i \in Identity : CancelQueued(i) \/ CancelRunning(i)
           \/ \E i \in Identity, p \in Priority : Promote(i, p)
           \/ \E e \in Entry : Ripen(e)
           \/ ParentDies \/ Shutdown \/ Join \/ UNCHANGED vars
  <2>1. pc' = pc /\ queue' \subseteq queue
    BY <1>4 DEF CancelQueued, CancelRunning, Promote, Ripen, ParentDies,
                Shutdown, Join, vars, run
  <2>2. Holders' = Holders
    BY <2>1 DEF Holders, Holding, Running
  <2> QED
    BY <2>1, <2>2, LessStaysBounded DEF IInv
<1> QED
  BY <1>2, <1>3, <1>4 DEF Next

\* Deferred and repeated tasks are put back whatever the capacity; the queue
\* and the tasks that workers hold stay bounded all the same.
THEOREM QueueBoundedAlways == Spec => []QueueBounded
<1>1. Init => QueueBounded
  <2> SUFFICES ASSUME Init  PROVE  QueueBounded
    OBVIOUS
  <2>1. queue = {} /\ {w \in Worker : Holding(w)} = {}
    BY DEF Init, Holding, Running
  <2>2. Cardinality({}) = 0 /\ Cardinality(Worker) \in Nat
    BY FS_EmptySet, FS_CardinalityType, SchedulerAssumption
  <2>3. /\ Cardinality(queue) = 0
        /\ Cardinality({w \in Worker : Holding(w)}) = 0
    BY <2>1, <2>2
  <2> QED
    BY <2>2, <2>3, SchedulerAssumption DEF QueueBounded
<1> QED
  BY <1>1, InvariantHolds, BoundKept, PTL DEF Spec

----------------------------------------------------------------------------
(* The turns. *)

\* TurnsMatchQueue for any order, served turns and buckets.
Ordered(ord, tur, B) ==
  /\ ord \subseteq {bc \in B \X B : bc[1][1] = bc[2][1]}
  /\ \A b, c \in B : b[1] = c[1] => <<b, c>> \in ord \/ <<c, b>> \in ord
  /\ \A b, c \in B : <<b, c>> \in ord /\ <<c, b>> \in ord => b = c
  /\ \A b, c, d \in B : <<b, c>> \in ord /\ <<c, d>> \in ord => <<b, d>> \in ord
  /\ tur \subseteq B
  /\ \A b, c \in B : <<b, c>> \in ord /\ c \in tur => b \in tur

\* Buckets that leave take their turns with them.
LEMMA OrderedRestricted ==
  ASSUME NEW ord, NEW tur, NEW B, Ordered(ord, tur, B), NEW kept \in SUBSET B,
         NEW last \in SUBSET B, \A b, c \in B : <<b, c>> \in ord /\ c \in last => b \in last
  PROVE  Ordered(ord \cap (kept \X kept), last \cap kept, kept)
BY DEF Ordered

\* A bucket that comes gets the last turn of its priority.
LEMMA OrderedExtended ==
  ASSUME NEW ord, NEW tur, NEW B, Ordered(ord, tur, B), NEW new, new \notin B
  PROVE  Ordered(ord \cup (({b \in B : b[1] = new[1]} \cup {new}) \X {new}), tur, B \cup {new})
<1> DEFINE ext == ord \cup (({b \in B : b[1] = new[1]} \cup {new}) \X {new})
<1>1. \A b, c \in B \cup {new} :
         <<b, c>> \in ext <=> \/ b \in B /\ c \in B /\ <<b, c>> \in ord
                              \/ c = new /\ b[1] = new[1]
  BY DEF Ordered
<1>2. ext \subseteq {bc \in (B \cup {new}) \X (B \cup {new}) : bc[1][1] = bc[2][1]}
  BY DEF Ordered
<1> HIDE DEF ext
<1>3. \A b, c \in B \cup {new} : b[1] = c[1] => <<b, c>> \in ext \/ <<c, b>> \in ext
  BY <1>1 DEF Ordered
<1>4. \A b, c \in B \cup {new} : <<b, c>> \in ext /\ <<c, b>> \in ext => b = c
  BY <1>1 DEF Ordered
<1>5. \A b, c, d \in B \cup {new} : <<b, c>> \in ext /\ <<c, d>> \in ext => <<b, d>> \in ext
  <2> SUFFICES ASSUME NEW b \in B \cup {new}, NEW c \in B \cup {new}, NEW d \in B \cup {new},
                      <<b, c>> \in ext, <<c, d>> \in ext
               PROVE  <<b, d>> \in ext
    OBVIOUS
  <2>1. b[1] = c[1]
    BY <1>2
  <2>2. CASE d = new
    BY <1>1, <1>2, <2>1, <2>2
  <2>3. CASE d # new
    BY <1>1, <2>3 DEF Ordered
  <2> QED
    BY <2>2, <2>3
<1>6. tur \subseteq B \cup {new}
      /\ \A b, c \in B \cup {new} : <<b, c>> \in ext /\ c \in tur => b \in tur
  BY <1>1 DEF Ordered
<1> QED
  BY <1>2, <1>3, <1>4, <1>5, <1>6 DEF Ordered, ext

\* What stays in the queue keeps its turns, and what enters it gets one.
LEMMA TurnsOrdered ==
  ASSUME TurnsMatchQueue, NEW rest \in SUBSET queue, NEW new, NEW last,
         last \subseteq Buckets(queue),
         \A b, c \in Buckets(queue) : <<b, c>> \in order /\ c \in last => b \in last,
         Turns(rest, new, last)
  PROVE  Ordered(order', turned', IF new = NoBucket THEN Buckets(rest)
                                  ELSE Buckets(rest) \cup {new})
<1> DEFINE kept == Buckets(rest)
<1>1. kept \subseteq Buckets(queue)
  BY DEF Buckets
<1>2. Ordered(order, turned, Buckets(queue))
  BY DEF TurnsMatchQueue, Ordered
<1>3. Ordered(order \cap (kept \X kept), last \cap kept, kept)
  BY <1>1, <1>2, OrderedRestricted
<1>4. /\ turned' = last \cap kept
      /\ order' = (order \cap (kept \X kept)) \cup
                    (IF new \in kept \cup {NoBucket} THEN {}
                     ELSE ({b \in kept : b[1] = new[1]} \cup {new}) \X {new})
  BY DEF Turns, Kept
<1> HIDE DEF kept
<1>5. CASE new \in kept \cup {NoBucket}
  <2>1. order' = order \cap (kept \X kept)
    BY <1>4, <1>5
  <2>2. kept = IF new = NoBucket THEN kept ELSE kept \cup {new}
    BY <1>5
  <2> QED
    BY <1>3, <1>4, <2>1, <2>2 DEF kept
<1>6. CASE new \notin kept \cup {NoBucket}
  BY <1>3, <1>4, <1>6, OrderedExtended DEF kept
<1> QED
  BY <1>5, <1>6

\* The served turns that the queue has are the first ones.
LEMMA TurnedIsFirst ==
  ASSUME TurnsMatchQueue
  PROVE  /\ turned \subseteq Buckets(queue)
         /\ \A b, c \in Buckets(queue) : <<b, c>> \in order /\ c \in turned => b \in turned
BY DEF TurnsMatchQueue

\* What is to be shown of a step is that the new turns fit the new buckets.
LEMMA MatchIsOrdered ==
  ASSUME Ordered(order', turned', Buckets(queue)')
  PROVE  TurnsMatchQueue'
BY DEF Ordered, TurnsMatchQueue

LEMMA PromoteTurns ==
  ASSUME IInv, TurnsMatchQueue, NEW i \in Identity, NEW p \in Priority, Promote(i, p)
  PROVE  TurnsMatchQueue'
<1>1. PICK e \in queue :
         /\ queue' = queue /\ ident' = ident /\ prio' = [prio EXCEPT ![e] = p]
         /\ Turns(queue \ {e}, <<p, OwnerOf[ident[e]]>>, turned)
  BY DEF Promote
<1> DEFINE new == <<p, OwnerOf[ident[e]]>>
<1>2. Ordered(order', turned', IF new = NoBucket THEN Buckets(queue \ {e})
                               ELSE Buckets(queue \ {e}) \cup {new})
  BY <1>1, TurnedIsFirst, TurnsOrdered
<1>3. new # NoBucket
  BY DEF NoBucket
<1>4. Buckets(queue)' = Buckets(queue \ {e}) \cup {new}
  <2>1. e \in Entry /\ queue \subseteq Entry
    BY <1>1 DEF IInv, TypeOK
  <2>2. BucketOf(e)' = new /\ \A f \in queue \ {e} : BucketOf(f)' = BucketOf(f)
    BY <1>1, <2>1 DEF BucketOf, IInv, TypeOK
  <2> QED
    BY <1>1, <2>2 DEF Buckets
<1> QED
  BY <1>2, <1>3, <1>4, MatchIsOrdered

LEMMA SubmitTurns ==
  ASSUME IInv, TurnsMatchQueue, NEW i \in Identity, NEW p \in Priority, Submit(i, p)
  PROVE  TurnsMatchQueue'
<1> DEFINE items == queue \ Superseded(i)
           new == <<p, OwnerOf[i]>>
<1>1. PICK e \in Entry \ queue :
         /\ queue' = items \cup {e} /\ Turns(items, new, turned)
         /\ ident' = [ident EXCEPT ![e] = i] /\ prio' = [prio EXCEPT ![e] = p]
  <2>1. submitted + 1 \in Entry \ queue
    BY SchedulerAssumption DEF Submit, IInv, TypeOK, QueueKnown, Entry
  <2>2. /\ queue' = items \cup {submitted + 1} /\ Turns(items, new, turned)
        /\ ident' = [ident EXCEPT ![submitted + 1] = i]
        /\ prio' = [prio EXCEPT ![submitted + 1] = p]
    BY DEF Submit
  <2> QED
    BY <2>1, <2>2
<1>2. Ordered(order', turned', IF new = NoBucket THEN Buckets(items)
                               ELSE Buckets(items) \cup {new})
  BY <1>1, TurnedIsFirst, TurnsOrdered
<1>3. new # NoBucket
  BY DEF NoBucket
<1>4. Buckets(queue)' = Buckets(items) \cup {new}
  <2>1. queue \subseteq Entry
    BY DEF IInv, TypeOK
  <2>2. prio \in [Entry -> Priority] /\ ident \in [Entry -> Identity]
    BY DEF IInv, TypeOK
  <2>3. items \subseteq queue
    OBVIOUS
  <2> HIDE DEF items
  <2>4. prio'[e] = p /\ ident'[e] = i
    BY <1>1, <2>1, <2>2
  <2>5. \A f \in items : prio'[f] = prio[f] /\ ident'[f] = ident[f]
    BY <1>1, <2>1, <2>2, <2>3
  <2>6. BucketOf(e)' = new /\ \A f \in items : BucketOf(f)' = BucketOf(f)
    BY <2>4, <2>5 DEF BucketOf
  <2> HIDE DEF new
  <2> QED
    BY <1>1, <2>6 DEF Buckets
<1> QED
  BY <1>2, <1>3, <1>4, MatchIsOrdered

LEMMA CancelQueuedTurns ==
  ASSUME IInv, TurnsMatchQueue, NEW i \in Identity, CancelQueued(i)
  PROVE  TurnsMatchQueue'
<1> DEFINE rest == queue \ {registry[i]}
<1>1. /\ queue' = rest /\ Turns(rest, NoBucket, turned)
      /\ UNCHANGED <<ident, prio>>
  BY DEF CancelQueued
<1>2. Ordered(order', turned', Buckets(rest))
  BY <1>1, TurnedIsFirst, TurnsOrdered
<1>3. Buckets(queue)' = Buckets(rest)
  BY <1>1 DEF Buckets, BucketOf
<1> QED
  BY <1>2, <1>3, MatchIsOrdered

LEMMA PopTurns ==
  ASSUME IInv, TurnsMatchQueue, NEW w \in Worker, Pop(w)
  PROVE  TurnsMatchQueue'
<1>1. PICK e \in queue : queue' = queue \ {e} /\ Turns(queue \ {e}, NoBucket, ServedTo(e))
  BY DEF Pop, Foremost, Ready
<1>2. UNCHANGED <<ident, prio>>
  BY DEF Pop, entries
<1>3. /\ ServedTo(e) \subseteq Buckets(queue)
      /\ \A b, c \in Buckets(queue) :
            <<b, c>> \in order /\ c \in ServedTo(e) => b \in ServedTo(e)
  <2>1. BucketOf(e) \in Buckets(queue) /\ BucketOf(e)[1] = prio[e]
    BY DEF Buckets, BucketOf
  <2>2. \A b, c \in Buckets(queue) : <<b, c>> \in order => b[1] = c[1]
    BY DEF TurnsMatchQueue
  <2> QED
    BY <2>1, <2>2 DEF ServedTo, TurnsMatchQueue
<1>4. Ordered(order', turned', Buckets(queue \ {e}))
  BY <1>1, <1>3, TurnsOrdered
<1>5. Buckets(queue)' = Buckets(queue \ {e})
  BY <1>1, <1>2 DEF Buckets, BucketOf
<1> QED
  BY <1>4, <1>5, MatchIsOrdered

LEMMA RequeueTurns ==
  ASSUME IInv, TurnsMatchQueue, NEW w \in Worker, Requeue(w)
  PROVE  TurnsMatchQueue'
<1> DEFINE e == cur[w]
<1>1. /\ queue' = queue \cup {e} /\ Turns(queue, BucketOf(e), turned)
      /\ UNCHANGED <<ident, prio>>
  BY DEF Requeue
<1>2. Ordered(order', turned', IF BucketOf(e) = NoBucket THEN Buckets(queue)
                               ELSE Buckets(queue) \cup {BucketOf(e)})
  BY <1>1, TurnedIsFirst, TurnsOrdered
<1>3. BucketOf(e) # NoBucket
  BY DEF NoBucket, BucketOf
<1>4. Buckets(queue)' = Buckets(queue) \cup {BucketOf(e)}
  BY <1>1 DEF Buckets, BucketOf
<1> QED
  BY <1>2, <1>3, <1>4, MatchIsOrdered

LEMMA TurnsKept ==
  IInv /\ TurnsMatchQueue /\ [Next]_vars => TurnsMatchQueue'
<1> SUFFICES ASSUME IInv, TurnsMatchQueue, [Next]_vars  PROVE  TurnsMatchQueue'
  OBVIOUS
<1>1. CASE \/ \E i \in Identity, p \in Priority : Submit(i, p) \/ Promote(i, p)
           \/ \E i \in Identity : CancelQueued(i)
           \/ \E w \in Worker : Pop(w) \/ Requeue(w)
  BY <1>1, SubmitTurns, PromoteTurns, CancelQueuedTurns, PopTurns, RequeueTurns
<1>2. CASE \/ \E w \in Worker :
                \/ Exit(w) \/ Abandon(w) \/ Expire(w) \/ Start(w) \/ Acquire(w)
                \/ LeaseRefused(w) \/ LoseRun(w) \/ RunReturns(w) \/ Settle(w)
                \/ Finish(w) \/ Leave(w)
           \/ \E i \in Identity : CancelRunning(i)
           \/ \E e \in Entry : Ripen(e)
           \/ ParentDies \/ Shutdown \/ Join \/ UNCHANGED vars
  <2>1. UNCHANGED <<queue, ident, prio, order, turned>>
    BY <1>2 DEF Exit, Abandon, Expire, Start, Acquire, LeaseRefused, LoseRun, RunReturns,
                Settle, Finish, Leave, CancelRunning, Ripen, ParentDies, Shutdown, Join,
                vars, entries, turns
  <2> QED
    BY <2>1 DEF TurnsMatchQueue, Buckets, BucketOf
<1> QED
  BY <1>1, <1>2 DEF Next, WorkerStep

\* Every owner with a queued task has one turn and no other owner has: no owner
\* is forgotten by the round-robin, whatever is cancelled, promoted, superseded
\* or put back (ensureOwnerOrderLocked, dropOwnerOrderIfEmptyLocked).
THEOREM TurnsMatchQueueAlways == Spec => []TurnsMatchQueue
<1>1. Init => TurnsMatchQueue
  BY DEF Init, TurnsMatchQueue, Buckets
<1> QED
  BY <1>1, InvariantHolds, TurnsKept, PTL DEF Spec
==============================================================================
