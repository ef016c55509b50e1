--------------------------- MODULE SchedulerTurns ---------------------------
(* The turns of the owners in the queue of BackgroundScheduler, with a       *)
(* history variable: which owners were served while another one waited.      *)
EXTENDS BackgroundScheduler

VARIABLE passed  \* of a priority and an owner: who was served since its turn

Bucket == Priority \X Owner

TurnsInit == Init /\ passed = [b \in Bucket |-> {}]

Served(e) == \E w \in Worker : cur[w] = 0 /\ cur'[w] = e

TurnsNext ==
  /\ Next
  /\ passed' = [b \in Bucket |->
       IF b \notin Buckets(Ready)' \/ \E e \in queue : Served(e) /\ BucketOf(e) = b
       THEN {}
       ELSE passed[b] \cup {OwnerOf[ident[e]] :
                             e \in {f \in queue : Served(f) /\ prio[f] = b[1]}}]

TurnsSpec == TurnsInit /\ [][TurnsNext]_<<vars, passed>>

\* docs/background-scheduler.md: "Active owner buckets are visited with a
\* work-conserving round-robin".  No owner is served twice while a task of
\* another owner of the same priority is ready and waits.
RoundRobin ==
  [][\A e \in queue : Served(e) =>
       \A b \in Buckets(Ready) : b[1] = prio[e] /\ b # BucketOf(e)
         => OwnerOf[ident[e]] \notin passed[b]
    ]_<<vars, passed>>
=============================================================================
