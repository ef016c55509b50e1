-------------------------- MODULE MCSchedulerTurns --------------------------
(* Model values for SchedulerTurns: a worker, an owner with a task at a time *)
(* and one with a backlog.                                                   *)
EXTENDS SchedulerTurns
CONSTANTS a1, a2, b1, b2, a, b, w1
AllTasks == {a1, a2, b1, b2}
TwoOwners == {a, b}
MCOwnerOf == [i \in Identity |-> IF i \in {b1, b2} THEN b ELSE a]
OneWorker == {w1}
OnePriority == {0}
AnyRequest == Identity \X Priority
=============================================================================
