----------------------- MODULE MCBackgroundScheduler -----------------------
(* Model values for BackgroundScheduler: one owner with two tasks of one    *)
(* series, of which one takes a lease, and one owner with one task.         *)
EXTENDS BackgroundScheduler, TLC
CONSTANTS a1, a2, b1, a, b, w1, w2
OneOwner == {a}
OneOwnersTasks == {a1, a2}
TwoOwners == {a, b}
AllTasks == {a1, a2, b1}
MCOwnerOf == [i \in Identity |-> IF i = b1 THEN b ELSE a]
MCLeased == {a1}
MCSeries == {{a1, a2}}
TwoWorkers == {w1, w2}
TwoPriorities == {0, 1}
AnyRequest == Identity \X Priority
\* One task is promoted, the others have one call that submits them.
SomeRequests == {<<a1, 1>>, <<a2, 0>>, <<a2, 1>>, <<b1, 1>>}
Symmetry == Permutations(Worker)
=============================================================================
