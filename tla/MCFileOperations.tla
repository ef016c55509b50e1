------------------------ MODULE MCFileOperations ------------------------
(* Model values for FileOperations: a directory with a file and room for a *)
(* copy of both, or two directories side by side.                          *)
EXTENDS FileOperations, TLC
CONSTANTS d, e, f, s, a, b, root, none, w1, w2, u1, u2
TwoDirs == {d, e}
Names2 == {a, b}
AllRequests == {"relocate", "create", "trash", "restore", "purge"}
Copyable == {"copy", "move", "delete"}
Policies == {"keep_both", "skip"}
OneServer == {w1}
TwoServers == {w1, w2}
OneUser == {u1}
TwoUsers == {u1, u2}
Row1(p, nm) == [parent |-> p, name |-> nm, trash |-> none, rev |-> 1]
FullTree == {d, e, f, s}
InsideTree == (d :> Row1(root, a)) @@ (f :> Row1(d, b)) @@ (e :> Absent) @@ (s :> Absent)
PairTree == (d :> Row1(root, a)) @@ (e :> Row1(root, b))
=============================================================================
