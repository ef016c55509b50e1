--------------------------- MODULE MCContentBlobs ---------------------------
(* Instances of ContentBlobs for TLC.                                       *)
EXTENDS ContentBlobs, TLC

CONSTANTS n1, n2, n3, p1, p2, c1, c2, rA, rB

(* Two folders side by side: both can be purged at the same time.           *)
SideBySide == (rA :> {n1}) @@ (rB :> {n2})

(* Folder rB lies inside folder rA: their permanent deletes can overlap.     *)
NestedFolders == (rA :> {n1, n2}) @@ (rB :> {n1})

HandlerSymmetry == Permutations({p1, p2})
=============================================================================
