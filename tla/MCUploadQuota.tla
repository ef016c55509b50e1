----------------------------- MODULE MCUploadQuota -----------------------------
(* Instances of UploadQuota for TLC.                                         *)
EXTENDS UploadQuota, TLC

CONSTANTS x, y, r1, r2, s1, s2, h1, p1, p2

Sizes == (x :> 1) @@ (y :> 2)

Symmetry == Permutations({p1, p2}) \cup Permutations({r1, r2})
=============================================================================
