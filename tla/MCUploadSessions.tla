--------------------------- MODULE MCUploadSessions ---------------------------
(* Instances of UploadSessions for TLC.                                      *)
EXTENDS UploadSessions, TLC

CONSTANTS s1, a, b, a1, a2, b1, r1, r2

(* A key for each content, or two for one: a chunk may be put twice.         *)
KeysOfOneEach == (a1 :> a) @@ (b1 :> b)
KeysOfA == (a1 :> a) @@ (a2 :> a)

Requests == Permutations({r1, r2})
=============================================================================
