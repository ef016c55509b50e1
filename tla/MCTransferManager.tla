-------------------------- MODULE MCTransferManager --------------------------
(* Instances of TransferManager for TLC.                                     *)
EXTENDS TransferManager

CONSTANTS c1, c2

(* The root tasks of one behaviour are all single ones, all folders or all   *)
(* groups; the runs with fewer tasks mix them.                               *)
OneSort ==
    \A t, u \in 1..(nextID - 1) :
       parent[t] = NoParent /\ parent[u] = NoParent =>
          kind[t] = kind[u] \/ {kind[t], kind[u]} = {"direct", "mount"}
=============================================================================
