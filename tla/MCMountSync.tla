---------------------------- MODULE MCMountSync ----------------------------
(* MountSync for TLC. *)
EXTENDS MountSync, TLC
=============================================================================
