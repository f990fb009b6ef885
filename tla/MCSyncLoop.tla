------------------------------ MODULE MCSyncLoop ------------------------------
(* Finite values for the constants of SyncLoop. *)
EXTENDS SyncLoop, TLC
=============================================================================
