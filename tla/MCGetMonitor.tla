----------------------------- MODULE MCGetMonitor -----------------------------
(* Finite values for the constants of GetMonitor. *)
EXTENDS GetMonitor, TLC

\* Sound for safety: no action distinguishes two records.
Symmetry == Permutations(Rec)
=============================================================================
