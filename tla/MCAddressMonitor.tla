--------------------------- MODULE MCAddressMonitor ---------------------------
(* Finite values for the constants of AddressMonitor. *)
EXTENDS AddressMonitor, TLC

\* Sound for safety: no action distinguishes two addresses or two requests.
Symmetry == Permutations(Addr) \cup Permutations(Request)
=============================================================================
