------------------------------ MODULE MCListing ------------------------------
(* Finite values for the constants of Listing. *)
EXTENDS Listing

Places == 1..5
=============================================================================
