------------------------------ MODULE MCListing ------------------------------
(* Instances of Listing for TLC. *)
EXTENDS Listing

CONSTANTS r1, r2, r3, r4

Rows4 == {r1, r2, r3, r4}
Limits == {0, 1, 3}
=============================================================================
