----------------------------- MODULE ListingMC -----------------------------
(***************************************************************************)
(* A small instance of Listing: one client, which names no limit, or asks  *)
(* for one row a page, or for 4, which an int32 of -4..3 cannot hold.      *)
(***************************************************************************)
EXTENDS Listing, FraudServiceMC

CONSTANT c1

OneReader == {c1}
=============================================================================
