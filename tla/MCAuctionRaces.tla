--------------------------- MODULE MCAuctionRaces ---------------------------
(***************************************************************************)
(* The instances of AuctionRaces that TLC checks.                          *)
(***************************************************************************)
EXTENDS AuctionRaces, TLC

AuctionSymmetry == Permutations(Requests)

=============================================================================
