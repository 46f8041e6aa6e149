--------------------------- MODULE MCAuctionAdmin ---------------------------
(* Instances of AuctionAdmin for TLC. *)
EXTENDS AuctionAdmin, TLC

\* Requests are interchangeable.
Symmetry == Permutations(Requests)
=============================================================================
