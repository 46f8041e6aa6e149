---------------------------- MODULE MCBidService ----------------------------
(* Instances of BidService for TLC. *)
EXTENDS BidServiceProps, TLC

\* Handlers, bidders and workers are interchangeable, and so are the values of
\* the two headers.
Symmetry == Permutations(Procs) \cup Permutations(Users)
RetrySymmetry ==
  Permutations(Procs) \cup Permutations(Workers) \cup Permutations(KeyIds)
    \cup Permutations(RequestIds)
=============================================================================
