------------------------- MODULE MCOutboxPublisher -------------------------
(* Instances of OutboxPublisher for TLC. *)
EXTENDS OutboxPublisher, TLC

\* Auctions and instances are interchangeable.
Symmetry == Permutations(Auctions) \cup Permutations(Publishers)
=============================================================================
