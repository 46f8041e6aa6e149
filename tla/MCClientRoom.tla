---------------------------- MODULE MCClientRoom ----------------------------
(* Instances of ClientRoom for TLC. *)
EXTENDS ClientRoom, TLC

Started == [type |-> "started"]
Bid(price, mine) == [type |-> "bid", price |-> price, mine |-> mine]
Extended(end) == [type |-> "extended", end |-> end]
Ended == [type |-> "ended"]

\* An auction that is extended, and one in which the client bids.
ExtendedLog == <<Started, Bid(1, FALSE), Extended(1)>>
EndedLog == <<Started, Bid(1, TRUE), Ended>>

Symmetry == Permutations(Slots)
=============================================================================
