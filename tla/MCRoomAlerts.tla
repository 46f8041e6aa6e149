---------------------------- MODULE MCRoomAlerts ----------------------------
(* An instance of RoomAlerts for TLC. *)
EXTENDS RoomAlerts

Bid(u) == [type |-> "bid", leader |-> u]
Extended(end) == [type |-> "extended", end |-> end]
Ended == [type |-> "ended"]

\* The client bids, is outbid, the auction is extended and ends.
Contest == <<Bid("me"), Bid("rival"), Extended(3), Ended>>
=============================================================================
