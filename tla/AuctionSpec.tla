---------------------------- MODULE AuctionSpec ----------------------------
(***************************************************************************)
(* What BidBlaze promises of one auction, without handlers, locks, retries *)
(* or workers: an English auction with a deadline that late bids push back *)
(* and a ceiling that sells at once.  BidService implements it.            *)
(***************************************************************************)
EXTENDS Integers

CONSTANTS Users, NoUser, StartPrice, PriceStep, CeilingPrice, NoCeiling,
          ExtendSeconds, FirstDeadline

VARIABLES
  status,    \* "pending", "active", "ended" or "cancelled"
  price,     \* what the leader bid, or the start price
  leader,    \* who bid last, or NoUser
  deadline,  \* when bidding closes
  sale,      \* the set of sales: at most one, of the leader at the price
  clock

vars == <<status, price, leader, deadline, sale, clock>>

Init ==
  /\ status = "pending"
  /\ price = StartPrice /\ leader = NoUser
  /\ deadline = FirstDeadline
  /\ sale = {}
  /\ clock = 0

Start ==
  /\ status = "pending" /\ status' = "active"
  /\ UNCHANGED <<price, leader, deadline, sale, clock>>

\* The first bid meets the start price (a price step where that is zero), a
\* later one beats the leader by a price step.
Beats(amount) ==
  IF leader = NoUser
  THEN amount >= (IF StartPrice > 0 THEN StartPrice ELSE PriceStep)
  ELSE amount >= price + PriceStep

\* A bid before the deadline; it may push the deadline back, never forward.
Bid(user) ==
  /\ status = "active" /\ clock < deadline
  /\ price' \in Nat /\ Beats(price')
  /\ CeilingPrice # NoCeiling => price' < CeilingPrice
  /\ leader' = user
  /\ deadline' \in {deadline, deadline + ExtendSeconds}
  /\ UNCHANGED <<status, sale, clock>>

\* A bid of exactly the ceiling buys: it ends the auction before its deadline.
BuyAtCeiling(user) ==
  /\ CeilingPrice # NoCeiling
  /\ status = "active" /\ clock < deadline
  /\ price' = CeilingPrice /\ Beats(price')
  /\ status' = "ended"
  /\ leader' = user
  /\ deadline' < deadline
  /\ sale' = {[winner |-> user, price |-> CeilingPrice]}
  /\ UNCHANGED clock

\* At the deadline the leader, if any, has bought at the price.
Close ==
  /\ status = "active" /\ deadline <= clock
  /\ status' = "ended"
  /\ sale' = IF leader = NoUser THEN {} ELSE {[winner |-> leader, price |-> price]}
  /\ UNCHANGED <<price, leader, deadline, clock>>

Cancel ==
  /\ status \in {"pending", "active"} /\ status' = "cancelled"
  /\ UNCHANGED <<price, leader, deadline, sale, clock>>

Tick ==
  /\ clock' = clock + 1
  /\ UNCHANGED <<status, price, leader, deadline, sale>>

Next ==
  \/ Start \/ Close \/ Cancel \/ Tick
  \/ \E user \in Users : Bid(user) \/ BuyAtCeiling(user)

Spec == Init /\ [][Next]_vars
=============================================================================
