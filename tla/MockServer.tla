----------------------------- MODULE MockServer -----------------------------
(***************************************************************************)
(* The server that admin-web is developed against, mocks/handlers.ts: it   *)
(* runs inside the tab, so that loading the page anew starts it anew.      *)
(* Every handler is one step, and answers E401, Refused or data.  A     *)
(* token stands for its user.  Texts, viewers and the lists of bids are    *)
(* left out, and so are times that nothing reads: no auction is started.   *)
(***************************************************************************)
EXTENDS Integers, Sequences

CONSTANTS
  Sellers, Buyers, \* users; a nickname tells which of the two
  Seed,            \* the users of fixtures/users.json
  Fixture,         \* the auctions of fixtures/auctions.json
  Lifetime,        \* how long an active one of them goes on
  Step,            \* price_step
  Extend,          \* extend_seconds, in periods of the simulator
  Threshold,       \* extend_threshold, in periods of the simulator
  None,            \* null
  E401, Refused,   \* the answers 401, and 403 or 404
  MaxClock         \* bound: periods of the simulator

Users == Sellers \cup Buyers
Statuses == {"pending", "active", "ended", "cancelled"}
Auctions == [seller : Users, status : Statuses, price : Nat, leader : Users \cup {None}, end : Nat]

\* An auction of fixtures/auctions.json is extended by as much as the threshold
\* is, 30 seconds, so that its end never recedes.
ASSUME MockAssumption ==
  /\ Seed \subseteq Users /\ None \notin Users /\ "ok" \notin {E401, Refused}
  /\ Step \in Nat \ {0} /\ Extend \in Nat \ {0} /\ Threshold \in 0..Extend
  /\ Lifetime \in Nat \ {0}
  /\ MaxClock \in Nat
ASSUME FixtureAssumption == Fixture \in Seq(Auctions)

VARIABLES
  users,    \* who has logged in, besides the seed
  auctions, \* by id
  orders,   \* in the order of their ids
  clock     \* periods of the simulator

mock == <<users, auctions, orders, clock>>

Ids == DOMAIN auctions

\* What auctions have been sold, in the order of their ids, become orders.
Sale(rows, a) == [auction |-> a, winner |-> rows[a].leader, price |-> rows[a].price]
IsSold(row) == row.status = "ended" /\ row.leader # None

Sales(rows, sold) ==
  LET upTo[a \in 0..Len(rows)] ==
        IF a = 0 THEN <<>>
        ELSE IF a \in sold THEN Append(upTo[a - 1], Sale(rows, a)) ELSE upTo[a - 1]
  IN  upTo[Len(rows)]

\* The fixtures, with the times of the active auctions relative to the present.
Fresh == [a \in DOMAIN Fixture |-> [Fixture[a] EXCEPT !.end = Lifetime]]
FreshOrders == Sales(Fixture, {a \in DOMAIN Fixture : IsSold(Fixture[a])})

InitMock ==
  /\ users = Seed /\ auctions = Fresh /\ orders = FreshOrders
  /\ clock = 0

\* The tab is loaded anew.
Restart ==
  /\ users' = Seed /\ auctions' = Fresh /\ orders' = FreshOrders
  /\ clock' = 0

-----------------------------------------------------------------------------
(* The simulator, every three seconds.                                      *)

\* An active auction, if this buyer bids or nobody does.
Simulated(row, buyer) ==
  CASE row.status # "active" -> row
    [] row.status = "active" /\ clock >= row.end -> [row EXCEPT !.status = "ended"]
    [] OTHER -> IF buyer = None THEN row
                ELSE [row EXCEPT !.price = @ + Step, !.leader = buyer,
                                 !.end = IF @ - clock <= Threshold THEN clock + Extend ELSE @]

NewlySold(rows) == {a \in Ids : IsSold(rows[a]) /\ auctions[a].status = "active"}

Simulate ==
  /\ clock < MaxClock
  /\ clock' = clock + 1
  /\ \E buyer \in [Ids -> (Buyers \cap Seed) \cup {None}] :
       LET rows == [a \in Ids |-> Simulated(auctions[a], buyer[a])]
       IN  auctions' = rows /\ orders' = orders \o Sales(rows, NewlySold(rows))
  /\ UNCHANGED users

-----------------------------------------------------------------------------
(* The handlers: what each answers, and what it changes.                    *)

Known(user) == user \in users

LoginStep(user) == users' = users \cup {user} /\ UNCHANGED <<auctions, orders, clock>>

MeAnswer(user) == IF Known(user) THEN user ELSE E401

\* GET /api/auctions for `me`: a token that is not known owns nothing.
ListAnswer(user, tab) ==
  IF ~Known(user) THEN {}
  ELSE {[id |-> a, status |-> auctions[a].status] : a \in
          {b \in Ids : auctions[b].seller = user /\ tab \in {"all", auctions[b].status}}}

\* GET /api/orders/seller.
OrdersAnswer(user) ==
  IF ~Known(user) THEN E401
  ELSE {i \in DOMAIN orders : auctions[orders[i].auction].seller = user}

\* GET status, which asks for no token.
StatusAnswer(a) ==
  IF a \in Ids THEN [status |-> auctions[a].status, end |-> auctions[a].end] ELSE Refused

\* Who may change an auction, and in what states.
Verdict(user, a, states) ==
  CASE ~Known(user)   -> E401
    [] Known(user) /\ (IF a \in Ids THEN auctions[a].seller = user /\ auctions[a].status \in states
                       ELSE FALSE) -> "ok"
    [] OTHER          -> Refused

\* Wrong: an auction can be cancelled after its end.
WrongCancelAnswer(user, a) == Verdict(user, a, {"pending", "active", "ended"})

CancelAnswer(user, a) == Verdict(user, a, {"pending", "active"})

CancelStep(user, a) ==
  /\ auctions' = IF CancelAnswer(user, a) = "ok" THEN [auctions EXCEPT ![a].status = "cancelled"]
                 ELSE auctions
  /\ UNCHANGED <<users, orders, clock>>

-----------------------------------------------------------------------------
\* The orders are the sales, one each, with the winner and the last price: none
\* for an auction that was cancelled, whatever the seller does near the end.
OrdersAreSales ==
  /\ \A a \in Ids : IsSold(auctions[a]) <=> \E i \in DOMAIN orders : orders[i] = Sale(auctions, a)
  /\ \A i, j \in DOMAIN orders : orders[i].auction = orders[j].auction => i = j
  /\ \A i \in DOMAIN orders : IsSold(auctions[orders[i].auction])
=============================================================================
