---------------------------- MODULE AuctionRules ----------------------------
(***************************************************************************)
(* The bidding rules of server-go/internal/bid: the checks made in Go      *)
(* (rules.go), the conditions of the SQL statement that accepts a bid      *)
(* (repository.go, ConditionalAccept) and the row it leaves behind.  All   *)
(* are pure operators on a row `a` of table auctions, a record with the    *)
(* fields status, price, leader, bidCount, endTime and version; the        *)
(* columns no bid changes are the constants below.  An operator whose name *)
(* starts with Wrong is a deliberately broken variant of the definition    *)
(* after it: PROJECT.json puts it in that definition's place to show that  *)
(* a property notices.                                                     *)
(***************************************************************************)
EXTENDS Integers

CONSTANTS
  StartPrice,       \* start_price, in cents
  PriceStep,        \* price_step
  CeilingPrice,     \* ceiling_price, or NoCeiling where the column is NULL
  NoCeiling,
  ExtendSeconds,    \* how far a late bid moves the end
  ExtendThreshold,  \* how close to the end a bid counts as late
  MaxInt64          \* the largest value of an int64 and of a BIGINT column

(***************************************************************************)
(* What validatePrices and validateCreate leave of the columns.  That a    *)
(* ceiling is not below the start price is not assumed: see AuctionAdmin.  *)
(***************************************************************************)
ASSUME PriceAssumption ==
  /\ MaxInt64 \in Nat \ {0}
  /\ StartPrice \in 0..MaxInt64
  /\ PriceStep \in 1..MaxInt64
  /\ NoCeiling \notin Int
  /\ CeilingPrice \in (1..MaxInt64) \cup {NoCeiling}

ASSUME ExtendAssumption ==
  /\ ExtendSeconds \in Nat \ {0}
  /\ ExtendThreshold \in Nat \ {0}

\* Go's int64 addition of two values in 0..MaxInt64: it wraps to a negative.
Add64(x, y) == IF x + y > MaxInt64 THEN (x + y) - 2 * (MaxInt64 + 1) ELSE x + y

\* rules.go minAcceptableAmount.
MinAcceptable(a) ==
  IF a.bidCount > 0 THEN Add64(a.price, PriceStep)
  ELSE IF StartPrice > 0 THEN StartPrice ELSE PriceStep

OverCeiling(amount) == CeilingPrice # NoCeiling /\ amount > CeilingPrice

CeilingHit(amount) == amount = CeilingPrice

\* rules.go validateAuction: "Ok" stands for a nil error, the other values
\* for the constructors of http/errors.go.
Verdict(a, amount, now) ==
  CASE a.status = "pending"        -> "AuctionNotPending"
    [] a.status = "ended"          -> "AuctionEnded"
    [] a.status = "cancelled"      -> "AuctionCancelled"
    [] a.status = "active" ->
         IF a.endTime <= now               THEN "AuctionEnded"
         ELSE IF amount < MinAcceptable(a) THEN "BidTooLow"
         ELSE IF OverCeiling(amount)       THEN "BidOverCeiling"
         ELSE "Ok"

\* Wrong: the two parameters of the extension are mixed up.
WrongShouldExtend(a, now) == a.endTime - now < ExtendSeconds

\* rules.go shouldExtend, and service.go's choice of the new end.
ShouldExtend(a, now) == a.endTime - now <= ExtendThreshold

Extends(a, amount, now) == ~CeilingHit(amount) /\ ShouldExtend(a, now)

NewEndTime(a, amount, now) ==
  IF CeilingHit(amount) THEN now
  ELSE IF ShouldExtend(a, now) THEN a.endTime + ExtendSeconds
  ELSE a.endTime

\* Wrong: the UPDATE of contract-v2.md, which moves the version by one always.
WrongEventCount(a, amount, now) == 1

\* How many events the bid writes, and by how much it moves the version.
EventCount(a, amount, now) ==
  IF CeilingHit(amount) \/ ShouldExtend(a, now) THEN 2 ELSE 1

\* Wrong: without the conditions on end_time and on the price.
WrongSqlAcceptsLate(a, amount, dbNow) == a.status = "active" /\ ~OverCeiling(amount)

\* The WHERE clause of ConditionalAccept, evaluated at the database's clock.
\* current_price + price_step is out of range where it exceeds a BIGINT: the
\* statement fails, so no row is accepted there either.
SqlAccepts(a, amount, dbNow) ==
  /\ a.status = "active"
  /\ a.endTime > dbNow
  /\ \/ a.bidCount = 0 /\ StartPrice > 0 /\ amount >= StartPrice
     \/ a.bidCount = 0 /\ StartPrice = 0 /\ amount >= PriceStep
     \/ a.bidCount > 0 /\ a.price + PriceStep <= amount
  /\ ~OverCeiling(amount)

\* Wrong: no counting; or no end at the ceiling.
WrongAcceptRowCount(a, user, amount, now) ==
  [a EXCEPT !.status = IF CeilingHit(amount) THEN "ended" ELSE @,
            !.price = amount, !.leader = user, !.endTime = NewEndTime(a, amount, now),
            !.version = @ + EventCount(a, amount, now)]
WrongAcceptRowOpen(a, user, amount, now) ==
  [a EXCEPT !.price = amount, !.leader = user, !.bidCount = @ + 1,
            !.endTime = NewEndTime(a, amount, now),
            !.version = @ + EventCount(a, amount, now)]

\* The row ConditionalAccept leaves: `now` is the transaction's clock reading.
AcceptRow(a, user, amount, now) ==
  [ status   |-> IF CeilingHit(amount) THEN "ended" ELSE a.status,
    price    |-> amount,
    leader   |-> user,
    bidCount |-> a.bidCount + 1,
    endTime  |-> NewEndTime(a, amount, now),
    version  |-> a.version + EventCount(a, amount, now) ]
=============================================================================
