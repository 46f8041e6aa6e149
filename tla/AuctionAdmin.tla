---------------------------- MODULE AuctionAdmin ----------------------------
(***************************************************************************)
(* How the seller sets the rules of an auction: POST /api/auctions, PUT    *)
(* and cancel of server-go/internal/auction, concurrent with each other,   *)
(* with the lifecycle worker and with bids.  A request validates what it   *)
(* read and computed first and writes later, in one statement.             *)
(*                                                                         *)
(* `rules` holds the columns only the seller writes, `auction` those the   *)
(* bids and the worker move too (as in BidService).  Texts, pictures and   *)
(* extend_seconds and extend_threshold are checked on their own and tied   *)
(* to nothing, so they are left out.  A refused request changes nothing    *)
(* and is not a step; bids and the worker are single steps here, see       *)
(* BidService for what happens inside them.                                *)
(***************************************************************************)
EXTENDS Integers, FiniteSets

CONSTANTS
  Users, NoUser,
  Requests,     \* concurrent requests of the seller
  Prices,       \* the start and ceiling prices they may set
  Steps,        \* the price steps they may set
  Starts,       \* the start times they may set
  Durations,    \* the durations they may set
  BidAmounts,
  NotGiven,     \* a field the request leaves out
  NoCeiling,
  ExtendSeconds, ExtendThreshold, MaxInt64,
  Skew,         \* how far an instance's clock may be off the database's
  MaxClock      \* bound: the last instant of a behaviour

ASSUME AdminAssumption ==
  /\ NoUser \notin Users
  /\ MaxInt64 \in Nat \ {0}
  /\ Prices \subseteq 0..MaxInt64 /\ Steps \subseteq 1..MaxInt64
  /\ BidAmounts \subseteq 1..MaxInt64
  /\ Starts \subseteq Nat /\ Durations \subseteq Nat \ {0}
  /\ NotGiven \notin Int /\ NoCeiling \notin Int /\ NotGiven # NoCeiling
  /\ Skew \in Nat /\ MaxClock \in Nat
  /\ ExtendSeconds \in Nat \ {0} /\ ExtendThreshold \in Nat \ {0}

VARIABLES
  rules,    \* startPrice, step, ceiling and startTime of the row
  auction,  \* its other columns; status "none" before the INSERT
  clock,    \* the database's clock
  todo      \* what each validated request is about to write

vars == <<rules, auction, clock, todo>>

Row == INSTANCE AuctionRules
         WITH StartPrice <- rules.startPrice, PriceStep <- rules.step,
              CeilingPrice <- rules.ceiling

Nothing == [x \in {} |-> 0]
Columns == {"startPrice", "step", "ceiling", "startTime", "endTime"}

AppClock == (clock - Skew)..(clock + Skew)

\* A field that may be left out, and the value that counts then.
Optional(S) == S \cup {NotGiven}
Given(x, old) == IF x = NotGiven THEN old ELSE x

Init ==
  /\ rules = [startPrice |-> 0, step |-> 1, ceiling |-> NoCeiling, startTime |-> 0]
  /\ auction = [status |-> "none", price |-> 0, leader |-> NoUser, bidCount |-> 0,
                endTime |-> 0, version |-> 0]
  /\ clock = 0
  /\ todo = [r \in Requests |-> Nothing]

\* validatePrices.
ValidPrices(start, step, ceiling) ==
  /\ start >= 0 /\ step > 0
  /\ ceiling # NoCeiling => ceiling > 0 /\ ceiling >= start

\* validateCreate: every column is given, the start is in the future.
BeginCreate(r) ==
  /\ auction.status = "none" /\ todo[r] = Nothing
  /\ \A q \in Requests : todo[q] = Nothing
  /\ \E price \in Prices, step \in Steps, ceiling \in Prices \cup {NoCeiling},
        start \in Starts, duration \in Durations, now \in AppClock :
       /\ ValidPrices(price, step, ceiling) /\ start > now
       /\ todo' = [todo EXCEPT ![r] =
            [startPrice |-> price, step |-> step, ceiling |-> ceiling,
             startTime |-> start, endTime |-> start + duration]]
  /\ UNCHANGED <<rules, auction, clock>>

\* validateUpdate on the row as it is read now: prices the request leaves out
\* are judged by the row's, and the end follows from the row's start or length.
Writes(price, step, ceiling, start, duration) ==
  LET length == auction.endTime - rules.startTime
      given == {f \in Columns :
                  CASE f = "startPrice" -> price # NotGiven
                    [] f = "step"       -> step # NotGiven
                    [] f = "ceiling"    -> ceiling # NotGiven
                    [] f = "startTime"  -> start # NotGiven
                    [] f = "endTime"    -> start # NotGiven \/ duration # NotGiven}
  IN  [f \in given |->
         CASE f = "startPrice" -> price
           [] f = "step"       -> step
           [] f = "ceiling"    -> ceiling
           [] f = "startTime"  -> start
           [] f = "endTime"    -> Given(start, rules.startTime) + Given(duration, length)]

BeginUpdate(r) ==
  /\ auction.status = "pending" /\ todo[r] = Nothing
  /\ \E price, ceiling \in Optional(Prices), step \in Optional(Steps),
        start \in Optional(Starts), duration \in Optional(Durations), now \in AppClock :
       /\ rules.startTime > now
       /\ ValidPrices(Given(price, rules.startPrice), Given(step, rules.step),
                      Given(ceiling, rules.ceiling))
       /\ start # NotGiven => start > now
       /\ todo' = [todo EXCEPT ![r] = Writes(price, step, ceiling, start, duration)]
  /\ UNCHANGED <<rules, auction, clock>>

\* The row with a request's columns in place of its own.
NewRules(w) == [f \in DOMAIN rules |-> IF f \in DOMAIN w THEN w[f] ELSE rules[f]]

\* Repository.Create.
Insert(r) ==
  /\ auction.status = "none" /\ todo[r] # Nothing
  /\ rules' = NewRules(todo[r])
  /\ auction' = [auction EXCEPT !.status = "pending", !.price = todo[r].startPrice,
                                !.endTime = todo[r].endTime]
  /\ todo' = [todo EXCEPT ![r] = Nothing]
  /\ UNCHANGED clock

\* Wrong: the statement trusts the checks made on the row that was read, or half of them.
WrongEditable == TRUE
WrongEditablePending == auction.status = "pending"

\* The WHERE clause of Repository.Update, and the current_price it sets.
Editable == auction.status = "pending" /\ rules.startTime > clock
StartingPrice(w) == IF "startPrice" \in DOMAIN w THEN w.startPrice ELSE auction.price

\* Repository.Update writes the given columns, or no row at all.  The clock is that
\* of the writing; CURRENT_TIMESTAMP(3) is that of the statement's start, earlier
\* by what it waited for the row.
Update(r) ==
  /\ auction.status # "none" /\ todo[r] # Nothing
  /\ IF Editable
     THEN /\ rules' = NewRules(todo[r])
          /\ auction' = [auction EXCEPT
               !.price = StartingPrice(todo[r]),
               !.endTime = IF "endTime" \in DOMAIN todo[r] THEN todo[r].endTime ELSE @]
     ELSE UNCHANGED <<rules, auction>>
  /\ todo' = [todo EXCEPT ![r] = Nothing]
  /\ UNCHANGED clock

\* The statement fails, or the process dies before it.
Abandon(r) ==
  /\ todo[r] # Nothing
  /\ todo' = [todo EXCEPT ![r] = Nothing]
  /\ UNCHANGED <<rules, auction, clock>>

Cancel ==
  /\ auction.status \in {"pending", "active"}
  /\ auction' = [auction EXCEPT !.status = "cancelled", !.version = @ + 1]
  /\ UNCHANGED <<rules, clock, todo>>

\* The worker's StartDue and EndOne.
StartDue ==
  /\ auction.status = "pending" /\ rules.startTime <= clock
  /\ auction' = [auction EXCEPT !.status = "active", !.version = @ + 1]
  /\ UNCHANGED <<rules, clock, todo>>

EndOne ==
  /\ auction.status = "active" /\ auction.endTime <= clock
  /\ auction' = [auction EXCEPT !.status = "ended", !.version = @ + 1]
  /\ UNCHANGED <<rules, clock, todo>>

\* An accepted bid, by the rules the row holds now.
Bid(user, amount) ==
  /\ auction.status # "none"
  /\ \E now \in AppClock :
       /\ Row!Verdict(auction, amount, now) = "Ok"
       /\ Row!SqlAccepts(auction, amount, clock)
       /\ auction' = Row!AcceptRow(auction, user, amount, now)
  /\ UNCHANGED <<rules, clock, todo>>

Tick ==
  /\ clock < MaxClock
  /\ clock' = clock + 1
  /\ UNCHANGED <<rules, auction, todo>>

Finished ==
  /\ clock = MaxClock /\ auction.status \in {"none", "ended", "cancelled"}
  /\ UNCHANGED vars

Next ==
  \/ \E r \in Requests : BeginCreate(r) \/ Insert(r) \/ BeginUpdate(r) \/ Update(r) \/ Abandon(r)
  \/ \E user \in Users, amount \in BidAmounts : Bid(user, amount)
  \/ Cancel \/ StartDue \/ EndOne \/ Tick \/ Finished

Spec == Init /\ [][Next]_vars

-----------------------------------------------------------------------------
\* The row holds values of its columns' types, and a request at most one value
\* per column.
TypeOK ==
  /\ rules \in [startPrice: 0..MaxInt64, step: 1..MaxInt64,
                ceiling: (1..MaxInt64) \cup {NoCeiling}, startTime: Nat]
  /\ auction.status \in {"none", "pending", "active", "ended", "cancelled"}
  /\ auction.price \in 0..MaxInt64 /\ auction.leader \in Users \cup {NoUser}
  /\ auction.bidCount \in Nat /\ auction.endTime \in Int /\ auction.version \in Nat
  /\ clock \in 0..MaxClock
  /\ \A r \in Requests : DOMAIN todo[r] \subseteq Columns

\* From its start time on, and once it is cancelled, the rules of an auction
\* are what they are: no request validated before that changes them, though the
\* worker may be late to start the auction.
RulesFrozen ==
  [][auction.status \notin {"none", "pending"}
     \/ (auction.status = "pending" /\ rules.startTime <= clock)
     => rules' = rules]_vars

\* While nobody has bid the current price is the start price.
PriceIsStart == auction.bidCount = 0 /\ auction.status # "none" => auction.price = rules.startPrice

\* The price somebody bid is within the rules that stand in the row, however
\* requests and bids were interleaved.
PriceWithinRules ==
  auction.bidCount > 0 =>
    /\ auction.price >= rules.startPrice /\ auction.price > 0
    /\ rules.startPrice = 0 => auction.price >= rules.step
    /\ rules.ceiling # NoCeiling => auction.price <= rules.ceiling

\* contract-v2.md:205: a ceiling price is at least the start price.
CeilingNotBelowStart ==
  rules.ceiling # NoCeiling => rules.ceiling >= rules.startPrice
=============================================================================
