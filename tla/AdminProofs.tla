----------------------------- MODULE AdminProofs -----------------------------
(***************************************************************************)
(* What TLAPS proves of AuctionAdmin for any number of requests under way  *)
(* at a time, any rules they ask for, and any bids.                        *)
(***************************************************************************)
EXTENDS AuctionAdmin, TLAPS

\* What a validated request may write.  A price that is given is valid by
\* itself, whatever it was compared with.
Writable(w) ==
  /\ DOMAIN w \subseteq Columns
  /\ "startPrice" \in DOMAIN w => w.startPrice \in 0..MaxInt64
  /\ "step" \in DOMAIN w => w.step \in 1..MaxInt64
  /\ "ceiling" \in DOMAIN w => w.ceiling \in (1..MaxInt64) \cup {NoCeiling}
  /\ "startTime" \in DOMAIN w => w.startTime \in Nat
  /\ "endTime" \in DOMAIN w => w.endTime \in Int

Rules == [startPrice: 0..MaxInt64, step: 1..MaxInt64,
          ceiling: (1..MaxInt64) \cup {NoCeiling}, startTime: Nat]
Rows == [status: {"none", "pending", "active", "ended", "cancelled"},
         price: 0..MaxInt64, leader: Users \cup {NoUser}, bidCount: Nat,
         endTime: Int, version: Nat]

Types ==
  /\ rules \in Rules /\ auction \in Rows
  /\ clock \in 0..MaxClock
  /\ todo = [r \in Requests |-> todo[r]]
  /\ \A r \in Requests : Writable(todo[r])

\* Before the INSERT only creations are under way, and they give every column.
Creations ==
  auction.status = "none" =>
    \A r \in Requests : todo[r] # Nothing => DOMAIN todo[r] = Columns

\* Nobody has bid on an auction that has not started.
NoEarlyBid == auction.status \in {"none", "pending"} => auction.bidCount = 0

IInv == Types /\ Creations /\ NoEarlyBid /\ PriceIsStart /\ PriceWithinRules

-----------------------------------------------------------------------------
LEMMA NothingWritable == Writable(Nothing) /\ DOMAIN Nothing = {}
BY DEF Writable, Nothing, Columns

LEMMA InitIInv == Init => IInv
<1> SUFFICES ASSUME Init PROVE IInv
  OBVIOUS
<1>1. rules \in Rules /\ auction \in Rows /\ clock \in 0..MaxClock
  BY AdminAssumption DEF Init, Rules, Rows
<1>2. \A r \in Requests : todo[r] = Nothing
  BY DEF Init
<1>3. todo = [r \in Requests |-> todo[r]]
  BY DEF Init
<1>4. Types
  BY <1>1, <1>2, <1>3, NothingWritable DEF Types
<1>5. QED
  BY <1>2, <1>4 DEF Init, IInv, Creations, NoEarlyBid, PriceIsStart, PriceWithinRules

\* The columns a request writes in place of those of a row make rules again.
LEMMA NewRulesType ==
  ASSUME rules \in Rules, NEW w, Writable(w)
  PROVE  /\ NewRules(w) \in Rules
         /\ NewRules(w).startPrice =
              IF "startPrice" \in DOMAIN w THEN w.startPrice ELSE rules.startPrice
BY DEF NewRules, Rules, Writable

\* A request that starts keeps what is true of the row, which it leaves alone.
LEMMA TodoIInv ==
  ASSUME IInv, UNCHANGED <<rules, auction, clock>>,
         NEW r \in Requests, NEW w, Writable(w),
         auction.status = "none" => w = Nothing \/ DOMAIN w = Columns,
         todo' = [todo EXCEPT ![r] = w]
  PROVE  IInv'
<1>1. /\ todo'[r] = w /\ \A q \in Requests : q # r => todo'[q] = todo[q]
      /\ todo' = [q \in Requests |-> todo'[q]]
  BY DEF IInv, Types
<1>2. \A q \in Requests : Writable(todo'[q])
  BY <1>1 DEF IInv, Types
<1>3. Types'
  BY <1>1, <1>2 DEF IInv, Types, Writable
<1>4. Creations'
  BY <1>1 DEF IInv, Creations
<1>5. QED
  BY <1>3, <1>4 DEF IInv, NoEarlyBid, PriceIsStart, PriceWithinRules

LEMMA BeginCreateIInv ==
  ASSUME IInv, NEW r \in Requests, BeginCreate(r)
  PROVE  IInv'
<1>1. PICK price \in Prices, step \in Steps, ceiling \in Prices \cup {NoCeiling},
           start \in Starts, duration \in Durations :
        /\ ValidPrices(price, step, ceiling)
        /\ todo' = [todo EXCEPT ![r] =
             [startPrice |-> price, step |-> step, ceiling |-> ceiling,
              startTime |-> start, endTime |-> start + duration]]
  BY DEF BeginCreate
<1> DEFINE w == [startPrice |-> price, step |-> step, ceiling |-> ceiling,
                 startTime |-> start, endTime |-> start + duration]
<1>2. Writable(w) /\ DOMAIN w = Columns
  BY <1>1, AdminAssumption DEF Writable, Columns, ValidPrices
<1>3. QED
  BY <1>1, <1>2, TodoIInv DEF BeginCreate

LEMMA WritesWritable ==
  ASSUME Types, NEW price \in Optional(Prices), NEW ceiling \in Optional(Prices),
         NEW step \in Optional(Steps), NEW start \in Optional(Starts),
         NEW duration \in Optional(Durations),
         ValidPrices(Given(price, rules.startPrice), Given(step, rules.step),
                     Given(ceiling, rules.ceiling))
  PROVE  Writable(Writes(price, step, ceiling, start, duration))
<1>1. /\ price # NotGiven => price \in 0..MaxInt64
      /\ step # NotGiven => step \in 1..MaxInt64
      /\ start # NotGiven => start \in Nat
      /\ duration # NotGiven => duration \in Nat
  BY AdminAssumption DEF Optional
<1>2. ceiling # NotGiven => ceiling \in 1..MaxInt64
  BY AdminAssumption DEF Optional, ValidPrices, Given
<1>3. /\ Given(start, rules.startTime) \in Int
      /\ Given(duration, auction.endTime - rules.startTime) \in Int
  BY <1>1 DEF Given, Types, Rules, Rows
<1> DEFINE given == {f \in Columns :
                       CASE f = "startPrice" -> price # NotGiven
                         [] f = "step"       -> step # NotGiven
                         [] f = "ceiling"    -> ceiling # NotGiven
                         [] f = "startTime"  -> start # NotGiven
                         [] f = "endTime"    -> start # NotGiven \/ duration # NotGiven}
           end == Given(start, rules.startTime)
                    + Given(duration, auction.endTime - rules.startTime)
<1>4. /\ "startPrice" \in given => price # NotGiven
      /\ "step" \in given => step # NotGiven
      /\ "ceiling" \in given => ceiling # NotGiven
      /\ "startTime" \in given => start # NotGiven
      /\ given \subseteq Columns
  OBVIOUS
<1>5. end \in Int
  BY <1>3
<1> HIDE DEF given, end
<1>6. Writes(price, step, ceiling, start, duration) =
        [f \in given |-> CASE f = "startPrice" -> price
                           [] f = "step"       -> step
                           [] f = "ceiling"    -> ceiling
                           [] f = "startTime"  -> start
                           [] f = "endTime"    -> end]
  BY DEF Writes, given, end
<1>7. QED
  BY <1>1, <1>2, <1>4, <1>5, <1>6 DEF Writable

LEMMA BeginUpdateIInv ==
  ASSUME IInv, NEW r \in Requests, BeginUpdate(r)
  PROVE  IInv'
<1>1. PICK price \in Optional(Prices), ceiling \in Optional(Prices),
           step \in Optional(Steps), start \in Optional(Starts),
           duration \in Optional(Durations) :
        /\ ValidPrices(Given(price, rules.startPrice), Given(step, rules.step),
                       Given(ceiling, rules.ceiling))
        /\ todo' = [todo EXCEPT ![r] = Writes(price, step, ceiling, start, duration)]
  BY DEF BeginUpdate
<1>2. Writable(Writes(price, step, ceiling, start, duration))
  BY <1>1, WritesWritable DEF IInv
<1>3. QED
  BY <1>1, <1>2, TodoIInv DEF BeginUpdate

LEMMA AbandonIInv ==
  ASSUME IInv, NEW r \in Requests, Abandon(r)
  PROVE  IInv'
BY NothingWritable, TodoIInv DEF Abandon

\* The request that has written is done.
LEMMA Done ==
  ASSUME IInv, NEW r \in Requests, todo' = [todo EXCEPT ![r] = Nothing]
  PROVE  /\ todo' = [q \in Requests |-> todo'[q]]
         /\ \A q \in Requests : Writable(todo'[q])
         /\ \A q \in Requests : todo'[q] # Nothing => todo'[q] = todo[q]
BY NothingWritable DEF IInv, Types

LEMMA InsertIInv ==
  ASSUME IInv, NEW r \in Requests, Insert(r)
  PROVE  IInv'
<1> DEFINE w == todo[r]
<1>1. Writable(w) /\ DOMAIN w = Columns /\ rules \in Rules
  BY DEF IInv, Types, Creations, Insert
<1>2. NewRules(w) \in Rules /\ NewRules(w).startPrice = w.startPrice
  BY <1>1, NewRulesType DEF Columns
<1>3. w.startPrice \in 0..MaxInt64 /\ w.endTime \in Int
  BY <1>1 DEF Writable, Columns
<1>4. /\ auction' \in Rows /\ auction'.status = "pending"
      /\ auction'.bidCount = 0 /\ auction'.price = w.startPrice
  BY <1>3 DEF Insert, IInv, Types, Rows, NoEarlyBid
<1>5. Types'
  BY <1>2, <1>4, Done DEF Insert, IInv, Types, Writable
<1>6. QED
  BY <1>2, <1>4, <1>5 DEF Insert, IInv, Creations, NoEarlyBid, PriceIsStart, PriceWithinRules

\* A request that is too late leaves the row as it is; another is in time for
\* no bid to exist, and sets price and start price alike.
LEMMA UpdateIInv ==
  ASSUME IInv, NEW r \in Requests, Update(r)
  PROVE  IInv'
<1> DEFINE w == todo[r]
<1>1. CASE ~Editable
  BY <1>1, NothingWritable, TodoIInv DEF Update
<1>2. CASE Editable
  <2>1. Writable(w) /\ rules \in Rules
    BY DEF IInv, Types
  <2>2. /\ NewRules(w) \in Rules
        /\ NewRules(w).startPrice =
             IF "startPrice" \in DOMAIN w THEN w.startPrice ELSE rules.startPrice
    BY <2>1, NewRulesType
  <2>3. /\ rules' = NewRules(w)
        /\ auction' = [auction EXCEPT
             !.price = StartingPrice(w),
             !.endTime = IF "endTime" \in DOMAIN w THEN w.endTime ELSE @]
    BY <1>2 DEF Update
  <2>4. auction.status = "pending" /\ auction.bidCount = 0 /\ auction.price = rules.startPrice
    BY <1>2 DEF Editable, IInv, NoEarlyBid, PriceIsStart
  <2>5. StartingPrice(w) \in 0..MaxInt64 /\ StartingPrice(w) = NewRules(w).startPrice
    BY <2>1, <2>2, <2>4 DEF StartingPrice, Writable, Rules
  <2>6. /\ auction' \in Rows /\ auction'.status = "pending"
        /\ auction'.bidCount = 0 /\ auction'.price = NewRules(w).startPrice
    BY <2>1, <2>3, <2>4, <2>5 DEF IInv, Types, Rows, Writable
  <2>7. Types'
    BY <2>2, <2>3, <2>6, Done DEF Update, IInv, Types, Writable
  <2> QED
    BY <2>2, <2>3, <2>6, <2>7 DEF IInv, Creations, NoEarlyBid, PriceIsStart, PriceWithinRules
<1>3. QED
  BY <1>1, <1>2

\* A start, an end or a cancellation touches neither prices nor bids.
LEMMA TransitionIInv ==
  ASSUME IInv, UNCHANGED <<rules, clock, todo>>, auction.status # "none",
         NEW s \in {"active", "ended", "cancelled"},
         auction' = [auction EXCEPT !.status = s, !.version = @ + 1]
  PROVE  IInv'
<1>1. auction' \in Rows
  <2>1. auction \in Rows /\ auction.version + 1 \in Nat
    BY DEF IInv, Types, Rows
  <2>2. s \in {"none", "pending", "active", "ended", "cancelled"}
    OBVIOUS
  <2>3. QED
    BY <2>1, <2>2 DEF Rows
<1>2. /\ auction'.status = s /\ auction'.price = auction.price
      /\ auction'.bidCount = auction.bidCount
  BY DEF IInv, Types, Rows
<1>3. Types'
  BY <1>1 DEF IInv, Types, Writable
<1>4. QED
  BY <1>2, <1>3 DEF IInv, Creations, NoEarlyBid, PriceIsStart, PriceWithinRules

\* The rules in the row judge the bid: before the first bid by the start price
\* or the step, later by the price it has to beat.
LEMMA BidIInv ==
  ASSUME IInv, NEW user \in Users, NEW amount \in BidAmounts, Bid(user, amount)
  PROVE  IInv'
<1>1. PICK now \in AppClock :
        /\ Row!SqlAccepts(auction, amount, clock)
        /\ auction' = Row!AcceptRow(auction, user, amount, now)
  BY DEF Bid
<1>2. /\ rules \in Rules /\ auction \in Rows /\ clock \in Int
      /\ amount \in 1..MaxInt64 /\ amount \in Int /\ now \in Int
  BY AdminAssumption DEF IInv, Types, AppClock
<1>3. auction.status = "active"
  BY <1>1 DEF Row!SqlAccepts
<1>4. /\ auction'.status \in {"active", "ended"} /\ auction'.price = amount
      /\ auction'.leader = user /\ auction'.bidCount = auction.bidCount + 1
  BY <1>1, <1>3 DEF Row!AcceptRow
<1>5. Row!NewEndTime(auction, amount, now) \in Int
  BY <1>2, AdminAssumption DEF Row!NewEndTime, Rows
<1>6. Row!EventCount(auction, amount, now) \in {1, 2}
  BY DEF Row!EventCount
<1>7. auction' \in Rows
  <2>1. /\ amount \in 0..MaxInt64 /\ auction.bidCount + 1 \in Nat
        /\ auction.version + Row!EventCount(auction, amount, now) \in Nat
    BY <1>2, <1>6, AdminAssumption DEF Rows
  <2>2. QED
    BY <1>1, <1>3, <1>5, <2>1 DEF Row!AcceptRow, Rows
<1>8. Types'
  BY <1>7 DEF Bid, IInv, Types, Writable
<1>9. auction.bidCount \in Nat /\ auction'.bidCount > 0
  BY <1>2, <1>4 DEF Rows
<1>10. /\ amount >= rules.startPrice /\ amount > 0
       /\ rules.startPrice = 0 => amount >= rules.step
  <2>1. CASE auction.bidCount = 0
    BY <1>1, <1>2, <2>1 DEF Row!SqlAccepts, Rules
  <2>2. CASE auction.bidCount > 0
    <3>1. /\ auction.price >= rules.startPrice
          /\ rules.startPrice = 0 => auction.price >= rules.step
      BY <2>2 DEF IInv, PriceWithinRules
    <3>2. auction.price + rules.step <= amount
      BY <1>1, <2>2, <1>2 DEF Row!SqlAccepts
    <3> QED
      BY <3>1, <3>2, <1>2 DEF Rules, Rows
  <2> QED
    BY <2>1, <2>2, <1>9
<1>11. rules.ceiling # NoCeiling => amount <= rules.ceiling
  BY <1>1, <1>2 DEF Row!SqlAccepts, Row!OverCeiling, Rules
<1>12. QED
  BY <1>4, <1>8, <1>9, <1>10, <1>11
     DEF Bid, IInv, Creations, NoEarlyBid, PriceIsStart, PriceWithinRules

LEMMA TickIInv == IInv /\ Tick => IInv'
<1> SUFFICES ASSUME IInv, Tick PROVE IInv'
  OBVIOUS
<1>1. clock' \in 0..MaxClock
  BY AdminAssumption DEF Tick, IInv, Types
<1>2. QED
  BY <1>1 DEF Tick, IInv, Types, Writable, Creations, NoEarlyBid, PriceIsStart, PriceWithinRules

LEMMA StutterIInv == IInv /\ UNCHANGED vars => IInv'
BY DEF vars, IInv, Types, Writable, Creations, NoEarlyBid, PriceIsStart, PriceWithinRules

LEMMA Invariance == Spec => []IInv
<1>1. IInv /\ [Next]_vars => IInv'
  <2> SUFFICES ASSUME IInv, [Next]_vars PROVE IInv'
    OBVIOUS
  <2>1. ASSUME NEW r \in Requests,
               BeginCreate(r) \/ Insert(r) \/ BeginUpdate(r) \/ Update(r) \/ Abandon(r)
        PROVE  IInv'
    BY <2>1, BeginCreateIInv, InsertIInv, BeginUpdateIInv, UpdateIInv, AbandonIInv
  <2>2. ASSUME NEW user \in Users, NEW amount \in BidAmounts, Bid(user, amount)
        PROVE  IInv'
    BY <2>2, BidIInv
  <2>3. CASE Cancel
    BY <2>3, TransitionIInv DEF Cancel
  <2>4. CASE StartDue
    BY <2>4, TransitionIInv DEF StartDue
  <2>5. CASE EndOne
    BY <2>5, TransitionIInv DEF EndOne
  <2>6. CASE Tick
    BY <2>6, TickIInv
  <2>7. CASE UNCHANGED vars
    BY <2>7, StutterIInv
  <2> QED
    BY <2>1, <2>2, <2>3, <2>4, <2>5, <2>6, <2>7 DEF Next, Finished
<1>2. QED
  BY InitIInv, <1>1, PTL DEF Spec

-----------------------------------------------------------------------------
\* The row of an auction and what requests are about to write keep their types
\* (auction/model.go, the columns of schema-v2.sql).
THEOREM TypeCorrect == Spec => []TypeOK
<1>1. IInv => TypeOK
  BY DEF IInv, Types, TypeOK, Rules, Rows, Writable
<1>2. QED
  BY Invariance, <1>1, PTL

\* Repository.Update keeps current_price and start_price together: while nobody
\* has bid they are one, however updates, starts and cancellations overlap.
THEOREM PriceStartsAtStart == Spec => []PriceIsStart
<1>1. IInv => PriceIsStart
  BY DEF IInv
<1>2. QED
  BY Invariance, <1>1, PTL

\* The price somebody bid is within the rules in the row, although updates are
\* judged on rows read earlier and two of them may contradict each other.
THEOREM BidsObeyTheRow == Spec => []PriceWithinRules
<1>1. IInv => PriceWithinRules
  BY DEF IInv
<1>2. QED
  BY Invariance, <1>1, PTL

\* No request changes the rules from the start time on or after a cancellation,
\* whenever it was validated and however late the worker is.
THEOREM NoLateRules == Spec => RulesFrozen
<1>1. IInv /\ [Next]_vars =>
        (auction.status \notin {"none", "pending"}
         \/ (auction.status = "pending" /\ rules.startTime <= clock) => rules' = rules)
  <2> SUFFICES ASSUME IInv, [Next]_vars,
                      auction.status \notin {"none", "pending"}
                      \/ (auction.status = "pending" /\ rules.startTime <= clock)
               PROVE  rules' = rules
    OBVIOUS
  <2>1. rules.startTime \in Int /\ clock \in Int
    BY DEF IInv, Types, Rules
  <2>2. ~Editable /\ auction.status # "none"
    BY <2>1 DEF Editable
  <2>3. ASSUME NEW r \in Requests,
               BeginCreate(r) \/ Insert(r) \/ BeginUpdate(r) \/ Update(r) \/ Abandon(r)
        PROVE  rules' = rules
    BY <2>2, <2>3 DEF BeginCreate, Insert, BeginUpdate, Update, Abandon
  <2>4. QED
    BY <2>3 DEF Next, Cancel, StartDue, EndOne, Bid, Tick, Finished, vars
<1>2. QED
  BY Invariance, <1>1, PTL DEF Spec, RulesFrozen
=============================================================================
