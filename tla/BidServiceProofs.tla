-------------------------- MODULE BidServiceProofs --------------------------
(***************************************************************************)
(* What TLAPS proves of BidService for any number of handlers, workers,    *)
(* bidders, keys and requests, any rules of the auction, any clock skew    *)
(* and any running time.                                                   *)
(***************************************************************************)
EXTENDS BidServiceProps, SequenceTheorems, TLAPS

(***************************************************************************)
(* Operators of the rules keep their types.                                *)
(***************************************************************************)
LEMMA AmountsAreCents == Amounts \subseteq Nat /\ MaxInt64 \in Nat
BY BidderAssumption, PriceAssumption

\* The bidder of a key is a user.
LEMMA BidderType == ASSUME NEW k \in Keys PROVE Bidder(k) \in Users
BY DEF Keys, Bidder

\* The row an accepted bid leaves is a row of the table.
LEMMA AcceptRowType ==
  ASSUME TypeOK, NEW p \in Procs, pc[p] # "idle", auction.status = "active"
  PROVE  LET a == AcceptRow(auction, Bidder(req[p].key), req[p].amount, txNow[p])
         IN  a \in Rows
<1>1. req[p] \in Requests /\ txNow[p] \in Int /\ auction \in Rows
  BY DEF TypeOK, TableTypes, HandlerTypes
<1>2. Bidder(req[p].key) \in Users /\ req[p].amount \in Nat
  BY <1>1, BidderType, AmountsAreCents DEF Requests
<1>3. NewEndTime(auction, req[p].amount, txNow[p]) \in Int
  BY <1>1, ExtendAssumption DEF NewEndTime, Rows
<1>4. EventCount(auction, req[p].amount, txNow[p]) \in 1..2
  BY DEF EventCount
<1>5. QED
  BY <1>1, <1>2, <1>3, <1>4 DEF AcceptRow, Rows, Terminal

\* A pair of events is a sequence of events.
LEMMA EventPair ==
  ASSUME NEW x \in StoredEvents, NEW y \in StoredEvents
  PROVE  /\ <<x, y>> \in Seq(StoredEvents) /\ Len(<<x, y>>) = 2
         /\ <<x, y>>[1] = x /\ <<x, y>>[2] = y
OBVIOUS

\* The events of a bid are one or two, numbered from the next version.
LEMMA BidEventsType ==
  ASSUME TypeOK, NEW p \in Procs, pc[p] # "idle"
  PROVE  LET e == BidEvents(auction, Bidder(req[p].key), req[p].amount, txNow[p])
         IN  /\ e \in Seq(StoredEvents)
             /\ Len(e) = EventCount(auction, req[p].amount, txNow[p])
             /\ \A i \in 1..Len(e) : e[i].seq = auction.version + i
             /\ e[1].type = "BidAccepted"
             /\ e[1].data = <<req[p].amount, Bidder(req[p].key)>>
             /\ Len(e) = 2 => e[2].type = IF CeilingHit(req[p].amount)
                                          THEN "AuctionEnded" ELSE "AuctionExtended"
<1> DEFINE u == Bidder(req[p].key)
           n == req[p].amount
           v == auction.version
           one == Event(v + 1, "BidAccepted", <<n, u>>)
           ended == Event(v + 1 + 1, "AuctionEnded", <<n, u>>)
           extended == Event(v + 1 + 1, "AuctionExtended", <<NewEndTime(auction, n, txNow[p])>>)
<1>1. u \in Users /\ n \in Nat /\ v \in Nat /\ txNow[p] \in Int /\ auction.endTime \in Int
  BY BidderType, AmountsAreCents DEF TypeOK, TableTypes, HandlerTypes, Rows, Requests
<1>2. NewEndTime(auction, n, txNow[p]) \in Int
  BY <1>1, ExtendAssumption DEF NewEndTime
<1>3. one \in StoredEvents /\ ended \in StoredEvents /\ extended \in StoredEvents
  BY <1>1, <1>2 DEF StoredEvents, Event
<1>4. /\ one.seq = v + 1 /\ one.type = "BidAccepted" /\ one.data = <<n, u>>
      /\ ended.seq = v + 2 /\ ended.type = "AuctionEnded"
      /\ extended.seq = v + 2 /\ extended.type = "AuctionExtended"
  BY <1>1 DEF Event
<1> HIDE DEF one, ended, extended
<1>5. CASE CeilingHit(n)
  <2>1. BidEvents(auction, u, n, txNow[p]) = <<one, ended>>
    BY <1>5 DEF BidEvents, one, ended
  <2>2. EventCount(auction, n, txNow[p]) = 2
    BY <1>5 DEF EventCount
  <2> QED
    BY <2>1, <2>2, <1>1, <1>3, <1>4, <1>5, EventPair
<1>6. CASE ~CeilingHit(n) /\ ShouldExtend(auction, txNow[p])
  <2>1. BidEvents(auction, u, n, txNow[p]) = <<one, extended>>
    BY <1>6 DEF BidEvents, one, extended
  <2>2. EventCount(auction, n, txNow[p]) = 2
    BY <1>6 DEF EventCount
  <2> QED
    BY <2>1, <2>2, <1>1, <1>3, <1>4, <1>6, EventPair
<1>7. CASE ~CeilingHit(n) /\ ~ShouldExtend(auction, txNow[p])
  <2>1. BidEvents(auction, u, n, txNow[p]) = <<one>>
    BY <1>7 DEF BidEvents, one
  <2>2. EventCount(auction, n, txNow[p]) = 1
    BY <1>7 DEF EventCount
  <2> QED
    BY <2>1, <2>2, <1>1, <1>3, <1>4, <1>7
<1> QED
  BY <1>5, <1>6, <1>7

-----------------------------------------------------------------------------
(***************************************************************************)
(* The tables change in four ways only: a handler commits a bid, a worker  *)
(* starts or ends the auction, the seller cancels it.  The last three wait *)
(* for the row.                                                            *)
(***************************************************************************)
Commits(p) ==
  /\ pc[p] = "locked"
  /\ SqlAccepts(auction, req[p].amount, clock)
  /\ CommitBid(p)
Starts ==
  /\ auction.status = "pending"
  /\ Transition("active", "AuctionStarted", <<>>)
  /\ UNCHANGED <<bids, orders, idem>>
Ends ==
  /\ auction.status = "active" /\ auction.endTime <= clock
  /\ EnsureOrder
  /\ Transition("ended", "AuctionEnded", <<auction.price, auction.leader>>)
  /\ UNCHANGED <<bids, idem>>
Cancels ==
  /\ auction.status \in {"pending", "active"}
  /\ Transition("cancelled", "AuctionCancelled", <<>>)
  /\ UNCHANGED <<bids, orders, idem>>

\* Every step leaves the tables alone or is one of the four; time passes only
\* while they stay as they are.
LEMMA NextTables ==
  ASSUME [Next]_vars
  PROVE  \/ UNCHANGED tables /\ clock' \in {clock, clock + 1}
         \/ UNCHANGED clock /\ \E p \in Procs : Commits(p)
         \/ UNCHANGED <<clock, handlers>> /\ ~RowHeld /\ (Starts \/ Ends \/ Cancels)
<1>1. ASSUME NEW p \in Procs, Receive(p) \/ ReadIdempotency(p) \/ Precheck(p) \/ Acquire(p)
                              \/ Claim(p) \/ LockAuction(p) \/ Release(p) \/ ReadFails(p)
                              \/ Rollback(p) \/ Crash(p)
      PROVE  UNCHANGED <<tables, clock>>
  BY <1>1 DEF Receive, ReadIdempotency, Precheck, Acquire, Claim, LockAuction, Release,
              ReadFails, Rollback, Crash
<1>2. ASSUME NEW p \in Procs, Accept(p)
      PROVE  UNCHANGED clock /\ (UNCHANGED tables \/ Commits(p))
  BY <1>2 DEF Accept, Commits
<1>3. ASSUME NEW w \in Workers, ListDue(w) \/ EndOne(w) \/ EndFails(w)
      PROVE  UNCHANGED <<clock, handlers>> /\ (UNCHANGED tables \/ (~RowHeld /\ Ends))
  BY <1>3 DEF ListDue, EndOne, EndFails, Ends, handlers, tables
<1>4. ASSUME StartDue PROVE UNCHANGED <<clock, handlers>> /\ ~RowHeld /\ Starts
  BY <1>4 DEF StartDue, Starts, handlers
<1>5. ASSUME Cancel PROVE UNCHANGED <<clock, handlers>> /\ ~RowHeld /\ Cancels
  BY <1>5 DEF Cancel, Cancels, handlers
<1>6. ASSUME LockExpire \/ Tick \/ Finished \/ UNCHANGED vars
      PROVE  UNCHANGED tables /\ clock' \in {clock, clock + 1}
  BY <1>6 DEF LockExpire, Tick, Finished, vars
<1> QED
  BY <1>1, <1>2, <1>3, <1>4, <1>5, <1>6 DEF Next, Step

-----------------------------------------------------------------------------
(***************************************************************************)
(* Type correctness.                                                       *)
(***************************************************************************)
LEMMA TransitionType ==
  ASSUME TypeOK, NEW status \in {"pending", "active"} \cup Terminal,
         NEW type \in {"AuctionStarted", "AuctionEnded", "AuctionCancelled"},
         NEW data \in Seq(Int \cup Users \cup {NoUser}),
         Transition(status, type, data)
  PROVE  auction' \in Rows /\ outbox' \in Seq(StoredEvents)
<1>1. auction \in Rows /\ outbox \in Seq(StoredEvents)
  BY DEF TypeOK, TableTypes
<1>2. auction' \in Rows
  <2>1. auction.version + 1 \in Nat
    BY <1>1 DEF Rows
  <2>2. auction' = [auction EXCEPT !.status = status, !.version = auction.version + 1]
    BY DEF Transition
  <2> QED
    BY <1>1, <2>1, <2>2 DEF Rows
<1>3. Event(auction.version + 1, type, data) \in StoredEvents
  BY <1>1 DEF Event, StoredEvents, Rows
<1> QED
  BY <1>1, <1>2, <1>3 DEF Transition

\* The four changes of the tables keep their types.
LEMMA TableTypesKept ==
  ASSUME TypeOK, [Next]_vars
  PROVE  TableTypes'
<1> USE DEF TypeOK
<1>1. CASE UNCHANGED tables
  BY <1>1 DEF tables, TableTypes
<1>2. ASSUME NEW p \in Procs, Commits(p) PROVE TableTypes'
  <2> DEFINE k == req[p].key
             n == req[p].amount
             bid == [key |-> k, amount |-> n, seq |-> auction.version + 1,
                     seen |-> txNow[p], at |-> clock]
             e == BidEvents(auction, Bidder(k), n, txNow[p])
  <2>1. pc[p] # "idle" /\ auction.status = "active"
    BY <1>2 DEF Commits, SqlAccepts
  <2>2. req[p] \in Requests /\ txNow[p] \in Int /\ clock \in Nat /\ auction.version \in Nat
    BY <2>1 DEF HandlerTypes, TableTypes, Rows
  <2>3. k \in Keys /\ n \in Amounts /\ n \in Nat /\ Bidder(k) \in Users
    BY <2>2, BidderType, AmountsAreCents DEF Requests
  <2>4. auction' \in Rows
    BY <2>1, <1>2, AcceptRowType DEF Commits, CommitBid
  <2>5. bid \in [key: Keys, amount: Amounts, seq: Nat, seen: Int, at: Nat]
    BY <2>2, <2>3
  <2>6. bids' \in Seq([key: Keys, amount: Amounts, seq: Nat, seen: Int, at: Nat])
    <3>1. bids' = Append(bids, bid)
      BY <1>2 DEF Commits, CommitBid, AcceptedBid
    <3> HIDE DEF bid
    <3> QED BY <2>5, <3>1 DEF TableTypes
  <2>7. orders' \subseteq [winner: Users, price: Nat]
    BY <1>2, <2>3 DEF Commits, CommitBid, Order, TableTypes
  <2>8. idem' \in [Keys -> {NoRecord} \cup [amount: Amounts, bid: Nat]]
    <3>1. Len(bids) + 1 \in Nat
      BY DEF TableTypes
    <3>2. [amount |-> n, bid |-> Len(bids) + 1] \in [amount: Amounts, bid: Nat]
      BY <2>3, <3>1
    <3> QED
      BY <1>2, <2>3, <3>2 DEF Commits, CommitBid, Record, TableTypes
  <2>9. outbox' \in Seq(StoredEvents)
    <3>1. e \in Seq(StoredEvents) /\ outbox \in Seq(StoredEvents)
      BY <2>1, BidEventsType DEF TableTypes
    <3>2. outbox' = outbox \o e
      BY <1>2 DEF Commits, CommitBid
    <3> HIDE DEF e
    <3> QED BY <3>1, <3>2
  <2> QED
    BY <2>4, <2>6, <2>7, <2>8, <2>9 DEF TableTypes
<1>3. CASE Starts
  <2>1. <<>> \in Seq(Int \cup Users \cup {NoUser})
    OBVIOUS
  <2> QED
    BY <1>3, <2>1, TransitionType DEF Starts, TableTypes
<1>4. CASE Ends
  <2>1. auction.price \in Nat /\ auction.leader \in Users \cup {NoUser}
    BY DEF TableTypes, Rows
  <2>2. <<auction.price, auction.leader>> \in Seq(Int \cup Users \cup {NoUser})
    BY <2>1
  <2>3. auction' \in Rows /\ outbox' \in Seq(StoredEvents)
    BY <1>4, <2>2, TransitionType DEF Ends, Terminal
  <2>4. orders' \subseteq [winner: Users, price: Nat]
    BY <1>4, <2>1 DEF Ends, EnsureOrder, Order, TableTypes
  <2> QED
    BY <1>4, <2>3, <2>4 DEF Ends, TableTypes
<1>5. CASE Cancels
  <2>1. <<>> \in Seq(Int \cup Users \cup {NoUser})
    OBVIOUS
  <2> QED
    BY <1>5, <2>1, TransitionType DEF Cancels, TableTypes, Terminal
<1> QED
  BY <1>1, <1>2, <1>3, <1>4, <1>5, NextTables

\* So do the handlers' fields, the lock, the clock and the workers' lists.
LEMMA HandlerTypesKept ==
  ASSUME TypeOK, [Next]_vars
  PROVE  HandlerTypes'
<1> USE DEF HandlerTypes, Labels
<1>0. HandlerTypes
  BY DEF TypeOK
<1>1. ASSUME NEW p \in Procs, Receive(p) PROVE HandlerTypes'
  BY <1>0, <1>1 DEF Receive, Goto, Requests
<1>2. ASSUME NEW p \in Procs, NEW answer, Reply(p, answer),
             UNCHANGED <<clock, arrived, due>>, lock' \in RequestIds \cup {NoLock}
      PROVE  HandlerTypes'
  BY <1>0, <1>2 DEF Reply
<1>3. ASSUME NEW p \in Procs, NEW answer, Finish(p, answer), pc[p] # "idle",
             UNCHANGED <<clock, arrived, due, lock>>
      PROVE  HandlerTypes'
  BY <1>0, <1>3 DEF Finish, Goto
<1>4. ASSUME NEW p \in Procs, NEW label \in Labels, Goto(p, label), pc[p] # "idle",
             UNCHANGED <<clock, arrived, due, req, txNow>>, lock' \in RequestIds \cup {NoLock}
      PROVE  HandlerTypes'
  BY <1>0, <1>4 DEF Goto
<1>5. ASSUME NEW p \in Procs, ReadIdempotency(p) PROVE HandlerTypes'
  BY <1>0, <1>2, <1>4, <1>5 DEF ReadIdempotency
<1>6. ASSUME NEW p \in Procs, Precheck(p) PROVE HandlerTypes'
  BY <1>0, <1>2, <1>4, <1>6 DEF Precheck
<1>7. ASSUME NEW p \in Procs, Acquire(p) PROVE HandlerTypes'
  <2>1. req[p] \in Requests
    BY <1>0, <1>7 DEF Acquire
  <2>2. lock' \in RequestIds \cup {NoLock}
    BY <1>0, <1>7, <2>1 DEF Acquire, Requests
  <2> QED
    BY <1>0, <1>2, <1>4, <1>7, <2>2 DEF Acquire
<1>8. ASSUME NEW p \in Procs, Claim(p) PROVE HandlerTypes'
  BY <1>0, <1>3, <1>4, <1>8 DEF Claim
<1>9. ASSUME NEW p \in Procs, LockAuction(p) PROVE HandlerTypes'
  <2>1. PICK now \in AppClock :
          LET verdict == Verdict(auction, req[p].amount, now)
          IN  IF verdict = "Ok"
              THEN /\ Goto(p, "locked")
                   /\ txNow' = [txNow EXCEPT ![p] = now]
                   /\ UNCHANGED <<req, ans>>
              ELSE Finish(p, Refusal(verdict))
    BY <1>9 DEF LockAuction
  <2>2. now \in Int
    BY <1>0, ClockAssumption DEF AppClock
  <2>3. CASE Verdict(auction, req[p].amount, now) = "Ok"
    BY <1>0, <1>9, <2>1, <2>2, <2>3 DEF LockAuction, Goto
  <2>4. CASE Verdict(auction, req[p].amount, now) # "Ok"
    BY <1>3, <1>9, <2>1, <2>4 DEF LockAuction
  <2> QED
    BY <2>3, <2>4
<1>10. ASSUME NEW p \in Procs, Accept(p) PROVE HandlerTypes'
  BY <1>3, <1>10 DEF Accept
<1>11. ASSUME NEW p \in Procs, Release(p) PROVE HandlerTypes'
  BY <1>0, <1>2, <1>11 DEF Release
<1>12. ASSUME NEW p \in Procs, ReadFails(p) PROVE HandlerTypes'
  BY <1>0, <1>2, <1>12 DEF ReadFails
<1>13. ASSUME NEW p \in Procs, Rollback(p) PROVE HandlerTypes'
  BY <1>3, <1>13 DEF Rollback
<1>14. ASSUME NEW p \in Procs, Crash(p) PROVE HandlerTypes'
  BY <1>0, <1>14 DEF Crash, Goto
<1>15. ASSUME NEW w \in Workers, ListDue(w) \/ EndOne(w) \/ EndFails(w) PROVE HandlerTypes'
  BY <1>0, <1>15 DEF ListDue, EndOne, EndFails, handlers
<1>16. ASSUME StartDue \/ Cancel \/ LockExpire \/ Tick PROVE HandlerTypes'
  BY <1>0, <1>16 DEF StartDue, Cancel, LockExpire, Tick, handlers
<1>17. ASSUME Finished \/ UNCHANGED vars PROVE HandlerTypes'
  BY <1>0, <1>17 DEF Finished, vars, handlers
<1> QED
  BY <1>1, <1>5, <1>6, <1>7, <1>8, <1>9, <1>10, <1>11, <1>12, <1>13, <1>14, <1>15,
     <1>16, <1>17 DEF Next, Step

\* In every reachable state every column, event and handler field has its type.
THEOREM TypeCorrect == Spec => []TypeOK
<1>1. Init => TypeOK
  <2> SUFFICES ASSUME Init PROVE TypeOK
    OBVIOUS
  <2>1. auction \in Rows
    BY PriceAssumption, ClockAssumption DEF Init, Rows
  <2>2. TableTypes
    BY <2>1 DEF Init, TableTypes
  <2>3. HandlerTypes
    BY DEF Init, HandlerTypes, Labels
  <2> QED
    BY <2>2, <2>3 DEF TypeOK
<1>2. TypeOK /\ [Next]_vars => TypeOK'
  BY TableTypesKept, HandlerTypesKept DEF TypeOK
<1> QED
  BY <1>1, <1>2, PTL DEF Spec

-----------------------------------------------------------------------------
(***************************************************************************)
(* One order per sale.  Inductive as it stands: a running auction has no   *)
(* order, because its status is not "ended".                               *)
(***************************************************************************)
LEMMA OrderStep ==
  ASSUME TypeOK, OrderIffSold, [Next]_vars
  PROVE  OrderIffSold'
<1> USE DEF OrderIffSold
<1>0. auction \in Rows /\ orders \subseteq [winner: Users, price: Nat]
  BY DEF TypeOK, TableTypes
<1>1. CASE UNCHANGED tables
  BY <1>1 DEF tables
<1>2. ASSUME NEW p \in Procs, Commits(p) PROVE OrderIffSold'
  <2>1. auction.status = "active" /\ pc[p] # "idle"
    BY <1>2 DEF Commits, SqlAccepts
  <2>2. Bidder(req[p].key) \in Users
    BY <2>1, BidderType DEF TypeOK, HandlerTypes, Requests
  <2>3. Bidder(req[p].key) # NoUser
    BY <2>2, BidderAssumption
  <2> QED
    BY <1>0, <1>2, <2>1, <2>3 DEF Commits, CommitBid, Order, AcceptRow
<1>3. CASE Starts
  BY <1>0, <1>3 DEF Starts, Transition, Rows
<1>4. CASE Ends
  <2>1. auction' = [auction EXCEPT !.status = "ended", !.version = auction.version + 1]
    BY <1>4 DEF Ends, Transition
  <2>2. /\ auction'.status = "ended" /\ auction'.leader = auction.leader
        /\ auction'.price = auction.price
    BY <1>0, <2>1 DEF Rows
  <2> QED
    BY <1>4, <2>2 DEF Ends, EnsureOrder, Order
<1>5. CASE Cancels
  BY <1>0, <1>5 DEF Cancels, Transition, Rows
<1> QED
  BY <1>1, <1>2, <1>3, <1>4, <1>5, NextTables

\* An order exists exactly when the auction ended with a leader, and it is the
\* leader's at the final price.
THEOREM OneOrderPerSale == Spec => []OrderIffSold
<1>1. Init => OrderIffSold
  BY DEF Init, OrderIffSold
<1>2. TypeOK /\ OrderIffSold /\ [Next]_vars => OrderIffSold'
  BY OrderStep
<1> QED
  BY <1>1, <1>2, TypeCorrect, PTL DEF Spec

-----------------------------------------------------------------------------
(***************************************************************************)
(* The numbering of events.                                                *)
(***************************************************************************)
LEMMA EventsAppended ==
  ASSUME NEW s \in Seq(StoredEvents), NEW e \in Seq(StoredEvents)
  PROVE  /\ Len(s \o e) = Len(s) + Len(e)
         /\ \A i \in 1..Len(s) : (s \o e)[i] = s[i]
         /\ \A i \in 1..Len(e) : (s \o e)[Len(s) + i] = e[i]
<1>1. /\ Len(s) \in Nat /\ Len(e) \in Nat /\ Len(s \o e) = Len(s) + Len(e)
      /\ \A i \in 1..Len(s) + Len(e) :
           (s \o e)[i] = IF i <= Len(s) THEN s[i] ELSE e[i - Len(s)]
  BY ConcatProperties
<1> QED
  BY <1>1

LEMMA TransitionSeq ==
  ASSUME TypeOK, SeqContiguous, NEW status, NEW type, NEW data,
         Transition(status, type, data)
  PROVE  SeqContiguous'
<1>1. auction \in Rows /\ outbox \in Seq(StoredEvents)
  BY DEF TypeOK, TableTypes
<1> DEFINE e == Event(auction.version + 1, type, data)
<1>2. e.seq = Len(outbox) + 1
  BY DEF Event, SeqContiguous
<1>3. outbox' = Append(outbox, e)
  BY DEF Transition
<1>4. auction'.version = auction.version + 1
  BY <1>1 DEF Transition, Rows
<1> HIDE DEF e
<1>5. /\ Len(outbox') = Len(outbox) + 1 /\ outbox'[Len(outbox) + 1] = e
      /\ \A i \in 1..Len(outbox) : outbox'[i] = outbox[i]
  BY <1>1, <1>3
<1>6. \A i \in 1..Len(outbox') : i \in 1..Len(outbox) \/ i = Len(outbox) + 1
  BY <1>1, <1>5
<1> QED
  BY <1>2, <1>4, <1>5, <1>6 DEF SeqContiguous

LEMMA SeqStep ==
  ASSUME TypeOK, SeqContiguous, [Next]_vars
  PROVE  SeqContiguous'
<1>1. CASE UNCHANGED tables
  BY <1>1 DEF tables, SeqContiguous
<1>2. ASSUME NEW p \in Procs, Commits(p) PROVE SeqContiguous'
  <2> DEFINE e == BidEvents(auction, Bidder(req[p].key), req[p].amount, txNow[p])
             c == EventCount(auction, req[p].amount, txNow[p])
  <2>1. pc[p] # "idle"
    BY <1>2 DEF Commits
  <2>2. e \in Seq(StoredEvents) /\ Len(e) = c /\ \A i \in 1..Len(e) : e[i].seq = auction.version + i
    BY <2>1, BidEventsType
  <2>3. outbox' = outbox \o e /\ outbox \in Seq(StoredEvents) /\ auction.version \in Nat
    BY <1>2 DEF Commits, CommitBid, TypeOK, TableTypes, Rows
  <2>4. auction'.version = auction.version + c
    BY <1>2 DEF Commits, CommitBid, AcceptRow
  <2> HIDE DEF e, c
  <2>5. /\ Len(outbox') = Len(outbox) + c
        /\ \A i \in 1..Len(outbox) : outbox'[i] = outbox[i]
        /\ \A i \in 1..Len(e) : outbox'[Len(outbox) + i] = e[i]
    BY <2>2, <2>3, EventsAppended
  <2>6. ASSUME NEW i \in 1..Len(outbox') PROVE outbox'[i].seq = i
    <3>1. CASE i \in 1..Len(outbox)
      BY <2>5, <3>1 DEF SeqContiguous
    <3>2. CASE i \notin 1..Len(outbox)
      <4>1. i - Len(outbox) \in 1..Len(e) /\ i = Len(outbox) + (i - Len(outbox))
        BY <2>2, <2>3, <2>5, <3>2
      <4>2. outbox'[i] = e[i - Len(outbox)]
        BY <2>5, <4>1
      <4>3. e[i - Len(outbox)].seq = auction.version + (i - Len(outbox))
        BY <2>2, <4>1
      <4> QED
        BY <2>3, <4>1, <4>2, <4>3 DEF SeqContiguous
    <3> QED BY <3>1, <3>2
  <2> QED
    BY <2>4, <2>5, <2>6 DEF SeqContiguous
<1>3. CASE Starts \/ Ends \/ Cancels
  BY <1>3, TransitionSeq DEF Starts, Ends, Cancels
<1> QED
  BY <1>1, <1>2, <1>3, NextTables

\* Events are numbered 1, 2, 3, ... without gap or repetition up to the version.
THEOREM EventsContiguous == Spec => []SeqContiguous
<1>1. Init => SeqContiguous
  BY DEF Init, SeqContiguous
<1>2. TypeOK /\ SeqContiguous /\ [Next]_vars => SeqContiguous'
  BY SeqStep
<1> QED
  BY <1>1, <1>2, TypeCorrect, PTL DEF Spec

-----------------------------------------------------------------------------
(***************************************************************************)
(* The ladder of accepted bids, which ties the row to table bids.          *)
(***************************************************************************)
FirstStep == IF StartPrice > 0 THEN StartPrice ELSE PriceStep
OnRow(n) ==
  /\ auction.bidCount = n
  /\ IF n = 0
     THEN auction.price = StartPrice /\ auction.leader = NoUser
     ELSE auction.price = bids[n].amount /\ auction.leader = Bidder(bids[n].key)
Rung(i) ==
  /\ bids[i].amount >= IF i = 1 THEN FirstStep ELSE bids[i - 1].amount + PriceStep
  /\ CeilingPrice # NoCeiling => bids[i].amount <= CeilingPrice

LEMMA LadderParts ==
  PriceLadder <=> OnRow(Len(bids)) /\ \A i \in 1..Len(bids) : Rung(i)
BY DEF PriceLadder, OnRow, Rung, FirstStep

LEMMA LadderStep ==
  ASSUME TypeOK, PriceLadder, [Next]_vars
  PROVE  PriceLadder'
<1>0. /\ auction \in Rows
      /\ bids \in Seq([key: Keys, amount: Amounts, seq: Nat, seen: Int, at: Nat])
  BY DEF TypeOK, TableTypes
<1>1. CASE UNCHANGED tables
  BY <1>1 DEF tables, PriceLadder
<1>2. ASSUME NEW p \in Procs, Commits(p) PROVE PriceLadder'
  <2> DEFINE n == req[p].amount
             k == req[p].key
             bid == [key |-> k, amount |-> n, seq |-> auction.version + 1,
                     seen |-> txNow[p], at |-> clock]
  <2>0. PICK m \in Nat : m = Len(bids)
    BY <1>0
  <2>1. req[p] \in Requests /\ txNow[p] \in Int /\ clock \in Nat
    BY <1>2 DEF Commits, TypeOK, HandlerTypes
  <2>2. k \in Keys /\ n \in Amounts /\ n \in Nat
    BY <2>1, AmountsAreCents DEF Requests
  <2>3. bid \in [key: Keys, amount: Amounts, seq: Nat, seen: Int, at: Nat]
    BY <1>0, <2>1, <2>2 DEF Rows
  <2>4. bid.amount = n /\ bid.key = k
    OBVIOUS
  <2>5. bids' = Append(bids, bid)
    BY <1>2 DEF Commits, CommitBid, AcceptedBid
  <2>6. /\ auction'.price = n /\ auction'.leader = Bidder(k)
        /\ auction'.bidCount = auction.bidCount + 1
    BY <1>2 DEF Commits, CommitBid, AcceptRow
  <2> HIDE DEF bid
  <2>7. /\ Len(bids') = m + 1 /\ bids'[m + 1] = bid
        /\ \A i \in 1..m : bids'[i] = bids[i]
    BY <1>0, <2>0, <2>3, <2>5
  <2>8. OnRow(m) /\ \A i \in 1..m : Rung(i)
    BY <2>0, LadderParts
  <2>9. OnRow(m + 1)'
    BY <2>4, <2>6, <2>7, <2>8 DEF OnRow
  <2>10. n >= (IF m = 0 THEN FirstStep ELSE auction.price + PriceStep)
         /\ (CeilingPrice # NoCeiling => n <= CeilingPrice)
    <3>1. SqlAccepts(auction, n, clock) /\ auction.bidCount = m
      BY <1>2, <2>8 DEF Commits, OnRow
    <3>2. StartPrice \in Nat /\ PriceStep \in Nat
          /\ (CeilingPrice # NoCeiling => CeilingPrice \in Nat)
      BY PriceAssumption
    <3> QED
      BY <2>2, <2>7, <3>1, <3>2 DEF SqlAccepts, OverCeiling, FirstStep
  <2>11. Rung(m + 1)'
    <3>1. m # 0 => bids'[(m + 1) - 1].amount = auction.price
      BY <2>7, <2>8 DEF OnRow
    <3> QED
      BY <2>4, <2>7, <2>10, <3>1 DEF Rung, FirstStep
  <2>12. ASSUME NEW i \in 1..m PROVE Rung(i)'
    <3>1. Rung(i) /\ bids'[i] = bids[i] /\ (i # 1 => bids'[i - 1] = bids[i - 1])
      BY <2>7, <2>8
    <3> QED
      BY <3>1 DEF Rung, FirstStep
  <2>13. OnRow(Len(bids))' /\ \A i \in 1..Len(bids') : Rung(i)'
    BY <2>7, <2>9, <2>11, <2>12
  <2> QED
    BY <2>13 DEF PriceLadder, OnRow, Rung, FirstStep
<1>3. CASE Starts \/ Ends \/ Cancels
  <2>1. /\ auction'.price = auction.price /\ auction'.leader = auction.leader
        /\ auction'.bidCount = auction.bidCount /\ bids' = bids
    BY <1>0, <1>3 DEF Starts, Ends, Cancels, Transition, Rows
  <2> QED
    BY <2>1 DEF PriceLadder
<1> QED
  BY <1>1, <1>2, <1>3, NextTables

\* Bids climb by the price step from the start price to the ceiling, and the
\* row shows the last one, however many handlers pass the Redis lock at once.
THEOREM LadderHolds == Spec => []PriceLadder
<1>1. Init => PriceLadder
  BY DEF Init, PriceLadder
<1>2. TypeOK /\ PriceLadder /\ [Next]_vars => PriceLadder'
  BY LadderStep
<1> QED
  BY <1>1, <1>2, TypeCorrect, PTL DEF Spec

-----------------------------------------------------------------------------
(***************************************************************************)
(* Under the row lock.  Who holds the row is alone, and the row stays what *)
(* it was when the bid was validated.                                      *)
(***************************************************************************)
Others(q) ==
  \A p \in Procs \ {q} : /\ pc'[p] = pc[p] /\ req'[p] = req[p]
                         /\ txNow'[p] = txNow[p]

\* A step locks nothing, or it locks the row, which nobody held, for a bid that is
\* valid; only the holder and those who wait for it change the row.
LEMMA Locking ==
  ASSUME TypeOK, [Next]_vars
  PROVE  \/ UNCHANGED <<pc, req, txNow>> /\ (UNCHANGED auction \/ ~RowHeld)
         \/ \E q \in Procs : /\ Others(q) /\ pc'[q] # "locked"
                             /\ UNCHANGED auction \/ pc[q] = "locked"
         \/ \E q \in Procs : /\ Others(q) /\ ~RowHeld /\ UNCHANGED auction
                             /\ Verdict(auction, req'[q].amount, txNow'[q]) = "Ok"
<1>0. /\ pc \in [Procs -> Labels] /\ req \in [Procs -> Requests \cup {NoRequest}]
      /\ txNow \in [Procs -> Int]
  BY DEF TypeOK, HandlerTypes
<1>1. ASSUME NEW q \in Procs, NEW answer, Reply(q, answer) PROVE Others(q) /\ pc'[q] # "locked"
  BY <1>0, <1>1 DEF Reply, Others
<1>2. ASSUME NEW q \in Procs, NEW answer, Finish(q, answer) PROVE Others(q) /\ pc'[q] # "locked"
  BY <1>0, <1>2 DEF Finish, Goto, Others
<1>3. ASSUME NEW q \in Procs, NEW label, label # "locked", Goto(q, label), UNCHANGED <<req, txNow>>
      PROVE  Others(q) /\ pc'[q] # "locked"
  BY <1>0, <1>3 DEF Goto, Others
<1>4. ASSUME NEW q \in Procs, Receive(q) \/ Crash(q)
      PROVE  Others(q) /\ pc'[q] # "locked" /\ UNCHANGED auction
  BY <1>0, <1>4 DEF Receive, Crash, Goto, Others, tables
<1>5. ASSUME NEW q \in Procs,
             ReadIdempotency(q) \/ Precheck(q) \/ Acquire(q) \/ Claim(q) \/ Release(q)
             \/ ReadFails(q) \/ Rollback(q)
      PROVE  Others(q) /\ pc'[q] # "locked" /\ UNCHANGED auction
  BY <1>1, <1>2, <1>3, <1>5
     DEF ReadIdempotency, Precheck, Acquire, Claim, Release, ReadFails, Rollback, tables
<1>6. ASSUME NEW q \in Procs, Accept(q) PROVE Others(q) /\ pc'[q] # "locked" /\ pc[q] = "locked"
  BY <1>2, <1>6 DEF Accept
<1>7. ASSUME NEW q \in Procs, LockAuction(q)
      PROVE  /\ Others(q) /\ UNCHANGED auction
             /\ \/ pc'[q] # "locked"
                \/ ~RowHeld /\ Verdict(auction, req'[q].amount, txNow'[q]) = "Ok"
  <2>1. /\ ~RowHeld /\ UNCHANGED auction
        /\ \E now \in AppClock :
             \/ /\ Verdict(auction, req[q].amount, now) = "Ok" /\ Goto(q, "locked")
                /\ txNow' = [txNow EXCEPT ![q] = now] /\ UNCHANGED req
             \/ \E answer : Finish(q, answer)
    BY <1>7 DEF LockAuction, tables
  <2>2. CASE \E answer : Finish(q, answer)
    BY <1>2, <2>1, <2>2
  <2>3. CASE \E now \in AppClock :
               /\ Verdict(auction, req[q].amount, now) = "Ok" /\ Goto(q, "locked")
               /\ txNow' = [txNow EXCEPT ![q] = now] /\ UNCHANGED req
    BY <1>0, <2>1, <2>3 DEF Goto, Others
  <2> QED
    BY <2>1, <2>2, <2>3
<1>8. ASSUME NEW w \in Workers, ListDue(w) \/ EndOne(w) \/ EndFails(w)
      PROVE  UNCHANGED <<pc, req, txNow>> /\ (UNCHANGED auction \/ ~RowHeld)
  BY <1>8 DEF ListDue, EndOne, EndFails, handlers, tables
<1>9. ASSUME StartDue \/ Cancel \/ LockExpire \/ Tick \/ Finished \/ UNCHANGED vars
      PROVE  UNCHANGED <<pc, req, txNow>> /\ (UNCHANGED auction \/ ~RowHeld)
  BY <1>9 DEF StartDue, Cancel, LockExpire, Tick, Finished, vars, handlers, tables
<1> QED
  BY <1>4, <1>5, <1>6, <1>7, <1>8, <1>9 DEF Next, Step

\* Row locks are exclusive.
OneHoldsRow == \A p, q \in Procs : pc[p] = "locked" /\ pc[q] = "locked" => p = q

LEMMA LockedStep ==
  ASSUME TypeOK, OneHoldsRow, LockedBidStands, [Next]_vars
  PROVE  OneHoldsRow' /\ LockedBidStands'
<1>1. CASE UNCHANGED <<pc, req, txNow>> /\ (UNCHANGED auction \/ ~RowHeld)
  BY <1>1 DEF OneHoldsRow, LockedBidStands, RowHeld
<1>2. ASSUME NEW q \in Procs, Others(q), pc'[q] # "locked", UNCHANGED auction \/ pc[q] = "locked"
      PROVE  OneHoldsRow' /\ LockedBidStands'
  <2>1. \A p \in Procs : pc'[p] = "locked" =>
          p # q /\ pc[p] = "locked" /\ req'[p] = req[p] /\ txNow'[p] = txNow[p]
    BY <1>2 DEF Others
  <2>2. (\E p \in Procs : pc'[p] = "locked") => auction' = auction
    BY <1>2, <2>1 DEF OneHoldsRow
  <2> QED
    BY <2>1, <2>2 DEF OneHoldsRow, LockedBidStands
<1>3. ASSUME NEW q \in Procs, Others(q), ~RowHeld, UNCHANGED auction,
             Verdict(auction, req'[q].amount, txNow'[q]) = "Ok"
      PROVE  OneHoldsRow' /\ LockedBidStands'
  <2>1. \A p \in Procs : pc'[p] = "locked" => p = q
    BY <1>3 DEF Others, RowHeld
  <2> QED
    BY <1>3, <2>1 DEF OneHoldsRow, LockedBidStands
<1> QED
  BY <1>1, <1>2, <1>3, Locking

LEMMA LockedAlways == Spec => [](OneHoldsRow /\ LockedBidStands)
<1>1. Init => OneHoldsRow /\ LockedBidStands
  BY DEF Init, OneHoldsRow, LockedBidStands
<1>2. TypeOK /\ (OneHoldsRow /\ LockedBidStands) /\ [Next]_vars => (OneHoldsRow /\ LockedBidStands)'
  BY LockedStep
<1> QED
  BY <1>1, <1>2, TypeCorrect, PTL DEF Spec

\* A bid validated under the row lock is still valid when it is written, for any
\* number of handlers, workers and lost Redis locks.
THEOREM ValidWhenWritten == Spec => []LockedBidStands
BY LockedAlways, PTL

-----------------------------------------------------------------------------
(***************************************************************************)
(* Time.  While the auction runs its end is later than every bid, by more  *)
(* than the window; a bid at the ceiling ends it for good.                 *)
(***************************************************************************)
Window == IF ExtendSeconds < ExtendThreshold THEN ExtendSeconds ELSE ExtendThreshold
OpenAtBottom ==
  /\ auction.status = "active" => auction.price # CeilingPrice \/ bids = <<>>
  /\ auction.status = "pending" => bids = <<>>
InTime(b, end) == b.at < end /\ end - b.seen > Window
AllInTime == \A i \in 1..Len(bids) : InTime(bids[i], auction.endTime)
TimeInv ==
  /\ OpenAtBottom
  /\ auction.price # CeilingPrice \/ bids = <<>> => AllInTime

BidRows == [key: Keys, amount: Amounts, seq: Nat, seen: Int, at: Nat]

\* What a commit does to the tables.
LEMMA CommitFacts ==
  ASSUME TypeOK, NEW p \in Procs, Commits(p)
  PROVE  /\ AcceptedBid(p) \in BidRows /\ bids \in Seq(BidRows)
         /\ bids' = Append(bids, AcceptedBid(p)) /\ Len(bids') = Len(bids) + 1
         /\ bids'[Len(bids) + 1] = AcceptedBid(p)
         /\ \A i \in 1..Len(bids) : bids'[i] = bids[i]
         /\ auction' = AcceptRow(auction, Bidder(req[p].key), req[p].amount, txNow[p])
         /\ req[p].amount \in Nat /\ req[p].amount \in Amounts
         /\ req[p].key \in Keys /\ txNow[p] \in Int
         /\ auction.status = "active" /\ clock < auction.endTime
<1>1. req[p] \in Requests /\ txNow[p] \in Int /\ clock \in Nat /\ auction \in Rows
  BY DEF Commits, TypeOK, HandlerTypes, TableTypes
<1>2. req[p].amount \in Amounts /\ req[p].amount \in Nat /\ req[p].key \in Keys
  BY <1>1, AmountsAreCents DEF Requests
<1>3. AcceptedBid(p) \in BidRows /\ bids \in Seq(BidRows)
  BY <1>1, <1>2 DEF AcceptedBid, BidRows, Rows, TypeOK, TableTypes
<1>4. /\ bids' = Append(bids, AcceptedBid(p))
      /\ auction' = AcceptRow(auction, Bidder(req[p].key), req[p].amount, txNow[p])
      /\ auction.status = "active" /\ auction.endTime > clock
  BY DEF Commits, CommitBid, SqlAccepts
<1>5. /\ Len(bids') = Len(bids) + 1 /\ bids'[Len(bids) + 1] = AcceptedBid(p)
      /\ \A i \in 1..Len(bids) : bids'[i] = bids[i]
  BY <1>3, <1>4
<1> QED
  BY <1>1, <1>2, <1>3, <1>4, <1>5 DEF Rows

\* A later end is in time for the bids that were.
LEMMA StillInTime ==
  ASSUME NEW b \in BidRows, NEW end \in Int, NEW later \in Int, later >= end, InTime(b, end)
  PROVE  InTime(b, later)
<1>1. b.at \in Nat /\ b.seen \in Int /\ Window \in Int
  BY ExtendAssumption DEF BidRows, Window
<1> QED
  BY <1>1 DEF InTime

LEMMA TimeStep ==
  ASSUME TypeOK, LockedBidStands, TimeInv, [Next]_vars
  PROVE  TimeInv'
<1>0. auction \in Rows
  BY DEF TypeOK, TableTypes
<1>1. CASE UNCHANGED tables
  BY <1>1 DEF tables, TimeInv, OpenAtBottom, AllInTime
<1>2. ASSUME NEW p \in Procs, Commits(p) PROVE TimeInv'
  <2> DEFINE n == req[p].amount
             m == Len(bids)
  <2>1. /\ auction'.price = n /\ auction'.endTime = NewEndTime(auction, n, txNow[p])
        /\ auction'.status = IF CeilingHit(n) THEN "ended" ELSE "active"
        /\ m \in Nat
    BY <1>2, CommitFacts DEF AcceptRow
  <2>2. CASE CeilingHit(n)
    <3>1. bids' # <<>> /\ auction'.price = CeilingPrice /\ auction'.status = "ended"
      BY <1>2, <2>1, <2>2, CommitFacts DEF CeilingHit
    <3> QED
      BY <3>1 DEF TimeInv, OpenAtBottom
  <2>3. CASE ~CeilingHit(n)
    <3>1. Verdict(auction, n, txNow[p]) = "Ok"
      BY <1>2 DEF LockedBidStands, Commits
    <3>2. txNow[p] < auction.endTime /\ txNow[p] \in Int /\ auction.endTime \in Int /\ clock \in Nat
          /\ clock < auction.endTime
      BY <1>0, <1>2, <3>1, CommitFacts DEF Verdict, Rows, TypeOK, HandlerTypes
    <3>3. /\ auction'.endTime >= auction.endTime /\ auction'.endTime - txNow[p] > Window
          /\ auction'.endTime \in Int
      <4>1. ExtendSeconds \in Nat /\ ExtendThreshold \in Nat /\ ExtendSeconds > 0
        BY ExtendAssumption
      <4>2. CASE ShouldExtend(auction, txNow[p])
        <5>1. auction'.endTime = auction.endTime + ExtendSeconds
          BY <2>1, <2>3, <4>2 DEF NewEndTime
        <5> QED
          BY <3>2, <4>1, <5>1 DEF Window
      <4>3. CASE ~ShouldExtend(auction, txNow[p])
        <5>1. auction'.endTime = auction.endTime
          BY <2>1, <2>3, <4>3 DEF NewEndTime
        <5>2. auction.endTime - txNow[p] > ExtendThreshold
          BY <3>2, <4>1, <4>3 DEF ShouldExtend
        <5> QED
          BY <3>2, <4>1, <5>1, <5>2 DEF Window
      <4> QED
        BY <4>2, <4>3
    <3>4. AcceptedBid(p).at = clock /\ AcceptedBid(p).seen = txNow[p]
      BY DEF AcceptedBid
    <3>5. InTime(bids'[m + 1], auction'.endTime)
      <4>1. bids'[m + 1] = AcceptedBid(p)
        BY <1>2, CommitFacts
      <4> QED
        BY <3>2, <3>3, <3>4, <4>1 DEF InTime
    <3>6. \A i \in 1..m : InTime(bids[i], auction.endTime)
      BY <1>2, CommitFacts DEF TimeInv, OpenAtBottom, AllInTime
    <3>7. ASSUME NEW i \in 1..m PROVE InTime(bids'[i], auction'.endTime)
      <4>1. bids[i] \in BidRows /\ bids'[i] = bids[i] /\ InTime(bids[i], auction.endTime)
        BY <1>2, <3>6, CommitFacts
      <4>2. InTime(bids[i], auction'.endTime)
        BY <3>2, <3>3, <4>1, StillInTime
      <4> QED
        BY <4>1, <4>2
    <3>8. AllInTime'
      <4>1. Len(bids') = m + 1
        BY <1>2, CommitFacts
      <4> QED
        BY <2>1, <3>5, <3>7, <4>1 DEF AllInTime
    <3>9. auction'.price # CeilingPrice /\ auction'.status = "active"
      BY <2>1, <2>3 DEF CeilingHit
    <3> QED
      BY <3>8, <3>9 DEF TimeInv, OpenAtBottom
  <2> QED
    BY <2>2, <2>3
<1>3. CASE Starts \/ Ends \/ Cancels
  <2>1. /\ bids' = bids /\ auction'.price = auction.price /\ auction'.endTime = auction.endTime
        /\ auction'.status # "pending"
        /\ auction'.status = "active" => auction.status = "pending"
    BY <1>0, <1>3 DEF Starts, Ends, Cancels, Transition, Rows
  <2> QED
    BY <2>1 DEF TimeInv, OpenAtBottom, AllInTime
<1> QED
  BY <1>1, <1>2, <1>3, NextTables

LEMMA TimeAlways == Spec => []TimeInv
<1>1. Init => TimeInv
  BY DEF Init, TimeInv, OpenAtBottom, AllInTime
<1>2. TypeOK /\ LockedBidStands /\ TimeInv /\ [Next]_vars => TimeInv'
  BY TimeStep
<1> QED
  BY <1>1, <1>2, TypeCorrect, ValidWhenWritten, PTL DEF Spec

\* However late a bid comes, there is the window to answer it: for any threshold
\* and extension and clocks that are off by any skew.
THEOREM TimeToRespond == Spec => []ResponseWindow
<1>1. TimeInv => ResponseWindow
  BY DEF TimeInv, AllInTime, InTime, ResponseWindow, Window
<1> QED
  BY <1>1, TimeAlways, PTL

\* No bid is stored after the end that was finally in force.
THEOREM NoneTooLate == Spec => []NoLateBid
<1>1. TimeInv => NoLateBid
  BY DEF TimeInv, AllInTime, InTime, NoLateBid
<1> QED
  BY <1>1, TimeAlways, PTL

-----------------------------------------------------------------------------
(***************************************************************************)
(* Keys and answers.                                                       *)
(***************************************************************************)
Bought(key, amount, n) ==
  n \in 1..Len(bids) /\ bids[n].key = key /\ bids[n].amount = amount

\* Tables bids and idempotency_keys name each other.
KeysStep ==
  \/ UNCHANGED <<bids, idem>>
  \/ \E p \in Procs : Commits(p)

LEMMA KeysChange ==
  ASSUME TypeOK, [Next]_vars
  PROVE  KeysStep
BY NextTables DEF KeysStep, tables, Starts, Ends, Cancels

LEMMA IdempotentStep ==
  ASSUME TypeOK, IdempotentOnce, [Next]_vars
  PROVE  /\ IdempotentOnce'
         /\ \A key, amount, n : Bought(key, amount, n) => Bought(key, amount, n)'
<1>0. /\ bids \in Seq(BidRows) /\ idem \in [Keys -> {NoRecord} \cup [amount: Amounts, bid: Nat]]
  BY DEF TypeOK, TableTypes, BidRows
<1>1. CASE UNCHANGED <<bids, idem>>
  BY <1>1 DEF IdempotentOnce, Bought
<1>2. ASSUME NEW p \in Procs, Commits(p)
      PROVE  /\ IdempotentOnce'
             /\ \A key, amount, n : Bought(key, amount, n) => Bought(key, amount, n)'
  <2> DEFINE k == req[p].key
             b == AcceptedBid(p)
             r == Record(req[p].amount, Len(bids) + 1)
             Named(x) == /\ idem'[x].bid \in 1..Len(bids')
                         /\ bids'[idem'[x].bid].key = x
                         /\ bids'[idem'[x].bid].amount = idem'[x].amount
  <2>0. PICK m \in Nat : m = Len(bids)
    BY <1>0
  <2>1. /\ \A i \in 1..m : bids[i].key # k
        /\ idem' = [idem EXCEPT ![k] = r]
    BY <1>2, <2>0 DEF Commits, CommitBid
  <2>2. /\ k \in Keys /\ b.key = k /\ b.amount = req[p].amount
        /\ r.bid = m + 1 /\ r.amount = req[p].amount /\ r # NoRecord
    <3>1. req[p].key \in Keys /\ req[p].amount \in Amounts
      BY <1>2, CommitFacts
    <3>2. r = [amount |-> req[p].amount, bid |-> m + 1]
      BY <2>0 DEF Record
    <3>3. r \in [amount : Amounts, bid : Nat]
      BY <3>1, <3>2
    <3> QED
      BY <3>1, <3>2, <3>3, BidderAssumption DEF AcceptedBid
  <2>3. /\ Len(bids') = m + 1 /\ bids'[m + 1] = b
        /\ \A i \in 1..m : bids'[i] = bids[i]
    BY <1>2, <2>0, CommitFacts
  <2> HIDE DEF b, r
  <2>4. \A x \in Keys : idem'[x] = IF x = k THEN r ELSE idem[x]
    BY <1>0, <2>1, <2>2
  <2>6. \A i, j \in 1..Len(bids') : bids'[i].key = bids'[j].key => i = j
    BY <2>0, <2>1, <2>2, <2>3 DEF IdempotentOnce
  <2>7. ASSUME NEW x \in Keys, idem'[x] # NoRecord PROVE Named(x)
    <3>1. CASE x = k
      BY <2>0, <2>2, <2>3, <2>4, <3>1
    <3>2. CASE x # k
      <4>1. Bought(x, idem[x].amount, idem[x].bid)
        BY <2>4, <2>7, <3>2 DEF IdempotentOnce, Bought
      <4> QED
        BY <2>0, <2>3, <2>4, <3>2, <4>1 DEF Bought
    <3> QED
      BY <3>1, <3>2
  <2>8. \A i \in 1..Len(bids') : idem'[bids'[i].key] # NoRecord
    <3>1. \A i \in 1..m : bids[i] \in BidRows
      BY <1>0, <2>0
    <3>2. \A i \in 1..m : bids[i].key \in Keys /\ idem[bids[i].key] # NoRecord
      BY <2>0, <3>1 DEF BidRows, IdempotentOnce
    <3>3. \A i \in 1..(m + 1) : i \in 1..m \/ i = m + 1
      BY <2>0
    <3> QED
      BY <2>1, <2>2, <2>3, <2>4, <3>2, <3>3
  <2>9. \A key, amount, n : Bought(key, amount, n) => Bought(key, amount, n)'
    BY <2>0, <2>3 DEF Bought
  <2> QED
    BY <2>6, <2>7, <2>8, <2>9 DEF IdempotentOnce, Bought, Named
<1> QED
  BY <1>1, <1>2, KeysChange DEF KeysStep

\* A key buys once and its record names what it bought, whatever handlers,
\* retries and duplicates pass the Redis lock at a time.
THEOREM KeysBuyOnce == Spec => []IdempotentOnce
<1>1. Init => IdempotentOnce
  BY DEF Init, IdempotentOnce
<1>2. TypeOK /\ IdempotentOnce /\ [Next]_vars => IdempotentOnce'
  BY IdempotentStep
<1> QED
  BY <1>1, <1>2, TypeCorrect, PTL DEF Spec

\* An answer that says so is given for a bid on record.
Sold(p, answer) == answer.code = "Ok" => Bought(req[p].key, req[p].amount, answer.bid)
AnswersTrue ==
  /\ DOMAIN ans = Procs
  /\ \A p \in Procs : pc[p] = "release" => Sold(p, ans[p])
BidsKept == \A key, amount, n : Bought(key, amount, n) => Bought(key, amount, n)'

\* What the idempotency table answers is so.
LEMMA StoredIsSold ==
  ASSUME TypeOK, IdempotentOnce, NEW p \in Procs, pc[p] # "idle", idem[req[p].key] # NoRecord
  PROVE  Sold(p, StoredAnswer(p))
<1>1. req[p].key \in Keys
  BY DEF TypeOK, HandlerTypes, Requests
<1> QED
  BY <1>1 DEF IdempotentOnce, Sold, StoredAnswer, Bought, Answer, Refusal

LEMMA RefusalSellsNothing == ASSUME NEW p, NEW code, code # "Ok" PROVE Sold(p, Refusal(code))
BY DEF Sold, Refusal, Answer

LEMMA ReplyStep ==
  ASSUME TypeOK, AnswersTrue, RepliesTrue, BidsKept, NEW p \in Procs, NEW answer,
         Reply(p, answer), Sold(p, answer)
  PROVE  AnswersTrue' /\ RepliesTrue'
<1>0. pc \in [Procs -> Labels] /\ req \in [Procs -> Requests \cup {NoRequest}]
  BY DEF TypeOK, HandlerTypes
<1>1. AnswersTrue'
  BY <1>0 DEF AnswersTrue, BidsKept, Reply, Sold, Bought
<1>2. \A r \in replies : r.code = "Ok" => Bought(r.key, r.amount, r.bid)
  BY DEF RepliesTrue, Bought
<1>3. ASSUME NEW r \in replies', r.code = "Ok"
      PROVE  r.bid \in 1..Len(bids') /\ bids'[r.bid].key = r.key /\ bids'[r.bid].amount = r.amount
  <2>1. CASE r \in replies
    BY <1>2, <1>3, <2>1 DEF BidsKept, Bought
  <2>2. CASE r \notin replies
    <3>1. r = [key |-> req[p].key, amount |-> req[p].amount, code |-> answer.code, bid |-> answer.bid]
      BY <1>3, <2>2 DEF Reply
    <3>2. Bought(req[p].key, req[p].amount, answer.bid)
      BY <1>3, <3>1 DEF Sold
    <3> QED
      BY <3>1, <3>2 DEF BidsKept, Bought
  <2> QED
    BY <2>1, <2>2
<1> QED
  BY <1>1, <1>3 DEF RepliesTrue

LEMMA FinishStep ==
  ASSUME TypeOK, AnswersTrue, RepliesTrue, BidsKept, NEW p \in Procs, NEW answer,
         Finish(p, answer), UNCHANGED replies,
         answer.code = "Ok" => /\ answer.bid \in 1..Len(bids')
                               /\ bids'[answer.bid].key = req[p].key
                               /\ bids'[answer.bid].amount = req[p].amount
  PROVE  AnswersTrue' /\ RepliesTrue'
<1>0. pc \in [Procs -> Labels]
  BY DEF TypeOK, HandlerTypes
<1>1. AnswersTrue'
  BY <1>0 DEF AnswersTrue, BidsKept, Finish, Goto, Sold, Bought
<1> QED
  BY <1>1 DEF RepliesTrue, BidsKept, Bought

LEMMA GotoStep ==
  ASSUME TypeOK, AnswersTrue, RepliesTrue, BidsKept, NEW p \in Procs, NEW label,
         Goto(p, label), label # "release", UNCHANGED <<ans, replies>>,
         \A q \in Procs \ {p} : req'[q] = req[q]
  PROVE  AnswersTrue' /\ RepliesTrue'
<1>0. pc \in [Procs -> Labels]
  BY DEF TypeOK, HandlerTypes
<1>1. AnswersTrue'
  BY <1>0 DEF AnswersTrue, BidsKept, Goto, Sold, Bought
<1> QED
  BY <1>1 DEF RepliesTrue, BidsKept, Bought

\* Nothing happens to the handlers.
LEMMA QuietStep ==
  ASSUME AnswersTrue, RepliesTrue, BidsKept, UNCHANGED <<pc, req, ans, replies>>
  PROVE  AnswersTrue' /\ RepliesTrue'
<1>1. AnswersTrue'
  BY DEF AnswersTrue, BidsKept, Sold, Bought
<1> QED
  BY <1>1 DEF RepliesTrue, BidsKept, Bought

LEMMA AnswerStep ==
  ASSUME TypeOK, IdempotentOnce, AnswersTrue, RepliesTrue, [Next]_vars
  PROVE  AnswersTrue' /\ RepliesTrue'
<1>0. BidsKept
  BY IdempotentStep DEF BidsKept
<1>1. ASSUME NEW p \in Procs, Receive(p) PROVE AnswersTrue' /\ RepliesTrue'
  <2>1. \A q \in Procs \ {p} : req'[q] = req[q]
    BY <1>1 DEF Receive, TypeOK, HandlerTypes
  <2> QED
    BY <1>0, <1>1, <2>1, GotoStep DEF Receive
<1>2. ASSUME NEW p \in Procs, ReadIdempotency(p) PROVE AnswersTrue' /\ RepliesTrue'
  <2>1. CASE idem[req[p].key] # NoRecord
    BY <1>0, <1>2, <2>1, StoredIsSold, ReplyStep DEF ReadIdempotency
  <2>2. CASE idem[req[p].key] = NoRecord
    BY <1>0, <1>2, <2>2, GotoStep DEF ReadIdempotency
  <2> QED
    BY <2>1, <2>2
<1>3. ASSUME NEW p \in Procs, Precheck(p) PROVE AnswersTrue' /\ RepliesTrue'
  <2>1. PICK now \in AppClock :
          LET verdict == Verdict(auction, req[p].amount, now)
          IN  IF verdict = "Ok"
              THEN Goto(p, "acquire") /\ UNCHANGED <<req, txNow, ans, replies>>
              ELSE Reply(p, Refusal(verdict))
    BY <1>3 DEF Precheck
  <2>2. CASE Verdict(auction, req[p].amount, now) = "Ok"
    BY <1>0, <2>1, <2>2, GotoStep
  <2>3. CASE Verdict(auction, req[p].amount, now) # "Ok"
    BY <1>0, <2>1, <2>3, RefusalSellsNothing, ReplyStep
  <2> QED
    BY <2>2, <2>3
<1>4. ASSUME NEW p \in Procs, Acquire(p) PROVE AnswersTrue' /\ RepliesTrue'
  <2>1. CASE Goto(p, "claim") /\ UNCHANGED <<req, txNow, ans, replies>>
    BY <1>0, <2>1, GotoStep
  <2>2. ASSUME NEW code \in {"BidConflict", "SystemProtect"}, Reply(p, Refusal(code))
        PROVE  AnswersTrue' /\ RepliesTrue'
    BY <1>0, <2>2, RefusalSellsNothing, ReplyStep
  <2> QED
    BY <1>4, <2>1, <2>2 DEF Acquire
<1>5. ASSUME NEW p \in Procs, Claim(p) PROVE AnswersTrue' /\ RepliesTrue'
  <2>1. CASE idem[req[p].key] # NoRecord
    <3>1. Sold(p, StoredAnswer(p))
      BY <1>5, <2>1, StoredIsSold DEF Claim
    <3>2. UNCHANGED <<bids, replies>> /\ Finish(p, StoredAnswer(p))
      BY <1>5, <2>1 DEF Claim, tables
    <3> QED
      BY <1>0, <3>1, <3>2, FinishStep DEF Sold, Bought
  <2>2. CASE idem[req[p].key] = NoRecord
    BY <1>0, <1>5, <2>2, GotoStep DEF Claim
  <2> QED
    BY <2>1, <2>2
<1>6. ASSUME NEW p \in Procs, NEW code, code # "Ok", Finish(p, Refusal(code)), UNCHANGED replies
      PROVE  AnswersTrue' /\ RepliesTrue'
  BY <1>0, <1>6, FinishStep DEF Refusal, Answer
<1>7. ASSUME NEW p \in Procs, LockAuction(p) PROVE AnswersTrue' /\ RepliesTrue'
  <2>1. PICK now \in AppClock :
          LET verdict == Verdict(auction, req[p].amount, now)
          IN  IF verdict = "Ok"
              THEN /\ Goto(p, "locked")
                   /\ txNow' = [txNow EXCEPT ![p] = now]
                   /\ UNCHANGED <<req, ans>>
              ELSE Finish(p, Refusal(verdict))
    BY <1>7 DEF LockAuction
  <2>2. UNCHANGED replies
    BY <1>7 DEF LockAuction
  <2>3. CASE Verdict(auction, req[p].amount, now) = "Ok"
    BY <1>0, <2>1, <2>2, <2>3, GotoStep
  <2>4. CASE Verdict(auction, req[p].amount, now) # "Ok"
    BY <1>6, <2>1, <2>2, <2>4
  <2> QED
    BY <2>3, <2>4
<1>8. ASSUME NEW p \in Procs, Accept(p) PROVE AnswersTrue' /\ RepliesTrue'
  <2>1. CASE Commits(p) /\ Finish(p, Answer("Ok", Len(bids) + 1))
    <3>1. /\ Len(bids) + 1 \in 1..Len(bids')
          /\ bids'[Len(bids) + 1].key = req[p].key /\ bids'[Len(bids) + 1].amount = req[p].amount
      <4>1. AcceptedBid(p).key = req[p].key /\ AcceptedBid(p).amount = req[p].amount
        BY DEF AcceptedBid
      <4>2. PICK m \in Nat : m = Len(bids)
        BY DEF TypeOK, TableTypes
      <4> QED
        BY <2>1, <4>1, <4>2, CommitFacts
    <3> QED
      BY <1>0, <1>8, <2>1, <3>1, FinishStep DEF Accept, Answer
  <2>2. CASE \E code \in {"Internal", "BidConflict"} : Finish(p, Refusal(code))
    BY <1>6, <1>8, <2>2 DEF Accept
  <2> QED
    BY <1>8, <2>1, <2>2 DEF Accept, Commits
<1>9. ASSUME NEW p \in Procs, Release(p) PROVE AnswersTrue' /\ RepliesTrue'
  <2>1. Sold(p, ans[p]) /\ Reply(p, ans[p])
    BY <1>9 DEF Release, AnswersTrue
  <2> QED
    BY <1>0, <2>1, ReplyStep
<1>10. ASSUME NEW p \in Procs, ReadFails(p) PROVE AnswersTrue' /\ RepliesTrue'
  BY <1>0, <1>10, RefusalSellsNothing, ReplyStep DEF ReadFails
<1>11. ASSUME NEW p \in Procs, Rollback(p) PROVE AnswersTrue' /\ RepliesTrue'
  BY <1>6, <1>11 DEF Rollback
<1>12. ASSUME NEW p \in Procs, Crash(p) PROVE AnswersTrue' /\ RepliesTrue'
  <2>1. pc \in [Procs -> Labels] /\ req \in [Procs -> Requests \cup {NoRequest}]
    BY DEF TypeOK, HandlerTypes
  <2>2. AnswersTrue'
    BY <1>0, <1>12, <2>1 DEF Crash, Goto, AnswersTrue, BidsKept, Sold, Bought
  <2> QED
    BY <1>0, <1>12, <2>2 DEF Crash, RepliesTrue, BidsKept, Bought
<1>13. ASSUME NEW w \in Workers, ListDue(w) \/ EndOne(w) \/ EndFails(w)
       PROVE  AnswersTrue' /\ RepliesTrue'
  BY <1>0, <1>13, QuietStep DEF ListDue, EndOne, EndFails, handlers
<1>14. CASE StartDue \/ Cancel \/ LockExpire \/ Tick \/ Finished \/ UNCHANGED vars
  BY <1>0, <1>14, QuietStep DEF StartDue, Cancel, LockExpire, Tick, Finished, vars, handlers
<1> QED
  BY <1>1, <1>2, <1>3, <1>4, <1>5, <1>7, <1>8, <1>9, <1>10, <1>11, <1>12, <1>13, <1>14
     DEF Next, Step

\* No client is told of a bid that is not on record, through crashes, repeated
\* requests and answers kept for a key.
THEOREM AnswersAreTrue == Spec => []RepliesTrue
<1>1. Init => AnswersTrue /\ RepliesTrue
  BY DEF Init, AnswersTrue, RepliesTrue
<1>2. TypeOK /\ IdempotentOnce /\ AnswersTrue /\ RepliesTrue /\ [Next]_vars
        => AnswersTrue' /\ RepliesTrue'
  BY AnswerStep
<1> QED
  BY <1>1, <1>2, TypeCorrect, KeysBuyOnce, PTL DEF Spec

-----------------------------------------------------------------------------
(***************************************************************************)
(* The abstract auction.                                                   *)
(***************************************************************************)
LEMMA LeaderIffBids ==
  ASSUME TypeOK, PriceLadder
  PROVE  auction.leader = NoUser <=> auction.bidCount = 0
<1>1. OnRow(Len(bids))
  BY LadderParts
<1>2. PICK m \in Nat : m = Len(bids)
  BY DEF TypeOK, TableTypes
<1>3. CASE m = 0
  BY <1>1, <1>2, <1>3 DEF OnRow
<1>4. CASE m # 0
  <2>1. auction.bidCount = m /\ auction.leader = Bidder(bids[m].key)
    BY <1>1, <1>2, <1>4 DEF OnRow
  <2>2. bids[m] \in BidRows
    <3>1. bids \in Seq(BidRows)
      BY DEF TypeOK, TableTypes, BidRows
    <3> QED
      BY <1>2, <1>4, <3>1
  <2>3. Bidder(bids[m].key) \in Users
    BY <2>2, BidderType DEF BidRows
  <2> QED
    BY <1>4, <2>1, <2>3, BidderAssumption
<1> QED
  BY <1>3, <1>4

\* A committed bid is a bid of the abstract auction, or buys at the ceiling.
LEMMA CommitRefines ==
  ASSUME TypeOK, OrderIffSold, PriceLadder, LockedBidStands,
         NEW p \in Procs, Commits(p), UNCHANGED clock
  PROVE  \E user \in Users : Abstract!Bid(user) \/ Abstract!BuyAtCeiling(user)
<1> DEFINE n == req[p].amount
           u == Bidder(req[p].key)
<1>1. /\ n \in Nat /\ u \in Users /\ txNow[p] \in Int
      /\ auction.status = "active" /\ clock < auction.endTime
      /\ auction' = AcceptRow(auction, u, n, txNow[p])
  BY CommitFacts, BidderType
<1>2. /\ auction'.price = n /\ auction'.leader = u
      /\ auction'.status = IF CeilingHit(n) THEN "ended" ELSE auction.status
      /\ auction'.endTime = NewEndTime(auction, n, txNow[p])
  BY <1>1 DEF AcceptRow
<1>3. SqlAccepts(auction, n, clock)
  BY DEF Commits
<1>4. Abstract!Beats(n)
  BY <1>1, <1>3, LeaderIffBids, PriceAssumption DEF SqlAccepts, Abstract!Beats
<1>5. orders' = IF CeilingHit(n) THEN {[winner |-> u, price |-> n]} ELSE orders
  BY DEF Commits, CommitBid, Order
<1>6. CASE CeilingHit(n)
  <2>1. CeilingPrice # NoCeiling /\ n = CeilingPrice
    BY <1>1, <1>6, PriceAssumption DEF CeilingHit
  <2>2. Verdict(auction, n, txNow[p]) = "Ok"
    BY DEF LockedBidStands, Commits
  <2>3. ~(auction.endTime <= txNow[p])
    BY <1>1, <2>2 DEF Verdict
  <2>4. auction'.endTime < auction.endTime
    BY <1>1, <1>2, <1>6, <2>3 DEF NewEndTime, TypeOK, TableTypes, Rows
  <2>5. Abstract!BuyAtCeiling(u)
    BY <1>1, <1>2, <1>4, <1>5, <1>6, <2>1, <2>4 DEF Abstract!BuyAtCeiling
  <2> QED
    BY <1>1, <2>5
<1>7. CASE ~CeilingHit(n)
  <2>1. CeilingPrice # NoCeiling => n < CeilingPrice
    BY <1>1, <1>3, <1>7, PriceAssumption DEF CeilingHit, SqlAccepts, OverCeiling
  <2>2. auction'.endTime \in {auction.endTime, auction.endTime + ExtendSeconds}
    BY <1>2, <1>7 DEF NewEndTime
  <2>3. Abstract!Bid(u)
    BY <1>1, <1>2, <1>4, <1>5, <1>7, <2>1, <2>2 DEF Abstract!Bid
  <2> QED
    BY <1>1, <2>3
<1> QED
  BY <1>6, <1>7

\* Every step is a step of the abstract auction or leaves it as it is.
LEMMA StepRefines ==
  ASSUME TypeOK, OrderIffSold, PriceLadder, LockedBidStands, [Next]_vars
  PROVE  [Abstract!Next]_(Abstract!vars)
<1>1. CASE UNCHANGED tables /\ clock' = clock
  BY <1>1 DEF tables, Abstract!vars
<1>2. CASE UNCHANGED tables /\ clock' = clock + 1
  BY <1>2 DEF tables, Abstract!Next, Abstract!Tick
<1>3. ASSUME UNCHANGED clock, NEW p \in Procs, Commits(p)
      PROVE  Abstract!Next
  BY <1>3, CommitRefines DEF Abstract!Next
<1>4. CASE UNCHANGED clock /\ Starts
  <2>1. /\ auction'.status = "active" /\ auction'.price = auction.price
        /\ auction'.leader = auction.leader /\ auction'.endTime = auction.endTime
    BY <1>4 DEF Starts, Transition, TypeOK, TableTypes, Rows
  <2> QED
    BY <1>4, <2>1 DEF Starts, Abstract!Next, Abstract!Start
<1>5. CASE UNCHANGED clock /\ Ends
  <2>1. /\ auction'.status = "ended" /\ auction'.price = auction.price
        /\ auction'.leader = auction.leader /\ auction'.endTime = auction.endTime
    BY <1>5 DEF Ends, Transition, TypeOK, TableTypes, Rows
  <2>2. orders = {}
    BY <1>5 DEF Ends, OrderIffSold
  <2>3. orders' = IF auction.leader = NoUser THEN {}
                  ELSE {[winner |-> auction.leader, price |-> auction.price]}
    BY <1>5, <2>2 DEF Ends, EnsureOrder, Order
  <2> QED
    BY <1>5, <2>1, <2>3 DEF Ends, Abstract!Next, Abstract!Close
<1>6. CASE UNCHANGED clock /\ Cancels
  <2>1. /\ auction'.status = "cancelled" /\ auction'.price = auction.price
        /\ auction'.leader = auction.leader /\ auction'.endTime = auction.endTime
    BY <1>6 DEF Cancels, Transition, TypeOK, TableTypes, Rows
  <2> QED
    BY <1>6, <2>1 DEF Cancels, Abstract!Next, Abstract!Cancel
<1> QED
  BY <1>1, <1>2, <1>3, <1>4, <1>5, <1>6, NextTables

\* Handlers, locks, retries, crashes and workers together are an auction with a
\* deadline that late bids push back and a ceiling that sells at once.
THEOREM Implements == Spec => ImplementsAuction
<1>1. Init => Abstract!Init
  BY DEF Init, Abstract!Init
<1>2. TypeOK /\ OrderIffSold /\ PriceLadder /\ LockedBidStands /\ [Next]_vars
        => [Abstract!Next]_(Abstract!vars)
  BY StepRefines
<1> QED
  BY <1>1, <1>2, TypeCorrect, OneOrderPerSale, LadderHolds, ValidWhenWritten, PTL
     DEF Spec, ImplementsAuction, Abstract!Spec

-----------------------------------------------------------------------------
(***************************************************************************)
(* Bids and the events that announce them.                                 *)
(***************************************************************************)
LEMMA AnnouncedByCommit ==
  ASSUME TypeOK, SeqContiguous, BidsAnnounced, NEW p \in Procs, Commits(p)
  PROVE  BidsAnnounced'
<1> DEFINE e == BidEvents(auction, Bidder(req[p].key), req[p].amount, txNow[p])
           b == AcceptedBid(p)
<1>1. PICK m \in Nat : m = Len(bids)
  BY DEF TypeOK, TableTypes
<1>2. PICK v \in Nat : v = Len(outbox) /\ v = auction.version
  BY DEF SeqContiguous, TypeOK, TableTypes
<1>3. pc[p] # "idle" /\ outbox' = outbox \o e /\ outbox \in Seq(StoredEvents)
  BY DEF Commits, CommitBid, TypeOK, TableTypes
<1>4. PICK c \in 1..2 : c = EventCount(auction, req[p].amount, txNow[p])
  BY DEF EventCount
<1>5. /\ e \in Seq(StoredEvents) /\ Len(e) = c
      /\ e[1].type = "BidAccepted" /\ e[1].data = <<req[p].amount, Bidder(req[p].key)>>
      /\ c = 2 => e[2].type # "BidAccepted"
  BY <1>3, <1>4, BidEventsType
<1>6. b.key = req[p].key /\ b.amount = req[p].amount /\ b.seq = v + 1
  BY <1>2 DEF AcceptedBid
<1>7. /\ Len(bids') = m + 1 /\ bids'[m + 1] = b
      /\ \A i \in 1..m : bids'[i] = bids[i]
  BY <1>1, CommitFacts
<1> HIDE DEF e, b
<1>8. /\ Len(outbox') = v + c
      /\ \A n \in 1..v : outbox'[n] = outbox[n]
      /\ \A n \in 1..c : outbox'[v + n] = e[n]
  <2>1. /\ Len(outbox \o e) = Len(outbox) + Len(e)
        /\ \A n \in 1..Len(outbox) : (outbox \o e)[n] = outbox[n]
        /\ \A n \in 1..Len(e) : (outbox \o e)[Len(outbox) + n] = e[n]
    BY <1>3, <1>5, EventsAppended
  <2> QED
    BY <1>2, <1>3, <1>5, <2>1
<1>9. outbox'[v + 1] = e[1] /\ (c = 2 => outbox'[v + 2] = e[2])
  BY <1>8
<1>10. ASSUME NEW i \in 1..Len(bids')
       PROVE  /\ bids'[i].seq \in 1..Len(outbox')
              /\ outbox'[bids'[i].seq].type = "BidAccepted"
              /\ outbox'[bids'[i].seq].data = <<bids'[i].amount, Bidder(bids'[i].key)>>
  <2>1. CASE i \in 1..m
    <3>1. /\ bids[i].seq \in 1..v /\ outbox[bids[i].seq].type = "BidAccepted"
          /\ outbox[bids[i].seq].data = <<bids[i].amount, Bidder(bids[i].key)>>
      BY <1>1, <1>2, <2>1 DEF BidsAnnounced
    <3>2. outbox'[bids[i].seq] = outbox[bids[i].seq] /\ bids'[i] = bids[i]
      BY <1>7, <1>8, <2>1, <3>1
    <3> QED
      BY <1>4, <1>8, <3>1, <3>2
  <2>2. CASE i = m + 1
    BY <1>5, <1>6, <1>7, <1>8, <1>9, <2>2
  <2> QED
    BY <1>7, <2>1, <2>2
<1>11. ASSUME NEW n \in 1..Len(outbox'), outbox'[n].type = "BidAccepted"
       PROVE  \E i \in 1..Len(bids') : bids'[i].seq = n
  <2>1. CASE n \in 1..v
    <3>1. PICK i \in 1..m : bids[i].seq = n
      BY <1>1, <1>2, <1>8, <1>11, <2>1 DEF BidsAnnounced
    <3> QED
      BY <1>7, <3>1
  <2>2. CASE n = v + 1
    BY <1>6, <1>7, <2>2
  <2>3. CASE c = 2 /\ n = v + 2
    BY <1>5, <1>9, <1>11, <2>3
  <2> QED
    BY <1>8, <2>1, <2>2, <2>3
<1>12. ASSUME NEW i \in 1..Len(bids'), NEW j \in 1..Len(bids'), i < j
       PROVE  bids'[i].seq < bids'[j].seq
  <2>1. i \in 1..m /\ bids'[i].seq = bids[i].seq /\ bids[i].seq \in 1..v
    BY <1>1, <1>2, <1>7, <1>12 DEF BidsAnnounced
  <2>2. CASE j \in 1..m
    BY <1>1, <1>7, <1>12, <2>1, <2>2 DEF BidsAnnounced
  <2>3. CASE j = m + 1
    BY <1>6, <1>7, <2>1, <2>3
  <2> QED
    BY <1>7, <2>2, <2>3
<1> QED
  BY <1>10, <1>11, <1>12 DEF BidsAnnounced

LEMMA AnnouncedByTransition ==
  ASSUME TypeOK, BidsAnnounced, UNCHANGED bids, NEW status, NEW type, NEW data,
         type # "BidAccepted", Transition(status, type, data)
  PROVE  BidsAnnounced'
<1> DEFINE e == Event(auction.version + 1, type, data)
<1>1. PICK v \in Nat : v = Len(outbox)
  BY DEF TypeOK, TableTypes
<1>2. e.type = type /\ outbox' = Append(outbox, e) /\ outbox \in Seq(StoredEvents)
  BY DEF Transition, Event, TypeOK, TableTypes
<1> HIDE DEF e
<1>3. /\ Len(outbox') = v + 1 /\ outbox'[v + 1] = e
      /\ \A n \in 1..v : outbox'[n] = outbox[n]
  BY <1>1, <1>2
<1>4. \A n \in 1..Len(outbox') : n \in 1..v \/ n = v + 1
  BY <1>3
<1> QED
  BY <1>1, <1>2, <1>3, <1>4 DEF BidsAnnounced

LEMMA AnnouncedStep ==
  ASSUME TypeOK, SeqContiguous, BidsAnnounced, [Next]_vars
  PROVE  BidsAnnounced'
<1>1. CASE UNCHANGED tables
  BY <1>1 DEF tables, BidsAnnounced
<1>2. ASSUME NEW p \in Procs, Commits(p) PROVE BidsAnnounced'
  BY <1>2, AnnouncedByCommit
<1>3. CASE Starts \/ Ends \/ Cancels
  BY <1>3, AnnouncedByTransition DEF Starts, Ends, Cancels
<1> QED
  BY <1>1, <1>2, <1>3, NextTables

\* Every accepted bid has its announcement and no other, in the bids' order.
THEOREM BidsAreAnnounced == Spec => []BidsAnnounced
<1>1. Init => BidsAnnounced
  BY DEF Init, BidsAnnounced
<1>2. TypeOK /\ SeqContiguous /\ BidsAnnounced /\ [Next]_vars => BidsAnnounced'
  BY AnnouncedStep
<1> QED
  BY <1>1, <1>2, TypeCorrect, EventsContiguous, PTL DEF Spec

-----------------------------------------------------------------------------
(***************************************************************************)
(* The story an auction's events tell: its start first, its end last.  To  *)
(* be inductive the invariant ties the log to the status: a pending        *)
(* auction has no event, an active one has some and none of an end.        *)
(***************************************************************************)
Ending == {"AuctionEnded", "AuctionCancelled"}
Last(status) == IF status = "ended" THEN "AuctionEnded" ELSE "AuctionCancelled"

Story ==
  /\ auction.status = "pending" => Len(outbox) = 0
  /\ auction.status = "active" => Len(outbox) > 0
  /\ auction.status \in Terminal => Len(outbox) > 0 /\ outbox[Len(outbox)].type = Last(auction.status)
  /\ \A i \in 1..Len(outbox) :
       outbox[i].type \in Ending => i = Len(outbox) /\ auction.status \in Terminal
  /\ StartedIsFirst

LEMMA StoryByCommit ==
  ASSUME TypeOK, Story, NEW p \in Procs, Commits(p)
  PROVE  Story'
<1> DEFINE e == BidEvents(auction, Bidder(req[p].key), req[p].amount, txNow[p])
<1>1. PICK v \in Nat : v = Len(outbox)
  BY DEF TypeOK, TableTypes
<1>2. pc[p] # "idle" /\ outbox' = outbox \o e /\ outbox \in Seq(StoredEvents)
  BY DEF Commits, CommitBid, TypeOK, TableTypes
<1>3. PICK c \in 1..2 : c = EventCount(auction, req[p].amount, txNow[p])
  BY DEF EventCount
<1>4. /\ e \in Seq(StoredEvents) /\ Len(e) = c /\ e[1].type = "BidAccepted"
      /\ c = 2 => e[2].type = IF CeilingHit(req[p].amount) THEN "AuctionEnded" ELSE "AuctionExtended"
  BY <1>2, <1>3, BidEventsType
<1>5. CeilingHit(req[p].amount) => c = 2
  BY <1>3 DEF EventCount
<1>6. /\ auction.status = "active"
      /\ auction'.status = IF CeilingHit(req[p].amount) THEN "ended" ELSE "active"
  BY DEF Commits, CommitBid, SqlAccepts, AcceptRow
<1> HIDE DEF e
<1>7. /\ Len(outbox') = v + c
      /\ \A n \in 1..v : outbox'[n] = outbox[n]
      /\ outbox'[v + 1] = e[1] /\ (c = 2 => outbox'[v + 2] = e[2])
  <2>1. /\ Len(outbox \o e) = Len(outbox) + Len(e)
        /\ \A n \in 1..Len(outbox) : (outbox \o e)[n] = outbox[n]
        /\ \A n \in 1..Len(e) : (outbox \o e)[Len(outbox) + n] = e[n]
    BY <1>2, <1>4, EventsAppended
  <2> QED
    BY <1>1, <1>2, <1>3, <1>4, <2>1
<1>8. /\ v > 0 /\ 1 \in 1..v
      /\ \A n \in 1..v : /\ outbox[n].type \notin Ending
                         /\ outbox[n].type = "AuctionStarted" => n = 1
                         /\ n = 1 => outbox[n].type \in {"AuctionStarted", "AuctionCancelled"}
  BY <1>1, <1>6 DEF Story, StartedIsFirst, Terminal
<1>9. \A n \in 1..Len(outbox') : n \in 1..v \/ n = v + 1 \/ (c = 2 /\ n = v + 2)
  BY <1>7
<1>10. ASSUME NEW n \in 1..Len(outbox'), outbox'[n].type \in Ending
       PROVE  n = Len(outbox') /\ auction'.status \in Terminal
  BY <1>4, <1>6, <1>7, <1>8, <1>9, <1>10 DEF Ending, Terminal
<1>11. StartedIsFirst'
  BY <1>4, <1>7, <1>8, <1>9 DEF StartedIsFirst
<1>12. auction'.status \in Terminal => outbox'[Len(outbox')].type = Last(auction'.status)
  BY <1>4, <1>5, <1>6, <1>7 DEF Last, Terminal
<1>13. Len(outbox') > 0 /\ auction'.status # "pending"
  BY <1>6, <1>7
<1> QED
  BY <1>10, <1>11, <1>12, <1>13 DEF Story

LEMMA StoryByTransition ==
  ASSUME TypeOK, Story, NEW status, NEW type, NEW data, Transition(status, type, data),
         \/ auction.status = "pending" /\ status = "active" /\ type = "AuctionStarted"
         \/ auction.status = "active" /\ status = "ended" /\ type = "AuctionEnded"
         \/ /\ auction.status \in {"pending", "active"}
            /\ status = "cancelled" /\ type = "AuctionCancelled"
  PROVE  Story'
<1> DEFINE e == Event(auction.version + 1, type, data)
<1>1. PICK v \in Nat : v = Len(outbox)
  BY DEF TypeOK, TableTypes
<1>2. e.type = type /\ outbox' = Append(outbox, e) /\ outbox \in Seq(StoredEvents)
  BY DEF Transition, Event, TypeOK, TableTypes
<1>3. auction'.status = status
  BY DEF Transition, TypeOK, TableTypes, Rows
<1> HIDE DEF e
<1>4. /\ Len(outbox') = v + 1 /\ outbox'[v + 1].type = type
      /\ \A n \in 1..v : outbox'[n] = outbox[n]
  BY <1>1, <1>2
<1>5. \A n \in 1..Len(outbox') : n \in 1..v \/ n = v + 1
  BY <1>4
<1>6. /\ \A n \in 1..v : /\ outbox[n].type \notin Ending
                         /\ outbox[n].type = "AuctionStarted" => n = 1
                         /\ n = 1 => outbox[n].type \in {"AuctionStarted", "AuctionCancelled"}
      /\ auction.status = "pending" <=> v = 0
  BY <1>1 DEF Story, StartedIsFirst, Terminal
<1>7. ASSUME NEW n \in 1..Len(outbox'), outbox'[n].type \in Ending
      PROVE  n = Len(outbox') /\ auction'.status \in Terminal
  BY <1>3, <1>4, <1>5, <1>6, <1>7 DEF Ending, Terminal
<1>8. StartedIsFirst'
  BY <1>3, <1>4, <1>5, <1>6 DEF StartedIsFirst
<1> QED
  BY <1>3, <1>4, <1>7, <1>8 DEF Story, Last, Terminal

LEMMA StoryStep ==
  ASSUME TypeOK, Story, [Next]_vars
  PROVE  Story'
<1>1. CASE UNCHANGED tables
  BY <1>1 DEF tables, Story, StartedIsFirst
<1>2. ASSUME NEW p \in Procs, Commits(p) PROVE Story'
  BY <1>2, StoryByCommit
<1>3. CASE Starts \/ Ends \/ Cancels
  BY <1>3, StoryByTransition DEF Starts, Ends, Cancels
<1> QED
  BY <1>1, <1>2, <1>3, NextTables

\* The events of an auction begin with its start and stop with its end or its
\* cancellation, which is what the row says: what the clients' rooms rely on.
THEOREM StoryEnds == Spec => [](TerminalIsLast /\ StartedIsFirst)
<1>1. Init => Story
  BY DEF Init, Story, StartedIsFirst, Terminal
<1>2. TypeOK /\ Story /\ [Next]_vars => Story'
  BY StoryStep
<1>3. TypeOK /\ Story => TerminalIsLast /\ StartedIsFirst
  BY DEF Story, TerminalIsLast, Ending, Last, Terminal, TypeOK, TableTypes
<1> QED
  BY <1>1, <1>2, <1>3, TypeCorrect, PTL DEF Spec
=============================================================================
