----------------------------- MODULE BidService -----------------------------
(***************************************************************************)
(* One auction of BidBlaze from creation to its end, as the Go server runs *)
(* it: several handlers of POST /api/auctions/:id/bids (internal/bid,      *)
(* service.go Place) interleaved statement by statement, the lifecycle     *)
(* workers (internal/worker) that start and end it, and the seller who     *)
(* cancels it (internal/auction, repository.go Cancel).                    *)
(*                                                                         *)
(* State: the MySQL tables, as far as this auction uses them, the Redis    *)
(* lock, and where each handler stands.  A transaction's row locks are not *)
(* variables: a handler holds the idempotency row of its key from Claim,   *)
(* and the auction row from LockAuction, to the end of its transaction, so *)
(* both follow from pc.  What a transaction writes is seen by nobody before it commits *)
(* and it writes after its last read, so its writes and its commit are one *)
(* action.                                                                 *)
(***************************************************************************)
EXTENDS AuctionRules, Sequences, FiniteSets

CONSTANTS
  Users,        \* bidders
  NoUser,       \* NULL in current_leader_id
  KeyIds,       \* values of the Idempotency-Key header
  Amounts,      \* amounts a client may ask for
  RequestIds,   \* values of X-Request-Id: clients choose them, they may repeat
  NoLock,
  NoRecord,
  Procs,        \* handlers, of any number of server instances
  Workers,      \* lifecycle runners, one per server instance
  StartTime,    \* start_time
  FirstEndTime, \* end_time at creation
  Skew,         \* how far an instance's clock may be off the database's
  MaxClock,     \* bound: the last instant of a behaviour
  MaxRequests   \* bound: how many requests arrive

ASSUME BidderAssumption ==
  /\ NoUser \notin Users
  /\ Amounts \subseteq 1..MaxInt64
  /\ NoLock \notin RequestIds
  /\ NoRecord \notin [amount : Amounts, bid : Nat]

ASSUME ClockAssumption ==
  /\ StartTime \in Nat /\ FirstEndTime \in Nat /\ StartTime < FirstEndTime
  /\ Skew \in Nat /\ MaxClock \in Nat /\ MaxRequests \in Nat

\* The unique key of idempotency_keys and of bids: a header value counts per
\* user, so a key names its bidder.
Keys == Users \X KeyIds
Bidder(k) == k[1]

VARIABLES
  auction,   \* the row of table auctions
  bids,      \* table bids in the order of insertion
  orders,    \* table orders
  idem,      \* table idempotency_keys; a committed row is always 'succeeded'
  outbox,    \* table event_outbox in the order of insertion
  clock,     \* the database's clock
  lock,      \* Redis: the value of bid_lock:<id>, or NoLock
  pc,        \* where each handler stands in Place
  req,       \* the request a handler serves
  txNow,     \* the clock reading of a handler's transaction
  ans,       \* the answer a handler is about to give
  due,       \* the workers with this auction in their list of due auctions
  arrived,   \* how many requests have arrived
  replies    \* history: the answers that judged a bid and reached a client

tables == <<auction, bids, orders, idem, outbox>>
handlers == <<pc, req, txNow, ans>>
vars == <<tables, clock, lock, handlers, due, arrived, replies>>

-----------------------------------------------------------------------------
\* An event as buildEvents and the worker's payloads write it.
Event(seq, type, data) == [seq |-> seq, type |-> type, data |-> data]

Answer(code, bid) == [code |-> code, bid |-> bid]
NoAnswer == Answer("none", 0)
Refusal(code) == Answer(code, 0)

NoRequest == [key |-> NoRecord, amount |-> 0, id |-> NoLock]

\* Wrong: LockAuction reads without FOR UPDATE.
WrongRowHeld == FALSE

KeyHeld(k) == \E p \in Procs : pc[p] \in {"claimed", "locked"} /\ req[p].key = k
RowHeld == \E p \in Procs : pc[p] = "locked"

\* The clocks of the instances.
AppClock == (clock - Skew)..(clock + Skew)

Goto(p, label) == pc' = [pc EXCEPT ![p] = label]

\* The answers that say what became of the bid; the others say: try again.
Judgements == {"Ok", "BidTooLow", "BidOverCeiling", "AuctionEnded"}

\* The handler returns and the client receives its answer.
Reply(p, answer) ==
  /\ pc' = [pc EXCEPT ![p] = "idle"]
  /\ req' = [req EXCEPT ![p] = NoRequest]
  /\ txNow' = [txNow EXCEPT ![p] = 0]
  /\ ans' = [ans EXCEPT ![p] = NoAnswer]
  /\ replies' = IF answer.code \notin Judgements THEN replies
                ELSE replies \cup {[key |-> req[p].key, amount |-> req[p].amount,
                                    code |-> answer.code, bid |-> answer.bid]}

\* The transaction is over with this answer; the deferred Release comes next.
Finish(p, answer) ==
  /\ Goto(p, "release")
  /\ ans' = [ans EXCEPT ![p] = answer]
  /\ txNow' = [txNow EXCEPT ![p] = 0]
  /\ UNCHANGED req

Init ==
  /\ auction = [status |-> "pending", price |-> StartPrice, leader |-> NoUser,
                bidCount |-> 0, endTime |-> FirstEndTime, version |-> 0]
  /\ bids = <<>> /\ orders = {} /\ outbox = <<>>
  /\ idem = [k \in Keys |-> NoRecord]
  /\ clock = 0 /\ lock = NoLock
  /\ pc = [p \in Procs |-> "idle"]
  /\ req = [p \in Procs |-> NoRequest]
  /\ txNow = [p \in Procs |-> 0]
  /\ ans = [p \in Procs |-> NoAnswer]
  /\ due = {} /\ arrived = 0 /\ replies = {}

-----------------------------------------------------------------------------
(* Place, step by step.                                                     *)

\* A request reaches a handler; MaxRequests bounds how many do.
Receive(p) ==
  /\ pc[p] = "idle"
  /\ arrived < MaxRequests
  /\ \E k \in Keys, amount \in Amounts, id \in RequestIds :
       req' = [req EXCEPT ![p] = [key |-> k, amount |-> amount, id |-> id]]
  /\ Goto(p, "read")
  /\ arrived' = arrived + 1
  /\ UNCHANGED <<tables, clock, lock, txNow, ans, due, replies>>

\* The stored answer of a key, or the conflict of a key used with two amounts.
StoredAnswer(p) ==
  LET record == idem[req[p].key]
  IN  IF record.amount # req[p].amount THEN Refusal("IdempotencyConflict")
      ELSE Answer("Ok", record.bid)

\* readIdempotency: a committed record answers the request.
ReadIdempotency(p) ==
  /\ pc[p] = "read"
  /\ IF idem[req[p].key] # NoRecord
     THEN Reply(p, StoredAnswer(p))
     ELSE Goto(p, "check") /\ UNCHANGED <<req, txNow, ans, replies>>
  /\ UNCHANGED <<tables, clock, lock, due, arrived>>

\* GetAuction and the fast validateAuction, on a row nobody has locked.
Precheck(p) ==
  /\ pc[p] = "check"
  /\ \E now \in AppClock :
       LET verdict == Verdict(auction, req[p].amount, now)
       IN  IF verdict = "Ok"
           THEN Goto(p, "acquire") /\ UNCHANGED <<req, txNow, ans, replies>>
           ELSE Reply(p, Refusal(verdict))
  /\ UNCHANGED <<tables, clock, lock, due, arrived>>

\* SETNX bid_lock:<id>: taken, refused, or failed.  A failed call may have
\* reached Redis, and Place returns before it defers the Release.
Acquire(p) ==
  /\ pc[p] = "acquire"
  /\ \/ /\ lock = NoLock
        /\ lock' = req[p].id
        /\ Goto(p, "claim")
        /\ UNCHANGED <<req, txNow, ans, replies>>
     \/ /\ lock # NoLock
        /\ Reply(p, Refusal("BidConflict"))
        /\ UNCHANGED lock
     \/ /\ Reply(p, Refusal("SystemProtect"))
        /\ \/ UNCHANGED lock
           \/ lock = NoLock /\ lock' = req[p].id
  /\ UNCHANGED <<tables, clock, due, arrived>>

\* ClaimIdempotency waits for the key's row, then locks or inserts it.
Claim(p) ==
  /\ pc[p] = "claim"
  /\ ~KeyHeld(req[p].key)
  /\ IF idem[req[p].key] # NoRecord
     THEN Finish(p, StoredAnswer(p))
     ELSE Goto(p, "claimed") /\ UNCHANGED <<req, txNow, ans>>
  /\ UNCHANGED <<tables, clock, lock, due, arrived, replies>>

\* LockAuction waits for the auction's row; the rules are checked again.
LockAuction(p) ==
  /\ pc[p] = "claimed"
  /\ ~RowHeld
  /\ \E now \in AppClock :
       LET verdict == Verdict(auction, req[p].amount, now)
       IN  IF verdict = "Ok"
           THEN /\ Goto(p, "locked")
                /\ txNow' = [txNow EXCEPT ![p] = now]
                /\ UNCHANGED <<req, ans>>
           ELSE Finish(p, Refusal(verdict))
  /\ UNCHANGED <<tables, clock, lock, due, arrived, replies>>

\* Wrong: a ceiling bid announces the end only.
WrongBidEvents(a, user, amount, now) ==
  IF CeilingHit(amount)
  THEN <<Event(a.version + 1, "AuctionEnded", <<amount, user>>),
         Event(a.version + 2, "AuctionEnded", <<amount, user>>)>>
  ELSE <<Event(a.version + 1, "BidAccepted", <<amount, user>>)>> \o
       IF ShouldExtend(a, now)
       THEN <<Event(a.version + 2, "AuctionExtended", <<NewEndTime(a, amount, now)>>)>>
       ELSE <<>>

\* buildEvents: the accepted bid, then the extension or the end it caused.
BidEvents(a, user, amount, now) ==
  LET seq == a.version + 1
      accepted == Event(seq, "BidAccepted", <<amount, user>>)
  IN  IF CeilingHit(amount)
      THEN <<accepted, Event(seq + 1, "AuctionEnded", <<amount, user>>)>>
      ELSE IF ShouldExtend(a, now)
      THEN <<accepted, Event(seq + 1, "AuctionExtended", <<NewEndTime(a, amount, now)>>)>>
      ELSE <<accepted>>

\* InsertAcceptedBid, with the number of the bid's event and the clock readings
\* it was judged and stored at.
AcceptedBid(p) ==
  [key |-> req[p].key, amount |-> req[p].amount, seq |-> auction.version + 1,
   seen |-> txNow[p], at |-> clock]

\* InsertOrder, and FinalizeIdempotency.
Order(winner, price) == [winner |-> winner, price |-> price]
Record(amount, bid) == [amount |-> amount, bid |-> bid]

\* Wrong: the transaction forgets FinalizeIdempotency.
WrongCommitBid(p) ==
  LET k == req[p].key
      amount == req[p].amount
  IN  /\ auction' = AcceptRow(auction, Bidder(k), amount, txNow[p])
      /\ bids' = Append(bids, AcceptedBid(p))
      /\ orders' = IF CeilingHit(amount) THEN {Order(Bidder(k), amount)} ELSE orders
      /\ outbox' = outbox \o BidEvents(auction, Bidder(k), amount, txNow[p])
      /\ UNCHANGED idem

\* Everything the transaction writes.  A second bid with the key fails on
\* uk_bids_idempotency, a second order for the auction on uk_orders_auction.
CommitBid(p) ==
  LET k == req[p].key
      amount == req[p].amount
  IN  /\ \A i \in 1..Len(bids) : bids[i].key # k
      /\ CeilingHit(amount) => orders = {}
      /\ auction' = AcceptRow(auction, Bidder(k), amount, txNow[p])
      /\ bids' = Append(bids, AcceptedBid(p))
      /\ orders' = IF CeilingHit(amount) THEN {Order(Bidder(k), amount)} ELSE orders
      /\ idem' = [idem EXCEPT ![k] = Record(amount, Len(bids) + 1)]
      /\ outbox' = outbox \o BidEvents(auction, Bidder(k), amount, txNow[p])

\* Wrong: zero affected rows are taken for success.
WrongAccept(p) ==
  /\ pc[p] = "locked"
  /\ IF SqlAccepts(auction, req[p].amount, clock) THEN CommitBid(p) ELSE UNCHANGED tables
  /\ Finish(p, Answer("Ok", Len(bids) + 1))
  /\ UNCHANGED <<clock, lock, due, arrived, replies>>

\* ConditionalAccept to COMMIT.  Zero rows roll back as a conflict, a sum out
\* of range as an internal error; a commit may succeed and still be reported
\* as failed to the handler.
Accept(p) ==
  /\ pc[p] = "locked"
  /\ \/ /\ SqlAccepts(auction, req[p].amount, clock)
        /\ CommitBid(p)
        /\ \/ Finish(p, Answer("Ok", Len(bids) + 1))
           \/ Finish(p, Refusal("Internal"))
     \/ /\ ~SqlAccepts(auction, req[p].amount, clock)
        /\ Finish(p, Refusal(IF auction.price + PriceStep > MaxInt64
                             THEN "Internal" ELSE "BidConflict"))
        /\ UNCHANGED tables
  /\ UNCHANGED <<clock, lock, due, arrived, replies>>

\* One of the reads before the transaction fails.
ReadFails(p) ==
  /\ pc[p] \in {"read", "check"}
  /\ Reply(p, Refusal("Internal"))
  /\ UNCHANGED <<tables, clock, lock, due, arrived>>

\* A statement fails (lock wait timeout, deadlock, lost connection): rollback.
Rollback(p) ==
  /\ pc[p] \in {"claim", "claimed", "locked"}
  /\ Finish(p, Refusal("Internal"))
  /\ UNCHANGED <<tables, clock, lock, due, arrived, replies>>

\* Wrong: a release that finds another value waits for its own.
WrongRelease(p) ==
  /\ pc[p] = "release"
  /\ lock = req[p].id /\ lock' = NoLock
  /\ Reply(p, ans[p])
  /\ UNCHANGED <<tables, clock, due, arrived>>

\* The deferred Release deletes the lock where its value is the request's id;
\* its error is ignored.
Release(p) ==
  /\ pc[p] = "release"
  /\ \/ lock = req[p].id /\ lock' = NoLock
     \/ UNCHANGED lock
  /\ Reply(p, ans[p])
  /\ UNCHANGED <<tables, clock, due, arrived>>

\* The process dies, or the client is gone before the answer: MySQL rolls an
\* open transaction back, Redis keeps the lock.
Crash(p) ==
  /\ pc[p] # "idle"
  /\ Goto(p, "idle")
  /\ req' = [req EXCEPT ![p] = NoRequest]
  /\ txNow' = [txNow EXCEPT ![p] = 0]
  /\ ans' = [ans EXCEPT ![p] = NoAnswer]
  /\ UNCHANGED <<tables, clock, lock, due, arrived, replies>>

\* The lock's time to live runs out, whoever holds it and whatever it does.
LockExpire ==
  /\ lock # NoLock
  /\ lock' = NoLock
  /\ UNCHANGED <<tables, clock, handlers, due, arrived, replies>>

-----------------------------------------------------------------------------
(* The lifecycle workers and the seller.  Each is one transaction that locks *)
(* the row first, so it is one action, possible while no handler holds it.   *)

\* The row after a transition that writes one event.
Transition(status, type, data) ==
  /\ auction' = [auction EXCEPT !.status = status, !.version = @ + 1]
  /\ outbox' = Append(outbox, Event(auction.version + 1, type, data))

\* StartDue: SKIP LOCKED passes over a row a handler holds.
StartDue ==
  /\ auction.status = "pending"
  /\ StartTime <= clock
  /\ ~RowHeld
  /\ Transition("active", "AuctionStarted", <<>>)
  /\ UNCHANGED <<bids, orders, idem, clock, lock, handlers, due, arrived, replies>>

\* ListDueEndIDs: an unlocked read.
ListDue(w) ==
  /\ w \notin due
  /\ auction.status = "active" /\ auction.endTime <= clock
  /\ due' = due \cup {w}
  /\ UNCHANGED <<tables, clock, lock, handlers, arrived, replies>>

\* ensureOrder: insert the order or keep the one there is, which must be the
\* same; otherwise the whole transaction fails.
EnsureOrder ==
  LET order == Order(auction.leader, auction.price)
  IN  IF auction.leader = NoUser THEN UNCHANGED orders
      ELSE orders \subseteq {order} /\ orders' = {order}

\* Wrong: EndOne ends only what has a leader.
WrongEndOneNoBids(w) ==
  /\ w \in due
  /\ ~RowHeld
  /\ due' = due \ {w}
  /\ IF auction.status = "active" /\ auction.endTime <= clock /\ auction.leader # NoUser
     THEN /\ EnsureOrder
          /\ Transition("ended", "AuctionEnded", <<auction.price, auction.leader>>)
          /\ UNCHANGED <<bids, idem>>
     ELSE UNCHANGED tables
  /\ UNCHANGED <<clock, lock, handlers, arrived, replies>>

\* EndOne for a worker whose list may be stale by now.
EndOne(w) ==
  /\ w \in due
  /\ ~RowHeld
  /\ due' = due \ {w}
  /\ IF auction.status = "active" /\ auction.endTime <= clock
     THEN /\ EnsureOrder
          /\ Transition("ended", "AuctionEnded", <<auction.price, auction.leader>>)
          /\ UNCHANGED <<bids, idem>>
     ELSE UNCHANGED tables
  /\ UNCHANGED <<clock, lock, handlers, arrived, replies>>

\* EndOne fails, or the worker dies with its list; the next cycle reads anew.
EndFails(w) ==
  /\ w \in due
  /\ due' = due \ {w}
  /\ UNCHANGED <<tables, clock, lock, handlers, arrived, replies>>

\* Cancel by the seller, of a pending or an active auction.
Cancel ==
  /\ auction.status \in {"pending", "active"}
  /\ ~RowHeld
  /\ Transition("cancelled", "AuctionCancelled", <<>>)
  /\ UNCHANGED <<bids, orders, idem, clock, lock, handlers, due, arrived, replies>>

Tick ==
  /\ clock < MaxClock
  /\ clock' = clock + 1
  /\ UNCHANGED <<tables, lock, handlers, due, arrived, replies>>

\* The bounds are reached and nothing is left to do.
Finished ==
  /\ auction.status \in {"ended", "cancelled"}
  /\ arrived = MaxRequests /\ \A p \in Procs : pc[p] = "idle"
  /\ UNCHANGED vars

\* The steps a handler takes until it has answered, while nothing fails.
Step(p) ==
  \/ ReadIdempotency(p) \/ Precheck(p) \/ Acquire(p) \/ Claim(p)
  \/ LockAuction(p) \/ Accept(p) \/ Release(p)

Next ==
  \/ \E p \in Procs : Receive(p) \/ Step(p) \/ ReadFails(p) \/ Rollback(p) \/ Crash(p)
  \/ \E w \in Workers : ListDue(w) \/ EndOne(w) \/ EndFails(w)
  \/ StartDue \/ Cancel \/ LockExpire \/ Tick \/ Finished

Spec == Init /\ [][Next]_vars

\* Handlers run until they return (no statement need time out), the clock runs, a runner polls for ever and
\* its database calls do not fail every time, and Redis expires keys.
Fairness ==
  /\ \A p \in Procs : WF_vars(Step(p))
  /\ \A w \in Workers : WF_vars(ListDue(w)) /\ SF_vars(EndOne(w))
  /\ WF_vars(StartDue) /\ WF_vars(LockExpire) /\ WF_vars(Tick)

FairSpec == Spec /\ Fairness
=============================================================================
