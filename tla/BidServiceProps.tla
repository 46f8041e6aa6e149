-------------------------- MODULE BidServiceProps --------------------------
(***************************************************************************)
(* What must be true of BidService: its invariants, action properties,     *)
(* liveness, and the abstract auction it implements.                       *)
(***************************************************************************)
EXTENDS BidService

Labels == {"idle", "read", "check", "acquire", "claim", "claimed", "locked", "release"}
Terminal == {"ended", "cancelled"}
StoredEvents == [seq: Nat,
                 type: {"AuctionStarted", "BidAccepted", "AuctionExtended",
                        "AuctionEnded", "AuctionCancelled"},
                 data: Seq(Int \cup Users \cup {NoUser})]

Rows == [status: {"pending", "active"} \cup Terminal, price: Nat,
         leader: Users \cup {NoUser}, bidCount: Nat, endTime: Int, version: Nat]
Requests == [key: Keys, amount: Amounts, id: RequestIds]

\* The tables, and what the handlers and workers keep, hold values of their
\* types; a handler at work has a request.
TableTypes ==
  /\ auction \in Rows
  /\ bids \in Seq([key: Keys, amount: Amounts, seq: Nat, seen: Int, at: Nat])
  /\ orders \subseteq [winner: Users, price: Nat]
  /\ idem \in [Keys -> {NoRecord} \cup [amount: Amounts, bid: Nat]]
  /\ outbox \in Seq(StoredEvents)
HandlerTypes ==
  /\ clock \in Nat /\ arrived \in Nat
  /\ lock \in RequestIds \cup {NoLock}
  /\ pc \in [Procs -> Labels]
  /\ req \in [Procs -> Requests \cup {NoRequest}]
  /\ \A p \in Procs : pc[p] # "idle" => req[p] \in Requests
  /\ txNow \in [Procs -> Int]
  /\ due \subseteq Workers
TypeOK == TableTypes /\ HandlerTypes

\* The events of an auction are numbered 1, 2, 3, ... in the order of their
\* insertion and its version is the last number: no number is skipped, used
\* twice or written late, however bids, workers and the seller interleave.
SeqContiguous ==
  /\ auction.version = Len(outbox)
  /\ \A i \in 1..Len(outbox) : outbox[i].seq = i

\* An end or a cancellation is the last event and says what the row says;
\* nothing happens to an auction after it.
TerminalIsLast ==
  /\ \A i \in 1..Len(outbox) :
       outbox[i].type \in {"AuctionEnded", "AuctionCancelled"} => i = Len(outbox)
  /\ auction.status \in Terminal =>
       /\ outbox # <<>>
       /\ outbox[Len(outbox)].type =
            IF auction.status = "ended" THEN "AuctionEnded" ELSE "AuctionCancelled"

\* The log begins with the start, unless the auction was cancelled before it, and
\* there is no other start.
StartedIsFirst ==
  \A i \in 1..Len(outbox) :
    /\ outbox[i].type = "AuctionStarted" => i = 1
    /\ i = 1 => outbox[i].type \in {"AuctionStarted", "AuctionCancelled"}

\* Each accepted bid is announced by exactly one BidAccepted event, with its
\* amount and its bidder, and no other bid is announced.
BidsAnnounced ==
  /\ \A i \in 1..Len(bids) :
       /\ bids[i].seq \in 1..Len(outbox)
       /\ outbox[bids[i].seq].type = "BidAccepted"
       /\ outbox[bids[i].seq].data = <<bids[i].amount, Bidder(bids[i].key)>>
  /\ \A n \in 1..Len(outbox) : outbox[n].type = "BidAccepted" =>
       \E i \in 1..Len(bids) : bids[i].seq = n
  /\ \A i, j \in 1..Len(bids) : i < j => bids[i].seq < bids[j].seq

\* Accepted bids climb by at least the price step from the start price to the
\* ceiling; price, leader and bid_count are those of the last one.
PriceLadder ==
  LET n == Len(bids)
      First == IF StartPrice > 0 THEN StartPrice ELSE PriceStep
  IN  /\ \A i \in 1..n :
           /\ bids[i].amount >= IF i = 1 THEN First ELSE bids[i - 1].amount + PriceStep
           /\ CeilingPrice # NoCeiling => bids[i].amount <= CeilingPrice
      /\ auction.bidCount = n
      /\ IF n = 0
         THEN auction.price = StartPrice /\ auction.leader = NoUser
         ELSE auction.price = bids[n].amount /\ auction.leader = Bidder(bids[n].key)

\* There is an order exactly when the auction ended with a leader, and it is
\* the leader's at the final price, whether a ceiling bid or a worker ended it
\* and however many workers tried.
OrderIffSold ==
  orders = IF auction.status = "ended" /\ auction.leader # NoUser
           THEN {[winner |-> auction.leader, price |-> auction.price]} ELSE {}

\* A key buys at most one bid, and its stored record names that bid: clicking
\* twice, retrying after a timeout or losing the Redis lock accepts no second.
IdempotentOnce ==
  /\ \A i, j \in 1..Len(bids) : bids[i].key = bids[j].key => i = j
  /\ \A k \in Keys : idem[k] # NoRecord =>
       /\ idem[k].bid \in 1..Len(bids)
       /\ bids[idem[k].bid].key = k /\ bids[idem[k].bid].amount = idem[k].amount
  /\ \A i \in 1..Len(bids) : idem[bids[i].key] # NoRecord

\* What a client was told is so: an "Ok" names a bid that is on record with
\* the client's key and amount, after any crash.
RepliesTrue ==
  \A r \in replies : r.code = "Ok" =>
    /\ r.bid \in 1..Len(bids)
    /\ bids[r.bid].key = r.key /\ bids[r.bid].amount = r.amount

\* Unless the ceiling sold it, everybody has more than the smaller of the
\* threshold and the extension, from the server time a bid was answered with,
\* to answer that bid: the promise of the sudden-death extension.
ResponseWindow ==
  LET window == IF ExtendSeconds < ExtendThreshold THEN ExtendSeconds ELSE ExtendThreshold
  IN  auction.price # CeilingPrice \/ bids = <<>> =>
        \A i \in 1..Len(bids) : auction.endTime - bids[i].seen > window

\* Unless the ceiling sold it, every bid was stored before the end that was
\* finally in force, by the database's clock.
NoLateBid ==
  auction.price # CeilingPrice \/ bids = <<>> =>
    \A i \in 1..Len(bids) : bids[i].at < auction.endTime

\* A handler that validated a bid under the row lock still finds the rules met
\* when it writes: only time can turn its update into a conflict.
LockedBidStands ==
  \A p \in Procs : pc[p] = "locked" =>
    Verdict(auction, req[p].amount, txNow[p]) = "Ok"

-----------------------------------------------------------------------------
\* The end of a running auction only moves away, until a ceiling bid sells it.
EndOnlyRecedes ==
  [][auction.status = "active" /\ auction'.status = "active"
       => auction'.endTime >= auction.endTime]_vars

\* contract-v2.md:336: "the same key with the same amount returns the first
\* result": no request is turned down once its key and amount were accepted.
DuplicateAnswered ==
  [][\A r \in replies' \ replies :
       (\E i \in 1..Len(bids) : bids[i].key = r.key /\ bids[i].amount = r.amount)
         => r.code \notin {"BidTooLow", "AuctionEnded"}]_vars

-----------------------------------------------------------------------------
\* Every auction is over some day, bids and failing workers notwithstanding.
EventuallyOver == <>(auction.status \in Terminal)

\* Every request is answered or its handler dies: handlers that wait for each
\* other's rows never wait for ever.
HandlersReturn == \A p \in Procs : pc[p] # "idle" ~> pc[p] = "idle"

-----------------------------------------------------------------------------
\* The auction the contract promises, seen in the row of table auctions.
Abstract == INSTANCE AuctionSpec WITH
  status <- auction.status, price <- auction.price, leader <- auction.leader,
  deadline <- auction.endTime, sale <- orders, FirstDeadline <- FirstEndTime

ImplementsAuction == Abstract!Spec
=============================================================================
