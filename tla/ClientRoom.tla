----------------------------- MODULE ClientRoom -----------------------------
(***************************************************************************)
(* What one mobile client shows of an auction: its store                   *)
(* (mobile-h5/src/store/auctionStore.ts), the handler that closes gaps in  *)
(* the event stream (hooks/useAuctionSocket.ts), and the parts of the      *)
(* server it hears from: the room (internal/realtime), GET events and GET  *)
(* status (internal/auction, service.go Status).                           *)
(*                                                                         *)
(* The auction's events are the constant Log: event n has number n (see    *)
(* SeqContiguous), `committed` of them have happened.  How they come to    *)
(* the room, in order but perhaps twice or not at all, is OutboxPublisher. *)
(* Of an auction the client's copy keeps status, price, bid count and end; *)
(* bids, viewers and texts follow them or stand alone.                     *)
(***************************************************************************)
EXTENDS Integers, Sequences, FiniteSets

CONSTANTS
  Log,           \* the events of the auction: records [type, ...]
  Unknown,       \* a field the client's copy does not have
  NoAuction,     \* the store before anything came
  Slots, NoTask, \* bound: the requests a client has under way at a time
  PageSize,      \* events in one answer (100)
  Pages,         \* pages a compensation asks for (5)
  Window,        \* snapshotRequiredWindow (1000)
  MaxWire,       \* bound: messages on the wire
  Faulty         \* whether events get lost on the way to the room, and the
                 \* queries for a new connection fail

\* The events: one of a bid and of an extension carries a number.
Events ==
  [type : {"started", "ended", "sold", "cancelled"}]
    \cup [type : {"bid"}, price : Nat, mine : BOOLEAN]
    \cup [type : {"extended"}, end : Nat]

\* Nothing happens in an auction before its start, if it is not cancelled, and
\* nothing after its end.
ASSUME LogAssumption ==
  /\ Log \in Seq(Events)
  /\ \A n \in DOMAIN Log :
       /\ Log[n].type = "started" => n = 1
       /\ Log[n].type \in {"ended", "sold", "cancelled"} => n = Len(Log)
ASSUME BoundAssumption ==
  PageSize \in Nat \ {0} /\ Pages \in Nat \ {0} /\ Window \in Nat
  /\ MaxWire \in Nat \ {0} /\ Faulty \in BOOLEAN

VARIABLES
  committed,  \* the last event in the database
  published,  \* the last event the room was given, or never will be
  conn,       \* down, dialled, replayed (not yet in the room), open
  dialSeq,    \* the last_seq the connection was opened with
  wire,       \* messages sent to the client and not received
  room,       \* the store: auction, lastSeq, seen, ended
  task,       \* requests under way, one per slot
  answered,   \* history: own bids whose answers have been shown
  whole,      \* history: the copy came from one moment and was only moved on
  overtaken   \* history: the status that set the copy came behind a compensation

server == <<committed, published>>
link == <<conn, dialSeq, wire>>
vars == <<server, link, room, task, answered, whole, overtaken>>

-----------------------------------------------------------------------------
(* The server's rows and messages.                                          *)

Copy(status, price, count, end) ==
  [status |-> status, price |-> price, count |-> count, end |-> end]

\* The copies and the requests there may be; the sentinels are none of them.
Statuses == {"pending", "active", "ended", "cancelled"}
Copies == [status : Statuses \cup {Unknown}, price : Nat \cup {Unknown},
           count : Nat \cup {Unknown}, end : Nat \cup {Unknown}]
Requests == [step : {"ask", "got", "status", "row", "answer"}, event : Nat, cursor : Nat,
             upto : Nat, more : BOOLEAN, page : Nat, row : Nat, seq : Nat]

ASSUME NamesAssumption ==
  Unknown \notin Nat \cup Statuses /\ NoAuction \notin Copies /\ NoTask \notin Requests

\* The row of the auction after an event.
After(a, e) ==
  CASE e.type = "started"            -> [a EXCEPT !.status = "active"]
    [] e.type = "bid"                -> [a EXCEPT !.price = e.price, !.count = @ + 1]
    [] e.type = "extended"           -> [a EXCEPT !.end = e.end]
    [] e.type \in {"ended", "sold"}  -> [a EXCEPT !.status = "ended"]
    [] e.type = "cancelled"          -> [a EXCEPT !.status = "cancelled"]

\* The row after n events.
View[n \in 0..Len(Log)] ==
  IF n = 0 THEN Copy("pending", 0, 0, 0) ELSE After(View[n - 1], Log[n])

\* newSnapshotEvent: an auction of which only the id is given.
Stub == Copy(Unknown, Unknown, Unknown, Unknown)

EventMsg(n) == <<"event", n>>
SnapshotMsg(n) == <<"snapshot", n>>

\* outbox_provider.go: the events after a number, and when a client is too far behind.
TooFarBehind(n) == committed - n > Window
LastOfPage(n) == IF committed - n > PageSize THEN n + PageSize ELSE committed

-----------------------------------------------------------------------------
(* The store.                                                               *)

Closed == [open |-> FALSE, final |-> Unknown, order |-> FALSE]

\* startedPayload and endedPayload carry some columns; bid_count is not one.
PartialCopy(n) == [View[n] EXCEPT !.count = Unknown]

CountOne(count) == IF count = Unknown THEN 1 ELSE count + 1

\* What an event makes of the client's copy.
Moved(a, n) ==
  LET e == Log[n]
  IN  IF e.type \in {"started", "ended"} THEN PartialCopy(n)
      ELSE IF a = NoAuction THEN NoAuction
      ELSE CASE e.type = "bid"       -> [a EXCEPT !.price = e.price, !.count = CountOne(@)]
             [] e.type = "extended"  -> [a EXCEPT !.end = e.end]
             [] e.type = "sold"      -> [a EXCEPT !.status = "ended"]
             [] e.type = "cancelled" -> [a EXCEPT !.status = "cancelled"]

\* The deal an event of the end announces.
Deal(n) == [open  |-> TRUE,
            final |-> IF View[n].count = 0 THEN Unknown ELSE View[n].price,
            order |-> View[n].count > 0]

\* Wrong: an event is a duplicate only where its event_id was seen.
WrongIsNew(s, n) == EventMsg(n) \notin s.seen

IsNew(s, n) == EventMsg(n) \notin s.seen /\ n > s.lastSeq

\* applyEvent, for an event of the auction.
ApplyEvent(s, n) ==
  IF ~IsNew(s, n) THEN [s EXCEPT !.seen = @ \cup {EventMsg(n)}]
  ELSE [ auction |-> Moved(s.auction, n),
         lastSeq |-> n,
         seen    |-> s.seen \cup {EventMsg(n)},
         ended   |-> IF Log[n].type \in {"ended", "sold"} THEN Deal(n) ELSE s.ended ]

\* applyEvent, for a snapshot message.
ApplyStub(s, n) ==
  IF SnapshotMsg(n) \in s.seen THEN s
  ELSE [s EXCEPT !.auction = Stub, !.lastSeq = n, !.seen = @ \cup {SnapshotMsg(n)}]

\* Wrong: a snapshot that is not newer is dropped; or the modal opens for every
\* auction that is not active.
WrongApplySnapshotOpen(s, row, seq) ==
  [ auction |-> View[row], lastSeq |-> seq, seen |-> {},
    ended   |-> IF View[row].status = "active" THEN Closed
                ELSE [open |-> TRUE, final |-> View[row].price, order |-> FALSE] ]
WrongApplySnapshot(s, row, seq) ==
  IF seq <= s.lastSeq THEN s
  ELSE [ auction |-> View[row], lastSeq |-> seq, seen |-> {}, ended |-> s.ended ]

\* applySnapshot: the answer of /status replaces everything, whatever came first.
ApplySnapshot(s, row, seq) ==
  [ auction |-> View[row], lastSeq |-> seq, seen |-> {},
    ended   |-> IF View[row].status # "ended" THEN Closed
                ELSE [open |-> TRUE, final |-> View[row].price, order |-> FALSE] ]

\* applyBidResponse.
ApplyResponse(s, n) ==
  IF s.auction = NoAuction THEN s
  ELSE [s EXCEPT !.auction.price = Log[n].price, !.auction.count = CountOne(@)]

\* Events after number n, up to m, one after the other.
ApplyPage(s, n, m) ==
  LET moved[k \in 0..(m - n)] == IF k = 0 THEN s ELSE ApplyEvent(moved[k - 1], n + k)
  IN  moved[m - n]

-----------------------------------------------------------------------------
Init ==
  /\ committed = 0 /\ published = 0
  /\ conn = "down" /\ dialSeq = 0 /\ wire = <<>>
  /\ room = [auction |-> NoAuction, lastSeq |-> 0, seen |-> {}, ended |-> Closed]
  /\ task = [s \in Slots |-> NoTask]
  /\ answered = {} /\ whole = FALSE /\ overtaken = FALSE

(* Requests under way: GET status and, for a gap before event `event`, GET  *)
(* events, page by page from `cursor`.                                      *)

Request(step, event, cursor) ==
  [step |-> step, event |-> event, cursor |-> cursor, upto |-> cursor, more |-> FALSE,
   page |-> 1, row |-> 0, seq |-> 0]

Start(s, step, event, cursor) ==
  /\ task[s] = NoTask
  /\ task' = [task EXCEPT ![s] = Request(step, event, cursor)]

\* refreshSnapshot: on load, on coming back to the page, and while polling.
Refresh(s) ==
  /\ Start(s, "status", 0, 0)
  /\ UNCHANGED <<server, link, room, answered, whole, overtaken>>

\* The server reads the row first and the last number later.
StatusRow(s) ==
  /\ task[s] # NoTask /\ task[s].step = "status"
  /\ task' = [task EXCEPT ![s].step = "row", ![s].row = committed]
  /\ UNCHANGED <<server, link, room, answered, whole, overtaken>>

StatusSeq(s) ==
  /\ task[s] # NoTask /\ task[s].step = "row"
  /\ task' = [task EXCEPT ![s].step = "answer", ![s].seq = committed]
  /\ UNCHANGED <<server, link, room, answered, whole, overtaken>>

\* handleServerEvent goes on after its compensation: the event that found the
\* gap is applied where the compensation did not bring it.
Resumed(s, event) == IF event > s.lastSeq THEN ApplyEvent(s, event) ELSE s

\* Compensations under way are not told: one goes on from its own cursor, and
\* does not see that the copy was set back behind it.
StatusArrives(s) ==
  /\ task[s] # NoTask /\ task[s].step = "answer"
  /\ room' = Resumed(ApplySnapshot(room, task[s].row, task[s].seq), task[s].event)
  /\ whole' = (task[s].row = task[s].seq)
  /\ overtaken' = \E t \in Slots : task[t] # NoTask /\ task[t].cursor > task[s].seq
  /\ task' = [task EXCEPT ![s] = NoTask]
  /\ UNCHANGED <<server, link, answered>>

\* GET events answers with a page, or tells the client to ask for the status.
EventsAnswer(s) ==
  /\ task[s] # NoTask /\ task[s].step = "ask"
  /\ LET upto == LastOfPage(task[s].cursor)
     IN  task' = IF TooFarBehind(task[s].cursor) THEN [task EXCEPT ![s].step = "status"]
                 ELSE [task EXCEPT ![s].step = "got", ![s].upto = upto,
                                   ![s].more = committed > upto]
  /\ UNCHANGED <<server, link, room, answered, whole, overtaken>>

\* compensate applies the page and asks for the next one, or for the status
\* after too many.
EventsArrive(s) ==
  /\ task[s] # NoTask /\ task[s].step = "got"
  /\ LET t == task[s]
         moved == ApplyPage(room, t.cursor, t.upto)
     IN  IF t.more
         THEN /\ room' = moved
              /\ task' = [task EXCEPT ![s].step = IF t.page < Pages THEN "ask" ELSE "status",
                                      ![s].cursor = t.upto, ![s].page = t.page + 1]
         ELSE /\ room' = Resumed(moved, t.event)
              /\ task' = [task EXCEPT ![s] = NoTask]
  /\ UNCHANGED <<server, link, answered, whole, overtaken>>

\* A request fails: a refresh reports it, a handler is abandoned with its event.
Fails(s) ==
  /\ task[s] # NoTask
  /\ task' = [task EXCEPT ![s] = NoTask]
  /\ UNCHANGED <<server, link, room, answered, whole, overtaken>>

-----------------------------------------------------------------------------
(* The server and the connection.                                           *)

Commit ==
  /\ committed < Len(Log)
  /\ committed' = committed + 1
  /\ UNCHANGED <<published, link, room, task, answered, whole, overtaken>>

\* The room is given the next event; the transaction that marks it may still
\* fail, and then it will be given again.
Broadcast ==
  /\ published < committed
  /\ published' \in {published, published + 1}
  /\ IF conn = "open"
     THEN Len(wire) < MaxWire /\ wire' = Append(wire, EventMsg(published + 1))
     ELSE published' # published /\ UNCHANGED wire
  /\ UNCHANGED <<committed, conn, dialSeq, room, task, answered, whole, overtaken>>

\* The room never hears of an event: it was given up, or another instance has it.
Lose ==
  /\ Faulty /\ published < committed
  /\ published' = published + 1
  /\ UNCHANGED <<committed, link, room, task, answered, whole, overtaken>>

\* connect: the URL carries the last number the store has.
Dial ==
  /\ conn = "down"
  /\ conn' = "dialled" /\ dialSeq' = room.lastSeq
  /\ UNCHANGED <<server, wire, room, task, answered, whole, overtaken>>

\* replayOrSnapshot: the missed events where they fit into one page, otherwise,
\* or where the query fails, a snapshot; its number is 0 where that fails too.
CanReplay == dialSeq > 0 /\ ~TooFarBehind(dialSeq) /\ committed - dialSeq \in 1..PageSize

Replay ==
  /\ conn = "dialled" /\ conn' = "replayed" /\ dialSeq' = 0
  /\ \/ CanReplay /\ wire' = [k \in 1..(committed - dialSeq) |-> EventMsg(dialSeq + k)]
     \/ (Faulty \/ ~CanReplay) /\ wire' = <<SnapshotMsg(committed)>>
     \/ Faulty /\ wire' = <<SnapshotMsg(0)>>
  /\ UNCHANGED <<server, room, task, answered, whole, overtaken>>

\* Register: from here on the room's events are sent to this client.
Join ==
  /\ conn = "replayed" /\ conn' = "open"
  /\ UNCHANGED <<server, dialSeq, wire, room, task, answered, whole, overtaken>>

\* The connection is gone with what was on it (a client too slow for its
\* buffer is cut off too); handleDisconnected asks for the status at once.
Drop(s) ==
  /\ conn # "down" /\ conn' = "down"
  /\ wire' = <<>> /\ dialSeq' = 0
  /\ Start(s, "status", 0, 0)
  /\ UNCHANGED <<server, room, answered, whole, overtaken>>

\* Wrong: one missing event is not a gap.
WrongGap(n) == n > room.lastSeq + 2

Gap(n) == n > room.lastSeq + 1

\* A message arrives: a snapshot, the next event, or one behind a gap.
ReceiveSnapshot(n) ==
  /\ room' = ApplyStub(room, n)
  /\ whole' = (whole /\ room' = room)
  /\ UNCHANGED task

ReceiveEvent(n) ==
  /\ IF Gap(n)
     THEN (\E s \in Slots : Start(s, "ask", n, room.lastSeq)) /\ UNCHANGED room
     ELSE room' = ApplyEvent(room, n) /\ UNCHANGED task
  /\ UNCHANGED whole

Receive ==
  /\ wire # <<>>
  /\ IF Head(wire)[1] = "snapshot" THEN ReceiveSnapshot(Head(wire)[2])
     ELSE ReceiveEvent(Head(wire)[2])
  /\ wire' = Tail(wire)
  /\ UNCHANGED <<server, conn, dialSeq, answered, overtaken>>

\* useBidButton: the answer to a bid of this client, accepted as event n.
BidResponse(n) ==
  /\ n <= committed /\ n \notin answered
  /\ Log[n].type = "bid" /\ Log[n].mine
  /\ room' = ApplyResponse(room, n)
  /\ answered' = answered \cup {n}
  /\ whole' = FALSE
  /\ UNCHANGED <<server, link, task, overtaken>>

CloseEndedModal ==
  /\ room.ended.open
  /\ room' = [room EXCEPT !.ended.open = FALSE]
  /\ UNCHANGED <<server, link, task, answered, whole, overtaken>>

Next ==
  \/ \E s \in Slots : \/ Refresh(s) \/ StatusRow(s) \/ StatusSeq(s) \/ StatusArrives(s)
                      \/ EventsAnswer(s) \/ EventsArrive(s) \/ Fails(s) \/ Drop(s)
  \/ Commit \/ Broadcast \/ Lose \/ Dial \/ Replay \/ Join \/ Receive \/ CloseEndedModal
  \/ \E n \in DOMAIN Log : BidResponse(n)

Spec == Init /\ [][Next]_vars

\* The auction goes on, a client without a connection polls, requests are
\* answered or fail and do not fail for ever.
Fairness ==
  /\ WF_vars(Commit)
  /\ WF_vars(conn = "down" /\ \E s \in Slots : Refresh(s))
  /\ \A s \in Slots : /\ SF_vars(StatusRow(s)) /\ SF_vars(StatusSeq(s))
                      /\ SF_vars(StatusArrives(s))
                      /\ SF_vars(EventsAnswer(s)) /\ SF_vars(EventsArrive(s))

FairSpec == Spec /\ Fairness

-----------------------------------------------------------------------------
Numbers == 0..committed

Messages == ({"event"} \X (Numbers \ {0})) \cup ({"snapshot"} \X Numbers)
Stores == [auction : {NoAuction} \cup Copies, lastSeq : Numbers, seen : SUBSET Messages,
           ended : [open : BOOLEAN, final : Nat \cup {Unknown}, order : BOOLEAN]]

\* The server, the connection and the store hold values of their types; no
\* number is ahead of the database.
TypeOK ==
  /\ committed \in 0..Len(Log) /\ published \in Numbers
  /\ conn \in {"down", "dialled", "replayed", "open"} /\ dialSeq \in Numbers
  /\ wire \in Seq(Messages) /\ room \in Stores
  /\ task \in [Slots -> {NoTask} \cup Requests]
  /\ \A s \in Slots : task[s] # NoTask =>
       {task[s].event, task[s].cursor, task[s].upto, task[s].row, task[s].seq} \subseteq Numbers
  /\ answered \subseteq Numbers /\ whole \in BOOLEAN /\ overtaken \in BOOLEAN

\* The copy is what the row was after event lastSeq, and the modal tells the end.
RoomInStep ==
  LET copy == room.auction
      row == View[room.lastSeq]
  IN  /\ copy.status = row.status /\ copy.price = row.price /\ copy.end = row.end
      /\ copy.count \in {row.count, Unknown}
      /\ room.ended.open => row.status = "ended"

\* A copy that came from one moment of the server, ahead of every compensation
\* then under way, and was only moved on by events, is what the row was after
\* event lastSeq: gaps are closed, and lost or repeated events, overlapping
\* compensations and abandoned ones leave no hole (useAuctionSocket.ts:80).
\* Without `overtaken` it would not hold: see NoEventSkipped.
InStep == whole /\ ~overtaken => RoomInStep

\* What a client shows was so at some time: a price somebody bid, a status the
\* auction had, the end only of an auction that ended, at its price.
NothingInvented ==
  /\ room.auction # NoAuction =>
       /\ room.auction.price \in {Unknown} \cup {View[n].price : n \in Numbers}
       /\ room.auction.status \in {Unknown} \cup {View[n].status : n \in Numbers}
  /\ room.ended.open =>
       /\ View[committed].status = "ended"
       /\ room.ended.final \in {Unknown, View[committed].price}

\* A client counts a bid once, over whichever of the ways it hears of it, or
\* twice where it is its own: with the answer and with the event.
CountExplained ==
  room.auction # NoAuction /\ room.auction.count # Unknown
    => room.auction.count <= View[committed].count + Cardinality(answered)

\* A client that stays without a connection shows the end of the auction.
PollingCatchesUp ==
  <>[](conn = "down") => <>[](room.auction = View[Len(Log)])

-----------------------------------------------------------------------------
(* What the documents say and the code does not keep.                       *)

Quiet == wire = <<>> /\ \A s \in Slots : task[s] = NoTask

\* integration-test-plan.md:274: after a reconnection the client's state is in
\* the end that of /status.
ReconnectShowsStatus ==
  conn = "open" /\ Quiet /\ published = committed => room.auction = View[committed]

\* contract-v2.md:546: what is missing before an event is fetched.  A status that
\* arrives late sets the copy back behind a compensation, which goes on behind it:
\* the events between the two are never applied, and no gap shows.
NoEventSkipped == whole => RoomInStep
=============================================================================
