-------------------------- MODULE OutboxPublisher --------------------------
(***************************************************************************)
(* How committed events leave the database: server-go/internal/outbox and  *)
(* the forwarder of main.go.  Each server instance runs one publisher; a   *)
(* publisher locks a row of event_outbox, hands the event to the channel   *)
(* of its own instance, and marks the row, in one transaction.  The        *)
(* forwarder of the instance takes events from the channel to its Hub.     *)
(*                                                                         *)
(* Transactions append to the table (BidService); an event is named by its *)
(* row id, that is, by its index in `rows`.                                *)
(***************************************************************************)
EXTENDS Integers, Sequences, FiniteSets

CONSTANTS
  Auctions,
  Publishers,  \* one per server instance
  MaxRetries,  \* OUTBOX_MAX_RETRIES
  Buffer,      \* the capacity of ChannelSink.events
  MaxRows      \* bound: how many events are ever written

ASSUME OutboxAssumption ==
  /\ MaxRetries \in Nat \ {0}
  /\ Buffer \in Nat \ {0}
  /\ MaxRows \in Nat

VARIABLES
  rows,      \* table event_outbox: auction, status and retry_count
  resting,   \* the rows whose last failure was less than the back-off ago
  held,      \* the row each publisher's transaction has locked, or 0
  outcome,   \* what its sink said: "none" before the call
  channel,   \* the buffered channel of each instance
  sent       \* history: the events some sink has accepted

vars == <<rows, resting, held, outcome, channel, sent>>

Statuses == {"pending", "published", "failed"}
Settled(i) == rows[i].status # "pending"

\* j is an earlier event of the same auction: the numbers of an auction's
\* events follow the ids of their rows (see SeqContiguous).
Earlier(j, i) == j < i /\ rows[j].auction = rows[i].auction

Init ==
  /\ rows = <<>> /\ resting = {}
  /\ held = [p \in Publishers |-> 0]
  /\ outcome = [p \in Publishers |-> "none"]
  /\ channel = [p \in Publishers |-> <<>>]
  /\ sent = {}

\* A transaction on an auction commits with an event.
Insert(a) ==
  /\ Len(rows) < MaxRows
  /\ rows' = Append(rows, [auction |-> a, status |-> "pending", retries |-> 0])
  /\ UNCHANGED <<resting, held, outcome, channel, sent>>

\* Wrong: without the NOT EXISTS, without SKIP LOCKED, or with an event that
\* was given up holding its successors back.
WrongNextRow(i) ==
  /\ ~Settled(i) /\ i \notin resting
  /\ \A p \in Publishers : held[p] # i
WrongNextRowLocked(i) ==
  /\ ~Settled(i) /\ i \notin resting
  /\ \A j \in 1..Len(rows) : Earlier(j, i) => Settled(j)
WrongNextRowDead(i) ==
  /\ ~Settled(i) /\ i \notin resting
  /\ \A j \in 1..Len(rows) : Earlier(j, i) => rows[j].status = "published"
  /\ \A p \in Publishers : held[p] # i

\* The WHERE clause of lockNext: pending, not backing off, behind no pending
\* event of its auction; SKIP LOCKED passes over what others have locked.
NextRow(i) ==
  /\ ~Settled(i) /\ i \notin resting
  /\ \A j \in 1..Len(rows) : Earlier(j, i) => Settled(j)
  /\ \A p \in Publishers : held[p] # i

\* lockNext takes the oldest such row.
LockNext(p) ==
  /\ held[p] = 0
  /\ \E i \in 1..Len(rows) :
       /\ NextRow(i)
       /\ \A j \in 1..(i - 1) : ~NextRow(j)
       /\ held' = [held EXCEPT ![p] = i]
  /\ UNCHANGED <<rows, resting, outcome, channel, sent>>

\* Wrong: a full channel drops the event and says yes.
WrongPublish(p) ==
  /\ held[p] # 0 /\ outcome[p] = "none"
  /\ outcome' = [outcome EXCEPT ![p] = "ok"]
  /\ IF Len(channel[p]) < Buffer
     THEN /\ channel' = [channel EXCEPT ![p] = Append(@, held[p])]
          /\ sent' = sent \cup {held[p]}
     ELSE UNCHANGED <<channel, sent>>
  /\ UNCHANGED <<rows, resting, held>>

\* ChannelSink.Publish waits for room, at most for the publish timeout.
Publish(p) ==
  /\ held[p] # 0 /\ outcome[p] = "none"
  /\ \/ /\ Len(channel[p]) < Buffer
        /\ channel' = [channel EXCEPT ![p] = Append(@, held[p])]
        /\ sent' = sent \cup {held[p]}
        /\ outcome' = [outcome EXCEPT ![p] = "ok"]
     \/ /\ Len(channel[p]) = Buffer
        /\ outcome' = [outcome EXCEPT ![p] = "timeout"]
        /\ UNCHANGED <<channel, sent>>
  /\ UNCHANGED <<rows, resting, held>>

\* Wrong: the event is given up one failure late.
WrongFailedRow(row) ==
  [row EXCEPT !.retries = @ + 1,
              !.status = IF row.retries >= MaxRetries THEN "failed" ELSE "pending"]

\* markFailure: charge a retry, or give the event up for good.
FailedRow(row) ==
  LET nextRetry == row.retries + 1
  IN  [ auction |-> row.auction,
        status  |-> IF nextRetry >= MaxRetries THEN "failed" ELSE "pending",
        retries |-> nextRetry ]

LetGo(p) ==
  /\ held' = [held EXCEPT ![p] = 0]
  /\ outcome' = [outcome EXCEPT ![p] = "none"]

\* markPublished or markFailure, and COMMIT.
Mark(p) ==
  /\ outcome[p] # "none"
  /\ rows' = [rows EXCEPT ![held[p]] =
                IF outcome[p] = "ok" THEN [@ EXCEPT !.status = "published"]
                ELSE FailedRow(@)]
  /\ resting' = IF outcome[p] = "ok" THEN resting ELSE resting \cup {held[p]}
  /\ LetGo(p)
  /\ UNCHANGED <<channel, sent>>

\* The transaction fails after any of its statements: the row is as before,
\* the channel is not.
Rollback(p) ==
  /\ held[p] # 0
  /\ LetGo(p)
  /\ UNCHANGED <<rows, resting, channel, sent>>

\* The instance dies or is restarted: MySQL lets go of its row, what was in
\* its channel is gone.
Crash(p) ==
  /\ held[p] # 0 \/ channel[p] # <<>>
  /\ LetGo(p)
  /\ channel' = [channel EXCEPT ![p] = <<>>]
  /\ UNCHANGED <<rows, resting, sent>>

\* forwardOutboxEvents: from the channel to the Hub of the instance.
Forward(p) ==
  /\ channel[p] # <<>>
  /\ channel' = [channel EXCEPT ![p] = Tail(@)]
  /\ UNCHANGED <<rows, resting, held, outcome, sent>>

\* The back-off of a failed event is over.
Rested(i) ==
  /\ i \in resting
  /\ resting' = resting \ {i}
  /\ UNCHANGED <<rows, held, outcome, channel, sent>>

\* No event is left to take and every channel is empty.
Finished ==
  /\ Len(rows) = MaxRows /\ resting = {} /\ \A i \in 1..MaxRows : ~NextRow(i)
  /\ \A p \in Publishers : held[p] = 0 /\ channel[p] = <<>>
  /\ UNCHANGED vars

Next ==
  \/ \E a \in Auctions : Insert(a)
  \/ \E p \in Publishers : LockNext(p) \/ Publish(p) \/ Mark(p) \/ Rollback(p)
                             \/ Crash(p) \/ Forward(p)
  \/ \E i \in resting : Rested(i)
  \/ Finished

Spec == Init /\ [][Next]_vars

\* A publisher polls for ever and its transactions do not fail every time, and
\* time passes.  That a forwarder runs is not assumed.
Fairness ==
  /\ \A p \in Publishers : SF_vars(LockNext(p)) /\ SF_vars(Publish(p)) /\ SF_vars(Mark(p))
  /\ WF_vars(\E i \in resting : Rested(i))

FairSpec == Spec /\ Fairness

-----------------------------------------------------------------------------
Events == 1..Len(rows)

\* The tables, the publishers and their channels hold values of their types.
TypeOK ==
  /\ rows \in Seq([auction: Auctions, status: Statuses, retries: Nat])
  /\ resting \subseteq Events
  /\ held \in [Publishers -> {0} \cup Events]
  /\ outcome \in [Publishers -> {"none", "ok", "timeout"}]
  /\ \A p \in Publishers : held[p] = 0 => outcome[p] = "none"
  /\ channel \in [Publishers -> Seq(Events)]
  /\ \A p \in Publishers : Len(channel[p]) <= Buffer
  /\ sent \subseteq Events

\* An event leaves only after every earlier event of its auction has been
\* published or given up, whichever instances publish them.
SentInOrder ==
  \A i \in sent, j \in Events : Earlier(j, i) => Settled(j)

\* A transaction's event is still pending and no other transaction has it: an
\* event that is settled is never published again, only one whose transaction
\* failed after the sink had it.
OneHolder ==
  \A p \in Publishers : held[p] # 0 =>
    /\ ~Settled(held[p]) /\ held[p] \notin resting
    /\ \A q \in Publishers : held[q] = held[p] => q = p

\* In the channel of an instance the events of an auction are in order, though
\* an event whose transaction failed may be there twice.
ChannelInOrder ==
  \A p \in Publishers, x, y \in 1..Buffer :
    x < y /\ y <= Len(channel[p]) => ~Earlier(channel[p][y], channel[p][x])

\* An event marked as published was accepted by a sink.
PublishedWasSent == \A i \in Events : rows[i].status = "published" => i \in sent

\* An event is given up at its MaxRetries-th failure, not before, not after.
RetryBudget ==
  \A i \in Events : /\ rows[i].retries <= MaxRetries
                    /\ rows[i].status = "failed" <=> rows[i].retries = MaxRetries

\* Every event is published or given up some day, though transactions fail,
\* instances die and others of the same auction are given up.
EveryEventSettles ==
  \A i \in 1..MaxRows : (i <= Len(rows)) ~> (i <= Len(rows) /\ Settled(i))

\* contract-v2.md:874-875: an event is marked as published once it has been
\* delivered to the rooms.  Here less: what is marked leaves a channel only as
\* its first element, that is, to the Hub.
PublishedReachesRoom ==
  [][\A p \in Publishers, x \in 2..Buffer :
       x <= Len(channel[p]) /\ rows[channel[p][x]].status = "published"
         => channel'[p] # <<>>]_vars
=============================================================================
