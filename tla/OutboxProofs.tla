---------------------------- MODULE OutboxProofs ----------------------------
(***************************************************************************)
(* What TLAPS proves of OutboxPublisher for any number of auctions, server *)
(* instances, events, retries and any size of the channels.                *)
(***************************************************************************)
EXTENDS OutboxPublisher, SequenceTheorems, TLAPS

Row == [auction: Auctions, status: Statuses, retries: Nat]

\* The part of TypeOK the other invariants rest on.
Types ==
  /\ rows \in Seq(Row)
  /\ held \in [Publishers -> {0} \cup Events]
  /\ outcome \in [Publishers -> {"none", "ok", "timeout"}]
  /\ \A p \in Publishers : held[p] = 0 => outcome[p] = "none"
  /\ sent \subseteq Events

\* A row is taken only behind settled rows, and stays so while it is held.
HeldInOrder ==
  \A p \in Publishers, j \in Events :
    held[p] # 0 /\ Earlier(j, held[p]) => Settled(j)

\* A sink that said yes has the event.
OkWasSent == \A p \in Publishers : outcome[p] = "ok" => held[p] \in sent

IInv ==
  /\ Types /\ SentInOrder /\ HeldInOrder /\ OneHolder
  /\ OkWasSent /\ PublishedWasSent /\ RetryBudget

-----------------------------------------------------------------------------
\* The shapes in which rows change: they keep every auction, and nothing that
\* is settled becomes pending again.
LEMMA FailedRowType ==
  ASSUME NEW row \in Row
  PROVE  /\ FailedRow(row) \in Row
         /\ FailedRow(row).auction = row.auction
         /\ FailedRow(row).status \in {"pending", "failed"}
         /\ FailedRow(row).retries = row.retries + 1
         /\ (FailedRow(row).status = "failed") <=> (row.retries + 1 >= MaxRetries)
BY OutboxAssumption DEF FailedRow, Row, Statuses

LEMMA InitIInv == Init => IInv
<1> SUFFICES ASSUME Init PROVE IInv
  OBVIOUS
<1>1. rows = <<>> /\ Len(rows) = 0 /\ Events = {}
  BY DEF Init, Events
<1> QED
  BY <1>1 DEF Init, IInv, Types, SentInOrder, HeldInOrder, OneHolder, OkWasSent,
              PublishedWasSent, RetryBudget

\* Appending a row leaves the others as they are; it is nobody's predecessor.
LEMMA InsertIInv ==
  ASSUME IInv, NEW a \in Auctions, Insert(a)
  PROVE  IInv'
<1> DEFINE row == [auction |-> a, status |-> "pending", retries |-> 0]
<1>0. Types
  BY DEF IInv
<1>1. row \in Row /\ row.status = "pending" /\ row.retries = 0
  BY DEF Row, Statuses
<1>2. PICK n \in Nat : n = Len(rows)
  BY <1>0 DEF Types
<1>3. rows' = Append(rows, row)
  BY DEF Insert
<1> HIDE DEF row
<1>4. /\ rows' \in Seq(Row) /\ Len(rows') = n + 1 /\ rows'[n + 1] = row
      /\ \A i \in 1..n : rows'[i] = rows[i]
  BY <1>0, <1>1, <1>2, <1>3 DEF Types
<1>5. Events = 1..n /\ Events' = 1..(n + 1)
  BY <1>2, <1>4 DEF Events
<1>6. UNCHANGED <<resting, held, outcome, sent>>
  BY DEF Insert
<1>7. Types'
  BY <1>0, <1>4, <1>5, <1>6 DEF Types
<1>8. \A i \in 1..n, j \in 1..(n + 1) : Earlier(j, i)' => j \in 1..n /\ Earlier(j, i)
  BY <1>2, <1>4 DEF Earlier
<1>9. \A i \in 1..n : Settled(i)' <=> Settled(i)
  BY <1>4 DEF Settled
<1>10. SentInOrder'
  BY <1>0, <1>5, <1>6, <1>8, <1>9 DEF IInv, SentInOrder, Types
<1>11. HeldInOrder'
  BY <1>0, <1>5, <1>6, <1>8, <1>9 DEF IInv, HeldInOrder, Types
<1>12. OneHolder'
  BY <1>0, <1>4, <1>5, <1>6, <1>9 DEF IInv, OneHolder, Types
<1>13. OkWasSent'
  BY <1>6 DEF IInv, OkWasSent
<1>14. PublishedWasSent'
  BY <1>1, <1>4, <1>5, <1>6 DEF IInv, PublishedWasSent
<1>15. RetryBudget'
  <2>1. row.status # "failed" /\ row.retries # MaxRetries /\ row.retries <= MaxRetries
    BY <1>1, OutboxAssumption
  <2> QED
    BY <1>4, <1>5, <2>1 DEF IInv, RetryBudget
<1> QED
  BY <1>7, <1>10, <1>11, <1>12, <1>13, <1>14, <1>15 DEF IInv

\* Marking settles a row or charges it a retry.
LEMMA MarkIInv ==
  ASSUME IInv, NEW p \in Publishers, Mark(p)
  PROVE  IInv'
<1>0. Types
  BY DEF IInv
<1>1. PICK h \in Events : h = held[p]
  BY <1>0 DEF Types, Mark
<1>2. PICK n \in Nat : n = Len(rows)
  BY <1>0 DEF Types
<1>3. PICK row \in Row :
        /\ row = IF outcome[p] = "ok" THEN [rows[h] EXCEPT !.status = "published"]
                 ELSE FailedRow(rows[h])
        /\ row.auction = rows[h].auction
        /\ outcome[p] = "ok" => row.status = "published" /\ row.retries = rows[h].retries
        /\ outcome[p] # "ok" =>
             /\ row.status # "published" /\ row.retries = rows[h].retries + 1
             /\ (row.status = "failed") <=> (rows[h].retries + 1 >= MaxRetries)
  <2>1. rows[h] \in Row
    BY <1>0, <1>1 DEF Types, Events
  <2>2. CASE outcome[p] = "ok"
    <3> DEFINE done == [rows[h] EXCEPT !.status = "published"]
    <3>1. /\ done \in Row /\ done.auction = rows[h].auction
          /\ done.status = "published" /\ done.retries = rows[h].retries
      BY <2>1 DEF Row, Statuses
    <3> QED
      BY <2>2, <3>1
  <2>3. CASE outcome[p] # "ok"
    BY <2>1, <2>3, FailedRowType
  <2> QED BY <2>2, <2>3
<1>4. rows' = [rows EXCEPT ![h] = row]
  BY <1>1, <1>3 DEF Mark
<1>5. /\ rows' \in Seq(Row) /\ Len(rows') = n /\ rows'[h] = row
      /\ \A i \in 1..n : i # h => rows'[i] = rows[i]
  BY <1>0, <1>1, <1>2, <1>4 DEF Types, Events
<1>6. Events = 1..n /\ Events' = 1..n
  BY <1>2, <1>5 DEF Events
<1>7. /\ held' = [held EXCEPT ![p] = 0] /\ outcome' = [outcome EXCEPT ![p] = "none"]
      /\ sent' = sent /\ resting' \subseteq resting \cup {h}
  BY <1>1 DEF Mark, LetGo
<1>8. Types'
  BY <1>0, <1>5, <1>6, <1>7 DEF Types
<1>9. \A i, j \in 1..n : Earlier(j, i)' <=> Earlier(j, i)
  <2>1. \A i \in 1..n : rows'[i].auction = rows[i].auction
    BY <1>1, <1>3, <1>5
  <2> QED
    BY <2>1 DEF Earlier
<1>10. ~Settled(h) /\ h \notin resting /\ \A q \in Publishers : held[q] = h => q = p
  BY <1>0, <1>1, <1>6 DEF IInv, OneHolder, Types, Events
<1>11. \A i \in 1..n : Settled(i) => Settled(i)'
  BY <1>5, <1>10 DEF Settled
<1>12. SentInOrder'
  BY <1>0, <1>6, <1>7, <1>9, <1>11 DEF IInv, SentInOrder, Types
<1>13. HeldInOrder'
  BY <1>0, <1>6, <1>7, <1>9, <1>11 DEF IInv, HeldInOrder, Types
<1>14. OneHolder'
  <2> SUFFICES ASSUME NEW q \in Publishers, held'[q] # 0
               PROVE  /\ ~Settled(held[q])' /\ held'[q] \notin resting'
                      /\ \A r \in Publishers : held'[r] = held'[q] => r = q
    BY DEF OneHolder
  <2>1. q # p /\ held'[q] = held[q] /\ held[q] \in 1..n /\ held[q] # h
    BY <1>0, <1>1, <1>6, <1>7, <1>10 DEF Types
  <2>2. ~Settled(held[q]) /\ held[q] \notin resting
        /\ \A r \in Publishers : held[r] = held[q] => r = q
    BY <2>1 DEF IInv, OneHolder
  <2>3. ~Settled(held[q])' /\ held'[q] \notin resting'
    BY <1>5, <1>7, <2>1, <2>2 DEF Settled
  <2>4. \A r \in Publishers : held'[r] = held'[q] => r = q
    BY <1>0, <1>7, <2>1, <2>2 DEF Types
  <2> QED
    BY <2>3, <2>4
<1>15. OkWasSent'
  BY <1>0, <1>7 DEF IInv, OkWasSent, Types
<1>16. PublishedWasSent'
  BY <1>1, <1>3, <1>5, <1>6, <1>7 DEF IInv, PublishedWasSent, OkWasSent
<1>17. RetryBudget'
  <2>0. rows[h] \in Row
    BY <1>0, <1>1 DEF Types, Events
  <2>1. rows[h].retries \in Nat
    BY <2>0 DEF Row
  <2>2. rows[h].status # "failed"
    BY <1>10 DEF Settled
  <2>3. rows[h].retries < MaxRetries
    BY <1>1, <2>1, <2>2, OutboxAssumption DEF IInv, RetryBudget
  <2>4. row.retries <= MaxRetries /\ (row.status = "failed" <=> row.retries = MaxRetries)
    BY <1>3, <2>1, <2>2, <2>3, OutboxAssumption
  <2> QED
    BY <1>5, <1>6, <2>4 DEF IInv, RetryBudget
<1> QED
  BY <1>8, <1>12, <1>13, <1>14, <1>15, <1>16, <1>17 DEF IInv

\* The other steps leave the rows alone: a publisher takes a free row that may
\* go, learns what its sink said, or lets go.
LEMMA LockNextIInv ==
  ASSUME IInv, NEW p \in Publishers, LockNext(p)
  PROVE  IInv'
<1>0. Types
  BY DEF IInv
<1>1. PICK i \in Events : NextRow(i) /\ held' = [held EXCEPT ![p] = i]
  BY DEF LockNext, Events
<1>2. UNCHANGED <<rows, resting, outcome, sent>> /\ held[p] = 0
  BY DEF LockNext
<1>3. i # 0 /\ outcome[p] = "none"
  BY <1>0, <1>2 DEF Types, Events
<1>4. Types'
  BY <1>0, <1>1, <1>2, <1>3 DEF Types, Events
<1>5. SentInOrder' /\ PublishedWasSent' /\ RetryBudget'
  BY <1>2 DEF IInv, SentInOrder, PublishedWasSent, RetryBudget, Events, Earlier, Settled
<1>6. HeldInOrder'
  <2> SUFFICES ASSUME NEW q \in Publishers, NEW j \in Events,
                      held'[q] # 0, Earlier(j, held'[q])
               PROVE  Settled(j)
    BY <1>2 DEF HeldInOrder, Events, Earlier, Settled
  <2>1. CASE q = p
    BY <1>0, <1>1, <2>1 DEF NextRow, Types, Events
  <2>2. CASE q # p
    BY <1>0, <1>1, <2>2 DEF IInv, HeldInOrder, Types
  <2> QED BY <2>1, <2>2
<1>7. OneHolder'
  <2>1. ~Settled(i) /\ i \notin resting /\ \A q \in Publishers : held[q] # i
    BY <1>1 DEF NextRow
  <2>2. \A q \in Publishers : held'[q] = IF q = p THEN i ELSE held[q]
    BY <1>0, <1>1 DEF Types
  <2> QED
    BY <1>2, <2>1, <2>2 DEF IInv, OneHolder, Settled
<1>8. OkWasSent'
  BY <1>0, <1>1, <1>2, <1>3 DEF IInv, OkWasSent, Types
<1> QED
  BY <1>4, <1>5, <1>6, <1>7, <1>8 DEF IInv

LEMMA PublishIInv ==
  ASSUME IInv, NEW p \in Publishers, Publish(p)
  PROVE  IInv'
<1>0. Types
  BY DEF IInv
<1>1. /\ UNCHANGED <<rows, resting, held>> /\ held[p] # 0
      /\ \/ sent' = sent \cup {held[p]} /\ outcome' = [outcome EXCEPT ![p] = "ok"]
         \/ sent' = sent /\ outcome' = [outcome EXCEPT ![p] = "timeout"]
  BY DEF Publish
<1>2. held[p] \in Events
  BY <1>0, <1>1 DEF Types
<1>3. Types'
  <2>1. Events' = Events
    BY <1>1 DEF Events
  <2>2. sent' \subseteq Events
    BY <1>0, <1>1, <1>2 DEF Types
  <2>3. outcome' \in [Publishers -> {"none", "ok", "timeout"}]
    BY <1>0, <1>1 DEF Types
  <2>4. \A q \in Publishers : held[q] = 0 => outcome'[q] = "none"
    BY <1>0, <1>1 DEF Types
  <2> QED
    BY <1>0, <1>1, <2>1, <2>2, <2>3, <2>4 DEF Types
<1>4. SentInOrder'
  BY <1>1, <1>2 DEF IInv, SentInOrder, HeldInOrder, Events, Earlier, Settled
<1>5. HeldInOrder' /\ OneHolder' /\ RetryBudget'
  BY <1>1 DEF IInv, HeldInOrder, OneHolder, RetryBudget, Events, Earlier, Settled
<1>6. OkWasSent'
  BY <1>0, <1>1 DEF IInv, OkWasSent, Types
<1>7. PublishedWasSent'
  BY <1>1 DEF IInv, PublishedWasSent, Events
<1> QED
  BY <1>3, <1>4, <1>5, <1>6, <1>7 DEF IInv

LEMMA LetGoIInv ==
  ASSUME IInv, NEW p \in Publishers, LetGo(p), UNCHANGED <<rows, resting, sent>>
  PROVE  IInv'
<1>0. Types
  BY DEF IInv
<1>1. /\ \A q \in Publishers : held'[q] = IF q = p THEN 0 ELSE held[q]
      /\ \A q \in Publishers : outcome'[q] = IF q = p THEN "none" ELSE outcome[q]
  BY <1>0 DEF LetGo, Types
<1>2. Types'
  BY <1>0 DEF Types, LetGo, Events
<1>3. SentInOrder' /\ PublishedWasSent' /\ RetryBudget'
  BY DEF IInv, SentInOrder, PublishedWasSent, RetryBudget, Events, Earlier, Settled
<1>4. HeldInOrder'
  BY <1>1 DEF IInv, HeldInOrder, Events, Earlier, Settled
<1>5. OneHolder' /\ OkWasSent'
  BY <1>1 DEF IInv, OneHolder, OkWasSent, Settled
<1> QED
  BY <1>2, <1>3, <1>4, <1>5 DEF IInv

LEMMA RestedIInv ==
  ASSUME IInv, UNCHANGED <<rows, held, outcome, sent>>, resting' \subseteq resting
  PROVE  IInv'
<1>1. Types' /\ SentInOrder' /\ HeldInOrder' /\ OkWasSent' /\ PublishedWasSent' /\ RetryBudget'
  BY DEF IInv, Types, SentInOrder, HeldInOrder, OkWasSent, PublishedWasSent, RetryBudget,
         Events, Earlier, Settled
<1>2. OneHolder'
  BY DEF IInv, OneHolder, Settled
<1> QED
  BY <1>1, <1>2 DEF IInv

LEMMA StepIInv == IInv /\ [Next]_vars => IInv'
<1> SUFFICES ASSUME IInv, [Next]_vars PROVE IInv'
  OBVIOUS
<1>1. ASSUME NEW p \in Publishers, Rollback(p) \/ Crash(p) PROVE IInv'
  BY <1>1, LetGoIInv DEF Rollback, Crash
<1>2. ASSUME NEW p \in Publishers, Forward(p) PROVE IInv'
  BY <1>2, RestedIInv DEF Forward
<1>3. ASSUME NEW i \in resting, Rested(i) PROVE IInv'
  BY <1>3, RestedIInv DEF Rested
<1>4. CASE Finished \/ UNCHANGED vars
  BY <1>4, RestedIInv DEF Finished, vars
<1> QED
  BY <1>1, <1>2, <1>3, <1>4, InsertIInv, MarkIInv, LockNextIInv, PublishIInv DEF Next

LEMMA Invariance == Spec => []IInv
BY InitIInv, StepIInv, PTL DEF Spec

-----------------------------------------------------------------------------
\* The events of an auction leave the database in order, past those given up,
\* however many instances publish and whatever fails.
THEOREM EventsLeaveInOrder == Spec => []SentInOrder
<1>1. IInv => SentInOrder
  BY DEF IInv
<1> QED
  BY <1>1, Invariance, PTL

\* No two transactions publish one event at a time, and none publishes an event
\* that is settled.
THEOREM OnePublisherPerEvent == Spec => []OneHolder
<1>1. IInv => OneHolder
  BY DEF IInv
<1> QED
  BY <1>1, Invariance, PTL

\* What is marked as published was handed to a sink at least once.
THEOREM PublishedAtLeastOnce == Spec => []PublishedWasSent
<1>1. IInv => PublishedWasSent
  BY DEF IInv
<1> QED
  BY <1>1, Invariance, PTL

\* An event is tried MaxRetries times, no more and no less, before it is given up.
THEOREM RetriesAreCounted == Spec => []RetryBudget
<1>1. IInv => RetryBudget
  BY DEF IInv
<1> QED
  BY <1>1, Invariance, PTL

-----------------------------------------------------------------------------
(***************************************************************************)
(* The channels.  What is in one was accepted, so the events before it     *)
(* that are of its auction are settled, and no publisher holds one.        *)
(***************************************************************************)
Sound(s, table, out) ==
  /\ s \in Seq(Nat) /\ Len(s) <= Buffer
  /\ \A x \in 1..Len(s) : s[x] \in out
  /\ \A x, y \in 1..Len(s) :
       x < y => ~(s[y] < s[x] /\ table[s[y]].auction = table[s[x]].auction)

Channels ==
  /\ resting \subseteq Events
  /\ channel \in [Publishers -> Seq(Nat)]
  /\ \A p \in Publishers : Sound(channel[p], rows, sent)

LEMMA EmptySound == ASSUME NEW table, NEW out PROVE Sound(<<>>, table, out)
BY OutboxAssumption DEF Sound

LEMMA TailSound ==
  ASSUME NEW s, NEW table, NEW out, Sound(s, table, out), s # <<>>
  PROVE  Sound(Tail(s), table, out)
<1> DEFINE t == Tail(s)
<1>1. PICK n \in Nat : n = Len(s)
  BY DEF Sound
<1>2. /\ t \in Seq(Nat) /\ Len(t) = n - 1 /\ n > 0
      /\ \A x \in 1..(n - 1) : t[x] = s[x + 1]
  BY <1>1 DEF Sound
<1> HIDE DEF t
<1>3. \A x \in 1..(n - 1) : x + 1 \in 1..n
  BY <1>1
<1>4. ASSUME NEW x \in 1..(n - 1), NEW y \in 1..(n - 1), x < y
      PROVE  ~(t[y] < t[x] /\ table[t[y]].auction = table[t[x]].auction)
  <2>1. x + 1 \in 1..n /\ y + 1 \in 1..n /\ x + 1 < y + 1 /\ t[x] = s[x + 1] /\ t[y] = s[y + 1]
    BY <1>1, <1>2, <1>4
  <2> QED
    BY <1>1, <2>1 DEF Sound
<1>5. n - 1 <= Buffer
  BY <1>1, OutboxAssumption DEF Sound
<1>6. Sound(t, table, out)
  BY <1>1, <1>2, <1>3, <1>4, <1>5 DEF Sound
<1> QED
  BY <1>6 DEF t

LEMMA OneMoreSound ==
  ASSUME NEW s, NEW table, NEW out, Sound(s, table, out), Len(s) < Buffer, NEW h \in Nat,
         \A i \in out : ~(h < i /\ table[h].auction = table[i].auction)
  PROVE  Sound(Append(s, h), table, out \cup {h})
<1> DEFINE t == Append(s, h)
<1>1. PICK n \in Nat : n = Len(s)
  BY DEF Sound
<1>2. /\ t \in Seq(Nat) /\ Len(t) = n + 1 /\ t[n + 1] = h
      /\ \A x \in 1..n : t[x] = s[x]
  BY <1>1 DEF Sound
<1> HIDE DEF t
<1>3. \A x \in 1..(n + 1) : x \in 1..n \/ x = n + 1
  BY <1>1
<1>4. \A x \in 1..n : s[x] \in out
  BY <1>1 DEF Sound
<1>5. ASSUME NEW x \in 1..(n + 1), NEW y \in 1..(n + 1), x < y
      PROVE  ~(t[y] < t[x] /\ table[t[y]].auction = table[t[x]].auction)
  <2>1. x \in 1..n /\ t[x] = s[x]
    BY <1>1, <1>2, <1>3, <1>5
  <2>2. CASE y \in 1..n
    BY <1>1, <1>2, <1>5, <2>1, <2>2 DEF Sound
  <2>3. CASE y = n + 1
    BY <1>2, <1>4, <2>1, <2>3
  <2> QED
    BY <1>3, <2>2, <2>3
<1>6. n + 1 <= Buffer
  BY <1>1, OutboxAssumption
<1>7. \A x \in 1..(n + 1) : t[x] \in out \cup {h}
  BY <1>2, <1>3, <1>4
<1>8. Sound(t, table, out \cup {h})
  BY <1>2, <1>5, <1>6, <1>7 DEF Sound
<1> QED
  BY <1>8 DEF t

\* Rows may come and change, as long as none changes its auction.
LEMMA StillSound ==
  ASSUME NEW s, NEW table, NEW out, Sound(s, table, out), NEW later, NEW more, out \subseteq more,
         \A i \in out : later[i].auction = table[i].auction
  PROVE  Sound(s, later, more)
BY DEF Sound

LEMMA ChannelsStep ==
  ASSUME IInv, Channels, [Next]_vars
  PROVE  Channels'
<1>0. Types
  BY DEF IInv
<1>1. PICK n \in Nat : n = Len(rows) /\ Events = 1..n
  BY <1>0 DEF Types, Events
<1>2. ASSUME NEW a \in Auctions, Insert(a) PROVE Channels'
  <2> DEFINE row == [auction |-> a, status |-> "pending", retries |-> 0]
  <2>1. row \in Row /\ rows' = Append(rows, row) /\ UNCHANGED <<resting, channel, sent>>
    BY <1>2 DEF Insert, Row, Statuses
  <2> HIDE DEF row
  <2>2. Len(rows') = n + 1 /\ \A i \in 1..n : rows'[i] = rows[i]
    BY <1>0, <1>1, <2>1 DEF Types
  <2>3. Events \subseteq Events'
    BY <1>1, <2>2 DEF Events
  <2>4. \A i \in sent : rows'[i].auction = rows[i].auction
    BY <1>0, <1>1, <2>2 DEF Types
  <2>5. \A p \in Publishers : Sound(channel[p], rows', sent)
    BY <2>4, StillSound DEF Channels
  <2> QED
    BY <2>1, <2>3, <2>5 DEF Channels
<1>3. ASSUME NEW p \in Publishers, LockNext(p) \/ Rollback(p) PROVE Channels'
  BY <1>3 DEF LockNext, Rollback, Channels, Events
<1>4. ASSUME NEW p \in Publishers, Publish(p) PROVE Channels'
  <2> DEFINE h == held[p]
  <2>0. UNCHANGED <<rows, resting>>
    BY <1>4 DEF Publish
  <2>1. CASE UNCHANGED <<channel, sent>>
    BY <2>0, <2>1 DEF Channels, Events
  <2>2. CASE /\ Len(channel[p]) < Buffer
             /\ channel' = [channel EXCEPT ![p] = Append(@, held[p])]
             /\ sent' = sent \cup {held[p]}
    <3>1. h \in Events /\ h \in Nat /\ ~Settled(h)
      BY <1>0, <1>1, <1>4 DEF Publish, Types, IInv, OneHolder
    <3>2. \A i \in sent : ~(h < i /\ rows[h].auction = rows[i].auction)
      BY <3>1 DEF IInv, SentInOrder, Earlier
    <3>3. Sound(Append(channel[p], h), rows, sent \cup {h})
      BY <2>2, <3>1, <3>2, OneMoreSound DEF Channels
    <3>4. \A q \in Publishers \ {p} : Sound(channel[q], rows, sent \cup {h})
      BY StillSound DEF Channels
    <3>5. Append(channel[p], h) \in Seq(Nat)
      BY <3>3 DEF Sound
    <3> QED
      BY <2>0, <2>2, <3>3, <3>4, <3>5 DEF Channels, Events
  <2> QED
    BY <1>4, <2>1, <2>2 DEF Publish
<1>5. ASSUME NEW p \in Publishers, Mark(p) PROVE Channels'
  <2> DEFINE h == held[p]
             row == IF outcome[p] = "ok" THEN [rows[h] EXCEPT !.status = "published"]
                    ELSE FailedRow(rows[h])
  <2>1. h \in 1..n /\ rows[h] \in Row
    BY <1>0, <1>1, <1>5 DEF Mark, Types
  <2>2. row.auction = rows[h].auction
    BY <2>1, FailedRowType DEF Row
  <2>3. /\ rows' = [rows EXCEPT ![h] = row] /\ UNCHANGED <<channel, sent>>
        /\ resting' \subseteq resting \cup {h}
    BY <1>5 DEF Mark
  <2> HIDE DEF row
  <2>4. Len(rows') = n /\ \A i \in 1..n : rows'[i].auction = rows[i].auction
    BY <1>0, <1>1, <2>1, <2>2, <2>3 DEF Types
  <2>5. Events' = Events /\ resting' \subseteq Events
    BY <1>1, <2>1, <2>3, <2>4 DEF Events, Channels
  <2>6. \A q \in Publishers : Sound(channel[q], rows', sent)
    BY <1>0, <1>1, <2>4, StillSound DEF Channels, Types
  <2> QED
    BY <2>3, <2>5, <2>6 DEF Channels
<1>6. ASSUME NEW p \in Publishers, NEW s, Sound(s, rows, sent), UNCHANGED <<rows, resting, sent>>,
             channel' = [channel EXCEPT ![p] = s]
      PROVE  Channels'
  BY <1>6 DEF Channels, Sound, Events
<1>7. ASSUME NEW p \in Publishers, Crash(p) PROVE Channels'
  BY <1>6, <1>7, EmptySound DEF Crash
<1>8. ASSUME NEW p \in Publishers, Forward(p) PROVE Channels'
  BY <1>6, <1>8, TailSound DEF Forward, Channels
<1>9. ASSUME NEW i \in resting, Rested(i) PROVE Channels'
  BY <1>9 DEF Rested, Channels, Events
<1>10. CASE Finished \/ UNCHANGED vars
  BY <1>10 DEF Finished, vars, Channels, Events
<1> QED
  BY <1>2, <1>3, <1>4, <1>5, <1>7, <1>8, <1>9, <1>10 DEF Next

\* The tables, publishers and channels have their types, and in each channel the
\* events of an auction are in order, for any size of the channels: what a
\* failed transaction leaves there twice is never behind a later event.
THEOREM ChannelsInOrder == Spec => [](TypeOK /\ ChannelInOrder)
<1>1. Init => Channels
  BY EmptySound DEF Init, Channels
<1>2. IInv /\ Channels /\ [Next]_vars => Channels'
  BY ChannelsStep
<1>3. ASSUME IInv, Channels PROVE TypeOK
  <2>1. ASSUME NEW p \in Publishers PROVE channel[p] \in Seq(Events) /\ Len(channel[p]) <= Buffer
    <3>1. channel[p] \in Seq(Nat) /\ \A x \in 1..Len(channel[p]) : channel[p][x] \in Events
      BY <1>3 DEF Channels, Sound, IInv, Types
    <3>2. channel[p] \in Seq(Events)
      BY <3>1
    <3> QED
      BY <1>3, <3>2 DEF Channels, Sound
  <2> QED
    BY <1>3, <2>1 DEF TypeOK, IInv, Types, Row, Channels
<1>4. ASSUME IInv, Channels PROVE ChannelInOrder
  <2> SUFFICES ASSUME NEW p \in Publishers, NEW x \in 1..Buffer, NEW y \in 1..Buffer,
                      x < y, y <= Len(channel[p])
               PROVE  ~Earlier(channel[p][y], channel[p][x])
    BY DEF ChannelInOrder
  <2>1. x \in 1..Len(channel[p]) /\ y \in 1..Len(channel[p])
    BY <1>4, OutboxAssumption DEF Channels, Sound
  <2> QED
    BY <1>4, <2>1 DEF Channels, Sound, Earlier
<1> QED
  BY <1>1, <1>2, <1>3, <1>4, Invariance, PTL DEF Spec
=============================================================================
