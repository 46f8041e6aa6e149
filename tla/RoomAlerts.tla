----------------------------- MODULE RoomAlerts -----------------------------
(***************************************************************************)
(* The alerts and the countdown of the room page: useAuctionAlerts.ts, the *)
(* animation frame of AuctionRoomPage.tsx, and useServerTime.ts (of         *)
(* mobile-h5/src), over a store that is moved on by     *)
(* events one at a time, by pages of events, by /status answers and by the *)
(* answers to the client's own bids (ClientRoom has how they come).        *)
(*                                                                         *)
(* A step is what the browser does without a pause: a change, the render   *)
(* and its effects.  Time is in seconds.  Tones are left out.           *)
(***************************************************************************)
EXTENDS Integers, Sequences, FiniteSets, SequencesExt

CONSTANTS
  Log,        \* the events of the auction: records [type, ...]
  FirstEnd,   \* its end before them
  Me, Nobody, \* users
  None,       \* null
  Urgent,     \* the last seconds are urgent (10)
  MaxShown,   \* alerts on the screen at a time (4)
  Lasting,    \* seconds an alert lasts (4.2)
  Skew,       \* the client's clock is ahead by this
  Delay,      \* bound: seconds an answer takes (the client's timeout, 8)
  MaxDue,     \* bound: alerts due at a time
  MaxTime     \* bound of the clock

ASSUME TypesAssumption ==
  /\ Len(Log) \in Nat /\ DOMAIN Log = 1..Len(Log)
  /\ \A n \in DOMAIN Log : Log[n].type \in {"bid", "extended", "ended"}
ASSUME NumberAssumption ==
  /\ FirstEnd \in Nat /\ Urgent \in Nat \ {0} /\ MaxShown \in Nat \ {0} /\ Lasting \in Nat
  /\ Skew \in Int /\ Delay \in Nat /\ MaxDue \in Nat /\ MaxTime \in Nat

VARIABLES
  now,        \* the server's clock
  committed,  \* events in the database
  store,      \* the client's copy: seq, status, end, leader, latest
  page,       \* the room page's states and refs, None while it is not mounted
  asked,      \* the server_time of each /status answer on its way
  raised      \* history: the alerts of events raised in this visit to the room

vars == <<now, committed, store, page, asked, raised>>

-----------------------------------------------------------------------------
(* The store.                                                               *)

\* What the row says after n events.
View[n \in 0..Len(Log)] ==
  IF n = 0 THEN [status |-> "active", end |-> FirstEnd, leader |-> Nobody]
  ELSE LET e == Log[n] IN
       CASE e.type = "bid"      -> [View[n - 1] EXCEPT !.leader = e.leader]
         [] e.type = "extended" -> [View[n - 1] EXCEPT !.end = e.end]
         [] e.type = "ended"    -> [View[n - 1] EXCEPT !.status = "ended"]

\* applySnapshot: whatever moment the answer is of, and no latest event.
Snapshot(n) == [seq |-> n, status |-> View[n].status, end |-> View[n].end,
                leader |-> View[n].leader, latest |-> None]

\* applyEvent: lastRealtimeEvent keeps the leader before and after.
ApplyEvent(s, n) ==
  LET e == Log[n]
      leader == IF e.type = "bid" THEN e.leader ELSE s.leader
  IN  [ seq    |-> n,
        status |-> IF e.type = "ended" THEN "ended" ELSE s.status,
        end    |-> IF e.type = "extended" THEN e.end ELSE s.end,
        leader |-> leader,
        latest |-> [id |-> n, type |-> e.type, before |-> s.leader, after |-> leader] ]

-----------------------------------------------------------------------------
(* The page.                                                                *)

\* serverNow: Date.now() and the offset of the last calibration.
ServerNow(p) == now + Skew + p.offset

\* The states and refs of the hooks when the page is mounted.
FreshPage == [ offset |-> 0, calibrated |-> FALSE, remaining |-> 0,
               processed |-> {}, endingFor |-> None,
               due |-> <<>>, alerts |-> <<>>, timers |-> {} ]

\* setRemainingMs of the animation frame.
FrameAt(p, s, time) ==
  IF s.end = None THEN p ELSE [p EXCEPT !.remaining = s.end - (time + Skew + p.offset)]
Frame(p, s) == FrameAt(p, s, now)

Outbid(e) == e.type = "bid" /\ e.before = Me /\ e.after \notin {Me, Nobody}

\* The alert an event calls for: none for most bids.
AlertOf(e) ==
  CASE Outbid(e)                        -> <<<<"outbid", e.id>>>>
    [] e.type = "bid" /\ ~Outbid(e)     -> <<>>
    [] e.type \in {"extended", "ended"} -> <<<<e.type, e.id>>>>

\* Wrong: the latest event is taken for new whenever the store brings one.
WrongOnLatestEvent(p, s) ==
  LET e == s.latest
  IN  IF e = None THEN p
      ELSE [p EXCEPT !.processed = @ \cup {e.id}, !.due = @ \o AlertOf(e),
                     !.endingFor = IF e.type = "extended" THEN None ELSE @]

\* The effect on latestEvent: each event is looked at once in a visit.
OnLatestEvent(p, s) ==
  LET e == s.latest
  IN  IF e = None \/ (e # None /\ e.id \in p.processed) THEN p
      ELSE [p EXCEPT !.processed = @ \cup {e.id}, !.due = @ \o AlertOf(e),
                     !.endingFor = IF e.type = "extended" THEN None ELSE @]

\* The effect on status, endTime and remainingMs: the urgent seconds of an end.
OnCountdown(p, s) ==
  IF s.status = "active" /\ p.remaining \in 1..Urgent /\ p.endingFor # s.end
  THEN [p EXCEPT !.due = Append(@, <<"ending", s.end>>), !.endingFor = s.end]
  ELSE p

\* A render after a change of the store from s to t, and its effects in their
\* order: the countdown of the old frame meets the new end before the frame moves.
Rendered(p, s, t) ==
  LET latest == OnLatestEvent(p, t)
      counted == IF <<s.status, s.end>> = <<t.status, t.end>> THEN latest
                 ELSE OnCountdown(latest, t)
  IN  IF s.end = t.end THEN counted ELSE OnCountdown(Frame(counted, t), t)

\* Alerts that q has due and p had not.
NewlyDue(p, q) == ToSet(SubSeq(q.due, Len(p.due) + 1, Len(q.due)))

OfEvents(ids) == {id \in ids : id[1] # "ending"}

\* The page is now q, and raises what it has newly due.
Becomes(q) ==
  LET ids == NewlyDue(page, q)
  IN  /\ page' = q
      /\ raised' = raised \cup OfEvents(ids)

\* The store changes to t, under the page or without it.
StoreBecomes(t) ==
  /\ store' = t
  /\ IF page = None THEN UNCHANGED <<page, raised>>
     ELSE Len(page.due) < MaxDue /\ Becomes(Rendered(page, store, t))

-----------------------------------------------------------------------------
Init ==
  /\ now = 0 /\ committed = 0
  /\ store = [seq |-> 0, status |-> None, end |-> None, leader |-> Nobody, latest |-> None]
  /\ page = None /\ asked = {} /\ raised = {}

\* The server commits the next event: the end only when it has come.
Commit ==
  /\ committed < Len(Log)
  /\ (Log[committed + 1].type = "ended") <=> now >= View[committed].end
  /\ committed' = committed + 1
  /\ UNCHANGED <<now, store, page, asked, raised>>

\* A second passes and the animation frame follows.  No answer is on its way for
\* longer than Delay, and timers are in time.
Tick ==
  /\ now < MaxTime /\ \A t \in asked : now - t < Delay
  /\ now' = now + 1
  /\ IF page = None THEN UNCHANGED <<page, raised>>
     ELSE /\ page.due = <<>> /\ \A id \in page.timers : now - id[3] < Lasting
          /\ Becomes(OnCountdown(FrameAt(page, store, now + 1), store))
  /\ UNCHANGED <<committed, store, asked>>

\* What the events up to n make of the store.
After(n) == FoldLeft(ApplyEvent, store, [i \in 1..n - store.seq |-> store.seq + i])

\* The next event arrives, or a page of events, of which one render sees the last.
Receive ==
  /\ store.status # None /\ page # None
  /\ \E n \in store.seq + 1..committed : StoreBecomes(ApplyEvent(After(n - 1), n))
  /\ UNCHANGED <<now, committed, asked>>

\* A /status answer arrives, of this moment or an earlier one.
StatusArrives ==
  /\ \E n \in 0..committed : StoreBecomes(Snapshot(n))
  /\ UNCHANGED <<now, committed, asked>>

\* The answer to a bid of one's own, before or after its event (applyBidResponse).
BidAnswer ==
  /\ page # None /\ store.status # None
  /\ \E n \in 1..committed : Log[n].type = "bid" /\ Log[n].leader = Me
  /\ StoreBecomes([store EXCEPT !.leader = Me])
  /\ UNCHANGED <<now, committed, asked>>

\* useServerTime asks at the start and every 30 seconds, here at any time: the
\* last answer has come by then, or timed out.
Ask ==
  /\ page # None /\ asked = {} /\ asked' = {now}
  /\ UNCHANGED <<now, committed, store, page, raised>>

\* Wrong: the offset is taken from the moment of the request, a second earlier.
WrongCalibrated(p, t) == [p EXCEPT !.offset = t - (now - 1 + Skew), !.calibrated = TRUE]

\* createServerOffset: server_time less the client's clock on arrival.
Calibrated(p, t) == [p EXCEPT !.offset = t - (now + Skew), !.calibrated = TRUE]

\* The answer calibrates the clock and the frame starts anew; or it is lost.
Calibrate ==
  /\ page # None
  /\ \E t \in asked :
       /\ asked' = asked \ {t}
       /\ \/ Becomes(OnCountdown(Frame(Calibrated(page, t), store), store))
          \/ UNCHANGED <<page, raised>>
  /\ UNCHANGED <<now, committed, store>>

\* Wrong: the oldest alert has to go, and its timer is not replaced.
WrongPushed(p) ==
  LET id == Append(Head(p.due), now)
      all == <<id>> \o p.alerts
  IN  [p EXCEPT !.due = Tail(@), !.timers = IF Len(all) > MaxShown THEN @ ELSE @ \cup {id},
                !.alerts = IF Len(all) > MaxShown THEN SubSeq(all, 1, MaxShown) ELSE all]

\* pushAlert: the id ends in Date.now(); the newest first, each with its timer.
Pushed(p) ==
  LET id == Append(Head(p.due), now)
      all == <<id>> \o p.alerts
  IN  [p EXCEPT !.due = Tail(@), !.timers = @ \cup {id},
                !.alerts = IF Len(all) > MaxShown THEN SubSeq(all, 1, MaxShown) ELSE all]

\* The timer of scheduleAlert.
Push ==
  /\ page # None /\ page.due # <<>>
  /\ page' = Pushed(page)
  /\ UNCHANGED <<now, committed, store, asked, raised>>

\* dismissAlert.
Dismissed(alerts, id) ==
  LET upTo[n \in 0..Len(alerts)] ==
        IF n = 0 THEN <<>>
        ELSE IF alerts[n] = id THEN upTo[n - 1] ELSE Append(upTo[n - 1], alerts[n])
  IN  upTo[Len(alerts)]
Without(p, id) == [p EXCEPT !.alerts = Dismissed(@, id)]

\* The user closes an alert, whose timer goes on.
Close ==
  /\ page # None
  /\ \E i \in DOMAIN page.alerts : page' = Without(page, page.alerts[i])
  /\ UNCHANGED <<now, committed, store, asked, raised>>

\* The timer of an alert.
Expired(p, id) == [p EXCEPT !.alerts = Dismissed(@, id), !.timers = @ \ {id}]
Expire(id) ==
  /\ page # None /\ id \in page.timers
  /\ page' = Expired(page, id)
  /\ UNCHANGED <<now, committed, store, asked, raised>>

\* The page is mounted over what an earlier visit left in the store: its effects
\* run with no time remaining, then the first frame comes.
Enter ==
  /\ page = None
  /\ LET q == OnLatestEvent(FreshPage, store)
         r == OnCountdown(Frame(q, store), store)
     IN  /\ page' = r
         /\ raised' = OfEvents(ToSet(r.due))
  /\ UNCHANGED <<now, committed, store, asked>>

\* Unmounted: timers are cleared, and what was asked calibrates nothing.
Leave ==
  /\ page # None
  /\ page' = None /\ asked' = {} /\ raised' = {}
  /\ UNCHANGED <<now, committed, store>>

AlertIds == {"outbid", "extended", "ended", "ending"} \X (0..MaxTime) \X (0..MaxTime)

Next ==
  \/ Commit \/ Tick \/ Receive \/ StatusArrives \/ BidAnswer \/ Ask
  \/ Calibrate \/ Push \/ Close \/ Enter \/ Leave
  \/ \E id \in AlertIds : Expire(id)

Spec == Init /\ [][Next]_vars

-----------------------------------------------------------------------------
TypeOK ==
  /\ now \in Nat /\ committed \in 0..Len(Log)
  /\ store.seq \in 0..committed
  /\ page # None => page.calibrated \in BOOLEAN /\ page.processed \subseteq 1..committed
  /\ \A t \in asked : t \in 0..now /\ now - t <= Delay

\* An event is alerted at most once in a visit, though a late /status
\* sets the store back and the event comes again (useAuctionAlerts.ts:96).
EventAlertsOnce ==
  [][page # None /\ page' # None =>
       OfEvents(NewlyDue(page, page')) \cap raised = {}]_vars

\* Once calibrated, the clock of the countdown runs behind the server's by no more
\* than an answer takes, and never ahead.  It speaks of the clock only: the end
\* that is counted down to is the store's, which may be old.
ClockBehind ==
  page # None /\ page.calibrated =>
    now - ServerNow(page) \in 0..Delay

\* Every alert on the screen has the timer that takes it away, however many came
\* at once and whatever the user closed.
AlertsTimed == page # None => ToSet(page.alerts) \subseteq page.timers

\* What role-B-realtime-mobile.md:193 asks and the page does not keep: the alert
\* of the end comes with ten seconds or less to go, by the countdown the page
\* then shows.
EndingAlertTimely ==
  [][page # None /\ page' # None =>
       \A id \in NewlyDue(page, page') :
         id[1] = "ending" => page'.remaining <= Urgent]_vars
=============================================================================
