---------------------------- MODULE AlertsProofs ----------------------------
(***************************************************************************)
(* What TLAPS proves of RoomAlerts: for any log of events, any bound on    *)
(* the time answers take, any skew of the client's clock and any running   *)
(* time.                                                                   *)
(***************************************************************************)
EXTENDS RoomAlerts, SequenceTheorems, FiniteSetTheorems, WellFoundedInduction, TLAPS

Fields == {"offset", "calibrated", "remaining", "processed", "endingFor",
           "due", "alerts", "timers"}
Types == {"bid", "extended", "ended"}

-----------------------------------------------------------------------------
(***************************************************************************)
(* What the effects of a render do: alerts are only added to what is due,  *)
(* each for an event that was not looked at before and is now.             *)
(***************************************************************************)
Listed(p) == \E S : p.due \in Seq(S)
New(p, q, id) == id[1] # "ending" => id[2] \notin p.processed /\ id[2] \in q.processed
SameClock(p, q) == q.offset = p.offset /\ q.calibrated = p.calibrated

Goes(p, q) ==
  /\ DOMAIN q = Fields /\ Listed(q)
  /\ p.processed \subseteq q.processed
  /\ Len(p.due) <= Len(q.due)
  /\ \A i \in 1..Len(p.due) : q.due[i] = p.due[i]
  /\ \A i \in 1..Len(q.due) : i > Len(p.due) => New(p, q, q.due[i])

IsPage(p) == DOMAIN p = Fields /\ Listed(p)
\* The latest event of a store is of a known type.
Known(s) == s.latest = None \/ s.latest.type \in Types

LEMMA ListedLength == ASSUME NEW p, Listed(p) PROVE Len(p.due) \in Nat
BY DEF Listed

LEMMA GoesOn ==
  ASSUME NEW p, NEW q, NEW r, Listed(p), Goes(p, q), Goes(q, r)
  PROVE  Goes(p, r)
<1>1. Len(p.due) \in Nat /\ Len(q.due) \in Nat /\ Len(r.due) \in Nat
  BY ListedLength DEF Goes
<1>2. ASSUME NEW i \in 1..Len(r.due), i > Len(p.due) PROVE New(p, r, r.due[i])
  <2>1. CASE i \in 1..Len(q.due)
    <3>1. r.due[i] = q.due[i] /\ New(p, q, q.due[i]) /\ q.processed \subseteq r.processed
      BY <1>2, <2>1 DEF Goes
    <3> QED
      BY <3>1 DEF New
  <2>2. CASE i > Len(q.due)
    <3>1. New(q, r, r.due[i]) /\ p.processed \subseteq q.processed
      BY <2>2 DEF Goes
    <3> QED
      BY <3>1 DEF New
  <2> QED
    BY <1>1, <2>1, <2>2
<1> QED
  BY <1>1, <1>2 DEF Goes

\* One more alert that is due.
LEMMA OneMore ==
  ASSUME NEW p, IsPage(p), NEW q, NEW id, DOMAIN q = Fields,
         q.due = Append(p.due, id), p.processed \subseteq q.processed, New(p, q, id)
  PROVE  Goes(p, q)
<1>1. PICK S : p.due \in Seq(S)
  BY DEF IsPage, Listed
<1>2. p.due \in Seq(S \cup {id})
  BY <1>1
<1>3. q.due \in Seq(S \cup {id})
  BY <1>2
<1>4. /\ Len(p.due) \in Nat /\ Len(q.due) = Len(p.due) + 1
      /\ q.due[Len(p.due) + 1] = id
      /\ \A i \in 1..Len(p.due) : q.due[i] = p.due[i]
  BY <1>2
<1> QED
  BY <1>3, <1>4 DEF Goes, Listed

LEMMA NoMore ==
  ASSUME NEW p, IsPage(p), NEW q, DOMAIN q = Fields,
         q.due = p.due, p.processed \subseteq q.processed
  PROVE  Goes(p, q)
<1>1. Len(p.due) \in Nat
  BY ListedLength DEF IsPage
<1> QED
  BY <1>1 DEF Goes, IsPage, Listed

LEMMA FrameGoes ==
  ASSUME NEW p, IsPage(p), NEW s, NEW time
  PROVE  Goes(p, FrameAt(p, s, time)) /\ SameClock(p, FrameAt(p, s, time))
<1> DEFINE q == FrameAt(p, s, time)
<1>1. /\ DOMAIN q = Fields /\ q.due = p.due /\ q.processed = p.processed
      /\ SameClock(p, q)
  BY DEF FrameAt, IsPage, Fields, SameClock
<1> HIDE DEF q
<1>2. Goes(p, q)
  BY <1>1, NoMore
<1> QED
  BY <1>1, <1>2 DEF q

LEMMA AlertOfOne ==
  ASSUME NEW e, e.type \in Types
  PROVE  AlertOf(e) = <<>> \/ \E type \in {"outbid", "extended", "ended"} :
                                AlertOf(e) = <<<<type, e.id>>>>
BY DEF AlertOf, Types, Outbid

LEMMA LatestGoes ==
  ASSUME NEW p, IsPage(p), NEW s, Known(s)
  PROVE  Goes(p, OnLatestEvent(p, s)) /\ SameClock(p, OnLatestEvent(p, s))
<1> DEFINE q == OnLatestEvent(p, s)
           e == s.latest
<1>1. CASE e = None \/ e.id \in p.processed
  <2>1. q = p
    BY <1>1 DEF OnLatestEvent
  <2> QED
    BY <2>1, NoMore DEF SameClock, IsPage
<1>2. CASE e # None /\ e.id \notin p.processed
  <2>1. /\ DOMAIN q = Fields /\ q.due = p.due \o AlertOf(e)
        /\ q.processed = p.processed \cup {e.id}
        /\ SameClock(p, q)
    BY <1>2 DEF OnLatestEvent, IsPage, Fields, SameClock
  <2>2. e.type \in Types
    BY <1>2 DEF Known
  <2>3. PICK S : p.due \in Seq(S)
    BY DEF IsPage, Listed
  <2> HIDE DEF q
  <2>4. CASE AlertOf(e) = <<>>
    <3>1. q.due = p.due
      BY <2>1, <2>3, <2>4
    <3> QED
      BY <2>1, <3>1, NoMore DEF q
  <2>5. ASSUME NEW type \in {"outbid", "extended", "ended"}, AlertOf(e) = <<<<type, e.id>>>>
        PROVE  Goes(p, q)
    <3> DEFINE id == <<type, e.id>>
    <3>1. id[1] = type /\ id[2] = e.id
      OBVIOUS
    <3>2. New(p, q, id)
      BY <1>2, <2>1, <3>1 DEF New
    <3> HIDE DEF id
    <3>3. p.due \in Seq(S \cup {id})
      BY <2>3
    <3>4. q.due = Append(p.due, id)
      BY <2>1, <2>5, <3>3 DEF id
    <3> QED
      BY <2>1, <3>2, <3>4, OneMore
  <2> QED
    BY <2>1, <2>2, <2>4, <2>5, AlertOfOne DEF q
<1> QED
  BY <1>1, <1>2

LEMMA CountdownGoes ==
  ASSUME NEW p, IsPage(p), NEW s
  PROVE  Goes(p, OnCountdown(p, s)) /\ SameClock(p, OnCountdown(p, s))
<1> DEFINE q == OnCountdown(p, s)
           id == <<"ending", s.end>>
<1>1. CASE q = p
  BY <1>1, NoMore DEF SameClock, IsPage
<1>2. CASE q # p
  <2>1. /\ DOMAIN q = Fields /\ q.due = Append(p.due, id) /\ q.processed = p.processed
        /\ SameClock(p, q)
    BY <1>2 DEF OnCountdown, IsPage, Fields, SameClock
  <2>2. New(p, q, id)
    BY DEF New
  <2> HIDE DEF q, id
  <2>3. Goes(p, q)
    BY <2>1, <2>2, OneMore
  <2> QED
    BY <2>1, <2>3 DEF q
<1> QED
  BY <1>1, <1>2

LEMMA GoesIsPage == ASSUME NEW p, NEW q, Goes(p, q) PROVE IsPage(q)
BY DEF Goes, IsPage

LEMMA RenderGoes ==
  ASSUME NEW p, IsPage(p), NEW s, NEW t, Known(t)
  PROVE  Goes(p, Rendered(p, s, t)) /\ SameClock(p, Rendered(p, s, t))
<1> DEFINE latest == OnLatestEvent(p, t)
           counted == IF <<s.status, s.end>> = <<t.status, t.end>> THEN latest
                      ELSE OnCountdown(latest, t)
           framed == Frame(counted, t)
<1>0. Listed(p)
  BY DEF IsPage
<1>1. Goes(p, latest) /\ SameClock(p, latest) /\ IsPage(latest)
  BY LatestGoes, GoesIsPage
<1> HIDE DEF latest
<1>2. Goes(p, OnCountdown(latest, t)) /\ SameClock(p, OnCountdown(latest, t))
  BY <1>0, <1>1, CountdownGoes, GoesOn DEF SameClock
<1>3. Goes(p, counted) /\ SameClock(p, counted) /\ IsPage(counted)
  BY <1>1, <1>2, GoesIsPage
<1> HIDE DEF counted
<1>4. Goes(counted, framed) /\ SameClock(counted, framed) /\ IsPage(framed)
  BY <1>3, FrameGoes, GoesIsPage DEF Frame
<1> HIDE DEF framed
<1>5. Goes(framed, OnCountdown(framed, t)) /\ SameClock(framed, OnCountdown(framed, t))
  BY <1>4, CountdownGoes
<1>6. Goes(p, framed) /\ SameClock(p, framed)
  BY <1>0, <1>3, <1>4, GoesOn DEF SameClock
<1>7. Goes(p, OnCountdown(framed, t)) /\ SameClock(p, OnCountdown(framed, t))
  BY <1>0, <1>5, <1>6, GoesOn DEF SameClock
<1> QED
  BY <1>3, <1>7 DEF Rendered, latest, counted, framed

-----------------------------------------------------------------------------
(***************************************************************************)
(* The invariant: a calibrated clock runs behind by the time an answer     *)
(* took, and what was raised was looked at.                                *)
(***************************************************************************)
StoreFields == {"seq", "status", "end", "leader", "latest"}
StoreInv ==
  /\ DOMAIN store = StoreFields /\ store.seq \in Nat /\ Known(store)
  /\ committed \in 0..Len(Log)
AskedInv ==
  /\ now \in Nat
  /\ \A t \in asked : t \in Nat /\ t <= now /\ now - t <= Delay
Behind(p) == p.offset \in Int /\ (p.calibrated => -(Skew + p.offset) \in 0..Delay)
LookedAt(p, ids) == \A id \in ids : id[2] \in p.processed
PageInv == page # None => IsPage(page) /\ Behind(page) /\ LookedAt(page, raised)
IInv == StoreInv /\ AskedInv /\ PageInv

\* What EventAlertsOnce says of a step.
OnceStep ==
  page # None /\ page' # None => OfEvents(NewlyDue(page, page')) \cap raised = {}

LEMMA NewlyNew ==
  ASSUME NEW p, NEW q, Listed(p), Goes(p, q), NEW id \in NewlyDue(p, q)
  PROVE  New(p, q, id)
<1>1. PICK m \in Nat : m = Len(p.due)
  BY ListedLength
<1>2. PICK n \in Nat : n = Len(q.due)
  BY ListedLength DEF Goes
<1>3. PICK S : q.due \in Seq(S)
  BY DEF Goes, Listed
<1> DEFINE new == SubSeq(q.due, m + 1, n)
<1>4. /\ DOMAIN new = 1..(n - m)
      /\ \A i \in 1..(n - m) : new[i] = q.due[m + i]
  <2>1. m <= n
    BY <1>1, <1>2 DEF Goes
  <2>2. \A i \in (m + 1)..n : q.due[i] \in S
    BY <1>2, <1>3
  <2>3. /\ new \in Seq(S)
        /\ Len(new) = IF m + 1 <= n THEN n - (m + 1) + 1 ELSE 0
        /\ \A i \in 1..(n - (m + 1) + 1) : new[i] = q.due[(m + 1) + i - 1]
    BY <2>2, SubSeqProperties
  <2> HIDE DEF new
  <2>4. n - (m + 1) + 1 = n - m /\ Len(new) = n - m
    BY <2>1, <2>3
  <2>5. \A i \in 1..(n - m) : (m + 1) + i - 1 = m + i
    OBVIOUS
  <2> QED
    BY <2>3, <2>4, <2>5
<1>5. PICK i \in DOMAIN new : id = new[i]
  BY <1>1, <1>2 DEF NewlyDue, ToSet
<1> HIDE DEF new
<1>6. m + i \in 1..n /\ m + i > m /\ id = q.due[m + i]
  <2>1. i \in 1..(n - m)
    BY <1>4, <1>5
  <2> QED
    BY <1>4, <1>5, <2>1
<1> QED
  BY <1>1, <1>2, <1>6 DEF Goes

\* A render raises nothing that was raised before.
LEMMA BecomesStep ==
  ASSUME IInv, page # None, NEW q, Goes(page, q), Behind(q), Becomes(q)
  PROVE  PageInv' /\ OnceStep
<1>1. IsPage(page) /\ LookedAt(page, raised) /\ Listed(page)
  BY DEF IInv, PageInv, IsPage
<1>2. \A id \in OfEvents(NewlyDue(page, q)) : id[2] \notin page.processed /\ id[2] \in q.processed
  BY <1>1, NewlyNew DEF OfEvents, New
<1>3. page' = q /\ raised' = raised \cup OfEvents(NewlyDue(page, q))
  BY DEF Becomes
<1>4. LookedAt(q, raised')
  BY <1>1, <1>2, <1>3 DEF LookedAt, Goes
<1>5. PageInv'
  BY <1>3, <1>4, GoesIsPage DEF PageInv, LookedAt, IsPage, Listed, Behind
<1> QED
  BY <1>1, <1>2, <1>3, <1>5 DEF OnceStep, LookedAt

\* What is due does not change, or loses an alert.
LEMMA NoneNewlyDue ==
  ASSUME NEW p, NEW q, Listed(p), Listed(q), Len(q.due) <= Len(p.due)
  PROVE  NewlyDue(p, q) = {}
<1>1. PICK m \in Nat : m = Len(p.due)
  BY ListedLength
<1>2. PICK n \in Nat : n = Len(q.due)
  BY ListedLength
<1>3. n < m + 1
  BY <1>1, <1>2
<1>4. SubSeq(q.due, m + 1, n) = <<>>
  BY <1>3, SubSeqEmpty
<1>5. DOMAIN <<>> = {}
  OBVIOUS
<1> QED
  BY <1>1, <1>2, <1>4, <1>5 DEF NewlyDue, ToSet

\* The page changes without a render that raises alerts.
LEMMA QuietStep ==
  ASSUME IInv, page # None, UNCHANGED raised, NEW q, page' = q, DOMAIN q = Fields, Listed(q),
         Len(q.due) <= Len(page.due), q.processed = page.processed, SameClock(page, q)
  PROVE  PageInv' /\ OnceStep
<1>1. IsPage(page) /\ LookedAt(page, raised) /\ Listed(page) /\ Behind(page)
  BY DEF IInv, PageInv, IsPage
<1>2. NewlyDue(page, q) = {}
  BY <1>1, NoneNewlyDue
<1>3. OnceStep
  BY <1>2 DEF OnceStep, OfEvents
<1>4. PageInv'
  BY <1>1 DEF PageInv, LookedAt, IsPage, Listed, Behind, SameClock
<1> QED
  BY <1>3, <1>4

LEMMA SamePage ==
  ASSUME IInv, UNCHANGED <<page, raised>>
  PROVE  PageInv' /\ OnceStep
<1>1. CASE page = None
  BY <1>1 DEF PageInv, OnceStep
<1>2. CASE page # None
  <2>1. IsPage(page)
    BY <1>2 DEF IInv, PageInv
  <2>2. Len(page.due) \in Nat
    BY <2>1, ListedLength DEF IsPage
  <2> QED
    BY <1>2, <2>1, <2>2, QuietStep DEF IsPage, SameClock
<1> QED
  BY <1>1, <1>2

-----------------------------------------------------------------------------
(* The steps. *)

LEMMA StoreStep ==
  ASSUME IInv, NEW t, StoreBecomes(t), Known(t), DOMAIN t = StoreFields, t.seq \in Nat,
         UNCHANGED <<now, committed, asked>>
  PROVE  IInv' /\ OnceStep
<1>1. StoreInv'
  BY DEF StoreBecomes, StoreInv, IInv, Known
<1>2. PageInv' /\ OnceStep
  <2>1. CASE page = None
    BY <2>1, SamePage DEF StoreBecomes
  <2>2. CASE page # None
    <3> DEFINE q == Rendered(page, store, t)
    <3>1. Goes(page, q) /\ SameClock(page, q)
      BY <2>2, RenderGoes DEF IInv, PageInv
    <3>2. Becomes(q)
      BY <2>2 DEF StoreBecomes
    <3> HIDE DEF q
    <3>3. Behind(q)
      BY <2>2, <3>1 DEF IInv, PageInv, Behind, SameClock
    <3> QED
      BY <2>2, <3>1, <3>2, <3>3, BecomesStep
  <2> QED
    BY <2>1, <2>2
<1>3. AskedInv'
  BY DEF AskedInv, IInv
<1> QED
  BY <1>1, <1>2, <1>3 DEF IInv

\* The n-th event, applied to whatever the ones before it made of the store.
LEMMA EventApplied ==
  ASSUME NEW s, NEW n \in 1..Len(Log)
  PROVE  /\ Known(ApplyEvent(s, n)) /\ DOMAIN ApplyEvent(s, n) = StoreFields
         /\ ApplyEvent(s, n).seq = n
BY TypesAssumption DEF ApplyEvent, Known, Types, StoreFields

LEMMA ReceiveStep ==
  ASSUME IInv, Receive
  PROVE  IInv' /\ OnceStep
<1>1. PICK n \in store.seq + 1..committed : StoreBecomes(ApplyEvent(After(n - 1), n))
  BY DEF Receive
<1>2. n \in 1..Len(Log)
  BY TypesAssumption DEF IInv, StoreInv
<1> DEFINE t == ApplyEvent(After(n - 1), n)
<1>3. Known(t) /\ DOMAIN t = StoreFields /\ t.seq \in Nat
  BY <1>2, EventApplied
<1> HIDE DEF t
<1> QED
  BY <1>1, <1>3, StoreStep DEF t, Receive

LEMMA StatusStep ==
  ASSUME IInv, StatusArrives
  PROVE  IInv' /\ OnceStep
<1>1. PICK n \in 0..committed : StoreBecomes(Snapshot(n))
  BY DEF StatusArrives
<1> DEFINE t == Snapshot(n)
<1>2. Known(t) /\ DOMAIN t = StoreFields /\ t.seq \in Nat
  BY DEF Snapshot, Known, StoreFields, IInv, StoreInv
<1> HIDE DEF t
<1> QED
  BY <1>1, <1>2, StoreStep DEF t, StatusArrives

LEMMA AnswerStep ==
  ASSUME IInv, BidAnswer
  PROVE  IInv' /\ OnceStep
<1> DEFINE t == [store EXCEPT !.leader = Me]
<1>1. Known(t) /\ DOMAIN t = StoreFields /\ t.seq \in Nat
  BY DEF Known, StoreFields, IInv, StoreInv
<1>2. StoreBecomes(t) /\ UNCHANGED <<now, committed, asked>>
  BY DEF BidAnswer
<1> HIDE DEF t
<1> QED
  BY <1>1, <1>2, StoreStep

\* The next frame, and the effect on what it shows.
LEMMA CountedGoes ==
  ASSUME NEW p, IsPage(p), NEW s, NEW time
  PROVE  /\ Goes(p, OnCountdown(FrameAt(p, s, time), s))
         /\ SameClock(p, OnCountdown(FrameAt(p, s, time), s))
<1> DEFINE f == FrameAt(p, s, time)
<1>1. Goes(p, f) /\ SameClock(p, f) /\ IsPage(f)
  BY FrameGoes, GoesIsPage
<1> HIDE DEF f
<1>2. Goes(f, OnCountdown(f, s)) /\ SameClock(f, OnCountdown(f, s))
  BY <1>1, CountdownGoes
<1>3. Goes(p, OnCountdown(f, s)) /\ SameClock(p, OnCountdown(f, s))
  BY <1>1, <1>2, GoesOn DEF IsPage, SameClock
<1> QED
  BY <1>3 DEF f

LEMMA TickStep ==
  ASSUME IInv, Tick
  PROVE  IInv' /\ OnceStep
<1>1. StoreInv'
  BY DEF Tick, StoreInv, IInv, Known
<1>2. AskedInv'
  BY NumberAssumption DEF Tick, AskedInv, IInv
<1>3. CASE page = None
  BY <1>1, <1>2, <1>3, SamePage DEF Tick, IInv
<1>4. CASE page # None
  <2> DEFINE q == OnCountdown(FrameAt(page, store, now + 1), store)
  <2>1. Goes(page, q) /\ SameClock(page, q)
    BY <1>4, CountedGoes DEF IInv, PageInv
  <2>2. Becomes(q)
    BY <1>4 DEF Tick
  <2> HIDE DEF q
  <2>3. Behind(q)
    BY <1>4, <2>1 DEF IInv, PageInv, Behind, SameClock
  <2> QED
    BY <1>1, <1>2, <1>4, <2>1, <2>2, <2>3, BecomesStep DEF IInv
<1> QED
  BY <1>3, <1>4

LEMMA CalibrateStep ==
  ASSUME IInv, Calibrate
  PROVE  IInv' /\ OnceStep
<1>1. StoreInv'
  BY DEF Calibrate, StoreInv, IInv, Known
<1>2. AskedInv'
  BY DEF Calibrate, AskedInv, IInv
<1>3. PICK t \in asked :
        \/ Becomes(OnCountdown(Frame(Calibrated(page, t), store), store))
        \/ UNCHANGED <<page, raised>>
  BY DEF Calibrate
<1>4. CASE UNCHANGED <<page, raised>>
  BY <1>1, <1>2, <1>4, SamePage DEF IInv
<1>5. CASE Becomes(OnCountdown(Frame(Calibrated(page, t), store), store))
  <2>0. page # None /\ IsPage(page)
    BY DEF Calibrate, IInv, PageInv
  <2> DEFINE c == Calibrated(page, t)
             q == OnCountdown(Frame(c, store), store)
  <2>1. /\ DOMAIN c = Fields /\ c.due = page.due /\ c.processed = page.processed
        /\ c.offset = t - (now + Skew)
    BY <2>0 DEF Calibrated, IsPage, Fields
  <2> HIDE DEF c
  <2>2. Goes(page, c) /\ IsPage(c)
    BY <2>0, <2>1, NoMore, GoesIsPage
  <2>3. Goes(c, q) /\ SameClock(c, q)
    BY <2>2, CountedGoes DEF Frame
  <2>4. Becomes(q)
    BY <1>5 DEF c
  <2> HIDE DEF q
  <2>5. Goes(page, q)
    BY <2>0, <2>2, <2>3, GoesOn DEF IsPage
  <2>6. Behind(c)
    BY <2>1, NumberAssumption DEF Behind, IInv, AskedInv
  <2>7. Behind(q)
    BY <2>3, <2>6 DEF Behind, SameClock
  <2> QED
    BY <1>1, <1>2, <2>0, <2>4, <2>5, <2>7, BecomesStep DEF IInv
<1> QED
  BY <1>3, <1>4, <1>5

LEMMA AlertGoes ==
  ASSUME NEW p, DOMAIN p = Fields, NEW id, NEW q, q = Without(p, id) \/ q = Expired(p, id)
  PROVE  /\ DOMAIN q = Fields /\ q.due = p.due /\ q.processed = p.processed
         /\ q.offset = p.offset /\ q.calibrated = p.calibrated
<1> DEFINE w == [p EXCEPT !.alerts = Dismissed(p.alerts, id)]
           t == p.timers \ {id}
<1>1. /\ DOMAIN w = Fields /\ w.due = p.due /\ w.processed = p.processed
      /\ w.offset = p.offset /\ w.calibrated = p.calibrated
  BY DEF Fields
<1>2. Without(p, id) = w /\ Expired(p, id) = [w EXCEPT !.timers = t]
  BY DEF Without, Expired
<1> HIDE DEF w, t
<1> QED
  BY <1>1, <1>2 DEF Fields

\* The timers of alerts and the user's clicks.
LEMMA ScreenStep ==
  ASSUME IInv, page # None, UNCHANGED <<now, committed, store, asked, raised>>,
         \/ page.due # <<>> /\ page' = Pushed(page)
         \/ \E id : page' = Without(page, id) \/ page' = Expired(page, id)
  PROVE  IInv' /\ OnceStep
<1>1. StoreInv' /\ AskedInv'
  BY DEF StoreInv, AskedInv, IInv, Known
<1>2. IsPage(page) /\ Len(page.due) \in Nat
  BY ListedLength DEF IInv, PageInv, IsPage
<1>3. ASSUME NEW id, page' = Without(page, id) \/ page' = Expired(page, id)
      PROVE  PageInv' /\ OnceStep
  <2>1. /\ DOMAIN page' = Fields /\ page'.due = page.due
        /\ page'.processed = page.processed
        /\ page'.offset = page.offset /\ page'.calibrated = page.calibrated
    BY <1>2, <1>3, AlertGoes DEF IsPage
  <2> DEFINE q == page'
  <2>2. Listed(q) /\ Len(q.due) <= Len(page.due) /\ SameClock(page, q)
    BY <1>2, <2>1 DEF IsPage, Listed, SameClock
  <2> QED
    BY <1>2, <2>1, <2>2, QuietStep
<1>4. CASE page.due # <<>> /\ page' = Pushed(page)
  <2>1. PICK S : page.due \in Seq(S)
    BY <1>2 DEF IsPage, Listed
  <2>2. Tail(page.due) \in Seq(S) /\ Len(Tail(page.due)) = Len(page.due) - 1
    BY <1>4, <2>1, HeadTailProperties
  <2> DEFINE q == Pushed(page)
  <2>3. /\ DOMAIN q = Fields /\ q.due = Tail(page.due) /\ q.processed = page.processed
        /\ SameClock(page, q)
    BY <1>2 DEF Pushed, IsPage, Fields, SameClock
  <2>4. page' = q
    BY <1>4
  <2> HIDE DEF q
  <2>5. Listed(q) /\ Len(q.due) <= Len(page.due)
    BY <1>2, <2>2, <2>3 DEF Listed
  <2> QED
    BY <1>1, <2>3, <2>4, <2>5, QuietStep DEF IInv
<1> QED
  BY <1>1, <1>3, <1>4 DEF IInv

LEMMA EnterStep ==
  ASSUME IInv, Enter
  PROVE  IInv' /\ OnceStep
<1>1. StoreInv' /\ AskedInv'
  BY DEF Enter, StoreInv, AskedInv, IInv, Known
<1> DEFINE q == OnLatestEvent(FreshPage, store)
           r == OnCountdown(Frame(q, store), store)
<1>2. IsPage(FreshPage) /\ Behind(FreshPage) /\ FreshPage.due = <<>>
  <2>1. <<>> \in Seq({})
    OBVIOUS
  <2> QED
    BY <2>1 DEF FreshPage, IsPage, Listed, Fields, Behind
<1>3. page = None /\ page' = r /\ raised' = OfEvents(ToSet(r.due))
  BY DEF Enter
<1>4. Goes(FreshPage, q) /\ SameClock(FreshPage, q) /\ IsPage(q)
  BY <1>2, LatestGoes, GoesIsPage DEF IInv, StoreInv
<1> HIDE DEF q
<1>5. Goes(q, r) /\ SameClock(q, r)
  BY <1>4, CountedGoes DEF Frame
<1> HIDE DEF r
<1>6. Goes(FreshPage, r) /\ SameClock(FreshPage, r)
  BY <1>2, <1>4, <1>5, GoesOn DEF IsPage, SameClock
<1>7. IsPage(r) /\ Behind(r)
  BY <1>2, <1>6, GoesIsPage DEF Behind, SameClock
<1>8. ASSUME NEW id \in OfEvents(ToSet(r.due)) PROVE id[2] \in r.processed
  <2>1. PICK S : r.due \in Seq(S)
    BY <1>7 DEF IsPage, Listed
  <2>2. PICK i \in 1..Len(r.due) : id = r.due[i] /\ id[1] # "ending"
    BY <1>8, <2>1 DEF OfEvents, ToSet
  <2>3. i > Len(FreshPage.due)
    BY <1>2, <2>2
  <2> QED
    BY <1>6, <2>2, <2>3 DEF Goes, New
<1>9. PageInv'
  BY <1>3, <1>7, <1>8 DEF PageInv, LookedAt, IsPage, Listed, Behind
<1> QED
  BY <1>1, <1>3, <1>9 DEF IInv, OnceStep

LEMMA StepHolds ==
  ASSUME IInv, [Next]_vars
  PROVE  IInv' /\ OnceStep
<1>1. ASSUME UNCHANGED <<page, raised, store, now>>, committed' \in 0..Len(Log), AskedInv'
      PROVE  IInv' /\ OnceStep
  BY <1>1, SamePage DEF IInv, StoreInv, Known
<1>2. CASE Commit
  <2>1. committed' \in 0..Len(Log)
    BY <1>2, TypesAssumption DEF Commit, IInv, StoreInv
  <2> QED
    BY <1>1, <1>2, <2>1 DEF Commit, IInv, AskedInv
<1>3. CASE Ask
  <2>1. AskedInv'
    BY <1>3, NumberAssumption DEF Ask, IInv, AskedInv
  <2> QED
    BY <1>1, <1>3, <2>1 DEF Ask, IInv, StoreInv
<1>4. CASE Leave
  BY <1>4 DEF Leave, IInv, StoreInv, Known, AskedInv, PageInv, OnceStep
<1>5. CASE UNCHANGED vars
  BY <1>1, <1>5 DEF vars, IInv, StoreInv, AskedInv
<1>6. CASE Push
  BY <1>6, ScreenStep DEF Push
<1>7. CASE Close
  BY <1>7, ScreenStep DEF Close
<1>8. ASSUME NEW id \in AlertIds, Expire(id) PROVE IInv' /\ OnceStep
  BY <1>8, ScreenStep DEF Expire
<1> QED
  BY <1>2, <1>3, <1>4, <1>5, <1>6, <1>7, <1>8, TickStep, ReceiveStep, StatusStep,
     AnswerStep, CalibrateStep, EnterStep DEF Next

LEMMA Always == Spec => []IInv
<1>1. Init => IInv
  BY TypesAssumption DEF Init, IInv, StoreInv, StoreFields, Known, AskedInv, PageInv
<1>2. IInv /\ [Next]_vars => IInv'
  BY StepHolds
<1> QED
  BY <1>1, <1>2, PTL DEF Spec

\* Once calibrated the countdown is behind the server's by at most the time an
\* answer takes, for any skew of the client's clock and however long it runs.
THEOREM NeverAhead == Spec => []ClockBehind
<1>1. IInv => ClockBehind
  BY NumberAssumption DEF IInv, AskedInv, PageInv, Behind, ClockBehind, ServerNow
<1> QED
  BY <1>1, Always, PTL

\* No event is alerted twice in a visit, for any log of events, whatever late
\* answers set the store back to.
THEOREM AlertedOnce == Spec => EventAlertsOnce
<1>1. IInv /\ [Next]_vars =>
        [page # None /\ page' # None =>
           OfEvents(NewlyDue(page, page')) \cap raised = {}]_vars
  BY StepHolds DEF OnceStep
<1> QED
  BY <1>1, Always, PTL DEF Spec, EventAlertsOnce

-----------------------------------------------------------------------------
(* Counting: what holds of 0 and of the number after each it holds of, holds *)
(* of all.                                                                  *)

LEMMA LeastNumber ==
  ASSUME NEW T \in SUBSET Nat, T # {}
  PROVE  \E x \in T : \A y \in T : x <= y
<1> DEFINE R == OpToRel(<, Nat)
<1>1. IsWellFoundedOn(R, Nat)
  BY NatLessThanWellFounded
<1>2. \A a, b \in Nat : <<a, b>> \in R <=> a < b
  BY DEF OpToRel
<1> HIDE DEF R
<1>3. PICK x \in T : \A y \in T : ~(<<y, x>> \in R)
  BY <1>1, WFMin
<1>4. \A y \in T : x <= y
  <2> TAKE y \in T
  <2>1. y \in Nat /\ x \in Nat /\ ~(y < x)
    BY <1>2, <1>3
  <2> QED
    BY <2>1
<1> QED
  BY <1>4

LEMMA Counting ==
  ASSUME NEW S, 0 \in S, \A n \in Nat : n \in S => n + 1 \in S
  PROVE  Nat \subseteq S
<1> SUFFICES ASSUME Nat \ S # {} PROVE FALSE
  OBVIOUS
<1>1. PICK x \in Nat \ S : \A y \in Nat \ S : x <= y
  BY LeastNumber
<1>2. x # 0 /\ x - 1 \in Nat /\ x - 1 \in S
  BY <1>1
<1> QED
  BY <1>1, <1>2

-----------------------------------------------------------------------------
(***************************************************************************)
(* The screen: every alert shown has a timer.  A timer only goes with its  *)
(* alert, and what closes an alert leaves the others.                      *)
(***************************************************************************)

\* The alerts but one, made alert by alert.
KeptFrom(alerts, id, j, f) ==
  f = [n \in 0..j |-> IF n = 0 THEN <<>>
                      ELSE IF alerts[n] = id THEN f[n - 1] ELSE Append(f[n - 1], alerts[n])]

LEMMA KeptExist ==
  ASSUME NEW alerts, NEW id, NEW j \in Nat
  PROVE  \E f : KeptFrom(alerts, id, j, f)
<1> DEFINE S == {i \in Nat : \E f : KeptFrom(alerts, id, i, f)}
<1>1. 0 \in S
  <2> DEFINE f == [n \in 0..0 |-> <<>>]
  <2>1. KeptFrom(alerts, id, 0, f)
    BY DEF KeptFrom
  <2> QED
    BY <2>1
<1>2. ASSUME NEW i \in Nat, i \in S
      PROVE  i + 1 \in S
  <2>1. PICK f : KeptFrom(alerts, id, i, f)
    BY <1>2
  <2> DEFINE step(n, before) ==
               IF n = 0 THEN <<>>
               ELSE IF alerts[n] = id THEN before ELSE Append(before, alerts[n])
             g == [n \in 0..(i + 1) |-> step(n, f[n - 1])]
  <2>2. \A n \in 0..i : f[n] = step(n, f[n - 1])
    BY <2>1, Zenon DEF KeptFrom
  <2>3. \A n \in 0..(i + 1) : n # 0 => n - 1 \in 0..i /\ n - 1 \in 0..(i + 1)
    OBVIOUS
  <2>4. \A n \in 0..i : n \in 0..(i + 1)
    OBVIOUS
  <2>5. \A n \in 0..i : g[n] = f[n]
    <3> HIDE DEF step
    <3> QED
      BY <2>2, <2>4
  <2>6. \A n \in 0..(i + 1) : step(n, f[n - 1]) = step(n, g[n - 1])
    BY <2>3, <2>5
  <2>7. g = [n \in 0..(i + 1) |-> step(n, g[n - 1])]
    <3> HIDE DEF step
    <3> QED
      BY <2>6
  <2>8. KeptFrom(alerts, id, i + 1, g)
    BY <2>7 DEF KeptFrom
  <2> QED
    BY <2>8
<1> HIDE DEF S
<1>3. j \in S
  BY <1>1, <1>2, Counting
<1> QED
  BY <1>3 DEF S

\* dismissAlert leaves none of this id and no other than there were.
LEMMA OthersStay ==
  ASSUME NEW T, NEW alerts \in Seq(T), NEW id
  PROVE  Dismissed(alerts, id) \in Seq(T \ {id})
<1> DEFINE n == Len(alerts)
           f == CHOOSE f : f = [k \in 0..Len(alerts) |-> IF k = 0 THEN <<>>
                                  ELSE IF alerts[k] = id THEN f[k - 1] ELSE Append(f[k - 1], alerts[k])]
<1>1. n \in Nat /\ \A k \in 1..n : alerts[k] \in T
  OBVIOUS
<1>2. \E g : KeptFrom(alerts, id, Len(alerts), g)
  BY <1>1, KeptExist
<1>3. KeptFrom(alerts, id, Len(alerts), f)
  BY <1>2 DEF KeptFrom
<1>4. Dismissed(alerts, id) = f[n]
  BY DEF Dismissed
<1> HIDE DEF f
<1>5. /\ f[0] = <<>>
      /\ \A k \in 1..n : f[k] = IF alerts[k] = id THEN f[k - 1] ELSE Append(f[k - 1], alerts[k])
  <2> DEFINE step(k, before) ==
               IF k = 0 THEN <<>>
               ELSE IF alerts[k] = id THEN before ELSE Append(before, alerts[k])
  <2>1. f = [k \in 0..n |-> step(k, f[k - 1])]
    BY <1>3, Zenon DEF KeptFrom
  <2> HIDE DEF n
  <2>2. \A k \in 0..n : f[k] = step(k, f[k - 1])
    <3> HIDE DEF step
    <3> QED
      BY <2>1
  <2> QED
    BY <1>1, <2>2
<1> HIDE DEF n
<1> DEFINE S == {k \in Nat : k <= n => f[k] \in Seq(T \ {id})}
<1>6. 0 \in S
  <2>1. <<>> \in Seq(T \ {id})
    OBVIOUS
  <2>2. f[0] = <<>>
    BY <1>5
  <2>3. f[0] \in Seq(T \ {id})
    BY <2>1, <2>2
  <2> QED
    BY <2>3
<1>7. ASSUME NEW k \in Nat, k \in S
      PROVE  k + 1 \in S
  <2> SUFFICES ASSUME k + 1 <= n PROVE f[k + 1] \in Seq(T \ {id})
    OBVIOUS
  <2> DEFINE l == k + 1
  <2>1. l \in 1..n /\ l - 1 = k /\ k <= n
    BY <1>1
  <2>2. f[k] \in Seq(T \ {id}) /\ alerts[l] \in T
    BY <1>1, <1>7, <2>1
  <2>3. f[l] = IF alerts[l] = id THEN f[k] ELSE Append(f[k], alerts[l])
    BY <1>5, <2>1
  <2> HIDE DEF l
  <2>4. f[l] \in Seq(T \ {id})
    BY <2>2, <2>3, AppendProperties
  <2> QED
    BY <2>4 DEF l
<1> HIDE DEF S
<1>8. n \in S
  BY <1>1, <1>6, <1>7, Counting
<1> QED
  BY <1>1, <1>4, <1>8 DEF S

\* A page all of whose alerts have a timer.
Timed(p) == DOMAIN p = Fields /\ p.alerts \in Seq(p.timers)
SameScreen(p, q) == DOMAIN q = Fields /\ q.alerts = p.alerts /\ q.timers = p.timers

\* The effects of a render touch neither.
LEMMA RenderKeepsScreen ==
  ASSUME NEW p, DOMAIN p = Fields, NEW s
  PROVE  /\ SameScreen(p, OnLatestEvent(p, s))
         /\ SameScreen(p, OnCountdown(p, s))
         /\ \A clock : SameScreen(p, FrameAt(p, s, clock))
         /\ \A t : SameScreen(p, Calibrated(p, t))
<1>1. SameScreen(p, OnLatestEvent(p, s))
  BY DEF OnLatestEvent, SameScreen, Fields
<1>2. SameScreen(p, OnCountdown(p, s))
  BY DEF OnCountdown, SameScreen, Fields
<1>3. ASSUME NEW clock PROVE SameScreen(p, FrameAt(p, s, clock))
  BY DEF FrameAt, SameScreen, Fields
<1>4. ASSUME NEW t PROVE SameScreen(p, Calibrated(p, t))
  BY DEF Calibrated, SameScreen, Fields
<1> QED
  BY <1>1, <1>2, <1>3, <1>4

LEMMA SameScreenTimed ==
  ASSUME NEW p, NEW q, Timed(p), SameScreen(p, q)
  PROVE  Timed(q)
BY DEF Timed, SameScreen

LEMMA FrameKeepsTimed ==
  ASSUME NEW p, Timed(p), NEW s, NEW clock
  PROVE  Timed(OnCountdown(FrameAt(p, s, clock), s))
<1> DEFINE f == FrameAt(p, s, clock)
<1>1. Timed(f)
  BY RenderKeepsScreen, SameScreenTimed DEF Timed
<1> HIDE DEF f
<1>2. Timed(OnCountdown(f, s))
  BY <1>1, RenderKeepsScreen, SameScreenTimed DEF Timed
<1> QED
  BY <1>2 DEF f

LEMMA RenderedTimed ==
  ASSUME NEW p, Timed(p), NEW s, NEW t
  PROVE  Timed(Rendered(p, s, t))
<1> DEFINE latest == OnLatestEvent(p, t)
           counted == IF <<s.status, s.end>> = <<t.status, t.end>> THEN latest
                      ELSE OnCountdown(latest, t)
<1>1. Timed(latest)
  BY RenderKeepsScreen, SameScreenTimed DEF Timed
<1> HIDE DEF latest
<1>2. Timed(counted)
  BY <1>1, RenderKeepsScreen, SameScreenTimed DEF Timed
<1> HIDE DEF counted
<1>3. Timed(OnCountdown(Frame(counted, t), t))
  BY <1>2, FrameKeepsTimed DEF Frame
<1>4. Rendered(p, s, t) = IF s.end = t.end THEN counted ELSE OnCountdown(Frame(counted, t), t)
  BY DEF Rendered, counted, latest
<1> QED
  BY <1>2, <1>3, <1>4

LEMMA PushedTimed ==
  ASSUME NEW p, Timed(p)
  PROVE  Timed(Pushed(p))
<1> DEFINE id == Append(Head(p.due), now)
           all == <<id>> \o p.alerts
           shown == IF Len(all) > MaxShown THEN SubSeq(all, 1, MaxShown) ELSE all
           rest == Tail(p.due)
           T == p.timers \cup {id}
<1>1. Pushed(p) = [p EXCEPT !.due = rest, !.timers = T, !.alerts = shown]
  BY DEF Pushed, Timed, Fields
<1> HIDE DEF id
<1>2. p.alerts \in Seq(T) /\ <<id>> \in Seq(T)
  BY DEF Timed
<1>3. all \in Seq(T)
  BY <1>2, ConcatProperties
<1> HIDE DEF all
<1>4. shown \in Seq(T)
  <2>1. Len(all) \in Nat
    BY <1>3
  <2>2. ASSUME Len(all) > MaxShown PROVE SubSeq(all, 1, MaxShown) \in Seq(T)
    BY <1>3, <2>1, <2>2, NumberAssumption, SubSeqProperties
  <2> QED
    BY <1>3, <2>2
<1> HIDE DEF shown, T, rest
<1> QED
  BY <1>1, <1>4 DEF Timed, Fields

LEMMA WithoutTimed ==
  ASSUME NEW p, Timed(p), NEW id
  PROVE  Timed(Without(p, id)) /\ Timed(Expired(p, id))
<1> DEFINE rest == Dismissed(p.alerts, id)
           left == p.timers \ {id}
<1>1. rest \in Seq(left)
  BY OthersStay DEF Timed
<1>2. rest \in Seq(p.timers)
  BY <1>1
<1>3. /\ Without(p, id) = [p EXCEPT !.alerts = rest]
      /\ Expired(p, id) = [p EXCEPT !.alerts = rest, !.timers = left]
  BY DEF Without, Expired, Timed, Fields
<1> HIDE DEF rest, left
<1> QED
  BY <1>1, <1>2, <1>3 DEF Timed, Fields

ScreenInv == page # None => Timed(page)

LEMMA ScreenSteps == ScreenInv /\ [Next]_vars => ScreenInv'
<1> SUFFICES ASSUME ScreenInv, [Next]_vars PROVE ScreenInv'
  OBVIOUS
<1>1. CASE UNCHANGED page
  BY <1>1 DEF ScreenInv
<1>2. ASSUME NEW t, StoreBecomes(t) PROVE ScreenInv'
  BY <1>2, RenderedTimed DEF StoreBecomes, Becomes, ScreenInv
<1>3. CASE Tick
  BY <1>3, FrameKeepsTimed DEF Tick, Becomes, ScreenInv
<1>4. CASE Calibrate
  <2>1. ASSUME NEW t PROVE page # None => Timed(OnCountdown(Frame(Calibrated(page, t), store), store))
    <3> DEFINE c == Calibrated(page, t)
    <3>1. page # None => Timed(c)
      BY RenderKeepsScreen, SameScreenTimed DEF ScreenInv, Timed
    <3> HIDE DEF c
    <3>2. page # None => Timed(OnCountdown(Frame(c, store), store))
      BY <3>1, FrameKeepsTimed DEF Frame
    <3> QED
      BY <3>2 DEF c
  <2> QED
    BY <1>4, <2>1 DEF Calibrate, Becomes, ScreenInv
<1>5. CASE Push
  BY <1>5, PushedTimed DEF Push, ScreenInv
<1>6. CASE Close
  BY <1>6, WithoutTimed DEF Close, ScreenInv
<1>7. ASSUME NEW id \in AlertIds, Expire(id) PROVE ScreenInv'
  BY <1>7, WithoutTimed DEF Expire, ScreenInv
<1>8. CASE Enter
  <2> DEFINE q == OnLatestEvent(FreshPage, store)
             r == OnCountdown(Frame(q, store), store)
  <2>1. Timed(FreshPage)
    BY DEF Timed, FreshPage, Fields
  <2>2. Timed(q)
    BY <2>1, RenderKeepsScreen, SameScreenTimed DEF Timed
  <2> HIDE DEF q
  <2>3. Timed(r)
    BY <2>2, FrameKeepsTimed DEF Frame
  <2>4. page' = r
    BY <1>8 DEF Enter, q
  <2> QED
    BY <2>3, <2>4 DEF ScreenInv
<1>9. CASE Leave
  BY <1>9 DEF Leave, ScreenInv
<1> QED
  BY <1>1, <1>2, <1>3, <1>4, <1>5, <1>6, <1>7, <1>8, <1>9
     DEF Next, vars, Commit, Ask, Receive, StatusArrives, BidAnswer

\* Every alert on the screen has the timer that takes it away, however many came
\* at once, in whatever order they are closed, expire or make way for newer ones.
THEOREM EveryAlertTimed == Spec => []AlertsTimed
<1>1. Init => ScreenInv
  BY DEF Init, ScreenInv
<1>2. ScreenInv => AlertsTimed
  BY DEF ScreenInv, Timed, AlertsTimed, ToSet
<1> QED
  BY <1>1, <1>2, ScreenSteps, PTL DEF Spec

-----------------------------------------------------------------------------
(***************************************************************************)
(* Types: what a page has looked at are numbers of committed events, which *)
(* it has from the latest events of the store.                             *)
(***************************************************************************)
Typed(p, n) == DOMAIN p = Fields /\ p.calibrated \in BOOLEAN /\ p.processed \subseteq 1..n
Committed(s, n) == s.seq \in 0..n /\ (s.latest = None \/ s.latest.id \in 1..n)

TypeInv == Committed(store, committed) /\ (page # None => Typed(page, committed))

LEMMA EffectsTyped ==
  ASSUME NEW n, NEW p, Typed(p, n), NEW s
  PROVE  /\ Committed(s, n) => Typed(OnLatestEvent(p, s), n)
         /\ Typed(OnCountdown(p, s), n)
         /\ \A clock : Typed(FrameAt(p, s, clock), n)
         /\ \A t : Typed(Calibrated(p, t), n)
<1>1. ASSUME Committed(s, n) PROVE Typed(OnLatestEvent(p, s), n)
  BY <1>1 DEF OnLatestEvent, Typed, Committed, Fields
<1>2. Typed(OnCountdown(p, s), n)
  BY DEF OnCountdown, Typed, Fields
<1>3. ASSUME NEW clock PROVE Typed(FrameAt(p, s, clock), n)
  BY DEF FrameAt, Typed, Fields
<1>4. ASSUME NEW t PROVE Typed(Calibrated(p, t), n)
  BY DEF Calibrated, Typed, Fields
<1> QED
  BY <1>1, <1>2, <1>3, <1>4

LEMMA FrameTyped ==
  ASSUME NEW n, NEW p, Typed(p, n), NEW s, NEW clock
  PROVE  Typed(OnCountdown(FrameAt(p, s, clock), s), n)
<1> DEFINE f == FrameAt(p, s, clock)
<1>1. Typed(f, n)
  BY EffectsTyped
<1> HIDE DEF f
<1>2. Typed(OnCountdown(f, s), n)
  BY <1>1, EffectsTyped
<1> QED
  BY <1>2 DEF f

LEMMA RenderTyped ==
  ASSUME NEW n, NEW p, Typed(p, n), NEW s, NEW t, Committed(t, n)
  PROVE  Typed(Rendered(p, s, t), n)
<1> DEFINE latest == OnLatestEvent(p, t)
           counted == IF <<s.status, s.end>> = <<t.status, t.end>> THEN latest
                      ELSE OnCountdown(latest, t)
<1>1. Typed(latest, n)
  BY EffectsTyped
<1> HIDE DEF latest
<1>2. Typed(counted, n)
  BY <1>1, EffectsTyped
<1> HIDE DEF counted
<1>3. Typed(OnCountdown(Frame(counted, t), t), n)
  BY <1>2, FrameTyped DEF Frame
<1>4. Rendered(p, s, t) = IF s.end = t.end THEN counted ELSE OnCountdown(Frame(counted, t), t)
  BY DEF Rendered, counted, latest
<1> QED
  BY <1>2, <1>3, <1>4

LEMMA StoreTyped ==
  ASSUME TypeInv, UNCHANGED committed, NEW t, Committed(t, committed), StoreBecomes(t)
  PROVE  TypeInv'
<1>1. Committed(store', committed')
  BY DEF StoreBecomes
<1>2. page' # None => Typed(page', committed')
  BY RenderTyped DEF StoreBecomes, Becomes, TypeInv
<1> QED
  BY <1>1, <1>2 DEF TypeInv, Committed, Typed

LEMMA TypeSteps == IInv /\ TypeInv /\ [Next]_vars => TypeInv'
<1> SUFFICES ASSUME IInv, TypeInv, [Next]_vars PROVE TypeInv'
  OBVIOUS
<1>0. committed \in Nat
  BY TypesAssumption DEF IInv, StoreInv
<1>1. CASE UNCHANGED <<page, store, committed>>
  BY <1>1 DEF TypeInv, Committed, Typed
<1>2. CASE Commit
  <2>1. committed' = committed + 1 /\ UNCHANGED <<store, page>>
    BY <1>2 DEF Commit
  <2> QED
    BY <1>0, <2>1 DEF TypeInv, Committed, Typed
<1>3. CASE Receive
  <2>1. PICK n \in store.seq + 1..committed : StoreBecomes(ApplyEvent(After(n - 1), n))
    BY <1>3 DEF Receive
  <2>2. n \in 1..committed
    BY <1>0, <2>1 DEF TypeInv, Committed
  <2>3. \A s : Committed(ApplyEvent(s, n), committed)
    BY <1>0, <2>2 DEF ApplyEvent, Committed
  <2> QED
    BY <1>3, <2>1, <2>3, StoreTyped DEF Receive
<1>4. CASE StatusArrives
  <2>1. PICK n \in 0..committed : StoreBecomes(Snapshot(n))
    BY <1>4 DEF StatusArrives
  <2>2. Committed(Snapshot(n), committed)
    BY DEF Snapshot, Committed
  <2> QED
    BY <1>4, <2>1, <2>2, StoreTyped DEF StatusArrives
<1>5. CASE BidAnswer
  <2> DEFINE t == [store EXCEPT !.leader = Me]
  <2>1. Committed(t, committed)
    BY DEF IInv, StoreInv, StoreFields, TypeInv, Committed
  <2>2. StoreBecomes(t)
    BY <1>5 DEF BidAnswer
  <2> HIDE DEF t
  <2> QED
    BY <1>5, <2>1, <2>2, StoreTyped DEF BidAnswer
<1>6. ASSUME UNCHANGED <<store, committed>>, page' # None => Typed(page', committed) PROVE TypeInv'
  BY <1>6 DEF TypeInv, Committed, Typed
<1>7. CASE Tick
  BY <1>6, <1>7, FrameTyped DEF Tick, Becomes, TypeInv
<1>8. CASE Calibrate
  <2>1. ASSUME NEW t, page # None
        PROVE  Typed(OnCountdown(Frame(Calibrated(page, t), store), store), committed)
    <3> DEFINE c == Calibrated(page, t)
    <3>1. Typed(c, committed)
      BY <2>1, EffectsTyped DEF TypeInv
    <3> HIDE DEF c
    <3>2. Typed(OnCountdown(Frame(c, store), store), committed)
      BY <3>1, FrameTyped DEF Frame
    <3> QED
      BY <3>2 DEF c
  <2> QED
    BY <1>6, <1>8, <2>1 DEF Calibrate, Becomes, TypeInv
<1>9. CASE Push
  <2>1. Typed(Pushed(page), committed)
    BY <1>9 DEF Push, Pushed, TypeInv, Typed, Fields
  <2> QED
    BY <1>6, <1>9, <2>1 DEF Push
<1>10. ASSUME NEW id, page # None
       PROVE  Typed(Without(page, id), committed) /\ Typed(Expired(page, id), committed)
  BY <1>10 DEF Without, Expired, TypeInv, Typed, Fields
<1>11. CASE Close
  BY <1>6, <1>10, <1>11 DEF Close
<1>12. ASSUME NEW id \in AlertIds, Expire(id) PROVE TypeInv'
  BY <1>6, <1>10, <1>12 DEF Expire
<1>13. CASE Enter
  <2> DEFINE q == OnLatestEvent(FreshPage, store)
             r == OnCountdown(Frame(q, store), store)
  <2>1. Typed(FreshPage, committed)
    BY DEF Typed, FreshPage, Fields
  <2>2. Typed(q, committed)
    BY <2>1, EffectsTyped DEF TypeInv
  <2> HIDE DEF q
  <2>3. Typed(r, committed)
    BY <2>2, FrameTyped DEF Frame
  <2>4. page' = r
    BY <1>13 DEF Enter, q
  <2> HIDE DEF r
  <2> QED
    BY <1>6, <1>13, <2>3, <2>4 DEF Enter
<1>14. CASE Leave
  BY <1>6, <1>14 DEF Leave
<1> QED
  BY <1>1, <1>2, <1>3, <1>4, <1>5, <1>7, <1>8, <1>9, <1>11, <1>12, <1>13, <1>14 DEF Next, vars, Ask

\* Neither the store nor the page knows of an event before it is committed, and
\* no answer under way is older than the client waits.
THEOREM AlertsTyped == Spec => []TypeOK
<1>1. Init => TypeInv
  BY DEF Init, TypeInv, Committed
<1>2. IInv /\ TypeInv => TypeOK
  BY DEF IInv, StoreInv, AskedInv, TypeInv, Committed, Typed, TypeOK
<1> QED
  BY <1>1, <1>2, TypeSteps, Always, PTL DEF Spec
=============================================================================
