-------------------------- MODULE ConnectionProofs --------------------------
(***************************************************************************)
(* What TLAPS proves of ConnectionManager for any back-offs, any limits    *)
(* and any number of overlapping starts.                                   *)
(***************************************************************************)
EXTENDS ConnectionManager, TLAPS

\* How much longer an outage may be for the late start() there were, where s
\* are still to come.
Late(s) == (MaxStarts - s) * ConnectTimeout

\* A client without a connection that does not poll yet: its outage is no longer
\* than disconnectedAt says, it waits for its next attempt since the limit at
\* the latest, or it attempts one, once per start() that was late.
Overdue ==
  /\ stopped \/ socket = "open" => dark = Off
  /\ dark # Off /\ ~polling =>
       /\ downFor # Off /\ dark <= downFor
       /\ timer # Off \/ socket = "connecting"
       /\ timer # Off => dark + timer <= PollingAfter + LastBackoff
       /\ socket = "connecting" =>
            dark <= PollingAfter + LastBackoff + dialFor + Late(starting)

IInv == TypeOK /\ OneWayOn /\ StoppedIsQuiet /\ ToldTrue /\ Overdue

-----------------------------------------------------------------------------
\* The delays, and the bounds they add up to, are numbers.
LEMMA AllBounds ==
  /\ LastBackoff \in Nat /\ PollingAfter \in Nat /\ ConnectTimeout \in Nat
  /\ MaxStarts \in Nat \ {0} /\ Len(Backoff) \in Nat \ {0} /\ Off \notin Int
  /\ \A k \in 1..Len(Backoff) : Backoff[k] \in 0..LastBackoff
  /\ PollingBound \in Nat /\ Horizon \in Nat /\ Horizon = PollingBound + 1
  /\ \A s \in 0..MaxStarts :
       /\ Late(s) \in Nat
       /\ PollingAfter + LastBackoff + ConnectTimeout + Late(s) <= PollingBound
  /\ \A s \in 1..MaxStarts : Late(s - 1) = Late(s) + ConnectTimeout
<1>1. /\ LastBackoff \in Nat /\ PollingAfter \in Nat /\ ConnectTimeout \in Nat
      /\ MaxStarts \in Nat \ {0} /\ Len(Backoff) \in Nat \ {0} /\ Off \notin Int
      /\ \A k \in 1..Len(Backoff) : Backoff[k] \in 0..LastBackoff
  BY TimerAssumption, GrowingAssumption DEF LastBackoff
<1>2. \A a, b \in Nat : a * b \in Nat
  OBVIOUS
<1>3. \A a, b \in Nat, c \in Nat : a <= b => a * c <= b * c
  OBVIOUS
<1>4. \A s \in 0..MaxStarts :
        /\ MaxStarts - s \in Nat /\ MaxStarts - s <= MaxStarts
        /\ (MaxStarts - s) * ConnectTimeout \in Nat
        /\ (MaxStarts - s) * ConnectTimeout <= MaxStarts * ConnectTimeout
  BY <1>1, <1>2, <1>3
<1>5. /\ MaxStarts * ConnectTimeout \in Nat
      /\ (MaxStarts + 1) * ConnectTimeout = MaxStarts * ConnectTimeout + ConnectTimeout
  BY <1>1
<1>6. PollingBound \in Nat /\ Horizon \in Nat /\ Horizon = PollingBound + 1
  BY <1>1, <1>5 DEF PollingBound, Horizon
<1>7. \A s \in 0..MaxStarts :
        PollingAfter + LastBackoff + ConnectTimeout + (MaxStarts - s) * ConnectTimeout
          <= PollingBound
  BY <1>1, <1>4, <1>5 DEF PollingBound
<1>8. \A s \in 1..MaxStarts :
        (MaxStarts - (s - 1)) * ConnectTimeout = (MaxStarts - s) * ConnectTimeout + ConnectTimeout
  <2> SUFFICES ASSUME NEW s \in 1..MaxStarts
               PROVE  (MaxStarts - (s - 1)) * ConnectTimeout
                        = (MaxStarts - s) * ConnectTimeout + ConnectTimeout
    OBVIOUS
  <2>1. \A a, c \in Nat : (a + 1) * c = a * c + c
    OBVIOUS
  <2>2. MaxStarts - s \in Nat /\ MaxStarts - (s - 1) = (MaxStarts - s) + 1
    BY <1>1
  <2> QED
    BY <1>1, <2>1, <2>2
<1> QED
  BY <1>1, <1>4, <1>6, <1>7, <1>8 DEF Late

LEMMA Bounds ==
  /\ LastBackoff \in Nat /\ PollingAfter \in Nat /\ ConnectTimeout \in Nat
  /\ MaxStarts \in Nat \ {0} /\ Len(Backoff) \in Nat \ {0} /\ Off \notin Int
  /\ Horizon \in Nat
BY AllBounds

LEMMA Delays == \A k \in 1..Len(Backoff) : Backoff[k] \in 0..LastBackoff
BY AllBounds

LEMMA LateBound ==
  ASSUME NEW s \in 0..MaxStarts
  PROVE  /\ Late(s) \in Nat
         /\ PollingAfter + LastBackoff + ConnectTimeout + Late(s) < Horizon
         /\ s > 0 => Late(s - 1) = Late(s) + ConnectTimeout
BY AllBounds

LEMMA InitIInv == Init => IInv
<1> SUFFICES ASSUME Init PROVE IInv
  OBVIOUS
<1> USE DEF Init
<1>1. TypeOK
  <2>1. /\ starting \in 0..MaxStarts /\ dialFor \in 0..ConnectTimeout
        /\ attempt \in 0..Len(Backoff)
    BY Bounds
  <2>2. /\ timer \in {Off} \cup 0..LastBackoff
        /\ downFor \in {Off} \cup 0..Horizon /\ dark \in {Off} \cup 0..Horizon
    OBVIOUS
  <2>3. /\ stopped \in BOOLEAN /\ polling \in BOOLEAN /\ ping \in BOOLEAN
        /\ socket \in {"none", "connecting", "open", "closed"}
        /\ state \in {"disconnected", "reconnecting", "connected", "polling"}
    OBVIOUS
  <2> QED
    BY <2>1, <2>2, <2>3 DEF TypeOK
<1>2. OneWayOn /\ StoppedIsQuiet /\ ToldTrue
  BY DEF OneWayOn, StoppedIsQuiet, ToldTrue
<1>3. Overdue
  BY DEF Overdue
<1> QED
  BY <1>1, <1>2, <1>3 DEF IInv

\* What handleDisconnected leaves behind: a timer, and a poller past the limit.
LEMMA AfterDisconnected ==
  ASSUME IInv, NEW made \in 0..Len(Backoff), NEW down \in {Off} \cup 0..Horizon,
         Disconnected(made, down)
  PROVE  /\ timer' \in 0..LastBackoff /\ timer' # Off /\ attempt' \in 0..Len(Backoff)
         /\ downFor' \in 0..Horizon /\ downFor' # Off /\ ~ping'
         /\ polling' \in BOOLEAN /\ state' \in {"reconnecting", "polling"}
         /\ ~polling' => downFor' < PollingAfter
         /\ downFor' = Since(down)
<1>1. Since(down) \in 0..Horizon /\ downFor' = Since(down)
  BY Bounds DEF Since, Disconnected
<1>2. /\ timer' \in 0..LastBackoff /\ attempt' \in 0..Len(Backoff)
  <2>1. CASE made < Len(Backoff)
    <3>1. made + 1 \in 1..Len(Backoff)
      BY Bounds, <2>1
    <3> QED
      BY Bounds, Delays, <2>1, <3>1 DEF Disconnected, Retry
  <2>2. CASE ~(made < Len(Backoff))
    <3>1. Len(Backoff) \in 1..Len(Backoff)
      BY Bounds
    <3> QED
      BY Bounds, Delays, <2>2, <3>1 DEF Disconnected, Retry
  <2> QED
    BY <2>1, <2>2
<1>3. downFor' # Off /\ timer' # Off
  BY Bounds, <1>1, <1>2
<1>4. /\ ~ping' /\ polling' \in BOOLEAN /\ state' \in {"reconnecting", "polling"}
      /\ ~polling' => downFor' < PollingAfter
  <2>1. polling \in BOOLEAN
    BY DEF IInv, TypeOK
  <2>2. CASE Since(down) >= PollingAfter
    BY <2>2 DEF Disconnected
  <2>3. CASE ~(Since(down) >= PollingAfter)
    BY <1>1, <2>1, <2>3, Bounds DEF Disconnected
  <2> QED
    BY <2>2, <2>3
<1> QED
  BY <1>1, <1>2, <1>3, <1>4

\* What connect leaves behind in a client that is not stopped: an attempt with
\* no timer, or the timer for the next.
LEMMA AfterConnect ==
  ASSUME IInv, ~stopped, NEW made \in 0..Len(Backoff), NEW down \in {Off} \cup 0..Horizon,
         Connect(made, down)
  PROVE  /\ dialFor' = 0 /\ ~ping' /\ attempt' \in 0..Len(Backoff)
         /\ polling' \in BOOLEAN /\ state' \in {"disconnected", "reconnecting", "polling"}
         /\ downFor' \in {Off} \cup 0..Horizon /\ timer' \in {Off} \cup 0..LastBackoff
         /\ \/ /\ timer' = Off /\ socket' = "connecting" /\ downFor' = down
               /\ polling' = polling
            \/ /\ timer' # Off /\ socket' = "none" /\ downFor' = Since(down)
               /\ ~polling' => downFor' < PollingAfter
<1>1. CASE /\ timer' = Off /\ attempt' = made /\ downFor' = down
           /\ socket' = "connecting" /\ dialFor' = 0
           /\ UNCHANGED polling /\ ping' = FALSE
           /\ state' = IF polling THEN state ELSE "reconnecting"
  <2>1. polling => state # "connected"
    BY DEF IInv, ToldTrue
  <2>2. polling \in BOOLEAN /\ state \in {"disconnected", "reconnecting", "connected", "polling"}
    BY DEF IInv, TypeOK
  <2> QED
    BY <1>1, <2>1, <2>2
<1>2. CASE socket' = "none" /\ dialFor' = 0 /\ Disconnected(made, down)
  BY <1>2, AfterDisconnected
<1> QED
  BY <1>1, <1>2 DEF Connect

LEMMA ConnectSafe ==
  ASSUME IInv, ~stopped, stopped' = stopped, starting' \in 0..MaxStarts,
         dark' \in {Off} \cup 0..Horizon,
         NEW made \in 0..Len(Backoff), NEW down \in {Off} \cup 0..Horizon,
         Connect(made, down)
  PROVE  TypeOK' /\ OneWayOn' /\ StoppedIsQuiet' /\ ToldTrue'
<1>1. /\ dialFor' = 0 /\ ~ping' /\ attempt' \in 0..Len(Backoff)
      /\ polling' \in BOOLEAN /\ state' \in {"disconnected", "reconnecting", "polling"}
      /\ downFor' \in {Off} \cup 0..Horizon /\ timer' \in {Off} \cup 0..LastBackoff
      /\ \/ timer' = Off /\ socket' = "connecting"
         \/ timer' # Off /\ socket' = "none"
  BY AfterConnect
<1>2. ping' = FALSE
  BY DEF Connect, Disconnected
<1>3. TypeOK'
  <2>1. dialFor' \in 0..ConnectTimeout
    BY <1>1, Bounds
  <2>2. stopped' \in BOOLEAN /\ ping' \in BOOLEAN
    BY <1>2 DEF IInv, TypeOK
  <2>3. /\ socket' \in {"none", "connecting", "open", "closed"}
        /\ state' \in {"disconnected", "reconnecting", "connected", "polling"}
    BY <1>1
  <2> QED
    BY <1>1, <2>1, <2>2, <2>3 DEF TypeOK
<1>4. OneWayOn' /\ StoppedIsQuiet' /\ ToldTrue'
  BY <1>1 DEF OneWayOn, StoppedIsQuiet, ToldTrue
<1> QED
  BY <1>3, <1>4

-----------------------------------------------------------------------------
(* One lemma per action.                                                    *)

LEMMA StartIInv == IInv /\ Start => IInv'
<1> SUFFICES ASSUME IInv, Start PROVE IInv'
  OBVIOUS
<1>1. TypeOK'
  <2>1. starting \in 0..MaxStarts /\ starting' \in 0..MaxStarts
    BY Bounds DEF IInv, TypeOK, Start
  <2>2. stopped' \in BOOLEAN
    BY DEF Start
  <2>3. UNCHANGED <<link, retry, shown, dark>>
    BY DEF Start
  <2> QED
    BY <2>1, <2>2, <2>3 DEF IInv, TypeOK, link, retry, shown
<1>2. OneWayOn' /\ StoppedIsQuiet'
  BY Bounds DEF IInv, TypeOK, OneWayOn, StoppedIsQuiet, Start, link, retry, shown
<1>3. ToldTrue'
  BY DEF IInv, ToldTrue, Start, link, retry, shown
<1>4. Overdue'
  BY DEF IInv, Overdue, Start, link, retry, shown
<1> QED
  BY <1>1, <1>2, <1>3, <1>4 DEF IInv

LEMMA StartedIInv == IInv /\ Started => IInv'
<1> SUFFICES ASSUME IInv, Started PROVE IInv'
  OBVIOUS
<1>1. /\ starting \in 1..MaxStarts /\ starting' \in 0..MaxStarts /\ starting' = starting - 1
      /\ stopped' = stopped /\ stopped \in BOOLEAN
  BY Bounds DEF IInv, TypeOK, Started
<1>2. CASE stopped
  <2>1. UNCHANGED <<stopped, socket, dialFor, timer, attempt, downFor, polling, ping, state>>
    BY <1>2 DEF Started, Connect, link, shown
  <2>2. dark = Off /\ timer = Off /\ dark' = Off
    BY <1>2, <2>1 DEF IInv, Overdue, StoppedIsQuiet, Started
  <2>3. TypeOK'
    BY <1>1, <2>1, <2>2 DEF IInv, TypeOK
  <2>4. OneWayOn' /\ StoppedIsQuiet' /\ ToldTrue'
    BY <1>2, <2>1 DEF IInv, OneWayOn, StoppedIsQuiet, ToldTrue
  <2>5. Overdue'
    BY <2>2 DEF Overdue
  <2> QED
    BY <2>3, <2>4, <2>5 DEF IInv
<1>3. CASE ~stopped
  <2>0. /\ attempt \in 0..Len(Backoff) /\ downFor \in {Off} \cup 0..Horizon
        /\ dark \in {Off} \cup 0..Horizon /\ dialFor \in 0..ConnectTimeout
        /\ timer \in {Off} \cup 0..LastBackoff
    BY DEF IInv, TypeOK
  <2>1. Connect(attempt, downFor) /\ dark' = IF timer' = Off THEN dark ELSE Since(dark)
    BY DEF Started
  <2>2. /\ dialFor' = 0 /\ ~ping' /\ attempt' \in 0..Len(Backoff)
        /\ polling' \in BOOLEAN /\ state' \in {"disconnected", "reconnecting", "polling"}
        /\ downFor' \in {Off} \cup 0..Horizon /\ timer' \in {Off} \cup 0..LastBackoff
        /\ \/ /\ timer' = Off /\ socket' = "connecting" /\ downFor' = downFor
              /\ polling' = polling
           \/ /\ timer' # Off /\ socket' = "none" /\ downFor' = Since(downFor)
              /\ ~polling' => downFor' < PollingAfter
    BY <1>3, <2>0, <2>1, AfterConnect
  <2>3. dark' \in {Off} \cup 0..Horizon
    BY <2>0, <2>1, Bounds DEF Since
  <2>4. TypeOK' /\ OneWayOn' /\ StoppedIsQuiet' /\ ToldTrue'
    BY <1>1, <1>3, <2>0, <2>1, <2>3, ConnectSafe
  <2>5. Overdue'
    <3>1. ~stopped' /\ socket' # "open"
      BY <1>1, <1>3, <2>2
    <3>2. ASSUME dark' # Off, ~polling', timer' = Off
          PROVE  /\ downFor' # Off /\ dark' <= downFor' /\ socket' = "connecting"
                 /\ dark' <= PollingAfter + LastBackoff + dialFor' + Late(starting')
      <4>1. /\ dark' = dark /\ downFor' = downFor /\ polling' = polling
            /\ socket' = "connecting"
        BY <2>1, <2>2, <3>2
      <4>2. /\ downFor # Off /\ dark <= downFor /\ (timer # Off \/ socket = "connecting")
            /\ timer # Off => dark + timer <= PollingAfter + LastBackoff
            /\ socket = "connecting"
                 => dark <= PollingAfter + LastBackoff + dialFor + Late(starting)
        BY <3>2, <4>1 DEF IInv, Overdue
      <4>3. /\ Late(starting) \in Nat /\ Late(starting') \in Nat
            /\ Late(starting') = Late(starting) + ConnectTimeout
        BY <1>1, LateBound, Bounds
      <4>4. dark \in Nat
        BY <2>0, <3>2, <4>1, Bounds
      <4>5. CASE timer # Off
        <5>1. timer \in Nat
          BY <2>0, <4>5, Bounds
        <5> QED
          BY <2>2, <4>1, <4>2, <4>3, <4>4, <4>5, <5>1, Bounds
      <4>6. CASE socket = "connecting"
        BY <2>0, <2>2, <4>1, <4>2, <4>3, <4>4, <4>6, Bounds
      <4> QED
        BY <4>2, <4>5, <4>6
    <3>3. ASSUME dark' # Off, ~polling', timer' # Off
          PROVE  /\ downFor' # Off /\ dark' <= downFor' /\ socket' = "none"
                 /\ dark' + timer' <= PollingAfter + LastBackoff
      <4>1. /\ dark' = Since(dark) /\ downFor' = Since(downFor) /\ downFor' < PollingAfter
            /\ socket' = "none" /\ timer' \in 0..LastBackoff
        BY <2>1, <2>2, <3>3
      <4>2. downFor' \in Nat /\ dark' \in Nat /\ downFor' # Off
        BY <2>0, <4>1, Bounds DEF Since
      <4>3. dark' <= downFor'
        <5>1. CASE dark = Off
          BY <4>1, <4>2, <5>1 DEF Since
        <5>2. CASE dark # Off /\ ~polling
          BY <2>0, <4>1, <5>2, Bounds DEF Since, IInv, Overdue
        <5>3. CASE polling
          BY <1>3, <2>1, <2>2, <3>3, <5>3 DEF Connect, Disconnected
        <5> QED
          BY <5>1, <5>2, <5>3
      <4> QED
        BY <4>1, <4>2, <4>3, Bounds
    <3> QED
      BY <2>1, <3>1, <3>2, <3>3 DEF Overdue
  <2> QED
    BY <2>4, <2>5 DEF IInv
<1> QED
  BY <1>1, <1>2, <1>3

LEMMA TimerFiresIInv == IInv /\ TimerFires => IInv'
<1> SUFFICES ASSUME IInv, TimerFires PROVE IInv'
  OBVIOUS
<1>1. /\ timer = 0 /\ timer # Off /\ dark' = dark /\ stopped' = stopped /\ starting' = starting
      /\ Connect(attempt, downFor)
  BY Bounds DEF TimerFires, life
<1>2. ~stopped
  BY <1>1 DEF IInv, StoppedIsQuiet
<1>3. /\ attempt \in 0..Len(Backoff) /\ downFor \in {Off} \cup 0..Horizon
      /\ dark \in {Off} \cup 0..Horizon /\ starting \in 0..MaxStarts
  BY DEF IInv, TypeOK
<1>4. TypeOK' /\ OneWayOn' /\ StoppedIsQuiet' /\ ToldTrue'
  BY <1>1, <1>2, <1>3, ConnectSafe
<1>5. /\ dialFor' = 0 /\ timer' \in {Off} \cup 0..LastBackoff
      /\ \/ /\ timer' = Off /\ socket' = "connecting" /\ downFor' = downFor
            /\ polling' = polling
         \/ /\ timer' # Off /\ socket' = "none" /\ downFor' = Since(downFor)
            /\ ~polling' => downFor' < PollingAfter
  BY <1>1, <1>2, <1>3, AfterConnect
<1>6. polling => polling'
  BY <1>1, <1>2 DEF Connect, Disconnected
<1>7. Overdue'
  <2>1. ~stopped' /\ socket' # "open"
    BY <1>1, <1>2, <1>5
  <2> SUFFICES ASSUME dark' # Off, ~polling'
               PROVE  /\ downFor' # Off /\ dark' <= downFor'
                      /\ timer' # Off \/ socket' = "connecting"
                      /\ timer' # Off => dark' + timer' <= PollingAfter + LastBackoff
                      /\ socket' = "connecting"
                           => dark' <= PollingAfter + LastBackoff + dialFor' + Late(starting')
    BY <2>1 DEF Overdue
  <2>2. /\ downFor # Off /\ dark <= downFor
        /\ dark + timer <= PollingAfter + LastBackoff
    BY <1>1, <1>6 DEF IInv, Overdue
  <2>3. dark \in Nat /\ downFor \in Nat /\ Late(starting) \in Nat /\ downFor' = downFor
    BY <1>1, <1>3, <1>5, <2>2, Bounds, LateBound DEF Since
  <2>4. CASE timer' = Off
    BY <1>1, <1>5, <2>2, <2>3, <2>4, Bounds
  <2>5. CASE timer' # Off
    BY <1>1, <1>5, <2>2, <2>3, <2>5, Bounds
  <2> QED
    BY <2>4, <2>5
<1> QED
  BY <1>4, <1>7 DEF IInv

LEMMA ReconnectIInv == IInv /\ Reconnect => IInv'
<1> SUFFICES ASSUME IInv, Reconnect PROVE IInv'
  OBVIOUS
<1>1. /\ Connect(0, Off) /\ dark' = IF timer' = Off THEN Off ELSE 0
      /\ stopped' = stopped /\ starting' = starting
  BY DEF Reconnect, life
<1>2. /\ 0 \in 0..Len(Backoff) /\ starting \in 0..MaxStarts
      /\ dark' \in {Off} \cup 0..Horizon
  BY <1>1, Bounds DEF IInv, TypeOK
<1>3. CASE stopped
  <2>1. /\ UNCHANGED <<stopped, starting, socket, dialFor, timer, polling, ping, state>>
        /\ attempt' = 0 /\ downFor' = Off
    BY <1>1, <1>3 DEF Connect, link, shown
  <2>2. dark' = Off
    BY <1>1, <1>3, <2>1 DEF IInv, StoppedIsQuiet
  <2>3. TypeOK'
    BY <1>2, <2>1, <2>2 DEF IInv, TypeOK
  <2>4. OneWayOn' /\ StoppedIsQuiet' /\ ToldTrue'
    BY <2>1 DEF IInv, OneWayOn, StoppedIsQuiet, ToldTrue
  <2> QED
    BY <2>2, <2>3, <2>4 DEF IInv, Overdue
<1>4. CASE ~stopped
  <2>1. TypeOK' /\ OneWayOn' /\ StoppedIsQuiet' /\ ToldTrue'
    BY <1>1, <1>2, <1>4, ConnectSafe
  <2>2. /\ timer' \in {Off} \cup 0..LastBackoff
        /\ \/ timer' = Off /\ socket' = "connecting"
           \/ /\ timer' # Off /\ socket' = "none" /\ downFor' = Since(Off)
              /\ ~polling' => downFor' < PollingAfter
    BY <1>1, <1>2, <1>4, AfterConnect
  <2>3. Overdue'
    BY <1>1, <1>4, <2>2, Bounds DEF Overdue, Since
  <2> QED
    BY <2>1, <2>3 DEF IInv
<1> QED
  BY <1>3, <1>4

LEMMA StopIInv == IInv /\ Stop => IInv'
<1> SUFFICES ASSUME IInv, Stop PROVE IInv'
  OBVIOUS
<1>1. TypeOK'
  <2>1. /\ timer' = Off /\ dark' = Off /\ socket' = "none" /\ dialFor' = 0
        /\ stopped' = TRUE /\ polling' = FALSE /\ ping' = FALSE /\ state' = "disconnected"
        /\ UNCHANGED <<starting, attempt, downFor>>
    BY DEF Stop
  <2>2. dialFor' \in 0..ConnectTimeout
    BY <2>1, Bounds
  <2> QED
    BY <2>1, <2>2 DEF IInv, TypeOK
<1>2. OneWayOn' /\ StoppedIsQuiet' /\ ToldTrue' /\ Overdue'
  BY DEF Stop, OneWayOn, StoppedIsQuiet, ToldTrue, Overdue
<1> QED
  BY <1>1, <1>2 DEF IInv

LEMMA OpensIInv == IInv /\ Opens => IInv'
<1> SUFFICES ASSUME IInv, Opens PROVE IInv'
  OBVIOUS
<1>1. /\ socket = "connecting" /\ socket' = "open" /\ dialFor' = 0
      /\ timer' = timer /\ attempt' = 0 /\ downFor' = Off /\ dark' = Off
      /\ polling' = FALSE /\ ping' = TRUE /\ state' = "connected"
      /\ stopped' = stopped /\ starting' = starting
  BY DEF Opens, life
<1>2. ~stopped /\ timer = Off
  BY <1>1 DEF IInv, StoppedIsQuiet, OneWayOn
<1>3. TypeOK'
  <2>1. dialFor' \in 0..ConnectTimeout /\ attempt' \in 0..Len(Backoff)
    BY <1>1, Bounds
  <2> QED
    BY <1>1, <2>1 DEF IInv, TypeOK
<1>4. OneWayOn' /\ StoppedIsQuiet' /\ ToldTrue' /\ Overdue'
  BY <1>1, <1>2 DEF OneWayOn, StoppedIsQuiet, ToldTrue, Overdue
<1> QED
  BY <1>3, <1>4 DEF IInv

LEMMA ClosesIInv == IInv /\ Closes => IInv'
<1> SUFFICES ASSUME IInv, Closes PROVE IInv'
  OBVIOUS
<1>1. /\ socket \in {"connecting", "open"} /\ socket' = "closed" /\ dialFor' = 0
      /\ Disconnected(attempt, downFor) /\ dark' = Since(dark)
      /\ stopped' = stopped /\ starting' = starting
  BY DEF Closes, life
<1>2. ~stopped
  BY <1>1 DEF IInv, StoppedIsQuiet
<1>3. /\ attempt \in 0..Len(Backoff) /\ downFor \in {Off} \cup 0..Horizon
      /\ dark \in {Off} \cup 0..Horizon /\ starting \in 0..MaxStarts /\ stopped \in BOOLEAN
  BY DEF IInv, TypeOK
<1>4. /\ timer' \in 0..LastBackoff /\ timer' # Off /\ attempt' \in 0..Len(Backoff)
      /\ downFor' \in 0..Horizon /\ downFor' # Off /\ ~ping'
      /\ polling' \in BOOLEAN /\ state' \in {"reconnecting", "polling"}
      /\ ~polling' => downFor' < PollingAfter
      /\ downFor' = Since(downFor)
  BY <1>1, <1>3, AfterDisconnected
<1>5. dark' \in 0..Horizon
  BY <1>1, <1>3, Bounds DEF Since
<1>6. TypeOK'
  <2>1. dialFor' \in 0..ConnectTimeout
    BY <1>1, Bounds
  <2>2. ping' = FALSE
    BY <1>1 DEF Disconnected
  <2> QED
    BY <1>1, <1>3, <1>4, <1>5, <2>1, <2>2 DEF TypeOK
<1>7. OneWayOn' /\ StoppedIsQuiet' /\ ToldTrue'
  BY <1>1, <1>2, <1>4 DEF OneWayOn, StoppedIsQuiet, ToldTrue
<1>8. Overdue'
  <2>1. polling => polling'
    BY <1>1 DEF Disconnected
  <2>2. ASSUME ~polling' PROVE dark' <= downFor'
    <3>1. CASE dark = Off
      BY <1>1, <1>4, <3>1 DEF Since
    <3>2. CASE dark # Off
      BY <1>1, <1>3, <1>4, <2>1, <2>2, <3>2, Bounds DEF IInv, Overdue, Since
    <3> QED
      BY <3>1, <3>2
  <2>3. ASSUME ~polling' PROVE dark' + timer' <= PollingAfter + LastBackoff
    <3>1. dark' <= downFor' /\ downFor' < PollingAfter
      BY <1>4, <2>2, <2>3
    <3>2. dark' \in Nat /\ downFor' \in Nat /\ timer' \in Nat /\ timer' <= LastBackoff
      BY <1>4, <1>5, Bounds
    <3>3. LastBackoff \in Nat /\ PollingAfter \in Nat
      BY Bounds
    <3>4. \A d, f, t, p, b \in Nat : d <= f /\ f < p /\ t <= b => d + t <= p + b
      OBVIOUS
    <3> QED
      BY <3>1, <3>2, <3>3, <3>4
  <2> QED
    BY <1>1, <1>2, <1>4, <2>2, <2>3 DEF Overdue
<1> QED
  BY <1>6, <1>7, <1>8 DEF IInv

\* Clocks count together up to the horizon, which an outage that is not polled
\* through does not reach.
LEMMA TickIInv == IInv /\ Tick => IInv'
<1> SUFFICES ASSUME IInv, Tick PROVE IInv'
  OBVIOUS
<1>1. /\ timer # 0 /\ (socket = "connecting" => dialFor < ConnectTimeout)
      /\ timer' = (IF timer = Off THEN Off ELSE timer - 1)
      /\ dialFor' = (IF socket = "connecting" THEN dialFor + 1 ELSE 0)
      /\ downFor' = Later(downFor) /\ dark' = Later(dark)
      /\ UNCHANGED <<stopped, starting, socket, attempt, polling, ping, state>>
  BY DEF Tick, life, shown
<1>2. /\ downFor \in {Off} \cup 0..Horizon /\ dark \in {Off} \cup 0..Horizon
      /\ dialFor \in 0..ConnectTimeout /\ timer \in {Off} \cup 0..LastBackoff
      /\ starting \in 0..MaxStarts
  BY DEF IInv, TypeOK
<1>3. /\ timer' \in {Off} \cup 0..LastBackoff /\ dialFor' \in 0..ConnectTimeout
      /\ (timer' = Off <=> timer = Off)
  BY <1>1, <1>2, Bounds
<1>4. ASSUME NEW instant \in {Off} \cup 0..Horizon
      PROVE  /\ Later(instant) \in {Off} \cup 0..Horizon
             /\ Later(instant) = Off <=> instant = Off
             /\ instant # Off /\ instant < Horizon => Later(instant) = instant + 1
  BY Bounds DEF Later
<1>5. /\ downFor' \in {Off} \cup 0..Horizon /\ dark' \in {Off} \cup 0..Horizon
      /\ (downFor' = Off <=> downFor = Off) /\ (dark' = Off <=> dark = Off)
  BY <1>1, <1>2, <1>4
<1>6. TypeOK'
  BY <1>1, <1>3, <1>5 DEF IInv, TypeOK
<1>7. OneWayOn' /\ StoppedIsQuiet' /\ ToldTrue'
  BY <1>1, <1>3 DEF IInv, OneWayOn, StoppedIsQuiet, ToldTrue
<1>8. Overdue'
  <2>1. stopped' \/ socket' = "open" => dark' = Off
    BY <1>1, <1>5 DEF IInv, Overdue
  <2> SUFFICES ASSUME dark' # Off, ~polling'
               PROVE  /\ downFor' # Off /\ dark' <= downFor'
                      /\ timer' # Off \/ socket' = "connecting"
                      /\ timer' # Off => dark' + timer' <= PollingAfter + LastBackoff
                      /\ socket' = "connecting"
                           => dark' <= PollingAfter + LastBackoff + dialFor' + Late(starting')
    BY <2>1 DEF Overdue
  <2>2. /\ dark # Off /\ downFor # Off /\ dark <= downFor
        /\ timer # Off \/ socket = "connecting"
        /\ timer # Off => dark + timer <= PollingAfter + LastBackoff
        /\ socket = "connecting"
             => dark <= PollingAfter + LastBackoff + dialFor + Late(starting)
    BY <1>1, <1>5 DEF IInv, Overdue
  <2>3. /\ dark \in 0..Horizon /\ downFor \in 0..Horizon /\ Late(starting) \in Nat
        /\ PollingAfter + LastBackoff + ConnectTimeout + Late(starting) < Horizon
    BY <1>2, <2>2, LateBound
  <2>4. dark < Horizon
    <3>1. CASE timer # Off
      <4>1. timer \in Nat /\ dark + timer <= PollingAfter + LastBackoff
        BY <1>2, <2>2, <3>1, Bounds
      <4> QED
        BY <2>3, <4>1, Bounds
    <3>2. CASE socket = "connecting"
      BY <1>2, <2>2, <2>3, <3>2, Bounds
    <3> QED
      BY <2>2, <3>1, <3>2
  <2>5. dark' = dark + 1
    BY <1>1, <1>2, <1>4, <2>2, <2>4
  <2>6. dark' <= downFor'
    <3>1. CASE downFor < Horizon
      BY <1>1, <1>2, <1>4, <2>2, <2>3, <2>5, <3>1, Bounds
    <3>2. CASE downFor = Horizon
      BY <1>1, <2>3, <2>4, <2>5, <3>2, Bounds DEF Later
    <3> QED
      BY <2>3, <3>1, <3>2, Bounds
  <2>7. timer' # Off => dark' + timer' <= PollingAfter + LastBackoff
    <3> SUFFICES ASSUME timer' # Off PROVE dark' + timer' <= PollingAfter + LastBackoff
      OBVIOUS
    <3>1. timer \in Nat /\ timer' = timer - 1 /\ dark + timer <= PollingAfter + LastBackoff
      BY <1>1, <1>2, <1>3, <2>2, Bounds
    <3> QED
      BY <2>3, <2>5, <3>1, Bounds
  <2>8. socket' = "connecting"
          => dark' <= PollingAfter + LastBackoff + dialFor' + Late(starting')
    BY <1>1, <1>2, <2>2, <2>3, <2>5, Bounds
  <2> QED
    BY <1>1, <1>3, <1>5, <2>2, <2>6, <2>7, <2>8
<1> QED
  BY <1>6, <1>7, <1>8 DEF IInv

LEMMA StutterIInv == IInv /\ UNCHANGED vars => IInv'
<1> SUFFICES ASSUME IInv, UNCHANGED vars PROVE IInv'
  OBVIOUS
<1>1. UNCHANGED <<stopped, starting, socket, dialFor, timer, attempt, downFor, polling, ping,
                  state, dark>>
  BY DEF vars, life, link, retry, shown
<1>2. TypeOK'
  BY <1>1 DEF IInv, TypeOK
<1>3. OneWayOn' /\ StoppedIsQuiet' /\ ToldTrue'
  BY <1>1 DEF IInv, OneWayOn, StoppedIsQuiet, ToldTrue
<1>4. Overdue'
  BY <1>1 DEF IInv, Overdue
<1> QED
  BY <1>2, <1>3, <1>4 DEF IInv

LEMMA Invariant == Spec => []IInv
<1>1. IInv /\ [Next]_vars => IInv'
  BY StartIInv, StartedIInv, StopIInv, ReconnectIInv, TimerFiresIInv, OpensIInv, ClosesIInv,
     TickIInv, StutterIInv DEF Next
<1> QED
  BY InitIInv, <1>1, PTL DEF Spec

-----------------------------------------------------------------------------
\* The fields of the manager hold values of their types.
THEOREM TypeCorrect == Spec => []TypeOK
<1>1. IInv => TypeOK
  BY DEF IInv
<1> QED
  BY Invariant, <1>1, PTL

\* A client that was not stopped has a socket, or a timer for the next one, or
\* a start() that will make one, and never a socket and a timer: it never gives
\* up, and never opens two sockets.
THEOREM NeverStranded == Spec => []OneWayOn
<1>1. IInv => OneWayOn
  BY DEF IInv
<1> QED
  BY Invariant, <1>1, PTL

\* After stop() no timer and no socket is left, however many start() still wait.
THEOREM StopEndsAll == Spec => []StoppedIsQuiet
<1>1. IInv => StoppedIsQuiet
  BY DEF IInv
<1> QED
  BY Invariant, <1>1, PTL

\* The page is told "connected" exactly while the socket is open.
THEOREM TheTruthIsTold == Spec => []ToldTrue
<1>1. IInv => ToldTrue
  BY DEF IInv
<1> QED
  BY Invariant, <1>1, PTL

\* An outage longer than the limit, one more delay and the attempts made
\* meanwhile is polled through.
THEOREM OutagesArePolled == Spec => []PollsAtLast
<1>1. IInv => PollsAtLast
  <2> SUFFICES ASSUME IInv, dark # Off, dark > PollingBound, ~polling PROVE FALSE
    BY DEF PollsAtLast, IInv, TypeOK
  <2>1. /\ dark \in Nat /\ dialFor \in 0..ConnectTimeout /\ timer \in {Off} \cup 0..LastBackoff
        /\ starting \in 0..MaxStarts
    BY Bounds DEF IInv, TypeOK
  <2>2. /\ PollingAfter + LastBackoff + ConnectTimeout + Late(starting) <= PollingBound
        /\ Late(starting) \in Nat /\ PollingBound \in Nat
    BY <2>1, AllBounds
  <2>3. CASE timer # Off
    <3>1. timer \in Nat /\ dark + timer <= PollingAfter + LastBackoff
      BY <2>1, <2>3, Bounds DEF IInv, Overdue
    <3> QED
      BY <2>1, <2>2, <3>1, Bounds
  <2>4. CASE socket = "connecting"
    <3>1. dark <= PollingAfter + LastBackoff + dialFor + Late(starting)
      BY <2>4 DEF IInv, Overdue
    <3> QED
      BY <2>1, <2>2, <3>1, Bounds
  <2> QED
    BY <2>3, <2>4 DEF IInv, Overdue
<1> QED
  BY Invariant, <1>1, PTL
=============================================================================
