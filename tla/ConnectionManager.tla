------------------------- MODULE ConnectionManager -------------------------
(***************************************************************************)
(* The connection of a mobile client to an auction's room: class           *)
(* ConnectionManager of mobile-h5/src/lib/connection-manager.ts with its   *)
(* socket, its timers and the calls of the page.  What a refresh brings is *)
(* ClientRoom; here it matters only that start() waits for one.            *)
(*                                                                         *)
(* Time is counted in seconds, relative to what it is measured from, so no *)
(* clock grows.  Timers are on time: JavaScript promises no more than that *)
(* they are not early, but a page in the foreground has them about then.   *)
(* The controls for tests (reconnectBlocked) are left out.                 *)
(***************************************************************************)
EXTENDS Integers, Sequences

CONSTANTS
  Backoff,        \* reconnectBackoffMs
  PollingAfter,   \* pollingAfterMs
  ConnectTimeout, \* how long an attempt stays undecided: the browser's choice
  Off,            \* a timer that is not set, an instant that is not known
  MaxStarts       \* bound: how many start() wait for their refresh at a time

ASSUME TimerAssumption ==
  /\ Backoff \in Seq(Nat \ {0}) /\ Len(Backoff) > 0
  /\ PollingAfter \in Nat /\ ConnectTimeout \in Nat /\ MaxStarts \in Nat \ {0}
  /\ Off \notin Int

LastBackoff == Backoff[Len(Backoff)]

\* Delays do not shrink, as the code's default.
ASSUME GrowingAssumption == \A k \in 1..Len(Backoff) : Backoff[k] <= LastBackoff

VARIABLES
  stopped,
  starting,  \* how many start() wait for refreshStatus to settle
  socket,    \* none, connecting, open, closed
  dialFor,   \* how long the socket has been connecting
  timer,     \* seconds until reconnectTimer fires, or Off
  attempt,   \* reconnectAttempt
  downFor,   \* seconds since disconnectedAt, or Off where that is 0
  polling,   \* pollingTimer is set
  ping,      \* pingTimer is set
  state,     \* what the page is told
  dark       \* history: seconds since the connection was lost, or not made at
             \* first, while nobody stopped the client or tried again, or Off

life == <<stopped, starting>>
link == <<socket, dialFor>>
retry == <<timer, attempt, downFor>>
shown == <<polling, ping, state>>
vars == <<life, link, retry, shown, dark>>

\* When a client has to poll at the latest: it finds out when an attempt fails,
\* and every late start() may break off an attempt and begin another.
PollingBound == PollingAfter + LastBackoff + (MaxStarts + 1) * ConnectTimeout

\* Longer outages all look alike.
Horizon == PollingBound + 1

Init ==
  /\ stopped = TRUE /\ starting = 0
  /\ socket = "none" /\ dialFor = 0
  /\ timer = Off /\ attempt = 0 /\ downFor = Off
  /\ polling = FALSE /\ ping = FALSE
  /\ state = "disconnected"
  /\ dark = Off

Since(instant) == IF instant = Off THEN 0 ELSE instant

\* scheduleReconnect.  Attempts beyond the last back-off all wait for that, so
\* they are not counted.
Retry(made) ==
  /\ timer' = Backoff[IF made < Len(Backoff) THEN made + 1 ELSE Len(Backoff)]
  /\ attempt' = IF made < Len(Backoff) THEN made + 1 ELSE made

\* Wrong: the outage is counted from the last failed attempt; or a client that
\* polls makes no more attempts.
WrongDisconnected(made, down) ==
  /\ ping' = FALSE /\ downFor' = 0
  /\ IF 0 >= PollingAfter
     THEN polling' = TRUE /\ state' = "polling"
     ELSE UNCHANGED polling /\ state' = "reconnecting"
  /\ Retry(made)
WrongDisconnectedPolling(made, down) ==
  /\ ping' = FALSE /\ downFor' = Since(down)
  /\ IF Since(down) >= PollingAfter
     THEN polling' = TRUE /\ state' = "polling" /\ timer' = Off /\ attempt' = made
     ELSE UNCHANGED polling /\ state' = "reconnecting" /\ Retry(made)

\* handleDisconnected, of a client that is not stopped, after `made` attempts,
\* `down` seconds after it was disconnected.
Disconnected(made, down) ==
  /\ ping' = FALSE /\ downFor' = Since(down)
  /\ IF Since(down) >= PollingAfter
     THEN polling' = TRUE /\ state' = "polling"
     ELSE UNCHANGED polling /\ state' = "reconnecting"
  /\ Retry(made)

\* connect: an old socket is closed silently; the new one may fail to be made
\* at all.
Connect(made, down) ==
  IF stopped
  THEN attempt' = made /\ downFor' = down /\ UNCHANGED <<timer, link, shown>>
  ELSE \/ /\ timer' = Off /\ attempt' = made /\ downFor' = down
          /\ socket' = "connecting" /\ dialFor' = 0
          /\ UNCHANGED polling /\ ping' = FALSE
          /\ state' = IF polling THEN state ELSE "reconnecting"
       \/ /\ socket' = "none" /\ dialFor' = 0
          /\ Disconnected(made, down)

Start ==
  /\ stopped /\ starting < MaxStarts
  /\ stopped' = FALSE /\ starting' = starting + 1
  /\ UNCHANGED <<link, retry, shown, dark>>

\* The refresh of a start() has succeeded or failed.
Started ==
  /\ starting > 0 /\ starting' = starting - 1
  /\ Connect(attempt, downFor)
  /\ dark' = IF timer' = Off THEN dark ELSE Since(dark)
  /\ UNCHANGED stopped

\* Wrong: a stopped client keeps its reconnection timer.
WrongStop ==
  /\ stopped' = TRUE /\ UNCHANGED <<starting, retry>>
  /\ socket' = "none" /\ dialFor' = 0
  /\ polling' = FALSE /\ ping' = FALSE /\ state' = "disconnected"
  /\ dark' = Off

\* stop: attempts and the outage are not forgotten.
Stop ==
  /\ stopped' = TRUE /\ UNCHANGED starting
  /\ socket' = "none" /\ dialFor' = 0
  /\ timer' = Off /\ UNCHANGED <<attempt, downFor>>
  /\ polling' = FALSE /\ ping' = FALSE /\ state' = "disconnected"
  /\ dark' = Off

\* reconnect: the user's button.  A pending attempt is given up for one at
\* once, with both counters reset.
Reconnect ==
  /\ Connect(0, Off)
  /\ dark' = IF timer' = Off THEN Off ELSE 0
  /\ UNCHANGED life

TimerFires ==
  /\ timer = 0
  /\ Connect(attempt, downFor)
  /\ UNCHANGED <<life, dark>>

\* Wrong: a client that is connected again polls on.
WrongOpens ==
  /\ socket = "connecting" /\ socket' = "open" /\ dialFor' = 0
  /\ UNCHANGED timer /\ attempt' = 0 /\ downFor' = Off
  /\ UNCHANGED polling /\ ping' = TRUE /\ state' = "connected"
  /\ dark' = Off
  /\ UNCHANGED life

\* handleOpen.
Opens ==
  /\ socket = "connecting" /\ socket' = "open" /\ dialFor' = 0
  /\ UNCHANGED timer /\ attempt' = 0 /\ downFor' = Off
  /\ polling' = FALSE /\ ping' = TRUE /\ state' = "connected"
  /\ dark' = Off
  /\ UNCHANGED life

\* handleClose: an attempt fails or a connection is lost.
Closes ==
  /\ socket \in {"connecting", "open"} /\ socket' = "closed" /\ dialFor' = 0
  /\ Disconnected(attempt, downFor)
  /\ dark' = Since(dark)
  /\ UNCHANGED life

Later(instant) == IF instant \in {Off, Horizon} THEN instant ELSE instant + 1

\* A second passes; no timer is passed over, and no attempt lasts longer than
\* the browser lets it.
Tick ==
  /\ timer # 0
  /\ socket = "connecting" => dialFor < ConnectTimeout
  /\ timer' = IF timer = Off THEN Off ELSE timer - 1
  /\ dialFor' = IF socket = "connecting" THEN dialFor + 1 ELSE 0
  /\ downFor' = Later(downFor) /\ dark' = Later(dark)
  /\ UNCHANGED <<life, socket, attempt, shown>>

Next ==
  \/ Start \/ Started \/ Stop \/ Reconnect \/ TimerFires \/ Opens \/ Closes \/ Tick

Spec == Init /\ [][Next]_vars

\* Requests settle, timers fire, time passes; sockets that are tried for again
\* and again can be made, and open, at some time.
Fairness ==
  /\ WF_vars(Started) /\ WF_vars(Tick)
  /\ SF_vars(TimerFires /\ socket' = "connecting") /\ SF_vars(Opens)

FairSpec == Spec /\ Fairness

-----------------------------------------------------------------------------
\* The manager's fields hold values of their types.
TypeOK ==
  /\ stopped \in BOOLEAN /\ starting \in 0..MaxStarts
  /\ socket \in {"none", "connecting", "open", "closed"} /\ dialFor \in 0..ConnectTimeout
  /\ timer \in {Off} \cup 0..LastBackoff /\ attempt \in 0..Len(Backoff)
  /\ downFor \in {Off} \cup 0..Horizon /\ dark \in {Off} \cup 0..Horizon
  /\ polling \in BOOLEAN /\ ping \in BOOLEAN
  /\ state \in {"disconnected", "reconnecting", "connected", "polling"}

\* A client that is not stopped has exactly one thing going on that will bring
\* it on, besides a start() that still waits: a socket, or the timer for the
\* next one.  So it never gives up, and never opens two at a time.
OneWayOn ==
  ~stopped =>
    /\ starting > 0 \/ socket \in {"connecting", "open"} \/ timer # Off
    /\ ~(socket \in {"connecting", "open"} /\ timer # Off)

\* After stop nothing of the manager is left running, however stop, start, the
\* refreshes they wait for, and the socket are interleaved.
StoppedIsQuiet ==
  stopped => timer = Off /\ ~polling /\ ~ping /\ socket \notin {"connecting", "open"}

\* The page is told of a connection exactly while there is one, pings go over
\* an open socket, and nobody polls then.
ToldTrue ==
  /\ state = "connected" <=> socket = "open"
  /\ ping => socket = "open"
  /\ polling => socket # "open"

\* A client without a connection polls after the limit and one more round of
\* waiting and trying, unless the user intervenes.
PollsAtLast == dark # Off /\ dark > PollingBound => polling

\* A client that stays in its room is connected again and again, where attempts
\* succeed again and again: it never stops trying, while it polls included.
Recovers == <>[]~stopped => []<>(state = "connected")
=============================================================================
