----------------------------- MODULE MobileApp ------------------------------
(***************************************************************************)
(* The mobile app from its start to the payment (mobile-h5/src): App.tsx   *)
(* and its pages, lib/auth.ts, the room page's load, bid and payment, the  *)
(* phases of useBidButton.ts, the orders page, and the one store that all  *)
(* rooms share; against the parts of the server that they ask.             *)
(*                                                                         *)
(* A call is under way in a slot: the server serves it, its answer comes   *)
(* or the client gives it up (timeout, no network), before or after it was *)
(* served.  A call whose page is left, or whose tab is reloaded, goes on.  *)
(***************************************************************************)
EXTENDS Integers, FiniteSets

CONSTANTS
  Auctions,   \* each with a room
  FirstPrice, \* the price of an auction before any bid
  Step,       \* price_step
  Typed,      \* bound: amounts the user types
  None,       \* null
  Slots,      \* bound: calls under way
  MaxPrice    \* bound of the rivals' bids

ASSUME PriceAssumption ==
  /\ FirstPrice \in [Auctions -> Nat] /\ Step \in Nat \ {0}
  /\ Typed \subseteq Nat /\ MaxPrice \in Nat
ASSUME NoneAssumption ==
  /\ None \notin {"ok", "refused"}
  /\ None \notin [kind : {"bid"}, arg : [room : Auctions, amount : Nat], of : {"page"},
                  answer : {None} \cup Nat]
  /\ \A A \in SUBSET Auctions : None \notin [A -> {"none", "pending_pay", "paid"}]

VARIABLES
  auctions, \* the rows: price, status, leader
  orders,   \* the rows: none, pending_pay, paid
  charged,  \* history: payments that were executed for each order
  token,    \* localStorage has one
  app,      \* ready, loggedIn, user (cachedUser is set), page, room
  store,    \* auctionStore: auction, ended
  view,     \* the states of the mounted page
  calls     \* requests under way, one per slot

server == <<auctions, orders, charged>>
vars == <<server, token, app, store, view, calls>>

-----------------------------------------------------------------------------
(* What the pages are made of.                                              *)

\* The states of a page when it is mounted.
FreshView(page) ==
  CASE page = "room"   -> [phase |-> "idle", amount |-> None, loaded |-> FALSE,
                           paying |-> FALSE, paid |-> FALSE]
    [] page = "orders" -> [list |-> None, paying |-> None]
    [] page = "home"   -> [list |-> None]
    [] OTHER           -> [loading |-> FALSE]

\* The page that App renders.
Shown(a) == IF ~a.ready THEN "loading" ELSE IF ~a.loggedIn THEN "login" ELSE a.page

Free(c) == calls[c] = None

\* A call is made by the page; what nothing on the server changes is served at once.
Call(kind, arg) ==
  [kind |-> kind, arg |-> arg, of |-> "page",
   answer |-> IF kind \in {"me", "login", "list"} THEN "ok" ELSE None]

\* Nobody waits for a call any more: the server may still do what it asks.
Abandoned(call) ==
  IF call # None /\ call.kind \in {"bid", "pay"} /\ call.answer = None
  THEN [call EXCEPT !.of = "nobody"] ELSE None

\* The page is left: the answers to a refresh and to a bid still reach the store,
\* and App still looks the token up.
Left(call) ==
  IF call # None /\ call.kind \in {"refresh", "bid", "me"} /\ call.of # "nobody"
  THEN [call EXCEPT !.of = "app"] ELSE Abandoned(call)

\* The auction in the store has a bid button that can be pressed.
Disabled(v) ==
  \/ store.auction = None \/ v.phase # "idle"
  \/ store.auction.status # "active"
  \/ app.user /\ store.auction.leader = "me"

\* minBidAmount: the price before the first bid is the start price, or none.
MinBid(a) == IF a.price > 0 THEN a.price + Step ELSE Step

\* submit: what was typed, but not less than the least valid bid.
Amount(v, a) == IF v.amount # None /\ v.amount > MinBid(a) THEN v.amount ELSE MinBid(a)

Copy(a) == [id |-> a, price |-> auctions[a].price, status |-> auctions[a].status,
            leader |-> auctions[a].leader]
NotEnded == [open |-> FALSE, winner |-> "nobody", order |-> None]

\* applySnapshot: the order id is not in the answer.
Snapshot(copy) ==
  [auction |-> copy,
   ended   |-> [open |-> copy.status = "ended", winner |-> copy.leader, order |-> None]]

\* applyBidResponse and the moves of the price, in whatever auction the store has.
Moved(s, price, leader) == [s EXCEPT !.auction.price = price, !.auction.leader = leader]

-----------------------------------------------------------------------------
Init ==
  /\ auctions = [a \in Auctions |-> [price |-> FirstPrice[a], status |-> "active", leader |-> "nobody"]]
  /\ orders = [a \in Auctions |-> "none"] /\ charged = [a \in Auctions |-> 0]
  /\ token = FALSE
  /\ app = [ready |-> TRUE, loggedIn |-> FALSE, user |-> FALSE, page |-> "home", room |-> None]
  /\ store = [auction |-> None, ended |-> NotEnded]
  /\ view = FreshView("login")
  /\ calls = [c \in Slots |-> None]

\* Wrong: the login form is there while the stored token is being looked up.
WrongStarted(page, room) ==
  [ready |-> TRUE, loggedIn |-> FALSE, user |-> FALSE, page |-> page, room |-> room]

\* App: ready at once if there is no token to look up.
Started(page, room) ==
  [ready |-> ~token, loggedIn |-> FALSE, user |-> FALSE, page |-> page, room |-> room]

\* The tab is loaded anew, at / or at a room's address: memory is lost, the token
\* and what the server is doing are not.
Reload(c) ==
  /\ Free(c)
  /\ \/ app' = Started("home", None)
     \/ \E a \in Auctions : app' = Started("room", a)
  /\ store' = [auction |-> None, ended |-> NotEnded]
  /\ view' = FreshView("login")
  /\ calls' = [d \in Slots |-> IF d = c /\ token THEN Call("me", None) ELSE Abandoned(calls[d])]
  /\ UNCHANGED <<server, token>>

\* The page changes: its states are fresh, and its effects make the first call.
Mount(a, c, kind, arg) ==
  /\ app' = a
  /\ view' = FreshView(Shown(a))
  /\ calls' = [d \in Slots |-> IF d = c THEN Call(kind, arg) ELSE Left(calls[d])]

\* The page behind the login, with the call its effects make.
MountHome(a, c) ==
  CASE a.page = "home"   -> Mount(a, c, "list", None)
    [] a.page = "room"   -> Mount(a, c, "load", a.room)
    [] a.page = "orders" -> Mount(a, c, "orders", None)

\* LoginPage.
Login(c) ==
  /\ Shown(app) = "login" /\ ~view.loading /\ Free(c)
  /\ view' = [view EXCEPT !.loading = TRUE]
  /\ calls' = [calls EXCEPT ![c] = Call("login", None)]
  /\ UNCHANGED <<server, token, app, store>>

\* navigate.
To(page) == [app EXCEPT !.page = page]
Enter(a) == [app EXCEPT !.page = "room", !.room = a]

\* handleEnterRoom, handleBack, onViewOrders.
Go(c) ==
  /\ Shown(app) \in {"home", "room", "orders"} /\ Free(c)
  /\ \/ app.page = "home" /\ view.list # None /\ \E a \in view.list : MountHome(Enter(a), c)
     \/ app.page = "home" /\ MountHome(To("orders"), c)
     \/ app.page \in {"room", "orders"} /\ MountHome(To("home"), c)
  /\ UNCHANGED <<server, token, store>>

\* HomePage's button, and the retry of a list that failed.
Relist(c) ==
  /\ Shown(app) = "home" /\ Free(c) /\ ~\E d \in Slots : ~Free(d) /\ calls[d].kind = "list"
  /\ calls' = [calls EXCEPT ![c] = Call("list", None)]
  /\ UNCHANGED <<server, token, app, store, view>>

-----------------------------------------------------------------------------
(* In the room.                                                             *)

InRoom == Shown(app) = "room"

\* refreshSnapshot, whenever the connection manager wants it.
Refresh(c) ==
  /\ InRoom /\ Free(c)
  /\ calls' = [calls EXCEPT ![c] = Call("refresh", app.room)]
  /\ UNCHANGED <<server, token, app, store, view>>

\* An event of the room moves on whatever auction the store has, if any; that of
\* the end brings the auction with it, and the order.
EventArrives ==
  /\ InRoom
  /\ LET row == auctions[app.room]
         over == [auction |-> Copy(app.room),
                  ended   |-> [open |-> TRUE, winner |-> row.leader,
                               order |-> IF row.leader = "nobody" THEN None ELSE app.room]]
     IN  \/ row.status = "active" /\ store.auction # None /\ store' = Moved(store, row.price, row.leader)
         \/ row.status = "ended" /\ store' = over
  /\ UNCHANGED <<server, token, app, view, calls>>

CloseEndedModal ==
  /\ InRoom /\ store.ended.open
  /\ store' = [store EXCEPT !.ended.open = FALSE]
  /\ UNCHANGED <<server, token, app, view, calls>>

\* The amount field.
Type ==
  /\ InRoom
  /\ \E x \in Typed : view' = [view EXCEPT !.amount = x]
  /\ UNCHANGED <<server, token, app, store, calls>>

Pending(v) == [v EXCEPT !.phase = "pending"]

\* submit, or placeStepBid, which forgets what was typed: submitBid bids in the
\* room of the page, by the auction in the store.
Submit(c) ==
  /\ InRoom /\ Free(c) /\ ~Disabled(view)
  /\ \E v \in {view, [view EXCEPT !.amount = None]} :
       /\ view' = Pending(v)
       /\ calls' = [calls EXCEPT ![c] =
            Call("bid", [room |-> app.room, amount |-> Amount(v, store.auction)])]
  /\ UNCHANGED <<server, token, app, store>>

\* The second after an accepted bid.
Cooled ==
  /\ InRoom /\ view.phase = "cooldown"
  /\ view' = [view EXCEPT !.phase = "idle"]
  /\ UNCHANGED <<server, token, app, store, calls>>

\* handlePay in the modal of the end.
PayInRoom(c) ==
  /\ InRoom /\ Free(c) /\ store.ended.open /\ store.ended.order # None
  /\ store.ended.winner = "me"
  /\ ~view.paid /\ ~view.paying
  /\ view' = [view EXCEPT !.paying = TRUE]
  /\ calls' = [calls EXCEPT ![c] = Call("pay", store.ended.order)]
  /\ UNCHANGED <<server, token, app, store>>

\* handlePay of the orders page: one order at a time has its button disabled.
PayInOrders(c) ==
  /\ Shown(app) = "orders" /\ Free(c) /\ view.list # None
  /\ \E a \in DOMAIN view.list :
       /\ view.list[a] = "pending_pay" /\ view.paying # a
       /\ view' = [view EXCEPT !.paying = a]
       /\ calls' = [calls EXCEPT ![c] = Call("pay", a)]
  /\ UNCHANGED <<server, token, app, store>>

-----------------------------------------------------------------------------
(* The server.                                                              *)

\* minAcceptableAmount: the first bid may be the start price.
MinAcceptable(a) ==
  LET row == auctions[a]
  IN  IF row.leader # "nobody" THEN row.price + Step
      ELSE IF FirstPrice[a] > 0 THEN FirstPrice[a] ELSE Step

RivalBids(a) ==
  /\ auctions[a].status = "active" /\ MinAcceptable(a) <= MaxPrice
  /\ auctions' = [auctions EXCEPT ![a].price = MinAcceptable(a), ![a].leader = "rival"]
  /\ UNCHANGED <<orders, charged, token, app, store, view, calls>>

\* EndOne, with the order of a sale.
Ends(a) ==
  /\ auctions[a].status = "active"
  /\ auctions' = [auctions EXCEPT ![a].status = "ended"]
  /\ orders' = [orders EXCEPT ![a] = IF auctions[a].leader = "nobody" THEN "none" ELSE "pending_pay"]
  /\ UNCHANGED <<charged, token, app, store, view, calls>>

\* A call is answered, if anybody waits for it.
Answered(c, answer) ==
  calls' = [calls EXCEPT ![c] = IF @.of = "nobody" THEN None ELSE [@ EXCEPT !.answer = answer]]

\* The client's orders.
Mine == {a \in Auctions : orders[a] # "none" /\ auctions[a].leader = "me"}

ServeRead(c) ==
  /\ \/ calls[c].kind \in {"load", "refresh"} /\ Answered(c, Copy(calls[c].arg))
     \/ calls[c].kind = "orders" /\ Answered(c, [a \in Mine |-> orders[a]])
  /\ UNCHANGED server

\* Place: the answer is the new price, or 0 for a refusal.  The client throws on a
\* refusal as on a failure, so that the least valid amount it names is not used.
ServeBid(c) ==
  /\ calls[c].kind = "bid"
  /\ LET a == calls[c].arg.room
         amount == calls[c].arg.amount
         ok == auctions[a].status = "active" /\ amount >= MinAcceptable(a)
     IN  /\ auctions' = IF ok THEN [auctions EXCEPT ![a].price = amount, ![a].leader = "me"]
                        ELSE auctions
         /\ Answered(c, IF ok THEN amount ELSE 0)
  /\ UNCHANGED <<orders, charged>>

\* Wrong: the UPDATE does not ask for pending_pay.
WrongPayable(a) == auctions[a].leader = "me" /\ orders[a] # "none"

\* The condition of the UPDATE.
Payable(a) == auctions[a].leader = "me" /\ orders[a] = "pending_pay"

\* Pay: a row that is not changed is an error.
ServePay(c) ==
  /\ calls[c].kind = "pay"
  /\ LET a == calls[c].arg
     IN  IF Payable(a)
         THEN /\ orders' = [orders EXCEPT ![a] = "paid"]
              /\ charged' = [charged EXCEPT ![a] = @ + 1]
              /\ Answered(c, "ok")
         ELSE Answered(c, "refused") /\ UNCHANGED <<orders, charged>>
  /\ UNCHANGED auctions

Serve(c) ==
  /\ ~Free(c) /\ calls[c].answer = None
  /\ ServeRead(c) \/ ServeBid(c) \/ ServePay(c)
  /\ UNCHANGED <<token, app, store, view>>

-----------------------------------------------------------------------------
(* Answers and failures.                                                    *)

Ready(c) == ~Free(c) /\ calls[c].answer # None
OfPage(c) == calls[c].of = "page"
Done(c) == calls' = [calls EXCEPT ![c] = None]

\* login and fetchMe: the page behind the login is mounted.
SignedIn(c) ==
  /\ Ready(c) /\ calls[c].kind \in {"me", "login"}
  /\ token' = TRUE
  /\ MountHome([app EXCEPT !.ready = TRUE, !.loggedIn = TRUE, !.user = TRUE], c)
  /\ UNCHANGED <<server, store>>

\* fetchMe forgets the token whatever went wrong; the login form can be sent again.
SignInFails(c) ==
  /\ ~Free(c) /\ calls[c].kind \in {"me", "login"}
  /\ IF calls[c].kind = "me"
     THEN /\ token' = FALSE
          /\ app' = [app EXCEPT !.ready = TRUE, !.user = FALSE]
     ELSE UNCHANGED <<token, app>>
  /\ view' = IF app.loggedIn THEN view ELSE FreshView("login")
  /\ Done(c)
  /\ UNCHANGED <<server, store>>

\* The lists of the home page and of the orders page.
ListArrives(c) ==
  /\ Ready(c) /\ calls[c].kind \in {"list", "orders"}
  /\ view' = [view EXCEPT !.list = IF calls[c].kind = "list" THEN Auctions ELSE calls[c].answer]
  /\ Done(c)
  /\ UNCHANGED <<server, token, app, store>>

\* The page's own load, and refreshSnapshot, which does not ask who is there.
StatusArrives(c) ==
  /\ Ready(c) /\ calls[c].kind \in {"load", "refresh"}
  /\ store' = Snapshot(calls[c].answer)
  /\ view' = IF calls[c].kind = "load" THEN [view EXCEPT !.loaded = TRUE] ELSE view
  /\ Done(c)
  /\ UNCHANGED <<server, token, app>>

\* submitBid goes on: applyBidResponse, in whatever auction the store has by now.
BidArrives(c) ==
  /\ Ready(c) /\ calls[c].kind = "bid"
  /\ LET ok == calls[c].answer > 0
     IN  /\ store' = IF ok /\ store.auction # None
                     THEN Moved(store, calls[c].answer, "me")
                     ELSE store
         /\ view' = IF ~OfPage(c) THEN view
                    ELSE [view EXCEPT !.phase = IF ok THEN "cooldown" ELSE "idle"]
  /\ Done(c)
  /\ UNCHANGED <<server, token, app>>

\* handlePay goes on: `finally` frees the button, whosever it is by now.
PayArrives(c) ==
  /\ Ready(c) /\ calls[c].kind = "pay"
  /\ LET ok == calls[c].answer = "ok"
     IN  view' = IF app.page = "room"
                 THEN [view EXCEPT !.paying = FALSE, !.paid = ok]
                 ELSE [view EXCEPT !.paying = None,
                                   !.list[calls[c].arg] = IF ok THEN "paid" ELSE @]
  /\ Done(c)
  /\ UNCHANGED <<server, token, app, store>>

\* Wrong: a bid that fails leaves the button as it was.
WrongUndone(kind) == view

\* The room page's load tries again.
Retry(c) == calls' = [calls EXCEPT ![c] = Call("load", app.room)]

\* The states of the page after a call of it failed.
Undone(kind) ==
  CASE kind = "bid" -> [view EXCEPT !.phase = "idle"]
    [] kind = "pay" -> IF app.page = "room" THEN [view EXCEPT !.paying = FALSE]
                       ELSE [view EXCEPT !.paying = None]
    [] OTHER        -> view

\* No answer comes in time; the server may have served the call, or do so yet.
Fails(c) ==
  /\ ~Free(c) /\ calls[c].kind \notin {"me", "login"} /\ calls[c].of # "nobody"
  /\ view' = IF OfPage(c) THEN Undone(calls[c].kind) ELSE view
  /\ IF calls[c].kind = "load" THEN Retry(c)
     ELSE calls' = [calls EXCEPT ![c] = Abandoned(@)]
  /\ UNCHANGED <<server, token, app, store>>

Arrives(c) ==
  \/ SignedIn(c) \/ ListArrives(c) \/ StatusArrives(c) \/ BidArrives(c) \/ PayArrives(c)

Next ==
  \/ \E c \in Slots :
       \/ Reload(c) \/ Login(c) \/ Go(c) \/ Relist(c) \/ Refresh(c) \/ Submit(c)
       \/ PayInRoom(c) \/ PayInOrders(c)
       \/ Serve(c) \/ Arrives(c) \/ SignInFails(c) \/ Fails(c)
  \/ EventArrives \/ CloseEndedModal \/ Type \/ Cooled
  \/ \E a \in Auctions : RivalBids(a) \/ Ends(a)

Spec == Init /\ [][Next]_vars

-----------------------------------------------------------------------------
TypeOK ==
  /\ auctions \in [Auctions -> [price : Nat, status : {"active", "ended"},
                                leader : {"nobody", "me", "rival"}]]
  /\ orders \in [Auctions -> {"none", "pending_pay", "paid"}] /\ charged \in [Auctions -> Nat]
  /\ token \in BOOLEAN
  /\ app \in [ready : BOOLEAN, loggedIn : BOOLEAN, user : BOOLEAN,
               page : {"home", "room", "orders"}, room : Auctions \cup {None}]
  /\ \A c \in Slots : ~Free(c) => calls[c].of \in {"page", "app", "nobody"}

\* Whoever is behind the login has a token to send and is known to the bid
\* button, through reloads, failed look-ups and logins (App.tsx:32-43).
SignedInHasToken == app.loggedIn => token /\ app.user

\* The button is pending exactly while one bid of this visit is under way: it
\* never sends a second, and an answer, a refusal or a failure frees it.
ButtonTells ==
  InRoom =>
    LET mine == {c \in Slots : ~Free(c) /\ calls[c].kind = "bid" /\ OfPage(c)}
    IN  Cardinality(mine) = IF view.phase = "pending" THEN 1 ELSE 0

\* An order is charged once, though its button can be pressed again while a
\* payment is under way, lost or unanswered, and what is shown as paid is paid.
ChargedOnce ==
  /\ \A a \in Auctions : charged[a] = IF orders[a] = "paid" THEN 1 ELSE 0
  /\ Shown(app) = "orders" /\ view.list # None =>
       \A a \in DOMAIN view.list : view.list[a] = "paid" => orders[a] = "paid"

\* What contract-v2.md:215 asks and the app does not keep: a bid that is not the first is at least the price plus the
\* step; so the button of a room bids no more than that, unless more was typed.
BidFitsRoom ==
  [][\A c \in Slots : Free(c) /\ calls'[c] # None /\ calls'[c].kind = "bid" =>
       calls'[c].arg.amount \in Typed \cup {n + Step : n \in 0..auctions[app.room].price}]_vars

\* What contract-v2.md:459 says and the server does not do: paying an order that is paid succeeds.
RepeatedPayAnswered ==
  [][\A c \in Slots : ~Free(c) /\ calls[c].kind = "pay" /\ calls[c].answer = None /\ calls'[c] # None
       /\ calls'[c].answer = "refused" => orders[calls[c].arg] # "paid"]_vars
=============================================================================
