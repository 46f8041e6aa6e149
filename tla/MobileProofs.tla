---------------------------- MODULE MobileProofs -----------------------------
(***************************************************************************)
(* What TLAPS proves of MobileApp for any auctions, prices and any number  *)
(* of calls under way: whoever is inside has a token, the button tells of  *)
(* the bid under way, and an order is charged once.                        *)
(***************************************************************************)
EXTENDS MobileApp, FiniteSetTheorems, TLAPS

Leaders == {"nobody", "me", "rival"}
AppType == [ready : BOOLEAN, loggedIn : BOOLEAN, user : BOOLEAN,
            page : {"home", "room", "orders"}, room : Auctions \cup {None}]
CopyType == [id : Auctions, price : Nat, status : {"active", "ended"}, leader : Leaders]
EndedType == [open : BOOLEAN, winner : Leaders, order : Auctions \cup {None}]
OrderStates == {"none", "pending_pay", "paid"}
Lists == UNION {[A -> OrderStates] : A \in SUBSET Auctions}

\* What a call may be, and the views of the pages.
SessionCall == [kind : {"me", "login", "list"}, arg : {None}, of : {"page", "app"}, answer : {"ok"}]
StatusCall == [kind : {"load", "refresh"}, arg : Auctions, of : {"page", "app"},
               answer : {None} \cup CopyType]
OrdersCall == [kind : {"orders"}, arg : {None}, of : {"page"}, answer : {None} \cup Lists]
BidCall == [kind : {"bid"}, arg : [room : Auctions, amount : Nat],
            of : {"page", "app", "nobody"}, answer : {None} \cup Nat]
PayCall == [kind : {"pay"}, arg : Auctions, of : {"page", "nobody"},
            answer : {None, "ok", "refused"}]
CallType == SessionCall \cup StatusCall \cup OrdersCall \cup BidCall \cup PayCall

RoomView == [phase : {"idle", "pending", "cooldown"}, amount : Typed \cup {None},
             loaded : BOOLEAN, paying : BOOLEAN, paid : BOOLEAN]
OrdersView == [list : {None} \cup Lists, paying : Auctions \cup {None}]
HomeView == [list : {None, Auctions}]
LoginView == [loading : BOOLEAN]
ViewOf(shown) ==
  CASE shown = "room" -> RoomView [] shown = "orders" -> OrdersView
    [] shown = "home" -> HomeView [] OTHER -> LoginView

ServerTypes ==
  /\ auctions \in [Auctions -> [price : Nat, status : {"active", "ended"}, leader : Leaders]]
  /\ orders \in [Auctions -> OrderStates] /\ charged \in [Auctions -> Nat]
StoreType == [auction : {None} \cup CopyType, ended : EndedType]

Types ==
  /\ ServerTypes
  /\ token \in BOOLEAN
  /\ app \in AppType /\ (app.page = "room" => app.room \in Auctions)
  /\ store \in StoreType
  /\ view \in ViewOf(Shown(app))
  /\ calls \in [Slots -> {None} \cup CallType]

\* Where the calls can be answered: a look-up only before the page, the others
\* on the page that made them.
Place(k) ==
  CASE k.kind = "me"     -> {"loading"}
    [] k.kind = "login"  -> {"login"}
    [] k.kind = "list"   -> {"home"}
    [] k.kind = "load"   -> {"room"}
    [] k.kind = "orders" -> {"orders"}
    [] k.kind = "bid" /\ k.of = "page" -> {"room"}
    [] k.kind = "pay" /\ k.of = "page" -> {"room", "orders"}
    [] OTHER -> {"loading", "login", "home", "room", "orders"}

IsLookUp(k) == k # None /\ k.kind = "me"
Places ==
  /\ \A c \in Slots : calls[c] # None => Shown(app) \in Place(calls[c])
  /\ \A c, d \in Slots : IsLookUp(calls[c]) /\ IsLookUp(calls[d]) => c = d

\* Who is inside went through a look-up or a login.
Inside == app.loggedIn => token /\ app.user /\ app.ready

\* Orders come with the end and are charged when they are paid.
Money ==
  \A a \in Auctions :
    /\ charged[a] = IF orders[a] = "paid" THEN 1 ELSE 0
    /\ auctions[a].status = "active" => orders[a] = "none"

\* What is paid as an answer or a list has it is paid.
TrueAnswer(k, rows) ==
  /\ k.kind = "orders" /\ k.answer # None =>
       \A a \in DOMAIN k.answer : k.answer[a] = "paid" => rows[a] = "paid"
  /\ k.kind = "pay" /\ k.answer = "ok" => rows[k.arg] = "paid"
  /\ k.kind = "pay" /\ k.of = "nobody" => k.answer = None
PagePay(k) == k # None /\ k.kind = "pay" /\ k.of = "page"
Told ==
  /\ \A c \in Slots : calls[c] # None => TrueAnswer(calls[c], orders)
  /\ Shown(app) = "orders" /\ view.list # None =>
       \A a \in DOMAIN view.list : view.list[a] = "paid" => orders[a] = "paid"
  /\ Shown(app) = "orders" => \A c \in Slots : PagePay(calls[c]) => view.list \in Lists

\* The bid that the button waits for.
PageBid(k) == k # None /\ k.kind = "bid" /\ k.of = "page"
Button ==
  Shown(app) = "room" =>
    IF view.phase = "pending"
    THEN \E c \in Slots : \A d \in Slots : PageBid(calls[d]) <=> d = c
    ELSE \A d \in Slots : ~PageBid(calls[d])

IInv == Types /\ Places /\ Inside /\ Money /\ Told /\ Button

-----------------------------------------------------------------------------
(* Calls and pages.                                                         *)

LEMMA ShownIs ==
  ASSUME NEW a \in AppType
  PROVE  /\ Shown(a) \in {"loading", "login", "home", "room", "orders"}
         /\ Shown(a) \in {"home", "room", "orders"} <=> a.ready /\ a.loggedIn
         /\ Shown(a) \in {"home", "room", "orders"} => Shown(a) = a.page
         /\ Shown(a) = "loading" <=> ~a.ready
         /\ a.ready /\ a.loggedIn => Shown(a) = a.page
  BY DEF AppType, Shown

LEMMA NewViews ==
  \A shown \in {"loading", "login", "home", "room", "orders"} :
    /\ FreshView(shown) \in ViewOf(shown)
    /\ shown = "room" => FreshView(shown).phase = "idle"
    /\ shown \in {"orders", "home"} => FreshView(shown).list = None
  BY DEF FreshView, ViewOf, RoomView, OrdersView, HomeView, LoginView

\* A call that outlives its page: what is left of it is no more than it was.
LEMMA Outlived ==
  ASSUME NEW k \in {None} \cup CallType, NEW left \in {Left(k), Abandoned(k)}, left # None
  PROVE  /\ k # None /\ left \in CallType
         /\ left.kind = k.kind /\ left.arg = k.arg /\ left.answer = k.answer
         /\ left.of # "page" /\ left.kind \in {"refresh", "bid", "pay", "me"}
         /\ left.kind = "me" => left = Left(k)
         /\ left.kind = "pay" => left.answer = None
<1>1. k # None /\ k \in CallType
  BY DEF Left, Abandoned
<1>2. CASE left = [k EXCEPT !.of = "app"] /\ k.kind \in {"refresh", "bid", "me"} /\ left = Left(k)
  <2>1. k \in SessionCall \cup StatusCall \cup BidCall
    BY <1>1, <1>2 DEF CallType, OrdersCall, PayCall
  <2>2. left \in SessionCall \cup StatusCall \cup BidCall
    BY <1>2, <2>1 DEF SessionCall, StatusCall, BidCall
  <2>3. left.kind = k.kind /\ left.arg = k.arg /\ left.answer = k.answer /\ left.of = "app"
    BY <1>2, <2>1 DEF SessionCall, StatusCall, BidCall
  <2> QED
    BY <1>1, <1>2, <2>2, <2>3 DEF CallType
<1>3. CASE left = [k EXCEPT !.of = "nobody"] /\ k.kind \in {"bid", "pay"} /\ k.answer = None
  <2>1. k \in BidCall \cup PayCall
    BY <1>1, <1>3 DEF CallType, SessionCall, StatusCall, OrdersCall
  <2>2. left \in BidCall \cup PayCall
    BY <1>3, <2>1 DEF BidCall, PayCall
  <2>3. left.kind = k.kind /\ left.arg = k.arg /\ left.answer = k.answer /\ left.of = "nobody"
    BY <1>3, <2>1 DEF BidCall, PayCall
  <2> QED
    BY <1>1, <1>3, <2>2, <2>3 DEF CallType
<1> QED
  BY <1>1, <1>2, <1>3 DEF Left, Abandoned

\* The kinds of calls, apart.
LEMMA Kinds ==
  ASSUME NEW k \in CallType
  PROVE  /\ k.kind \in {"me", "login", "list"} => k \in SessionCall
         /\ k.kind \in {"load", "refresh"} => k \in StatusCall
         /\ k.kind = "orders" => k \in OrdersCall
         /\ k.kind = "bid" => k \in BidCall
         /\ k.kind = "pay" => k \in PayCall
         /\ k.kind \in {"me", "login", "list", "load", "refresh", "orders", "bid", "pay"}
  BY DEF CallType, SessionCall, StatusCall, OrdersCall, BidCall, PayCall

LEMMA NewCalls ==
  /\ \A kind \in {"me", "login", "list"} :
       Call(kind, None) \in SessionCall /\ Call(kind, None).kind = kind
  /\ \A kind \in {"load", "refresh"}, a \in Auctions :
       Call(kind, a) \in StatusCall /\ Call(kind, a).kind = kind
  /\ Call("orders", None) \in OrdersCall /\ Call("orders", None).kind = "orders"
  /\ Call("orders", None).answer = None
  /\ \A b \in [room : Auctions, amount : Nat] :
       /\ Call("bid", b) \in BidCall /\ Call("bid", b) # None
       /\ Call("bid", b).kind = "bid" /\ Call("bid", b).of = "page"
  /\ \A a \in Auctions :
       /\ Call("pay", a) \in PayCall /\ Call("pay", a).kind = "pay"
       /\ Call("pay", a).of = "page" /\ Call("pay", a).answer = None
  BY NoneAssumption DEF Call, SessionCall, StatusCall, OrdersCall, BidCall, PayCall

\* What the button needs of a step on its page.
ButtonKept(was, k) ==
  \/ (PageBid(was) <=> PageBid(k)) /\ (view'.phase = "pending" <=> view.phase = "pending")
  \/ PageBid(was) /\ ~PageBid(k) /\ view'.phase # "pending"
  \/ PageBid(k) /\ view.phase # "pending" /\ view'.phase = "pending"

PaidStays == \A a \in Auctions : orders[a] = "paid" => orders'[a] = "paid"

\* A slot changes on the page that stays: what is there keeps its place.
LEMMA SlotStep ==
  ASSUME IInv, NEW c \in Slots, NEW k \in {None} \cup CallType,
         calls' = [calls EXCEPT ![c] = k], UNCHANGED <<app, token>>,
         k # None => /\ Shown(app) \in Place(k) /\ k.kind # "me" /\ TrueAnswer(k, orders')
                     /\ Shown(app) = "orders" /\ PagePay(k) => view'.list \in Lists,
         ServerTypes', Money', PaidStays, store' \in StoreType,
         view' \in ViewOf(Shown(app)),
         Shown(app) = "room" => ButtonKept(calls[c], k),
         Shown(app) = "orders" =>
           \/ view'.list = view.list
           \/ /\ view'.list \in Lists
              /\ \A a \in DOMAIN view'.list : view'.list[a] = "paid" => orders'[a] = "paid"
  PROVE  IInv'
<1>1. calls \in [Slots -> {None} \cup CallType]
  BY DEF IInv, Types
<1>2. /\ calls' \in [Slots -> {None} \cup CallType]
      /\ \A d \in Slots : calls'[d] = IF d = c THEN k ELSE calls[d]
  BY <1>1
<1>3. Types'
  BY <1>2 DEF IInv, Types
<1>4. Places'
  <2>1. \A d \in Slots : IsLookUp(calls'[d]) => d # c /\ IsLookUp(calls[d])
    BY <1>2 DEF IsLookUp
  <2> QED
    BY <1>2, <2>1 DEF IInv, Places
<1>5. Told'
  <2>1. \A r \in CallType : TrueAnswer(r, orders) => TrueAnswer(r, orders')
    <3>1. \A r \in CallType : r.kind = "orders" /\ r.answer # None => DOMAIN r.answer \subseteq Auctions
      BY Kinds DEF OrdersCall, Lists
    <3>2. \A r \in CallType : r.kind = "pay" => r.arg \in Auctions
      BY Kinds DEF PayCall
    <3> QED
      BY <3>1, <3>2 DEF TrueAnswer, PaidStays
  <2>2. \A d \in Slots : calls'[d] # None => TrueAnswer(calls'[d], orders')
    BY <1>1, <1>2, <2>1 DEF IInv, Told
  <2>3. Shown(app) = "orders" /\ view.list # None => DOMAIN view.list \subseteq Auctions
    BY DEF IInv, Types, ViewOf, OrdersView, Lists
  <2>4. Shown(app) = "orders" /\ view'.list # None =>
          \A a \in DOMAIN view'.list : view'.list[a] = "paid" => orders'[a] = "paid"
    BY <2>3 DEF IInv, Told, PaidStays
  <2>5. Shown(app) = "orders" => \A d \in Slots : PagePay(calls'[d]) => view'.list \in Lists
    BY <1>2 DEF IInv, Told, PagePay
  <2> QED
    BY <2>2, <2>4, <2>5 DEF Told
<1>6. Button'
  <2> SUFFICES ASSUME Shown(app) = "room"
               PROVE  IF view'.phase = "pending"
                      THEN \E x \in Slots : \A d \in Slots : PageBid(calls'[d]) <=> d = x
                      ELSE \A d \in Slots : ~PageBid(calls'[d])
    BY DEF Button
  <2>1. /\ ButtonKept(calls[c], k)
        /\ \A d \in Slots : PageBid(calls'[d]) <=> IF d = c THEN PageBid(k) ELSE PageBid(calls[d])
    BY <1>2
  <2>2. IF view.phase = "pending"
        THEN \E x \in Slots : \A d \in Slots : PageBid(calls[d]) <=> d = x
        ELSE \A d \in Slots : ~PageBid(calls[d])
    BY DEF IInv, Button
  <2>3. CASE (PageBid(calls[c]) <=> PageBid(k)) /\ (view'.phase = "pending" <=> view.phase = "pending")
    <3>1. \A d \in Slots : PageBid(calls'[d]) <=> PageBid(calls[d])
      BY <2>1, <2>3
    <3> HIDE DEF PageBid
    <3> QED
      BY <2>2, <2>3, <3>1
  <2>4. CASE PageBid(calls[c]) /\ ~PageBid(k) /\ view'.phase # "pending"
    BY <2>1, <2>2, <2>4
  <2>5. CASE PageBid(k) /\ view.phase # "pending" /\ view'.phase = "pending"
    BY <2>1, <2>2, <2>5
  <2> QED
    BY <2>1, <2>3, <2>4, <2>5 DEF ButtonKept
<1>7. Inside'
  BY DEF IInv, Inside
<1> QED
  BY <1>3, <1>4, <1>5, <1>6, <1>7 DEF IInv

\* The same, where nothing on the server changes.
LEMMA ServerRests ==
  ASSUME IInv, UNCHANGED server
  PROVE  ServerTypes' /\ Money' /\ PaidStays
BY DEF IInv, Types, ServerTypes, Money, PaidStays, server

\* A page behind the login is mounted.
LEMMA Mounted ==
  ASSUME IInv, NEW a \in AppType, a.ready, a.loggedIn, a.user, token' = TRUE,
         a.page = "room" => a.room \in Auctions,
         NEW c \in Slots, \A d \in Slots \ {c} : ~IsLookUp(calls[d]),
         MountHome(a, c), UNCHANGED <<server, store>>
  PROVE  IInv'
<1>1. PICK k \in CallType :
        /\ app' = a /\ view' = FreshView(a.page)
        /\ calls' = [d \in Slots |-> IF d = c THEN k ELSE Left(calls[d])]
        /\ \/ a.page = "home" /\ k.kind = "list"
           \/ a.page = "room" /\ k.kind = "load"
           \/ a.page = "orders" /\ k.kind = "orders" /\ k.answer = None
  <2>1. Shown(a) = a.page
    BY ShownIs
  <2>2. CASE a.page = "home"
    <3>1. Call("list", None) \in CallType /\ Call("list", None).kind = "list"
      BY NewCalls DEF CallType
    <3>2. Mount(a, c, "list", None)
      BY <2>2 DEF MountHome
    <3>3. /\ app' = a /\ view' = FreshView(a.page)
          /\ calls' = [d \in Slots |-> IF d = c THEN Call("list", None) ELSE Left(calls[d])]
      BY <2>1, <3>2 DEF Mount
    <3> QED
      BY <2>2, <3>1, <3>3
  <2>3. CASE a.page = "room"
    <3>1. Call("load", a.room) \in CallType /\ Call("load", a.room).kind = "load"
      BY <2>3, NewCalls DEF CallType
    <3>2. Mount(a, c, "load", a.room)
      BY <2>3 DEF MountHome
    <3>3. /\ app' = a /\ view' = FreshView(a.page)
          /\ calls' = [d \in Slots |-> IF d = c THEN Call("load", a.room) ELSE Left(calls[d])]
      BY <2>1, <3>2 DEF Mount
    <3> QED
      BY <2>3, <3>1, <3>3
  <2>4. CASE a.page = "orders"
    <3>1. /\ Call("orders", None) \in CallType /\ Call("orders", None).kind = "orders"
          /\ Call("orders", None).answer = None
      BY NewCalls DEF CallType
    <3>2. Mount(a, c, "orders", None)
      BY <2>4 DEF MountHome
    <3>3. /\ app' = a /\ view' = FreshView(a.page)
          /\ calls' = [d \in Slots |-> IF d = c THEN Call("orders", None) ELSE Left(calls[d])]
      BY <2>1, <3>2 DEF Mount
    <3> QED
      BY <2>4, <3>1, <3>3
  <2> QED
    BY <2>2, <2>3, <2>4 DEF AppType
<1>2. Shown(a) = a.page /\ a.page \in {"home", "room", "orders"}
  BY ShownIs DEF AppType
<1>3. \A d \in Slots : calls'[d] = IF d = c THEN k ELSE Left(calls[d])
  BY <1>1
<1>4. ASSUME NEW d \in Slots, d # c, calls'[d] # None
      PROVE  /\ calls'[d] \in CallType /\ calls'[d].of # "page"
             /\ calls'[d].kind \in {"refresh", "bid", "pay"}
             /\ calls'[d].kind = "pay" => calls'[d].answer = None
  <2>1. calls'[d] = Left(calls[d]) /\ calls[d] \in {None} \cup CallType /\ ~IsLookUp(calls[d])
    BY <1>3, <1>4 DEF IInv, Types
  <2> QED
    BY <1>4, <2>1, Outlived DEF IsLookUp
<1>5. Types'
  <2>1. calls' \in [Slots -> {None} \cup CallType]
    BY <1>1, <1>4
  <2>2. view' \in ViewOf(Shown(app'))
    BY <1>1, <1>2, NewViews
  <2> QED
    BY <1>1, <2>1, <2>2 DEF IInv, Types, ServerTypes, server
<1>6. Places'
  <2>1. \A d \in Slots : calls'[d] # None => a.page \in Place(calls'[d])
    BY <1>1, <1>2, <1>3, <1>4 DEF Place
  <2>2. \A d \in Slots : ~IsLookUp(calls'[d])
    BY <1>1, <1>3, <1>4 DEF IsLookUp
  <2> QED
    BY <1>1, <1>2, <2>1, <2>2 DEF Places
<1>7. Told'
  <2>1. \A d \in Slots : calls'[d] # None => TrueAnswer(calls'[d], orders')
    BY <1>1, <1>3, <1>4, NoneAssumption DEF TrueAnswer
  <2>2. Shown(app') = "orders" => view'.list = None
    BY <1>1, <1>2, NewViews
  <2>3. \A d \in Slots : ~PagePay(calls'[d])
    BY <1>1, <1>3, <1>4 DEF PagePay
  <2> QED
    BY <2>1, <2>2, <2>3 DEF Told
<1>8. Button'
  <2>1. \A d \in Slots : ~PageBid(calls'[d])
    BY <1>1, <1>3, <1>4 DEF PageBid
  <2>2. Shown(app') = "room" => view'.phase = "idle"
    BY <1>1, <1>2, NewViews
  <2> QED
    BY <2>1, <2>2 DEF Button
<1>9. Inside' /\ Money'
  BY <1>1 DEF IInv, Inside, Money, server
<1> QED
  BY <1>5, <1>6, <1>7, <1>8, <1>9 DEF IInv

\* Outside, nothing of the pages is under way.
LEMMA LookUpsApart ==
  ASSUME IInv
  PROVE  /\ Shown(app) # "loading" => \A d \in Slots : ~IsLookUp(calls[d])
         /\ \A c \in Slots : IsLookUp(calls[c]) => \A d \in Slots \ {c} : ~IsLookUp(calls[d])
<1>1. \A d \in Slots : IsLookUp(calls[d]) => Place(calls[d]) = {"loading"}
  BY DEF IsLookUp, Place
<1> QED
  BY <1>1 DEF IInv, Places, IsLookUp

-----------------------------------------------------------------------------
LEMMA Starting == Init => IInv
<1> SUFFICES ASSUME Init PROVE IInv
  OBVIOUS
<1>1. /\ app \in AppType /\ Shown(app) = "login" /\ ~app.loggedIn /\ app.page = "home"
      /\ \A c \in Slots : calls[c] = None
  BY DEF Init, AppType, Shown
<1>2. Types
  <2>1. view \in ViewOf(Shown(app))
    BY <1>1, NewViews DEF Init
  <2>2. store \in StoreType
    BY DEF StoreType, Init, NotEnded, EndedType, Leaders
  <2>3. auctions \in [Auctions -> [price : Nat, status : {"active", "ended"}, leader : Leaders]]
    BY PriceAssumption DEF Init, Leaders
  <2> QED
    BY <1>1, <2>1, <2>2, <2>3 DEF Init, Types, ServerTypes, OrderStates
<1>3. Places /\ Inside /\ Told /\ Button
  BY <1>1 DEF Places, IsLookUp, Inside, Told, Button, PageBid, PagePay
<1>4. Money
  BY DEF Init, Money
<1> QED
  BY <1>2, <1>3, <1>4 DEF IInv

-----------------------------------------------------------------------------
(* The app's steps.                                                         *)

LEMMA ReloadKeeps ==
  ASSUME IInv, NEW c \in Slots, Reload(c)
  PROVE  IInv'
<1>1. /\ \A d \in Slots : calls[d] \in {None} \cup CallType
      /\ token \in BOOLEAN
  BY DEF IInv, Types
<1>2. /\ app' \in AppType /\ app'.ready = ~token /\ ~app'.loggedIn
      /\ app'.page = "room" => app'.room \in Auctions
  <2>1. \A page \in {"home", "room"}, room \in Auctions \cup {None} :
          /\ Started(page, room) \in AppType
          /\ Started(page, room).ready = ~token /\ ~Started(page, room).loggedIn
          /\ Started(page, room).page = page /\ Started(page, room).room = room
    BY <1>1 DEF Started, AppType
  <2>2. app' = Started("home", None) \/ \E a \in Auctions : app' = Started("room", a)
    BY DEF Reload
  <2>3. CASE app' = Started("home", None)
    BY <2>1, <2>3
  <2>4. CASE \E a \in Auctions : app' = Started("room", a)
    BY <2>1, <2>4
  <2> QED
    BY <2>2, <2>3, <2>4
<1>3. Shown(app') = IF token THEN "loading" ELSE "login"
  BY <1>2 DEF Shown
<1>4. ASSUME NEW d \in Slots, calls'[d] # None
      PROVE  \/ d = c /\ token /\ calls'[d] = Call("me", None)
             \/ /\ calls'[d] \in CallType /\ calls'[d].of # "page"
                /\ calls'[d].kind \in {"bid", "pay"}
                /\ calls'[d].answer = None
  <2>1. CASE d = c /\ token
    BY <2>1 DEF Reload
  <2>2. CASE ~(d = c /\ token)
    <3>1. calls'[d] = Abandoned(calls[d])
      BY <2>2 DEF Reload
    <3>2. calls[d].kind \in {"bid", "pay"} /\ calls[d].answer = None
      BY <1>4, <3>1 DEF Abandoned
    <3> QED
      BY <1>1, <1>4, <3>1, <3>2, Outlived
  <2> QED
    BY <2>1, <2>2
<1>5. Call("me", None) \in SessionCall /\ Call("me", None).kind = "me"
  BY NewCalls
<1>6. ServerTypes' /\ Money' /\ PaidStays
  BY ServerRests DEF Reload
<1>7. Types'
  <2>1. calls' \in [Slots -> {None} \cup CallType]
    <3>1. calls' = [d \in Slots |-> calls'[d]]
      BY DEF Reload
    <3> QED
      BY <1>4, <1>5, <3>1 DEF CallType
  <2>2. view' \in ViewOf(Shown(app'))
    BY <1>3 DEF Reload, FreshView, ViewOf, LoginView
  <2>3. store' \in StoreType
    BY DEF Reload, NotEnded, StoreType, EndedType, Leaders
  <2>4. token' \in BOOLEAN
    BY <1>1 DEF Reload
  <2> QED
    BY <1>2, <1>6, <2>1, <2>2, <2>3, <2>4 DEF Types
<1>8. Places'
  <2>1. \A d \in Slots : calls'[d] # None => Shown(app') \in Place(calls'[d])
    BY <1>3, <1>4, <1>5 DEF Place
  <2>2. \A d \in Slots : IsLookUp(calls'[d]) => d = c
    BY <1>4 DEF IsLookUp
  <2> QED
    BY <2>1, <2>2 DEF Places
<1>9. Told'
  <2>1. \A d \in Slots : calls'[d] # None => TrueAnswer(calls'[d], orders')
    BY <1>4, <1>5, NoneAssumption DEF TrueAnswer
  <2> QED
    BY <1>3, <2>1 DEF Told
<1> QED
  BY <1>2, <1>3, <1>6, <1>7, <1>8, <1>9 DEF IInv, Inside, Button

LEMMA GoKeeps ==
  ASSUME IInv, NEW c \in Slots, Go(c)
  PROVE  IInv'
<1>0. /\ Shown(app) \in {"home", "room", "orders"} /\ UNCHANGED <<server, token, store>>
      /\ \/ app.page = "home" /\ view.list # None /\ \E a \in view.list : MountHome(Enter(a), c)
         \/ MountHome(To("orders"), c)
         \/ MountHome(To("home"), c)
  BY DEF Go
<1>1. /\ app \in AppType /\ app.ready /\ app.loggedIn /\ Shown(app) = app.page
      /\ app.page = "room" => app.room \in Auctions
  <2>1. app \in AppType /\ (app.page = "room" => app.room \in Auctions)
    BY DEF IInv, Types
  <2> QED
    BY <1>0, <2>1, ShownIs
<1>2. app.user /\ token' = TRUE
  BY <1>0, <1>1 DEF IInv, Types, Inside
<1>3. \A d \in Slots : ~IsLookUp(calls[d])
  BY <1>0, LookUpsApart
<1>4. \A page \in {"home", "orders"} :
        /\ To(page) \in AppType /\ To(page).page = page
        /\ To(page).ready /\ To(page).loggedIn /\ To(page).user
  BY <1>1, <1>2 DEF To, AppType
<1>5. \A a \in Auctions :
        /\ Enter(a) \in AppType /\ Enter(a).room = a
        /\ Enter(a).ready /\ Enter(a).loggedIn /\ Enter(a).user
  BY <1>1, <1>2 DEF Enter, AppType
<1>6. CASE app.page = "home" /\ view.list # None /\ \E a \in view.list : MountHome(Enter(a), c)
  <2>1. view.list = Auctions
    BY <1>1, <1>6 DEF IInv, Types, ViewOf, HomeView
  <2>2. PICK a \in view.list : MountHome(Enter(a), c)
    BY <1>6
  <2>3. a \in Auctions
    BY <2>1
  <2> QED
    BY <1>0, <1>2, <1>3, <1>5, <2>2, <2>3, Mounted
<1>7. ASSUME NEW page \in {"home", "orders"}, MountHome(To(page), c)
      PROVE  IInv'
  <2>1. To(page).page # "room"
    BY <1>4
  <2> QED
    BY <1>0, <1>2, <1>3, <1>4, <1>7, <2>1, Mounted
<1> QED
  BY <1>0, <1>6, <1>7

LEMMA SignedInKeeps ==
  ASSUME IInv, NEW c \in Slots, SignedIn(c)
  PROVE  IInv'
<1> DEFINE a == [app EXCEPT !.ready = TRUE, !.loggedIn = TRUE, !.user = TRUE]
<1>1. app \in AppType /\ (app.page = "room" => app.room \in Auctions)
  BY DEF IInv, Types
<1>2. a \in AppType /\ a.ready /\ a.loggedIn /\ a.user /\ (a.page = "room" => a.room \in Auctions)
  BY <1>1 DEF AppType
<1>3. \A d \in Slots \ {c} : ~IsLookUp(calls[d])
  <2>1. calls[c] # None /\ calls[c].kind \in {"me", "login"}
    BY DEF SignedIn, Ready, Free
  <2>2. CASE calls[c].kind = "me"
    BY <2>1, <2>2, LookUpsApart DEF IsLookUp
  <2>3. CASE calls[c].kind = "login"
    <3>1. Place(calls[c]) = {"login"}
      BY <2>3 DEF Place
    <3> QED
      BY <2>1, <3>1, LookUpsApart DEF IInv, Places
  <2> QED
    BY <2>1, <2>2, <2>3
<1>4. MountHome(a, c) /\ token' = TRUE /\ UNCHANGED <<server, store>>
  BY DEF SignedIn
<1> HIDE DEF a
<1> QED
  BY <1>2, <1>3, <1>4, Mounted

LEMMA SignInFailsKeeps ==
  ASSUME IInv, NEW c \in Slots, SignInFails(c)
  PROVE  IInv'
<1>1. /\ calls \in [Slots -> {None} \cup CallType] /\ app \in AppType /\ token \in BOOLEAN
      /\ store \in StoreType /\ (app.page = "room" => app.room \in Auctions)
      /\ calls[c] # None /\ calls[c].kind \in {"me", "login"}
      /\ \A d \in Slots : calls'[d] = IF d = c THEN None ELSE calls[d]
      /\ calls' \in [Slots -> {None} \cup CallType]
  BY DEF IInv, Types, SignInFails, Free, Done
<1>2. Shown(app) = (IF calls[c].kind = "me" THEN "loading" ELSE "login") /\ ~app.loggedIn
  <2>1. Place(calls[c]) = {IF calls[c].kind = "me" THEN "loading" ELSE "login"}
    BY <1>1 DEF Place
  <2>2. Shown(app) = IF calls[c].kind = "me" THEN "loading" ELSE "login"
    BY <1>1, <2>1 DEF IInv, Places
  <2> QED
    BY <1>1, <2>2, ShownIs DEF IInv, Inside
<1>3. /\ app' \in AppType /\ app'.ready /\ ~app'.loggedIn /\ token' \in BOOLEAN
      /\ app'.page = "room" => app'.room \in Auctions
  <2>1. CASE calls[c].kind = "me"
    BY <1>1, <1>2, <2>1 DEF SignInFails, AppType
  <2>2. CASE calls[c].kind # "me"
    BY <1>1, <1>2, <2>2, ShownIs DEF SignInFails
  <2> QED
    BY <2>1, <2>2
<1>4. Shown(app') = "login" /\ view' = FreshView("login")
  BY <1>2, <1>3 DEF Shown, SignInFails
<1>5. ServerTypes' /\ Money' /\ PaidStays
  BY ServerRests DEF SignInFails
<1>6. Types'
  <2>1. view' \in ViewOf(Shown(app'))
    BY <1>4, NewViews
  <2>2. store' \in StoreType
    BY <1>1 DEF SignInFails
  <2> QED
    BY <1>1, <1>3, <1>5, <2>1, <2>2 DEF Types
<1>7. Places'
  <2>1. \A d \in Slots : calls'[d] # None => ~IsLookUp(calls'[d])
    BY <1>1, <1>2, LookUpsApart DEF IsLookUp
  <2>2. \A d \in Slots : calls'[d] # None => "login" \in Place(calls'[d])
    <3> SUFFICES ASSUME NEW d \in Slots, calls'[d] # None
                 PROVE  "login" \in Place(calls'[d])
      OBVIOUS
    <3>1. d # c /\ calls'[d] = calls[d] /\ Shown(app) \in Place(calls[d])
      BY <1>1 DEF IInv, Places
    <3>2. calls[d].kind # "me"
      BY <2>1, <3>1 DEF IsLookUp
    <3> QED
      BY <1>2, <3>1, <3>2 DEF Place
  <2> QED
    BY <1>4, <2>1, <2>2 DEF Places, IsLookUp
<1>8. Told'
  <2>1. orders' = orders
    BY DEF SignInFails, server
  <2>2. \A d \in Slots : calls'[d] # None => TrueAnswer(calls'[d], orders')
    BY <1>1, <2>1 DEF IInv, Told
  <2> QED
    BY <1>4, <2>2 DEF Told
<1> QED
  BY <1>3, <1>4, <1>5, <1>6, <1>7, <1>8 DEF IInv, Inside, Button

-----------------------------------------------------------------------------
(* Calls are made.                                                          *)

\* A call that is no bid and no look-up is made by a page whose states stay, or
\* say that it is under way.
LEMMA MadeKeeps ==
  ASSUME IInv, NEW c \in Slots, Free(c), NEW k \in CallType,
         calls' = [calls EXCEPT ![c] = k], UNCHANGED <<server, token, app, store>>,
         k.kind \in {"login", "list", "refresh", "pay"}, Shown(app) \in Place(k),
         k.kind = "pay" => /\ k.of = "page" /\ k.answer = None
                           /\ Shown(app) = "orders" => view.list \in Lists,
         view' \in ViewOf(Shown(app)),
         Shown(app) = "room" => view'.phase = view.phase,
         Shown(app) = "orders" => view'.list = view.list
  PROVE  IInv'
<1>1. TrueAnswer(k, orders')
  BY NoneAssumption DEF TrueAnswer
<1>2. ServerTypes' /\ Money' /\ PaidStays
  BY ServerRests
<1>3. store' \in StoreType
  BY DEF IInv, Types
<1>4. Shown(app) = "room" => ButtonKept(calls[c], k)
  BY DEF ButtonKept, PageBid, Free
<1>5. Shown(app) = "orders" /\ PagePay(k) => view'.list \in Lists
  BY DEF PagePay
<1> QED
  BY <1>1, <1>2, <1>3, <1>4, <1>5, SlotStep

LEMMA Making ==
  ASSUME IInv, NEW c \in Slots,
         Login(c) \/ Relist(c) \/ Refresh(c) \/ PayInRoom(c) \/ PayInOrders(c)
  PROVE  IInv'
<1>1. /\ view \in ViewOf(Shown(app)) /\ store \in StoreType
      /\ app \in AppType /\ (app.page = "room" => app.room \in Auctions)
  BY DEF IInv, Types
<1>2. CASE Login(c)
  <2>1. Call("login", None) \in CallType /\ Call("login", None).kind = "login"
    BY NewCalls DEF CallType
  <2>2. Shown(app) = "login" /\ Shown(app) \in Place(Call("login", None))
    BY <1>2, <2>1 DEF Login, Place
  <2>3. view' \in ViewOf(Shown(app))
    BY <1>1, <1>2, <2>2 DEF Login, ViewOf, LoginView
  <2>4. /\ Free(c) /\ calls' = [calls EXCEPT ![c] = Call("login", None)]
        /\ UNCHANGED <<server, token, app, store>>
    BY <1>2 DEF Login
  <2> QED
    BY <2>1, <2>2, <2>3, <2>4, MadeKeeps
<1>3. CASE Relist(c)
  <2>1. Call("list", None) \in CallType /\ Call("list", None).kind = "list"
    BY NewCalls DEF CallType
  <2>2. Shown(app) = "home" /\ Shown(app) \in Place(Call("list", None))
    BY <1>3, <2>1 DEF Relist, Place
  <2>3. /\ Free(c) /\ calls' = [calls EXCEPT ![c] = Call("list", None)]
        /\ UNCHANGED <<server, token, app, store, view>>
    BY <1>3 DEF Relist
  <2> QED
    BY <1>1, <2>1, <2>2, <2>3, MadeKeeps
<1>4. CASE Refresh(c)
  <2>1. Shown(app) = "room" /\ app.room \in Auctions
    BY <1>1, <1>4, ShownIs DEF Refresh, InRoom
  <2>2. Call("refresh", app.room) \in CallType /\ Call("refresh", app.room).kind = "refresh"
    BY <2>1, NewCalls DEF CallType
  <2>3. Shown(app) \in Place(Call("refresh", app.room))
    BY <2>1, <2>2 DEF Place
  <2>4. /\ Free(c) /\ calls' = [calls EXCEPT ![c] = Call("refresh", app.room)]
        /\ UNCHANGED <<server, token, app, store, view>>
    BY <1>4 DEF Refresh
  <2> QED
    BY <1>1, <2>1, <2>2, <2>3, <2>4, MadeKeeps
<1>5. CASE PayInRoom(c)
  <2> DEFINE k == Call("pay", store.ended.order)
  <2>1. Shown(app) = "room" /\ store.ended.order \in Auctions
    BY <1>1, <1>5 DEF PayInRoom, InRoom, StoreType, EndedType
  <2>2. /\ k \in CallType /\ k.kind = "pay" /\ k.of = "page" /\ k.answer = None
    BY <2>1, NewCalls DEF CallType
  <2>3. view' \in ViewOf(Shown(app)) /\ view'.phase = view.phase
    BY <1>1, <1>5, <2>1 DEF PayInRoom, ViewOf, RoomView
  <2>4. /\ Free(c) /\ calls' = [calls EXCEPT ![c] = k] /\ UNCHANGED <<server, token, app, store>>
    BY <1>5 DEF PayInRoom
  <2>5. Shown(app) \in Place(k)
    BY <2>1, <2>2 DEF Place
  <2> HIDE DEF k
  <2> QED
    BY <2>1, <2>2, <2>3, <2>4, <2>5, MadeKeeps
<1>6. CASE PayInOrders(c)
  <2>1. /\ Shown(app) = "orders" /\ view.list \in Lists /\ view \in OrdersView
        /\ Free(c) /\ UNCHANGED <<server, token, app, store>>
    BY <1>1, <1>6 DEF PayInOrders, ViewOf, OrdersView
  <2>2. PICK a \in DOMAIN view.list :
          view' = [view EXCEPT !.paying = a] /\ calls' = [calls EXCEPT ![c] = Call("pay", a)]
    BY <1>6 DEF PayInOrders
  <2>3. a \in Auctions
    BY <2>1 DEF OrdersView, Lists
  <2>4. /\ Call("pay", a) \in CallType /\ Call("pay", a).kind = "pay"
        /\ Call("pay", a).of = "page" /\ Call("pay", a).answer = None
    BY <2>3, NewCalls DEF CallType
  <2>5. view' \in ViewOf(Shown(app)) /\ view'.list = view.list
    BY <2>1, <2>2, <2>3 DEF ViewOf, OrdersView
  <2>6. Shown(app) \in Place(Call("pay", a))
    BY <2>1, <2>4 DEF Place
  <2> QED
    BY <2>1, <2>2, <2>4, <2>5, <2>6, MadeKeeps
<1> QED
  BY <1>2, <1>3, <1>4, <1>5, <1>6

LEMMA SubmitKeeps ==
  ASSUME IInv, NEW c \in Slots, Submit(c)
  PROVE  IInv'
<1>1. /\ Shown(app) = "room" /\ Free(c) /\ UNCHANGED <<server, token, app, store>>
      /\ store.auction # None /\ view.phase = "idle"
  BY DEF Submit, InRoom, Disabled
<1>2. /\ view \in RoomView /\ app.room \in Auctions
      /\ store \in StoreType /\ store.auction \in CopyType
  BY <1>1, ShownIs DEF IInv, Types, ViewOf, StoreType
<1>3. PICK v \in {view, [view EXCEPT !.amount = None]} :
        /\ view' = Pending(v)
        /\ calls' = [calls EXCEPT ![c] =
             Call("bid", [room |-> app.room, amount |-> Amount(v, store.auction)])]
  BY DEF Submit
<1> DEFINE b == [room |-> app.room, amount |-> Amount(v, store.auction)]
<1>4. v \in RoomView
  BY <1>2 DEF RoomView
<1>5. Amount(v, store.auction) \in Nat
  <2>1. MinBid(store.auction) \in Nat
    BY <1>2, PriceAssumption DEF MinBid, CopyType
  <2>2. v.amount # None => v.amount \in Nat
    BY <1>4, PriceAssumption DEF RoomView
  <2> QED
    BY <2>1, <2>2 DEF Amount
<1>6. b \in [room : Auctions, amount : Nat]
  BY <1>2, <1>5
<1> HIDE DEF b
<1>7. /\ Call("bid", b) \in CallType /\ Call("bid", b) # None
      /\ Call("bid", b).kind = "bid" /\ Call("bid", b).of = "page"
  BY <1>6, NewCalls DEF CallType
<1>8. view' \in ViewOf(Shown(app)) /\ view'.phase = "pending"
  BY <1>1, <1>3, <1>4 DEF Pending, ViewOf, RoomView
<1>9. ButtonKept(calls[c], Call("bid", b))
  BY <1>1, <1>7, <1>8 DEF ButtonKept, PageBid
<1>10. Shown(app) \in Place(Call("bid", b)) /\ TrueAnswer(Call("bid", b), orders')
  BY <1>1, <1>7 DEF Place, TrueAnswer
<1>11. ServerTypes' /\ Money' /\ PaidStays /\ store' \in StoreType
  BY <1>1, <1>2, ServerRests
<1>12. calls' = [calls EXCEPT ![c] = Call("bid", b)]
  BY <1>3 DEF b
<1> QED
  BY <1>1, <1>7, <1>8, <1>9, <1>10, <1>11, <1>12, SlotStep

-----------------------------------------------------------------------------
(* Calls are served.                                                        *)

\* What the server answers a call, of whatever kind.
Reply(k, answer) == IF k.of = "nobody" THEN None ELSE [k EXCEPT !.answer = answer]

LEMMA Replied ==
  ASSUME IInv, NEW c \in Slots, ~Free(c), calls[c].answer = None, NEW answer, Answered(c, answer),
         \/ calls[c].kind \in {"load", "refresh"} /\ answer \in CopyType
         \/ calls[c].kind = "orders" /\ answer \in Lists
         \/ calls[c].kind = "bid" /\ answer \in Nat
         \/ calls[c].kind = "pay" /\ answer \in {"ok", "refused"},
         calls[c].kind = "orders" =>
           \A a \in DOMAIN answer : answer[a] = "paid" => orders'[a] = "paid",
         calls[c].kind = "pay" /\ answer = "ok" => orders'[calls[c].arg] = "paid",
         ServerTypes', Money', PaidStays, UNCHANGED <<token, app, store, view>>
  PROVE  IInv'
<1> DEFINE k == Reply(calls[c], answer)
<1>1. calls[c] \in CallType /\ calls \in [Slots -> {None} \cup CallType]
  BY DEF IInv, Types, Free
<1>2. calls' = [calls EXCEPT ![c] = k]
  BY DEF Answered, Reply
<1>3. /\ k \in {None} \cup CallType
      /\ k # None => /\ k.kind = calls[c].kind /\ k.of = calls[c].of /\ k.of # "nobody"
                     /\ k.arg = calls[c].arg /\ k.answer = answer
  <2>1. CASE calls[c].of = "nobody"
    BY <2>1 DEF Reply
  <2>2. CASE calls[c].of # "nobody" /\ calls[c].kind \in {"load", "refresh"}
    <3>1. calls[c] \in StatusCall /\ answer \in CopyType
      BY <1>1, <2>2, Kinds
    <3>2. k \in StatusCall
      BY <2>2, <3>1 DEF Reply, StatusCall
    <3> QED
      BY <2>2, <3>1, <3>2 DEF Reply, StatusCall, CallType
  <2>3. CASE calls[c].of # "nobody" /\ calls[c].kind = "orders"
    <3>1. calls[c] \in OrdersCall /\ answer \in Lists
      BY <1>1, <2>3, Kinds
    <3>2. k \in OrdersCall
      BY <2>3, <3>1 DEF Reply, OrdersCall
    <3> QED
      BY <2>3, <3>1, <3>2 DEF Reply, OrdersCall, CallType
  <2>4. CASE calls[c].of # "nobody" /\ calls[c].kind = "bid"
    <3>1. calls[c] \in BidCall /\ answer \in Nat
      BY <1>1, <2>4, Kinds
    <3>2. k \in BidCall
      BY <2>4, <3>1 DEF Reply, BidCall
    <3> QED
      BY <2>4, <3>1, <3>2 DEF Reply, BidCall, CallType
  <2>5. CASE calls[c].of # "nobody" /\ calls[c].kind = "pay"
    <3>1. calls[c] \in PayCall /\ answer \in {"ok", "refused"}
      BY <1>1, <2>5, Kinds
    <3>2. k \in PayCall
      BY <2>5, <3>1 DEF Reply, PayCall
    <3> QED
      BY <2>5, <3>1, <3>2 DEF Reply, PayCall, CallType
  <2> QED
    BY <2>1, <2>2, <2>3, <2>4, <2>5
<1>4. calls[c].kind # "me"
  OBVIOUS
<1>5. k # None => Shown(app) \in Place(k)
  <2>1. Shown(app) \in Place(calls[c])
    BY DEF IInv, Places, Free
  <2> QED
    BY <1>3, <2>1 DEF Place
<1>6. k # None => TrueAnswer(k, orders')
  BY <1>3 DEF TrueAnswer
<1>7. k # None /\ PagePay(k) /\ Shown(app) = "orders" => view'.list \in Lists
  BY <1>3 DEF IInv, Told, PagePay, Free
<1>8. Shown(app) = "room" => ButtonKept(calls[c], k)
  <2>1. calls[c].kind = "bid" /\ calls[c].of = "page" => k # None
    <3>1. calls[c].kind = "bid" => calls[c] \in BidCall /\ answer \in Nat
      BY <1>1, Kinds
    <3> QED
      BY <3>1, NoneAssumption DEF Reply, BidCall
  <2>2. PageBid(calls[c]) <=> PageBid(k)
    <3> HIDE DEF k
    <3> QED
      BY <1>3, <2>1 DEF PageBid, Free
  <2> QED
    BY <2>2 DEF ButtonKept
<1>9. store' \in StoreType /\ view' \in ViewOf(Shown(app))
  BY DEF IInv, Types
<1> HIDE DEF k
<1> QED
  BY <1>2, <1>3, <1>4, <1>5, <1>6, <1>7, <1>8, <1>9, SlotStep

LEMMA ServeKeeps ==
  ASSUME IInv, NEW c \in Slots, Serve(c)
  PROVE  IInv'
<1>1. /\ ~Free(c) /\ calls[c].answer = None /\ UNCHANGED <<token, app, store, view>>
      /\ calls[c] \in CallType /\ ServerTypes /\ Money
  BY DEF Serve, IInv, Types, Free
<1>2. CASE ServeRead(c) /\ calls[c].kind \in {"load", "refresh"} /\ Answered(c, Copy(calls[c].arg))
  <2>1. calls[c].arg \in Auctions
    BY <1>1, <1>2, Kinds DEF StatusCall
  <2>2. Copy(calls[c].arg) \in CopyType
    BY <1>1, <2>1 DEF Copy, CopyType, ServerTypes
  <2>3. ServerTypes' /\ Money' /\ PaidStays
    BY <1>2, ServerRests DEF ServeRead
  <2> QED
    BY <1>1, <1>2, <2>2, <2>3, Replied
<1>3. CASE ServeRead(c) /\ calls[c].kind = "orders" /\ Answered(c, [a \in Mine |-> orders[a]])
  <2> DEFINE answer == [a \in Mine |-> orders[a]]
  <2>1. Mine \subseteq Auctions
    BY DEF Mine
  <2>2. answer \in [Mine -> OrderStates]
    BY <1>1, <2>1 DEF ServerTypes
  <2>3. answer \in Lists
    BY <2>1, <2>2 DEF Lists
  <2>4. orders' = orders /\ ServerTypes' /\ Money' /\ PaidStays
    BY <1>3, ServerRests DEF ServeRead, server
  <2>5. \A a \in DOMAIN answer : answer[a] = "paid" => orders'[a] = "paid"
    BY <2>4
  <2> HIDE DEF answer
  <2>6. Answered(c, answer)
    BY <1>3 DEF answer
  <2> QED
    BY <1>1, <1>3, <2>3, <2>4, <2>5, <2>6, Replied
<1>4. CASE ServeBid(c)
  <2> DEFINE a == calls[c].arg.room
             amount == calls[c].arg.amount
             ok == auctions[a].status = "active" /\ amount >= MinAcceptable(a)
             answer == IF ok THEN amount ELSE 0
  <2>1. /\ calls[c].kind = "bid" /\ Answered(c, answer) /\ UNCHANGED <<orders, charged>>
        /\ auctions' = IF ok THEN [auctions EXCEPT ![a].price = amount, ![a].leader = "me"]
                       ELSE auctions
    BY <1>4 DEF ServeBid
  <2>2. a \in Auctions /\ amount \in Nat
    BY <1>1, <2>1, Kinds DEF BidCall
  <2> HIDE DEF a, amount, ok
  <2>3. answer \in Nat
    BY <2>2
  <2>4. ServerTypes' /\ \A x \in Auctions : auctions'[x].status = auctions[x].status
    BY <1>1, <2>1, <2>2 DEF ServerTypes, Leaders
  <2>5. Money' /\ PaidStays
    BY <1>1, <2>1, <2>4 DEF Money, PaidStays
  <2> HIDE DEF answer
  <2> QED
    BY <1>1, <2>1, <2>3, <2>4, <2>5, Replied
<1>5. CASE ServePay(c)
  <2> DEFINE a == calls[c].arg
  <2>1. calls[c].kind = "pay" /\ auctions' = auctions /\ a \in Auctions
    BY <1>1, <1>5, Kinds DEF ServePay, PayCall
  <2>2. CASE Payable(a)
    <3>1. /\ orders' = [orders EXCEPT ![a] = "paid"] /\ charged' = [charged EXCEPT ![a] = @ + 1]
          /\ Answered(c, "ok") /\ orders[a] = "pending_pay"
      BY <1>5, <2>2 DEF ServePay, Payable
    <3> HIDE DEF a
    <3>2. /\ \A x \in Auctions : orders'[x] = IF x = a THEN "paid" ELSE orders[x]
          /\ \A x \in Auctions : charged'[x] = IF x = a THEN charged[a] + 1 ELSE charged[x]
          /\ ServerTypes'
      BY <1>1, <2>1, <3>1 DEF ServerTypes, OrderStates
    <3>3. Money' /\ PaidStays
      BY <1>1, <2>1, <3>1, <3>2 DEF Money, PaidStays
    <3>4. orders'[calls[c].arg] = "paid"
      BY <2>1, <3>2 DEF a
    <3> QED
      BY <1>1, <2>1, <3>1, <3>2, <3>3, <3>4, Replied
  <2>3. CASE ~Payable(a)
    <3>1. Answered(c, "refused") /\ UNCHANGED server
      BY <1>5, <2>3 DEF ServePay, server
    <3>2. ServerTypes' /\ Money' /\ PaidStays
      BY <3>1, ServerRests
    <3> QED
      BY <1>1, <2>1, <3>1, <3>2, Replied
  <2> QED
    BY <2>2, <2>3
<1> QED
  BY <1>2, <1>3, <1>4, <1>5 DEF Serve, ServeRead

-----------------------------------------------------------------------------
(* Answers come and calls fail.                                             *)

\* The slot of a call is freed, or its call is left to go on without its page.
LEMMA EndedKeeps ==
  ASSUME IInv, NEW c \in Slots, ~Free(c), NEW k \in {None, Abandoned(calls[c])},
         calls' = [calls EXCEPT ![c] = k],
         calls[c].kind # "me", UNCHANGED <<server, token, app>>,
         store' \in StoreType, view' \in ViewOf(Shown(app)),
         Shown(app) = "room" =>
           IF PageBid(calls[c]) THEN view'.phase # "pending"
           ELSE view'.phase = "pending" <=> view.phase = "pending",
         Shown(app) = "orders" =>
           \/ view'.list = view.list
           \/ /\ view'.list \in Lists
              /\ \A a \in DOMAIN view'.list : view'.list[a] = "paid" => orders[a] = "paid"
  PROVE  IInv'
<1>1. calls[c] \in {None} \cup CallType
  BY DEF IInv, Types
<1>2. /\ k \in {None} \cup CallType
      /\ k # None => /\ k.of = "nobody" /\ k.answer = None
                     /\ k.kind \in {"bid", "pay"}
  <2>1. k # None => k = Abandoned(calls[c]) /\ calls[c].answer = None
    BY DEF Abandoned
  <2>2. k # None => k.of # "page" /\ k \in CallType /\ k.answer = None /\ k.kind = calls[c].kind
    BY <1>1, <2>1, Outlived
  <2>3. k # None => k.kind \in {"bid", "pay"}
    BY <2>1, <2>2 DEF Abandoned
  <2>4. k # None => k.of = "nobody"
    <3>1. k # None => calls[c].kind \in {"bid", "pay"} /\ calls[c] \in BidCall \cup PayCall
      BY <1>1, <2>2, <2>3, Kinds DEF Free
    <3>2. k # None => k = [calls[c] EXCEPT !.of = "nobody"]
      BY <2>1 DEF Abandoned
    <3> QED
      BY <3>1, <3>2 DEF BidCall, PayCall
  <2> QED
    BY <2>2, <2>3, <2>4
<1>3. ServerTypes' /\ Money' /\ PaidStays /\ orders' = orders
  BY ServerRests DEF server
<1>4. k # None => Shown(app) \in Place(k) /\ k.kind # "me" /\ TrueAnswer(k, orders')
  <2>1. Shown(app) \in {"loading", "login", "home", "room", "orders"}
    BY ShownIs DEF IInv, Types
  <2> QED
    BY <1>2, <2>1, NoneAssumption DEF Place, TrueAnswer
<1>5. ~PagePay(k) /\ ~PageBid(k)
  BY <1>2 DEF PagePay, PageBid
<1>6. Shown(app) = "room" => ButtonKept(calls[c], k)
  BY <1>5 DEF ButtonKept
<1> QED
  BY <1>2, <1>3, <1>4, <1>5, <1>6, SlotStep

\* applySnapshot and the moves of the price.
LEMMA Stored ==
  /\ \A copy \in CopyType : Snapshot(copy) \in StoreType
  /\ \A s \in StoreType, price \in Nat, leader \in Leaders : s.auction # None =>
       Moved(s, price, leader) \in StoreType
<1>1. ASSUME NEW copy \in CopyType PROVE Snapshot(copy) \in StoreType
  BY DEF Snapshot, StoreType, CopyType, EndedType
<1>2. ASSUME NEW s \in StoreType, NEW price \in Nat, NEW leader \in Leaders, s.auction # None
      PROVE  Moved(s, price, leader) \in StoreType
  <2>1. s.auction \in CopyType
    BY <1>2 DEF StoreType
  <2> QED
    BY <2>1 DEF Moved, StoreType, CopyType
<1> QED
  BY <1>1, <1>2

LEMMA Arriving ==
  ASSUME IInv, NEW c \in Slots, ListArrives(c) \/ StatusArrives(c) \/ BidArrives(c) \/ PayArrives(c)
  PROVE  IInv'
<1>1. /\ ~Free(c) /\ calls[c] # None /\ calls[c].answer # None /\ calls[c] \in CallType
      /\ view \in ViewOf(Shown(app)) /\ app \in AppType /\ store \in StoreType
      /\ Shown(app) \in Place(calls[c]) /\ TrueAnswer(calls[c], orders)
      /\ calls' = [calls EXCEPT ![c] = None]
  BY DEF ListArrives, StatusArrives, BidArrives, PayArrives, Ready, Free, Done, IInv, Types, Places, Told
<1>2. CASE ListArrives(c)
  <2>1. CASE calls[c].kind = "list"
    <3>1. Shown(app) = "home" /\ view' = [view EXCEPT !.list = Auctions]
          /\ UNCHANGED <<server, token, app, store>>
      BY <1>1, <1>2, <2>1 DEF ListArrives, Place
    <3>2. view' \in ViewOf(Shown(app))
      BY <1>1, <3>1 DEF ViewOf, HomeView
    <3> QED
      BY <1>1, <2>1, <3>1, <3>2, EndedKeeps
  <2>2. CASE calls[c].kind = "orders"
    <3>1. Shown(app) = "orders" /\ view' = [view EXCEPT !.list = calls[c].answer]
          /\ UNCHANGED <<server, token, app, store>>
      BY <1>1, <1>2, <2>2 DEF ListArrives, Place
    <3>2. view \in OrdersView /\ calls[c].answer \in Lists
      BY <1>1, <2>2, <3>1, Kinds DEF ViewOf, OrdersCall
    <3>3. view' \in ViewOf(Shown(app)) /\ view'.list = calls[c].answer
      BY <1>1, <3>1, <3>2 DEF ViewOf, OrdersView
    <3>4. \A a \in DOMAIN view'.list : view'.list[a] = "paid" => orders[a] = "paid"
      BY <1>1, <2>2, <3>3 DEF TrueAnswer
    <3> QED
      BY <1>1, <2>2, <3>1, <3>2, <3>3, <3>4, EndedKeeps
  <2> QED
    BY <1>2, <2>1, <2>2 DEF ListArrives
<1>3. CASE StatusArrives(c)
  <2>1. /\ calls[c].kind \in {"load", "refresh"} /\ store' = Snapshot(calls[c].answer)
        /\ view' = IF calls[c].kind = "load" THEN [view EXCEPT !.loaded = TRUE] ELSE view
        /\ UNCHANGED <<server, token, app>>
    BY <1>3 DEF StatusArrives
  <2>2. store' \in StoreType
    BY <1>1, <2>1, Kinds, Stored DEF StatusCall
  <2>3. /\ view' \in ViewOf(Shown(app))
        /\ Shown(app) = "room" => view'.phase = view.phase
        /\ Shown(app) = "orders" => view'.list = view.list
    <3>1. CASE calls[c].kind = "load"
      <4>1. Shown(app) = "room"
        BY <1>1, <3>1 DEF Place
      <4>2. view \in RoomView /\ view' = [view EXCEPT !.loaded = TRUE]
        BY <1>1, <2>1, <3>1, <4>1 DEF ViewOf
      <4>3. view' \in RoomView /\ view'.phase = view.phase
        BY <4>2 DEF RoomView
      <4> QED
        BY <4>1, <4>3 DEF ViewOf
    <3>2. CASE calls[c].kind # "load"
      BY <1>1, <2>1, <3>2
    <3> QED
      BY <3>1, <3>2
  <2>4. ~PageBid(calls[c])
    BY <2>1 DEF PageBid
  <2> QED
    BY <1>1, <2>1, <2>2, <2>3, <2>4, EndedKeeps
<1>4. CASE BidArrives(c)
  <2> DEFINE ok == calls[c].answer > 0
  <2>1. calls[c].kind = "bid" /\ UNCHANGED <<server, token, app>>
    BY <1>4 DEF BidArrives
  <2>2. calls[c] \in BidCall /\ calls[c].answer \in Nat
    BY <1>1, <2>1, Kinds DEF BidCall
  <2>3. store' \in StoreType
    <3>1. store' = IF ok /\ store.auction # None
                   THEN Moved(store, calls[c].answer, "me")
                   ELSE store
      BY <1>4 DEF BidArrives
    <3> QED
      BY <1>1, <2>2, <3>1, Stored DEF Leaders
  <2>4. CASE OfPage(c)
    <3>1. Shown(app) = "room" /\ view' = [view EXCEPT !.phase = IF ok THEN "cooldown" ELSE "idle"]
      BY <1>1, <1>4, <2>1, <2>4 DEF BidArrives, Place, OfPage
    <3>2. view' \in ViewOf(Shown(app)) /\ view'.phase # "pending"
      BY <1>1, <3>1 DEF ViewOf, RoomView
    <3>3. PageBid(calls[c])
      BY <1>1, <2>1, <2>4 DEF PageBid, OfPage
    <3> QED
      BY <1>1, <2>1, <2>3, <3>1, <3>2, <3>3, EndedKeeps
  <2>5. CASE ~OfPage(c)
    <3>1. view' = view
      BY <1>4, <2>5 DEF BidArrives
    <3>2. ~PageBid(calls[c])
      BY <2>5 DEF PageBid, OfPage
    <3> QED
      BY <1>1, <2>1, <2>3, <3>1, <3>2, EndedKeeps
  <2> QED
    BY <2>4, <2>5
<1>5. CASE PayArrives(c)
  <2> DEFINE ok == calls[c].answer = "ok"
             a == calls[c].arg
  <2>1. /\ calls[c].kind = "pay" /\ UNCHANGED <<server, token, app, store>>
        /\ view' = IF app.page = "room"
                   THEN [view EXCEPT !.paying = FALSE, !.paid = ok]
                   ELSE [view EXCEPT !.paying = None, !.list[a] = IF ok THEN "paid" ELSE @]
    BY <1>5 DEF PayArrives
  <2>2. calls[c] \in PayCall /\ calls[c].of = "page" /\ PagePay(calls[c])
    BY <1>1, <2>1, Kinds DEF PayCall, TrueAnswer, PagePay
  <2>3. Shown(app) \in {"room", "orders"} /\ Shown(app) = app.page
    BY <1>1, <2>1, <2>2, ShownIs DEF Place
  <2>4. CASE Shown(app) = "room"
    <3>1. view' \in ViewOf(Shown(app)) /\ view'.phase = view.phase
      BY <1>1, <2>1, <2>3, <2>4 DEF ViewOf, RoomView
    <3>2. ~PageBid(calls[c])
      BY <2>1 DEF PageBid
    <3> QED
      BY <1>1, <2>1, <2>4, <3>1, <3>2, EndedKeeps
  <2>5. CASE Shown(app) = "orders"
    <3>1. view.list \in Lists /\ view \in OrdersView
      BY <1>1, <2>2, <2>5 DEF IInv, Told, ViewOf, OrdersView
    <3>2. view' = [view EXCEPT !.paying = None, !.list[a] = IF ok THEN "paid" ELSE @]
      BY <2>1, <2>3, <2>5
    <3>3. /\ view'.list = [view.list EXCEPT ![a] = IF ok THEN "paid" ELSE @]
          /\ view' = [view EXCEPT !.paying = None, !.list = view'.list]
      BY <3>1, <3>2 DEF OrdersView
    <3>4. PICK A \in SUBSET Auctions : view.list \in [A -> OrderStates]
      BY <3>1 DEF Lists
    <3>5. view'.list \in [A -> OrderStates]
      BY <3>3, <3>4 DEF OrderStates
    <3>6. view' \in ViewOf(Shown(app))
      BY <2>5, <3>1, <3>3, <3>5 DEF ViewOf, OrdersView, Lists
    <3>7. \A x \in DOMAIN view'.list : view'.list[x] = "paid" => orders[x] = "paid"
      <4>1. \A x \in DOMAIN view.list : view.list[x] = "paid" => orders[x] = "paid"
        <5>1. view.list # None
          BY <3>4, NoneAssumption DEF OrderStates
        <5> QED
          BY <2>5, <5>1 DEF IInv, Told
      <4>2. ok => orders[a] = "paid"
        BY <1>1, <2>1 DEF TrueAnswer
      <4> HIDE DEF ok, a
      <4> QED
        BY <3>3, <3>4, <4>1, <4>2
    <3>8. view'.list \in Lists
      BY <3>5 DEF Lists
    <3> QED
      BY <1>1, <2>1, <2>5, <3>6, <3>7, <3>8, EndedKeeps
  <2> QED
    BY <2>3, <2>4, <2>5
<1> QED
  BY <1>2, <1>3, <1>4, <1>5

LEMMA FailsKeeps ==
  ASSUME IInv, NEW c \in Slots, Fails(c)
  PROVE  IInv'
<1>1. /\ ~Free(c) /\ calls[c] # None /\ calls[c] \in CallType
      /\ calls[c].kind \notin {"me", "login"}
      /\ view' = (IF OfPage(c) THEN Undone(calls[c].kind) ELSE view)
      /\ UNCHANGED <<server, token, app, store>>
      /\ view \in ViewOf(Shown(app)) /\ app \in AppType /\ store \in StoreType
      /\ app.page = "room" => app.room \in Auctions
      /\ Shown(app) \in Place(calls[c])
  BY DEF Fails, Free, IInv, Types, Places
<1>2. CASE calls[c].kind = "load"
  <2>1. Shown(app) = "room" /\ app.room \in Auctions
    BY <1>1, <1>2, ShownIs DEF Place
  <2>2. Call("load", app.room) \in CallType /\ Call("load", app.room).kind = "load"
    BY <2>1, NewCalls DEF CallType
  <2>3. view' = view /\ calls' = [calls EXCEPT ![c] = Call("load", app.room)]
    BY <1>1, <1>2 DEF Undone, Fails, Retry
  <2>4. Shown(app) \in Place(Call("load", app.room)) /\ TrueAnswer(Call("load", app.room), orders')
    BY <2>1, <2>2 DEF Place, TrueAnswer
  <2>5. ButtonKept(calls[c], Call("load", app.room))
    BY <1>2, <2>2, <2>3 DEF ButtonKept, PageBid
  <2>6. ServerTypes' /\ Money' /\ PaidStays
    BY <1>1, ServerRests
  <2> QED
    BY <1>1, <2>1, <2>2, <2>3, <2>4, <2>5, <2>6, SlotStep
<1>3. CASE calls[c].kind # "load"
  <2> DEFINE k == Abandoned(calls[c])
  <2>1. calls' = [calls EXCEPT ![c] = k]
    BY <1>3 DEF Fails
  <2> HIDE DEF k
  <2>2. CASE calls[c].kind = "bid" /\ OfPage(c)
    <3>1. Shown(app) = "room" /\ view' = [view EXCEPT !.phase = "idle"]
      BY <1>1, <2>2 DEF Place, OfPage, Undone
    <3>2. view' \in ViewOf(Shown(app)) /\ view'.phase # "pending"
      BY <1>1, <3>1 DEF ViewOf, RoomView
    <3>3. PageBid(calls[c])
      BY <1>1, <2>2 DEF PageBid, OfPage
    <3> QED
      BY <1>1, <2>1, <3>1, <3>2, <3>3, EndedKeeps DEF k
  <2>3. CASE calls[c].kind = "pay" /\ OfPage(c)
    <3>1. /\ Shown(app) \in {"room", "orders"} /\ Shown(app) = app.page
          /\ view' = IF app.page = "room" THEN [view EXCEPT !.paying = FALSE]
                     ELSE [view EXCEPT !.paying = None]
      BY <1>1, <2>3, ShownIs DEF Place, OfPage, Undone
    <3>2. /\ view' \in ViewOf(Shown(app))
          /\ Shown(app) = "room" => view'.phase = view.phase
          /\ Shown(app) = "orders" => view'.list = view.list
      <4>1. CASE Shown(app) = "room"
        BY <1>1, <3>1, <4>1 DEF ViewOf, RoomView
      <4>2. CASE Shown(app) = "orders"
        BY <1>1, <3>1, <4>2 DEF ViewOf, OrdersView
      <4> QED
        BY <3>1, <4>1, <4>2
    <3>3. ~PageBid(calls[c])
      BY <2>3 DEF PageBid
    <3> QED
      BY <1>1, <2>1, <3>2, <3>3, EndedKeeps DEF k
  <2>4. CASE ~(calls[c].kind \in {"bid", "pay"} /\ OfPage(c))
    <3>1. view' = view
      BY <1>1, <2>4 DEF Undone
    <3>2. ~PageBid(calls[c])
      BY <2>4 DEF PageBid, OfPage
    <3> QED
      BY <1>1, <2>1, <3>1, <3>2, EndedKeeps DEF k
  <2> QED
    BY <2>2, <2>3, <2>4
<1> QED
  BY <1>2, <1>3

-----------------------------------------------------------------------------
(* What happens without a call.                                             *)

\* The app stays where it is, and so do its calls.
LEMMA StillKeeps ==
  ASSUME IInv, UNCHANGED <<token, app, calls>>, ServerTypes', Money', PaidStays,
         store' \in StoreType, view' \in ViewOf(Shown(app)),
         Shown(app) = "room" => (view'.phase = "pending" <=> view.phase = "pending"),
         Shown(app) = "orders" => view'.list = view.list
  PROVE  IInv'
<1>1. Types' /\ Places' /\ Inside'
  BY DEF IInv, Types, Places, Inside, IsLookUp
<1>2. Told'
  <2>1. \A r \in CallType : TrueAnswer(r, orders) => TrueAnswer(r, orders')
    <3>1. \A r \in CallType : r.kind = "orders" /\ r.answer # None => DOMAIN r.answer \subseteq Auctions
      BY Kinds DEF OrdersCall, Lists
    <3>2. \A r \in CallType : r.kind = "pay" => r.arg \in Auctions
      BY Kinds DEF PayCall
    <3> QED
      BY <3>1, <3>2 DEF TrueAnswer, PaidStays
  <2>2. \A d \in Slots : calls'[d] # None => TrueAnswer(calls'[d], orders')
    BY <2>1 DEF IInv, Told, Types
  <2>3. Shown(app) = "orders" /\ view.list # None => DOMAIN view.list \subseteq Auctions
    BY DEF IInv, Types, ViewOf, OrdersView, Lists
  <2> QED
    BY <2>2, <2>3 DEF IInv, Told, PaidStays
<1>3. Button'
  BY DEF IInv, Button
<1> QED
  BY <1>1, <1>2, <1>3 DEF IInv

LEMMA Standing ==
  ASSUME IInv, EventArrives \/ CloseEndedModal \/ Type \/ Cooled
  PROVE  IInv'
<1>1. /\ Shown(app) = "room" /\ UNCHANGED <<server, token, app, calls>>
      /\ view \in RoomView /\ store \in StoreType /\ app.room \in Auctions /\ ServerTypes
  <2>1. Shown(app) = "room" /\ UNCHANGED <<server, token, app, calls>>
    BY DEF EventArrives, CloseEndedModal, Type, Cooled, InRoom
  <2> QED
    BY <2>1, ShownIs DEF IInv, Types, ViewOf
<1>2. ServerTypes' /\ Money' /\ PaidStays
  BY <1>1, ServerRests
<1>3. store' \in StoreType
  <2>1. CASE EventArrives
    <3>1. auctions[app.room] \in [price : Nat, status : {"active", "ended"}, leader : Leaders]
      BY <1>1 DEF ServerTypes
    <3>2. CASE store.auction # None /\ store' = Moved(store, auctions[app.room].price, auctions[app.room].leader)
      BY <1>1, <3>1, <3>2, Stored
    <3>3. CASE store' = [auction |-> Copy(app.room),
                         ended   |-> [open |-> TRUE, winner |-> auctions[app.room].leader,
                                      order |-> IF auctions[app.room].leader = "nobody" THEN None
                                                ELSE app.room]]
      <4>1. Copy(app.room) \in CopyType
        BY <1>1, <3>1 DEF Copy, CopyType
      <4> QED
        BY <1>1, <3>1, <3>3, <4>1 DEF StoreType, EndedType
    <3> QED
      BY <2>1, <3>2, <3>3 DEF EventArrives
  <2>2. CASE CloseEndedModal
    BY <1>1, <2>2 DEF CloseEndedModal, StoreType, EndedType
  <2>3. CASE Type \/ Cooled
    BY <1>1, <2>3 DEF Type, Cooled
  <2> QED
    BY <2>1, <2>2, <2>3
<1>4. view' \in RoomView /\ (view'.phase = "pending" <=> view.phase = "pending")
  BY <1>1 DEF EventArrives, CloseEndedModal, Type, Cooled, RoomView
<1>5. view' \in ViewOf(Shown(app))
  BY <1>1, <1>4 DEF ViewOf
<1> QED
  BY <1>1, <1>2, <1>3, <1>4, <1>5, StillKeeps

LEMMA Others ==
  ASSUME IInv, NEW a \in Auctions, RivalBids(a) \/ Ends(a)
  PROVE  IInv'
<1>1. /\ UNCHANGED <<charged, token, app, store, view, calls>> /\ auctions[a].status = "active"
      /\ view \in ViewOf(Shown(app)) /\ store \in StoreType /\ ServerTypes /\ Money
      /\ orders[a] = "none" /\ charged[a] = 0
  BY DEF RivalBids, Ends, IInv, Types, Money
<1>2. CASE RivalBids(a)
  <2>1. MinAcceptable(a) \in Nat
    BY <1>1, PriceAssumption DEF MinAcceptable, ServerTypes
  <2>2. /\ auctions' = [auctions EXCEPT ![a].price = MinAcceptable(a), ![a].leader = "rival"]
        /\ orders' = orders
    BY <1>2 DEF RivalBids
  <2>3. ServerTypes' /\ \A x \in Auctions : auctions'[x].status = auctions[x].status
    BY <1>1, <2>1, <2>2 DEF ServerTypes, Leaders
  <2>4. Money' /\ PaidStays
    BY <1>1, <2>2, <2>3 DEF Money, PaidStays
  <2> QED
    BY <1>1, <2>3, <2>4, StillKeeps
<1>3. CASE Ends(a)
  <2>1. PICK o \in {"none", "pending_pay"} :
          orders' = [orders EXCEPT ![a] = o] /\ auctions' = [auctions EXCEPT ![a].status = "ended"]
    BY <1>3 DEF Ends
  <2>2. /\ \A x \in Auctions : orders'[x] = IF x = a THEN o ELSE orders[x]
        /\ \A x \in Auctions : auctions'[x].status = IF x = a THEN "ended" ELSE auctions[x].status
        /\ ServerTypes'
    BY <1>1, <2>1 DEF ServerTypes, OrderStates
  <2>3. Money' /\ PaidStays
    BY <1>1, <2>2 DEF Money, PaidStays
  <2> QED
    BY <1>1, <2>2, <2>3, StillKeeps
<1> QED
  BY <1>2, <1>3

LEMMA Stepping == IInv /\ [Next]_vars => IInv'
<1> SUFFICES ASSUME IInv, [Next]_vars PROVE IInv'
  OBVIOUS
<1>1. ASSUME NEW c \in Slots,
             \/ Reload(c) \/ Login(c) \/ Go(c) \/ Relist(c) \/ Refresh(c) \/ Submit(c)
             \/ PayInRoom(c) \/ PayInOrders(c)
             \/ Serve(c) \/ Arrives(c) \/ SignInFails(c) \/ Fails(c)
      PROVE  IInv'
  BY <1>1, ReloadKeeps, GoKeeps, Making, SubmitKeeps, ServeKeeps, SignedInKeeps, Arriving,
     SignInFailsKeeps, FailsKeeps DEF Arrives
<1>2. CASE EventArrives \/ CloseEndedModal \/ Type \/ Cooled
  BY <1>2, Standing
<1>3. CASE \E a \in Auctions : RivalBids(a) \/ Ends(a)
  BY <1>3, Others
<1>4. CASE UNCHANGED vars
  <2>1. UNCHANGED <<token, app, calls, store, view>> /\ ServerTypes' /\ Money' /\ PaidStays
    BY <1>4, ServerRests DEF vars
  <2>2. store \in StoreType /\ view \in ViewOf(Shown(app))
    BY DEF IInv, Types
  <2> QED
    BY <2>1, <2>2, StillKeeps
<1> QED
  BY <1>1, <1>2, <1>3, <1>4 DEF Next

\* The invariant of the app and the rows it changes.
LEMMA Invariant == Spec => []IInv
  BY Starting, Stepping, PTL DEF Spec

\* Behind the login there is always a token to send, and a user (App.tsx:32-43).
THEOREM SessionsHold == Spec => []SignedInHasToken
<1>1. IInv => SignedInHasToken
  BY DEF IInv, Inside, SignedInHasToken
<1> QED
  BY <1>1, Invariant, PTL

\* However many calls are under way: the button is pending while one bid of the
\* visit is, and only then (useBidButton.ts:65-110).
THEOREM ButtonsTell == Spec => []ButtonTells
<1>1. IInv => ButtonTells
  <2> SUFFICES ASSUME IInv, Shown(app) = "room"
               PROVE  Cardinality({c \in Slots : PageBid(calls[c])})
                        = IF view.phase = "pending" THEN 1 ELSE 0
    BY DEF ButtonTells, InRoom, PageBid, Free, OfPage
  <2> DEFINE mine == {c \in Slots : PageBid(calls[c])}
  <2>1. CASE view.phase = "pending"
    <3>1. PICK c \in Slots : \A d \in Slots : PageBid(calls[d]) <=> d = c
      BY <2>1 DEF IInv, Button
    <3>2. mine = {c}
      BY <3>1
    <3> QED
      BY <2>1, <3>2, FS_Singleton
  <2>2. CASE view.phase # "pending"
    <3>1. mine = {}
      BY <2>2 DEF IInv, Button
    <3> QED
      BY <2>2, <3>1, FS_EmptySet
  <2> QED
    BY <2>1, <2>2
<1> QED
  BY <1>1, Invariant, PTL

\* Every order is charged at most once, and what the app shows as paid is paid
\* (repository.go:69-93, OrdersPage.tsx:49-61).
THEOREM PaymentsCount == Spec => []ChargedOnce
<1>1. IInv => ChargedOnce
  BY DEF IInv, Money, Told, ChargedOnce
<1> QED
  BY <1>1, Invariant, PTL

\* The type invariant.
THEOREM MobileTyped == Spec => []TypeOK
<1>1. IInv => TypeOK
  <2> SUFFICES ASSUME IInv PROVE TypeOK
    OBVIOUS
  <2>1. \A c \in Slots : calls[c] # None => calls[c].of \in {"page", "app", "nobody"}
    BY DEF IInv, Types, CallType, SessionCall, StatusCall, OrdersCall, BidCall, PayCall
  <2> QED
    BY <2>1 DEF IInv, Types, ServerTypes, TypeOK, AppType, Leaders, OrderStates, Free
<1> QED
  BY <1>1, Invariant, PTL
=============================================================================
