---------------------------- MODULE AdminConsole ----------------------------
(***************************************************************************)
(* The sellers' console, admin-web/src, on its mock server: the session    *)
(* (lib/auth.tsx, AuthGate, LoginPage, the 401 of lib/api-client.ts), the  *)
(* list of auctions, the orders, and the monitor that polls.  The pages    *)
(* with the form are in SellerForm.                                        *)
(*                                                                         *)
(* A call is served at some time after it was made and answered later, in  *)
(* any order, or it fails; that of a page that was left only counts if it  *)
(* is answered 401.  Pages change when links are followed.                 *)
(***************************************************************************)
EXTENDS MockServer, FiniteSets

CONSTANTS
  Tabs,       \* the status tabs of the lists that are used
  Slots       \* bound: calls under way

\* The calls there may be, by what is asked and answered; null is none of them.
Tab == Tabs \cup {"all"}
Listed == [id : DOMAIN Fixture, status : Statuses]
Answers == [status : Statuses, end : Nat]

Asked(kind, args, answers) ==
  [kind : {kind}, arg : args, by : Users \cup {None}, of : {"page", "nobody"},
   answer : {None} \cup answers]
Calls ==
  Asked("me", {None}, Users \cup {E401}) \cup Asked("login", Users, Users)
  \cup Asked("list", Tab, SUBSET Listed) \cup Asked("orders", Tab, {E401} \cup SUBSET Nat)
  \cup Asked("status", DOMAIN Fixture, {Refused} \cup Answers)
  \cup Asked("cancel", [id : DOMAIN Fixture, tab : Tab \cup {None}], {"ok", E401, Refused})

ASSUME CallAssumption == None \notin Calls

VARIABLES
  token,   \* localStorage
  auth,    \* AuthProvider: ready, token, user
  path,    \* the page of the address, with an auction's id
  from,    \* where to go after the login
  loaded,  \* history: the token that was stored when the tab was loaded
  view,    \* the states of what is shown
  calls    \* requests under way, one per slot

session == <<token, auth, path, from, loaded>>
vars == <<mock, session, view, calls>>

-----------------------------------------------------------------------------
Free(c) == calls[c] = None

\* Links: an auction is only monitored or edited from its row in the list.
Login == [page |-> "login", id |-> None]
List == [page |-> "auctions", id |-> None]
Orders == [page |-> "orders", id |-> None]
Monitor(a) == [page |-> "monitor", id |-> a]

\* Wrong: whoever has a token comes in.
WrongShown(a, p) ==
  CASE p = Login -> "login"
    [] p # Login /\ ~a.ready -> "spin"
    [] p # Login /\ a.ready /\ a.token \in Buyers -> "forbidden"
    [] OTHER -> p.page

\* The routes and AuthGate.
Shown(a, p) ==
  CASE p = Login -> "login"
    [] p # Login /\ ~a.ready -> "spin"
    [] p # Login /\ a.ready /\ a.token # None /\ a.user # None /\ a.token \in Buyers -> "forbidden"
    [] p # Login /\ a.ready /\ (a.token = None \/ a.user = None) -> "login"
    [] OTHER -> p.page

\* The states of a page when it is mounted.
FreshView(shown, p) ==
  CASE shown \in {"auctions", "orders"} ->
         [tab |-> "all", rows |-> {}, loading |-> TRUE]
    [] shown = "monitor" -> [snap |-> None, error |-> FALSE, extend |-> FALSE, win |-> FALSE]
    [] OTHER             -> [loading |-> FALSE]

Call(kind, arg, user) == [kind |-> kind, arg |-> arg, by |-> user, of |-> "page", answer |-> None]

\* What the effects of a page ask for.
FirstCall(shown, p, user) ==
  CASE shown = "auctions" -> Call("list", "all", user)
    [] shown = "orders"   -> Call("orders", "all", user)
    [] shown = "monitor"  -> Call("status", p.id, user)
    [] OTHER -> None

\* The page is left: what still counts of its calls is a 401.
Left(call) ==
  IF call = None THEN None
  ELSE IF call.kind \in {"list", "status"} THEN None
  ELSE IF call.kind \in {"me", "login"} THEN call ELSE [call EXCEPT !.of = "nobody"]

\* The session or the address changes: what is shown is mounted anew if it is
\* another page, and its first call, signed by `user`, takes the slot.  AuthGate sends who is not
\* logged in to the login, and remembers the address.
Land(a, p, user, c) ==
  LET shown == Shown(a, p)
      away == shown = "login" /\ p # Login
      there == IF away THEN Login ELSE p
      same == there = path /\ shown = Shown(auth, path)
  IN  /\ auth' = a
      /\ path' = there
      /\ from' = IF away THEN p ELSE from
      /\ loaded' = loaded
      /\ IF same
         THEN view' = view /\ calls' = [calls EXCEPT ![c] = None]
         ELSE /\ view' = FreshView(shown, p)
              /\ calls' = [d \in Slots |-> IF d = c THEN FirstCall(shown, p, user)
                                           ELSE Left(calls[d])]

\* AuthProvider when the tab is loaded: the token is looked up if there is one.
\* Whatever was under way in the tab, its server included, is gone.
Started(user) == [ready |-> user = None, token |-> user, user |-> None]

Load(p, origin, user, c) ==
  /\ Restart
  /\ auth' = Started(user) /\ loaded' = user
  /\ path' = IF user = None THEN Login ELSE p
  /\ from' = IF user = None /\ p # Login THEN p ELSE origin
  /\ view' = FreshView(Shown(auth', path'), path')
  /\ calls' = [d \in Slots |-> IF d = c /\ user # None THEN Call("me", None, user) ELSE None]

Init ==
  /\ InitMock
  /\ token = None /\ loaded = None
  /\ auth = Started(None) /\ path = Login /\ from = List
  /\ view = FreshView("login", Login)
  /\ calls = [c \in Slots |-> None]

Reload(c) ==
  /\ Load(path, from, token, c) \/ Load(Login, List, token, c)
  /\ UNCHANGED token

-----------------------------------------------------------------------------
(* What the seller does.                                                    *)

Page == Shown(auth, path)

Ask(c, kind, arg) == calls' = [calls EXCEPT ![c] = Call(kind, arg, token)]

\* A login: nothing but a look-up of the same user depends on when it is served.
SubmitLogin(c) ==
  /\ Page = "login" /\ ~view.loading /\ Free(c)
  /\ view' = [view EXCEPT !.loading = TRUE]
  /\ \E user \in Users :
       /\ LoginStep(user)
       /\ calls' = [calls EXCEPT ![c] = [Call("login", user, token) EXCEPT !.answer = user]]
  /\ UNCHANGED session

\* The menu, and the buttons of the rows.
Follow(c) ==
  /\ Page \in {"auctions", "orders", "monitor"} /\ Free(c)
  /\ LET links == {List, Orders} \cup
           (IF Page = "auctions"
            THEN {Monitor(r.id) : r \in {s \in view.rows : s.status = "active"}} ELSE {})
     IN  \E p \in links \ {path} : Land(auth, p, token, c)
  /\ UNCHANGED <<mock, token>>

\* A tab is chosen, and the list asked for.
Choose(c) ==
  /\ Page \in {"auctions", "orders"} /\ Free(c)
  /\ \E tab \in Tabs \ {view.tab} :
       /\ view' = [view EXCEPT !.tab = tab, !.loading = TRUE]
       /\ Ask(c, IF Page = "auctions" THEN "list" ELSE "orders", tab)
  /\ UNCHANGED <<mock, session>>

\* cancelAuction of a row, or of the auction that is monitored.
Cancel(c) ==
  /\ Free(c)
  /\ \/ /\ Page = "auctions"
        /\ \E row \in view.rows :
             row.status \in {"pending", "active"} /\ Ask(c, "cancel", [id |-> row.id, tab |-> view.tab])
     \/ /\ Page = "monitor" /\ view.snap # None /\ ~view.error
        /\ view.snap.status = "active" /\ Ask(c, "cancel", [id |-> path.id, tab |-> None])
  /\ UNCHANGED <<mock, session, view>>

\* The monitor's interval, whether or not it shows an error.
Poll(c) ==
  /\ Page = "monitor" /\ Free(c)
  /\ Ask(c, "status", path.id)
  /\ UNCHANGED <<mock, session, view>>

\* ExtendShock's timer, and a click on the confetti.
Close ==
  /\ Page = "monitor"
  /\ \/ view.extend /\ view' = [view EXCEPT !.extend = FALSE]
     \/ view.win /\ view' = [view EXCEPT !.win = FALSE]
  /\ UNCHANGED <<mock, session, calls>>

-----------------------------------------------------------------------------
(* The server's side of a call.                                             *)

Answered(c, answer) == calls' = [calls EXCEPT ![c].answer = answer]

ServeRead(c) ==
  LET call == calls[c]
  IN  /\ \/ call.kind = "me"     /\ Answered(c, MeAnswer(call.by))
         \/ call.kind = "list"   /\ Answered(c, ListAnswer(call.by, call.arg))
         \/ call.kind = "orders" /\ Answered(c, OrdersAnswer(call.by))
         \/ call.kind = "status" /\ Answered(c, StatusAnswer(call.arg))
      /\ UNCHANGED mock

ServeCancel(c) ==
  LET call == calls[c]
  IN  /\ call.kind = "cancel" /\ CancelStep(call.by, call.arg.id)
      /\ Answered(c, CancelAnswer(call.by, call.arg.id))

Serve(c) ==
  /\ ~Free(c) /\ calls[c].answer = None
  /\ ServeRead(c) \/ ServeCancel(c)
  /\ UNCHANGED <<session, view>>

-----------------------------------------------------------------------------
(* Answers and failures.                                                    *)

Done(c) == calls' = [calls EXCEPT ![c] = None]
Arrived(c, kinds) == ~Free(c) /\ calls[c].answer # None /\ calls[c].kind \in kinds
OfPage(c) == calls[c].of = "page"
PageKinds == {"list", "orders", "status", "cancel"}

LoggedOut(a) == [a EXCEPT !.token = None, !.user = None]

\* Any call is answered 401, whoever is logged in by now: logout, and the login
\* page is loaded anew unless it is there.
Unauthorized(c) ==
  /\ calls[c].answer = E401 /\ token' = None
  /\ IF path # Login
     THEN Load(Login, List, None, c)
     ELSE /\ UNCHANGED mock
          /\ Land(LoggedOut([auth EXCEPT !.ready = @ \/ calls[c].kind = "me"]), Login, None, c)

\* The look-up of the token succeeds, though another may have logged in meanwhile.
Restored(c) ==
  /\ Arrived(c, {"me"}) /\ calls[c].answer # E401
  /\ Land([auth EXCEPT !.ready = TRUE, !.user = calls[c].answer], path, token, c)
  /\ UNCHANGED <<mock, token>>

TurnedAway == token' = None /\ auth' = LoggedOut(auth)

\* onFinish: only a seller is let in.
LoggedIn(c) ==
  /\ Arrived(c, {"login"})
  /\ LET user == calls[c].answer
     IN  IF user \in Sellers
         THEN /\ token' = user
              /\ Land([auth EXCEPT !.token = user, !.user = user], from, user, c)
         ELSE /\ TurnedAway
              /\ view' = [view EXCEPT !.loading = FALSE]
              /\ Done(c) /\ UNCHANGED <<path, from, loaded>>
  /\ UNCHANGED mock

\* The list or the orders, for whatever tab they were asked.
ListArrives(c) ==
  /\ Arrived(c, {"list", "orders"}) /\ calls[c].answer # E401
  /\ view' = IF OfPage(c) THEN [view EXCEPT !.rows = calls[c].answer, !.loading = FALSE] ELSE view
  /\ Done(c)
  /\ UNCHANGED <<mock, session>>

\* Wrong: whatever ends an active auction is celebrated.
WrongPolled(v, s) ==
  [v EXCEPT !.snap = s,
            !.extend = @ \/ (v.snap # None /\ s.end > v.snap.end),
            !.win = @ \/ (v.snap # None /\ v.snap.status = "active" /\ s.status # "active")]

\* poll: the end and the status are compared with those of the last answer.
Polled(v, s) ==
  [v EXCEPT !.snap = s,
            !.extend = @ \/ (v.snap # None /\ s.end > v.snap.end),
            !.win = @ \/ (v.snap # None /\ v.snap.status = "active" /\ s.status = "ended")]

StatusArrives(c) ==
  /\ Arrived(c, {"status"})
  /\ view' = IF calls[c].answer = Refused THEN [view EXCEPT !.error = TRUE]
             ELSE Polled(view, calls[c].answer)
  /\ Done(c)
  /\ UNCHANGED <<mock, session>>

\* A cancellation succeeded: the list is loaded anew, or the monitor polls.
Cancelled(c) ==
  /\ Arrived(c, {"cancel"}) /\ calls[c].answer # E401
  /\ IF calls[c].answer = "ok" /\ OfPage(c)
     THEN IF Page = "monitor"
          THEN Ask(c, "status", path.id) /\ UNCHANGED view
          ELSE Ask(c, "list", calls[c].arg.tab) /\ view' = [view EXCEPT !.loading = TRUE]
     ELSE Done(c) /\ UNCHANGED view
  /\ UNCHANGED <<mock, session>>

\* Wrong: a list that fails leaves its spinner.
WrongUndone(kind) == view

\* `finally`, after the token could not be looked up: it is kept.
LookUpFails(c) == Land([auth EXCEPT !.ready = TRUE], path, token, c)

\* The states of the page after a call of it failed.
Undone(kind) ==
  CASE kind \in {"login", "list", "orders"} -> [view EXCEPT !.loading = FALSE]
    [] kind = "status" -> [view EXCEPT !.error = TRUE]
    [] kind = "cancel" -> view

\* No answer comes, whether or not the server has seen the call.
Fails(c) ==
  /\ ~Free(c)
  /\ IF calls[c].kind = "me" THEN LookUpFails(c)
     ELSE /\ view' = IF OfPage(c) THEN Undone(calls[c].kind) ELSE view
          /\ Done(c) /\ UNCHANGED <<auth, path, from, loaded>>
  /\ UNCHANGED <<mock, token>>

Arrives(c) ==
  /\ ~Free(c)
  /\ \/ Unauthorized(c) \/ Restored(c) \/ LoggedIn(c) \/ ListArrives(c) \/ StatusArrives(c)
     \/ Cancelled(c)

Next ==
  \/ \E c \in Slots :
       \/ Reload(c) \/ SubmitLogin(c) \/ Follow(c) \/ Choose(c) \/ Cancel(c)
       \/ Poll(c) \/ Serve(c) \/ Arrives(c) \/ Fails(c)
  \/ Close
  \/ Simulate /\ UNCHANGED <<session, view, calls>>

Spec == Init /\ [][Next]_vars

-----------------------------------------------------------------------------
TypeOK ==
  /\ token \in Users \cup {None}
  /\ auth \in [ready : BOOLEAN, token : Users \cup {None}, user : Users \cup {None}]
  /\ path.page \in {"login", "auctions", "orders", "monitor"} /\ from # Login
  /\ \A a \in Ids : auctions[a].status \in {"pending", "active", "ended", "cancelled"}

\* Behind the gate a seller's token signs, the stored one, and it has signed
\* whatever the page has asked, though calls of earlier sessions are answered
\* late, some 401.  Shown is who signs, or whose token was there when the tab was
\* loaded: its look-up may come after another has logged in (auth.tsx:61).
SessionSigns ==
  Page \notin {"login", "spin"} =>
    /\ token = auth.token /\ token \in Sellers
    /\ auth.user \in {token, loaded} \ {None}
    /\ \A c \in Slots : ~Free(c) /\ OfPage(c) /\ calls[c].kind \in PageKinds => calls[c].by = token

\* A list stops loading when nothing it asked for is under way, through tabs,
\* failures and cancellations.
LoadingEnds ==
  Page \in {"auctions", "orders"} /\ view.loading =>
    \E c \in Slots : ~Free(c) /\ calls[c].kind \in {"list", "orders"} /\ OfPage(c)

\* What the monitor announces has happened to the auction it shows, though polls
\* are answered out of order and pages change: the confetti an end, which was no
\* cancellation, and the shock an extension (MonitorPage.tsx:34).
CelebratesTrue ==
  Page = "monitor" =>
    /\ view.win => auctions[path.id].status = "ended"
    /\ view.extend => auctions[path.id].end > Lifetime

-----------------------------------------------------------------------------
(* What the documents say and the code does not keep.                       *)

\* auth.tsx:2: the current user is that of the token.  A look-up that comes after
\* another's login shows the one beside the token of the other.
ShownIsSigner == Page \notin {"login", "spin"} => auth.user = token

\* MonitorPage.tsx:35 and WinConfetti.tsx:84 say that the auction is sold.  It is
\* celebrated too when nobody has bid, with a dash for the winner.
OnlySalesCelebrated == Page = "monitor" /\ view.win => IsSold(auctions[path.id])
=============================================================================
