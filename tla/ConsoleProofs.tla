---------------------------- MODULE ConsoleProofs ----------------------------
(***************************************************************************)
(* What TLAPS proves of admin-web: of AdminConsole on its MockServer, for  *)
(* any users, auctions, tabs, pages and number of calls under way, and of  *)
(* SellerForm for any inputs, any number of uploads at a time and any      *)
(* clocks.                                                                 *)
(***************************************************************************)
EXTENDS AdminConsole, SellerForm, SequenceTheorems, FiniteSetTheorems, WellFoundedInduction, TLAPS

(***************************************************************************)
(* AuthProvider's token is the stored one, and only a seller's is stored.  *)
(* Who is a buyer does not matter: the gate's third answer is given to     *)
(* nobody.                                                                 *)
(***************************************************************************)
Fields == {"ready", "token", "user"}
OneSession ==
  /\ DOMAIN auth = Fields
  /\ auth.token = token
  /\ token \in Sellers \cup {None}

\* The session that Land and Load leave.
LEMMA AfterLand ==
  ASSUME NEW a, NEW p, NEW user, NEW c, Land(a, p, user, c),
         DOMAIN a = Fields, a.token = token', token' \in Sellers \cup {None}
  PROVE  OneSession'
BY DEF Land, OneSession

LEMMA AfterLoad ==
  ASSUME NEW p, NEW origin, NEW user, NEW c, Load(p, origin, user, c),
         token' = user, user \in Sellers \cup {None}
  PROVE  OneSession'
BY DEF Load, Started, OneSession, Fields

LEMMA SameSession == OneSession /\ UNCHANGED <<token, auth>> => OneSession'
BY DEF OneSession

LEMMA AfterArrival ==
  ASSUME OneSession, NEW c \in Slots, Arrives(c)
  PROVE  OneSession'
<1>1. CASE Unauthorized(c)
  <2>1. CASE path # Login
    BY <1>1, <2>1, AfterLoad DEF Unauthorized
  <2>2. CASE path = Login
    <3> DEFINE b == [auth EXCEPT !.ready = @ \/ calls[c].kind = "me"]
               a == LoggedOut(b)
    <3>1. DOMAIN a = Fields /\ a.token = None
      BY DEF OneSession, LoggedOut, Fields
    <3>2. Land(a, Login, None, c) /\ token' = None
      BY <1>1, <2>2 DEF Unauthorized
    <3> HIDE DEF a
    <3> QED
      BY <3>1, <3>2, AfterLand
  <2> QED
    BY <2>1, <2>2
<1>2. CASE Restored(c)
  <2> DEFINE a == [auth EXCEPT !.ready = TRUE, !.user = calls[c].answer]
  <2>1. DOMAIN a = Fields /\ a.token = token
    BY DEF OneSession, Fields
  <2>2. Land(a, path, token, c) /\ token' = token
    BY <1>2 DEF Restored
  <2> HIDE DEF a
  <2> QED
    BY <2>1, <2>2, AfterLand DEF OneSession
<1>3. CASE LoggedIn(c)
  <2> DEFINE user == calls[c].answer
             a == [auth EXCEPT !.token = user, !.user = user]
  <2>1. CASE user \in Sellers
    <3>1. DOMAIN a = Fields /\ a.token = user
      BY DEF OneSession, Fields
    <3>2. Land(a, from, user, c) /\ token' = user
      BY <1>3, <2>1 DEF LoggedIn
    <3> HIDE DEF a
    <3> QED
      BY <2>1, <3>1, <3>2, AfterLand
  <2>2. CASE user \notin Sellers
    BY <1>3, <2>2 DEF LoggedIn, TurnedAway, LoggedOut, OneSession, Fields
  <2> QED
    BY <2>1, <2>2
<1>4. CASE ListArrives(c) \/ StatusArrives(c) \/ Cancelled(c)
  BY <1>4, SameSession DEF ListArrives, StatusArrives, Cancelled, session
<1> QED
  BY <1>1, <1>2, <1>3, <1>4 DEF Arrives

\* A call that fails never ends the session.
LEMMA AfterFailure ==
  ASSUME OneSession, NEW c \in Slots, Fails(c)
  PROVE  OneSession'
<1>1. CASE calls[c].kind = "me"
  <2> DEFINE a == [auth EXCEPT !.ready = TRUE]
  <2>1. DOMAIN a = Fields /\ a.token = token
    BY DEF OneSession, Fields
  <2>2. Land(a, path, token, c) /\ token' = token
    BY <1>1 DEF Fails, LookUpFails
  <2> HIDE DEF a
  <2> QED
    BY <2>1, <2>2, AfterLand DEF OneSession
<1>2. CASE calls[c].kind # "me"
  BY <1>2, SameSession DEF Fails
<1> QED
  BY <1>1, <1>2

LEMMA SessionSteps == OneSession /\ [Next]_vars => OneSession'
<1> SUFFICES ASSUME OneSession, [Next]_vars PROVE OneSession'
  OBVIOUS
<1>1. ASSUME NEW c \in Slots, Reload(c) PROVE OneSession'
  BY <1>1, AfterLoad DEF Reload, OneSession
<1>2. ASSUME NEW c \in Slots, Follow(c) PROVE OneSession'
  <2>1. PICK p : Land(auth, p, token, c)
    BY <1>2 DEF Follow
  <2> QED
    BY <1>2, <2>1, AfterLand DEF Follow, OneSession
<1>3. ASSUME NEW c \in Slots,
             SubmitLogin(c) \/ Choose(c) \/ Cancel(c) \/ Poll(c) \/ Serve(c)
      PROVE  OneSession'
  <2>1. SubmitLogin(c) => UNCHANGED session
    BY DEF SubmitLogin
  <2>2. (Choose(c) => UNCHANGED session) /\ (Cancel(c) => UNCHANGED session)
    BY Zenon DEF Choose, Cancel
  <2>3. Poll(c) \/ Serve(c) => UNCHANGED session
    BY DEF Poll, Serve
  <2>4. UNCHANGED session
    BY <1>3, <2>1, <2>2, <2>3
  <2> QED
    BY <2>4, SameSession DEF session
<1>4. ASSUME NEW c \in Slots, Arrives(c) PROVE OneSession'
  BY <1>4, AfterArrival
<1>5. ASSUME NEW c \in Slots, Fails(c) PROVE OneSession'
  BY <1>5, AfterFailure
<1>6. CASE Close \/ (Simulate /\ UNCHANGED <<session, view, calls>>) \/ UNCHANGED vars
  BY <1>6, SameSession DEF Close, session, vars
<1> QED
  BY <1>1, <1>2, <1>3, <1>4, <1>5, <1>6 DEF Next

-----------------------------------------------------------------------------
(* Counting: what holds of 0 and of the number after each it holds of, holds *)
(* of all.                                                                  *)

LEMMA LeastNumber ==
  ASSUME NEW T \in SUBSET Nat, T # {}
  PROVE  \E x \in T : \A y \in T : x <= y
<1> DEFINE R == OpToRel(<, Nat)
<1>1. IsWellFoundedOn(R, Nat)
  BY NatLessThanWellFounded
<1>2. \A a, b \in Nat : <<a, b>> \in R <=> a < b
  BY DEF OpToRel
<1> HIDE DEF R
<1>3. PICK x \in T : \A y \in T : ~(<<y, x>> \in R)
  BY <1>1, WFMin
<1>4. \A y \in T : x <= y
  <2> TAKE y \in T
  <2>1. y \in Nat /\ x \in Nat /\ ~(y < x)
    BY <1>2, <1>3
  <2> QED
    BY <2>1
<1> QED
  BY <1>4

LEMMA Counting ==
  ASSUME NEW S, 0 \in S, \A n \in Nat : n \in S => n + 1 \in S
  PROVE  Nat \subseteq S
<1> SUFFICES ASSUME Nat \ S # {} PROVE FALSE
  OBVIOUS
<1>1. PICK x \in Nat \ S : \A y \in Nat \ S : x <= y
  BY LeastNumber
<1>2. x # 0 /\ x - 1 \in Nat /\ x - 1 \in S
  BY <1>1
<1> QED
  BY <1>1, <1>2

-----------------------------------------------------------------------------
(* What holds of the mock server and of the pages, whoever is logged in:     *)
(* the orders fit the rows, ends and ended auctions never go back, and a     *)
(* call belongs to the page that made it.                                    *)

Order == [auction : DOMAIN Fixture, winner : Users \cup {None}, price : Nat]

\* Rows and orders that fit each other, with what OrdersAreSales says of them.
Fit(rows, list) ==
  /\ rows \in [DOMAIN Fixture -> Auctions] /\ list \in Seq(Order)
  /\ \A a \in DOMAIN Fixture : rows[a].end >= Lifetime
  /\ \A a \in DOMAIN Fixture : IsSold(rows[a]) => \E i \in DOMAIN list : list[i] = Sale(rows, a)
  /\ \A i \in DOMAIN list : \E a \in DOMAIN Fixture : IsSold(rows[a]) /\ list[i] = Sale(rows, a)
  /\ \A i, j \in DOMAIN list : list[i].auction = list[j].auction => i = j

MockOK == users \subseteq Users /\ clock \in Nat /\ Fit(auctions, orders)

\* Where links lead, and what AuthProvider may know.
Places == {Login, List, Orders} \cup {Monitor(a) : a \in DOMAIN Fixture}
Auths == [ready : BOOLEAN, token : Users \cup {None}, user : Users \cup {None}]

\* An answer of an earlier moment of the auction that is now `r`.
Earlier(s, r) ==
  /\ s.end \in Nat /\ Lifetime <= s.end /\ s.end <= r.end
  /\ s.status = "ended" => r.status = "ended"

PlaceOK ==
  /\ token \in Users \cup {None} /\ auth \in Auths
  /\ path \in Places /\ from \in Places \ {Login}
  /\ Page = "login" => path = Login

ViewOK ==
  /\ Page = "login" => DOMAIN view = {"loading"}
  /\ Page \in {"auctions", "orders"} =>
       DOMAIN view = {"tab", "rows", "loading"} /\ view.tab \in Tab
  /\ Page = "auctions" => view.rows \subseteq Listed
  /\ Page = "monitor" =>
       /\ DOMAIN view = {"snap", "error", "extend", "win"}
       /\ view.snap # None => Earlier(view.snap, auctions[path.id])
       /\ view.win => auctions[path.id].status = "ended"
       /\ view.extend => auctions[path.id].end > Lifetime

\* A call belongs to the page that made it, and its answer to an earlier moment.
Belongs(k, shown, place, loading, rows) ==
  /\ k.kind = "list" => shown = "auctions"
  /\ k.kind = "orders" /\ k.of = "page" => shown = "orders"
  /\ k.kind = "cancel" /\ k.of = "page" =>
       shown = "monitor" \/ (shown = "auctions" /\ k.arg.tab \in Tab)
  /\ k.kind = "status" =>
       /\ shown = "monitor" /\ k.arg = place.id
       /\ k.answer \notin {None, Refused} => Earlier(k.answer, rows[place.id])
  /\ k.kind = "login" => place = Login /\ loading

CallsOK ==
  /\ calls \in [Slots -> Calls \cup {None}]
  /\ \A c \in Slots : ~Free(c) => Belongs(calls[c], Page, path, view.loading, auctions)
  /\ \A c, d \in Slots :
       ~Free(c) /\ ~Free(d) /\ calls[c].kind = "login" /\ calls[d].kind = "login" => c = d

\* Some sales in a list, each once.
IsListOf(s, rows, sold) ==
  /\ s \in Seq(Order)
  /\ \A a \in sold : \E i \in DOMAIN s : s[i] = Sale(rows, a)
  /\ \A i \in DOMAIN s : \E a \in sold : s[i] = Sale(rows, a)
  /\ \A i, j \in DOMAIN s : s[i].auction = s[j].auction => i = j

LEMMA Sizes == Len(Fixture) \in Nat /\ DOMAIN Fixture = 1..Len(Fixture)
BY FixtureAssumption

LEMMA OneSale ==
  ASSUME NEW rows \in [DOMAIN Fixture -> Auctions], NEW a \in DOMAIN Fixture
  PROVE  Sale(rows, a) \in Order /\ Sale(rows, a).auction = a
BY DEF Sale, Order, Auctions

LEMMA NoSale ==
  ASSUME NEW rows
  PROVE  IsListOf(<<>>, rows, {})
BY DEF IsListOf

\* One sale more at the end.
LEMMA AnotherSale ==
  ASSUME NEW rows \in [DOMAIN Fixture -> Auctions], NEW s, NEW sold \in SUBSET DOMAIN Fixture,
         IsListOf(s, rows, sold), NEW a \in DOMAIN Fixture, a \notin sold
  PROVE  IsListOf(Append(s, Sale(rows, a)), rows, sold \cup {a})
<1> DEFINE t == Append(s, Sale(rows, a))
           n == Len(s)
<1>1. s \in Seq(Order) /\ Sale(rows, a) \in Order /\ n \in Nat /\ DOMAIN s = 1..n
  BY OneSale DEF IsListOf
<1>2. /\ t \in Seq(Order) /\ DOMAIN t = 1..(n + 1) /\ t[n + 1] = Sale(rows, a)
      /\ \A i \in 1..n : t[i] = s[i]
  BY <1>1, AppendProperties
<1>3. \A b \in sold : Sale(rows, b).auction = b
  BY OneSale
<1> HIDE DEF t, n
<1>4. \A b \in sold \cup {a} : \E i \in DOMAIN t : t[i] = Sale(rows, b)
  <2> TAKE b \in sold \cup {a}
  <2>1. CASE b = a
    BY <1>1, <1>2, <2>1
  <2>2. CASE b \in sold
    <3>1. PICK i \in 1..n : s[i] = Sale(rows, b)
      BY <1>1, <2>2 DEF IsListOf
    <3> QED
      BY <1>1, <1>2, <3>1
  <2> QED
    BY <2>1, <2>2
<1>5. \A i \in 1..n : \E b \in sold : t[i] = Sale(rows, b)
  BY <1>1, <1>2 DEF IsListOf
<1>6. \A i \in 1..n : t[i].auction \in sold
  BY <1>3, <1>5
<1>7. \A i \in DOMAIN t : \E b \in sold \cup {a} : t[i] = Sale(rows, b)
  <2> TAKE i \in DOMAIN t
  <2>1. i \in 1..n \/ i = n + 1
    BY <1>1, <1>2
  <2> QED
    BY <1>2, <1>5, <2>1
<1>8. ASSUME NEW i \in DOMAIN t, NEW j \in DOMAIN t, t[i].auction = t[j].auction
      PROVE  i = j
  <2>1. (i \in 1..n \/ i = n + 1) /\ (j \in 1..n \/ j = n + 1)
    BY <1>1, <1>2
  <2>2. t[n + 1].auction = a
    BY <1>2, OneSale
  <2>3. CASE i \in 1..n /\ j \in 1..n
    BY <1>1, <1>2, <1>8, <2>3 DEF IsListOf
  <2>4. CASE ~(i \in 1..n /\ j \in 1..n)
    BY <1>6, <1>8, <2>1, <2>2, <2>4
  <2> QED
    BY <2>3, <2>4
<1>9. IsListOf(t, rows, sold \cup {a})
  BY <1>2, <1>4, <1>7, <1>8 DEF IsListOf
<1> QED
  BY <1>9 DEF t

\* The list that is made auction by auction.
SalesFrom(rows, sold, j, f) ==
  f = [a \in 0..j |-> IF a = 0 THEN <<>>
                      ELSE IF a \in sold THEN Append(f[a - 1], Sale(rows, a)) ELSE f[a - 1]]

LEMMA SalesExist ==
  ASSUME NEW rows, NEW sold, NEW j \in Nat
  PROVE  \E f : SalesFrom(rows, sold, j, f)
<1> DEFINE S == {i \in Nat : \E f : SalesFrom(rows, sold, i, f)}
<1>1. 0 \in S
  <2> DEFINE f == [a \in 0..0 |-> <<>>]
  <2>1. SalesFrom(rows, sold, 0, f)
    BY DEF SalesFrom
  <2> QED
    BY <2>1
<1>2. ASSUME NEW i \in Nat, i \in S
      PROVE  i + 1 \in S
  <2>1. PICK f : SalesFrom(rows, sold, i, f)
    BY <1>2
  <2> DEFINE step(a, before) ==
               IF a = 0 THEN <<>>
               ELSE IF a \in sold THEN Append(before, Sale(rows, a)) ELSE before
             g == [a \in 0..(i + 1) |-> step(a, f[a - 1])]
  <2>2. \A a \in 0..i : f[a] = step(a, f[a - 1])
    BY <2>1, Zenon DEF SalesFrom
  <2>3. \A a \in 0..(i + 1) : a # 0 => a - 1 \in 0..i /\ a - 1 \in 0..(i + 1)
    OBVIOUS
  <2>4. \A a \in 0..i : a \in 0..(i + 1)
    OBVIOUS
  <2>5. \A a \in 0..i : g[a] = f[a]
    <3> HIDE DEF step
    <3> QED
      BY <2>2, <2>4
  <2>6. \A a \in 0..(i + 1) : step(a, f[a - 1]) = step(a, g[a - 1])
    BY <2>3, <2>5
  <2>7. g = [a \in 0..(i + 1) |-> step(a, g[a - 1])]
    <3> HIDE DEF step
    <3> QED
      BY <2>6
  <2>8. SalesFrom(rows, sold, i + 1, g)
    BY <2>7 DEF SalesFrom
  <2> QED
    BY <2>8
<1> HIDE DEF S
<1>3. j \in S
  BY <1>1, <1>2, Counting
<1> QED
  BY <1>3 DEF S

LEMMA SalesListed ==
  ASSUME NEW rows \in [DOMAIN Fixture -> Auctions], Len(rows) = Len(Fixture),
         NEW sold \in SUBSET DOMAIN Fixture
  PROVE  IsListOf(Sales(rows, sold), rows, sold)
<1> DEFINE n == Len(Fixture)
           f == CHOOSE f : f = [a \in 0..Len(rows) |-> IF a = 0 THEN <<>>
                                  ELSE IF a \in sold THEN Append(f[a - 1], Sale(rows, a)) ELSE f[a - 1]]
<1>1. n \in Nat /\ DOMAIN Fixture = 1..n
  BY Sizes
<1>2. \E g : SalesFrom(rows, sold, Len(rows), g)
  BY <1>1, SalesExist
<1>3. SalesFrom(rows, sold, Len(rows), f)
  BY <1>2 DEF SalesFrom
<1>4. Sales(rows, sold) = f[n]
  BY DEF Sales
<1> HIDE DEF f, n
<1>5. /\ f[0] = <<>>
      /\ \A a \in 1..n : f[a] = IF a \in sold THEN Append(f[a - 1], Sale(rows, a)) ELSE f[a - 1]
  <2> DEFINE step(a, before) ==
               IF a = 0 THEN <<>>
               ELSE IF a \in sold THEN Append(before, Sale(rows, a)) ELSE before
  <2>1. Len(rows) = n
    BY DEF n
  <2>2. f = [a \in 0..n |-> step(a, f[a - 1])]
    BY <1>3, <2>1, Zenon DEF SalesFrom
  <2>3. \A a \in 0..n : f[a] = step(a, f[a - 1])
    <3> HIDE DEF step
    <3> QED
      BY <2>2
  <2> QED
    BY <1>1, <2>3
<1> DEFINE upTo(a) == {b \in sold : b <= a}
           S == {a \in Nat : a <= n => IsListOf(f[a], rows, upTo(a))}
<1>6. 0 \in S
  <2>1. upTo(0) = {}
    BY <1>1
  <2> HIDE DEF upTo
  <2> QED
    BY <1>5, <2>1, NoSale
<1>7. ASSUME NEW a \in Nat, a \in S
      PROVE  a + 1 \in S
  <2> SUFFICES ASSUME a + 1 <= n PROVE IsListOf(f[a + 1], rows, upTo(a + 1))
    OBVIOUS
  <2> DEFINE b == a + 1
  <2>1. b \in 1..n /\ b - 1 = a /\ a <= n /\ b \in DOMAIN Fixture
    BY <1>1
  <2>2. IsListOf(f[a], rows, upTo(a))
    BY <1>7, <2>1
  <2>3. upTo(a) \subseteq DOMAIN Fixture /\ b \notin upTo(a)
    BY <1>1
  <2>4. CASE b \in sold
    <3>1. upTo(b) = upTo(a) \cup {b}
      BY <1>1, <2>4
    <3>2. f[b] = Append(f[a], Sale(rows, b))
      BY <1>5, <2>1, <2>4
    <3> HIDE DEF upTo, b
    <3>3. IsListOf(f[b], rows, upTo(b))
      BY <2>1, <2>2, <2>3, <3>1, <3>2, AnotherSale
    <3> QED
      BY <3>3 DEF b
  <2>5. CASE b \notin sold
    <3>1. upTo(b) = upTo(a)
      BY <1>1, <2>5
    <3>2. f[b] = f[a]
      BY <1>5, <2>1, <2>5
    <3> HIDE DEF upTo, b
    <3>3. IsListOf(f[b], rows, upTo(b))
      BY <2>2, <3>1, <3>2
    <3> QED
      BY <3>3 DEF b
  <2> QED
    BY <2>4, <2>5
<1> HIDE DEF S
<1>8. n \in S
  BY <1>1, <1>6, <1>7, Counting
<1>9. upTo(n) = sold
  BY <1>1
<1> HIDE DEF upTo
<1>10. IsListOf(f[n], rows, upTo(n))
  BY <1>1, <1>8 DEF S
<1> QED
  BY <1>4, <1>9, <1>10

-----------------------------------------------------------------------------
(* The steps of the mock server.                                            *)

\* What the server starts with.
LEMMA FreshFits == Fit(Fresh, FreshOrders)
<1> DEFINE sold == {a \in DOMAIN Fixture : IsSold(Fixture[a])}
<1>1. Fixture \in [DOMAIN Fixture -> Auctions] /\ Lifetime \in Nat
  BY FixtureAssumption, MockAssumption
<1>2. IsListOf(FreshOrders, Fixture, sold)
  BY <1>1, SalesListed DEF FreshOrders
<1>3. ASSUME NEW a \in DOMAIN Fixture
      PROVE  /\ Fresh[a] \in Auctions /\ Fresh[a].end >= Lifetime
             /\ IsSold(Fresh[a]) <=> a \in sold
             /\ Sale(Fresh, a) = Sale(Fixture, a)
  <2>1. Fixture[a] \in Auctions
    BY <1>1
  <2> QED
    BY <1>1, <2>1 DEF Fresh, Auctions, IsSold, Sale
<1>4. Fresh \in [DOMAIN Fixture -> Auctions]
  BY <1>3 DEF Fresh
<1>5. sold \subseteq DOMAIN Fixture
  OBVIOUS
<1> HIDE DEF sold
<1> QED
  BY <1>2, <1>3, <1>4, <1>5 DEF IsListOf, Fit

LEMMA MockBegins == InitMock => MockOK
BY FreshFits, MockAssumption DEF InitMock, MockOK

LEMMA MockRestarts == Restart => MockOK'
BY FreshFits, MockAssumption DEF Restart, MockOK

\* No end recedes, and what has ended stays so.
Onward ==
  \A a \in DOMAIN Fixture :
    /\ auctions[a].end <= auctions'[a].end
    /\ auctions[a].status = "ended" => auctions'[a].status = "ended"

LEMMA SameAuctions ==
  ASSUME MockOK, users' \subseteq Users, UNCHANGED <<auctions, orders, clock>>
  PROVE  MockOK' /\ Onward
<1>1. MockOK'
  BY DEF MockOK
<1>2. Onward
  BY DEF MockOK, Fit, Auctions, Onward
<1> QED
  BY <1>1, <1>2

LEMMA SameMock == MockOK /\ UNCHANGED mock => MockOK' /\ Onward
BY SameAuctions DEF mock, MockOK

\* A cancellation is none of a sale.
LEMMA CancelKeeps ==
  ASSUME MockOK, NEW user, NEW a, CancelStep(user, a)
  PROVE  MockOK' /\ Onward
<1>1. CASE CancelAnswer(user, a) # "ok"
  BY <1>1, SameAuctions DEF CancelStep, MockOK
<1>2. CASE CancelAnswer(user, a) = "ok"
  <2>1. a \in Ids /\ auctions[a].status \in {"pending", "active"}
    BY <1>2, MockAssumption DEF CancelAnswer, Verdict
  <2>2. /\ auctions \in [DOMAIN Fixture -> Auctions] /\ a \in DOMAIN Fixture
        /\ auctions' = [auctions EXCEPT ![a].status = "cancelled"]
        /\ UNCHANGED <<users, orders, clock>>
    BY <1>2, <2>1 DEF MockOK, Fit, CancelStep, Ids
  <2>3. auctions' \in [DOMAIN Fixture -> Auctions]
    BY <2>2 DEF Auctions, Statuses
  <2>4. ASSUME NEW b \in DOMAIN Fixture
        PROVE  /\ auctions'[b].end = auctions[b].end
               /\ IsSold(auctions'[b]) <=> IsSold(auctions[b])
               /\ Sale(auctions', b) = Sale(auctions, b)
               /\ auctions[b].status = "ended" => auctions'[b].status = "ended"
    BY <2>1, <2>2 DEF Auctions, IsSold, Sale
  <2>5. Fit(auctions', orders)
    BY <2>3, <2>4 DEF MockOK, Fit
  <2>6. Onward
    <3>1. \A b \in DOMAIN Fixture : auctions[b].end \in Nat
      BY <2>2 DEF Auctions
    <3> QED
      BY <2>4, <3>1 DEF Onward
  <2> QED
    BY <2>2, <2>5, <2>6 DEF MockOK
<1> QED
  BY <1>1, <1>2

\* One auction in a period of the simulator.
LEMMA SimulatedRow ==
  ASSUME NEW r \in Auctions, NEW buyer \in Users \cup {None}, clock \in Nat
  PROVE  LET s == Simulated(r, buyer)
         IN  /\ s \in Auctions /\ r.end <= s.end
             /\ r.status # "active" => s = r
<1> DEFINE s == Simulated(r, buyer)
<1>0. r.end \in Nat /\ r.price \in Nat
  BY DEF Auctions
<1>1. CASE r.status # "active"
  BY <1>0, <1>1 DEF Simulated
<1>2. CASE r.status = "active" /\ clock >= r.end
  <2>1. s = [r EXCEPT !.status = "ended"]
    BY <1>2 DEF Simulated
  <2> QED
    BY <1>0, <1>2, <2>1 DEF Auctions, Statuses
<1>3. CASE r.status = "active" /\ ~(clock >= r.end)
  <2>1. CASE buyer = None
    BY <1>0, <1>3, <2>1 DEF Simulated
  <2>2. CASE buyer # None
    <3> DEFINE p == r.price + Step
               e == IF r.end - clock <= Threshold THEN clock + Extend ELSE r.end
    <3>1. p \in Nat /\ e \in Nat /\ r.end <= e
      BY <1>0, MockAssumption
    <3>2. s = [r EXCEPT !.price = p, !.leader = buyer, !.end = e]
      BY <1>3, <2>2 DEF Simulated
    <3> HIDE DEF p, e, s
    <3>3. s \in Auctions /\ s.end = e
      BY <3>1, <3>2 DEF Auctions
    <3> QED
      BY <1>3, <3>1, <3>3 DEF s
  <2> QED
    BY <2>1, <2>2
<1> QED
  BY <1>1, <1>2, <1>3

\* Orders and the ones of the auctions that were sold in this period.
LEMMA SoldNow ==
  ASSUME NEW old \in [DOMAIN Fixture -> Auctions], NEW rows \in [DOMAIN Fixture -> Auctions],
         \A a \in DOMAIN Fixture : old[a].end <= rows[a].end,
         \A a \in DOMAIN Fixture : old[a].status # "active" => rows[a] = old[a],
         NEW list, Fit(old, list), NEW news,
         IsListOf(news, rows, {a \in DOMAIN Fixture : IsSold(rows[a]) /\ old[a].status = "active"})
  PROVE  Fit(rows, list \o news)
<1> DEFINE sold == {a \in DOMAIN Fixture : IsSold(rows[a]) /\ old[a].status = "active"}
           all == list \o news
           m == Len(list)
           n == Len(news)
<1>1. list \in Seq(Order) /\ news \in Seq(Order)
  BY DEF Fit, IsListOf
<1>2. m \in Nat /\ n \in Nat /\ DOMAIN list = 1..m /\ DOMAIN news = 1..n
  BY <1>1
<1>3. /\ all \in Seq(Order) /\ DOMAIN all = 1..(m + n)
      /\ \A i \in 1..m : all[i] = list[i]
      /\ \A i \in 1..n : all[m + i] = news[i]
  BY <1>1
<1>4. \A a \in DOMAIN Fixture : Sale(rows, a).auction = a /\ Sale(old, a).auction = a
  BY DEF Sale
<1>5. \A a \in DOMAIN Fixture : IsSold(old[a]) => old[a].status # "active" /\ IsSold(rows[a])
                                                  /\ Sale(rows, a) = Sale(old, a)
  BY DEF IsSold, Sale
<1>6. \A i \in 1..m : /\ all[i].auction \in DOMAIN Fixture /\ IsSold(old[all[i].auction])
                      /\ all[i] = Sale(rows, all[i].auction)
  BY <1>2, <1>3, <1>4, <1>5 DEF Fit
<1>7. \A i \in 1..n : /\ all[m + i].auction \in sold
                      /\ all[m + i] = Sale(rows, all[m + i].auction)
  <2> TAKE i \in 1..n
  <2>1. PICK a \in sold : news[i] = Sale(rows, a)
    BY <1>2 DEF IsListOf
  <2>2. all[m + i] = Sale(rows, a)
    BY <1>3, <2>1
  <2> QED
    BY <1>4, <2>1, <2>2
<1>8. \A i \in DOMAIN all : i \in 1..m \/ (i - m \in 1..n /\ i = m + (i - m))
  BY <1>2, <1>3
<1>9. ASSUME NEW a \in DOMAIN Fixture, IsSold(rows[a])
      PROVE  \E i \in DOMAIN all : all[i] = Sale(rows, a)
  <2>1. CASE old[a].status = "active"
    <3>1. PICK i \in 1..n : news[i] = Sale(rows, a)
      BY <1>2, <1>9, <2>1 DEF IsListOf
    <3>2. m + i \in DOMAIN all
      BY <1>2, <1>3
    <3> QED
      BY <1>3, <3>1, <3>2
  <2>2. CASE old[a].status # "active"
    <3>1. IsSold(old[a]) /\ Sale(old, a) = Sale(rows, a)
      BY <1>9, <2>2 DEF Sale
    <3>2. PICK i \in 1..m : list[i] = Sale(rows, a)
      BY <1>2, <3>1 DEF Fit
    <3>3. i \in DOMAIN all
      BY <1>2, <1>3
    <3> QED
      BY <1>3, <3>2, <3>3
  <2> QED
    BY <2>1, <2>2
<1>10. \A i \in DOMAIN all : \E a \in DOMAIN Fixture : IsSold(rows[a]) /\ all[i] = Sale(rows, a)
  <2> TAKE i \in DOMAIN all
  <2>1. CASE i \in 1..m
    BY <1>5, <1>6, <2>1
  <2>2. CASE i - m \in 1..n /\ i = m + (i - m)
    <3>1. all[i].auction \in sold /\ all[i] = Sale(rows, all[i].auction)
      BY <1>7, <2>2
    <3> QED
      BY <3>1
  <2> QED
    BY <1>8, <2>1, <2>2
<1>11. ASSUME NEW i \in 1..m, NEW j \in 1..n PROVE all[i].auction # all[m + j].auction
  BY <1>5, <1>6, <1>7
<1>12. ASSUME NEW i \in DOMAIN all, NEW j \in DOMAIN all, all[i].auction = all[j].auction
       PROVE  i = j
  <2>1. CASE i \in 1..m /\ j \in 1..m
    BY <1>2, <1>3, <1>12, <2>1 DEF Fit
  <2>2. CASE ~(i \in 1..m) /\ ~(j \in 1..m)
    <3>1. i - m \in 1..n /\ j - m \in 1..n /\ i = m + (i - m) /\ j = m + (j - m)
      BY <1>8, <2>2
    <3>2. news[i - m].auction = news[j - m].auction
      BY <1>3, <1>12, <3>1
    <3>3. i - m = j - m
      BY <1>2, <3>1, <3>2 DEF IsListOf
    <3> QED
      BY <1>2, <3>1, <3>3
  <2>3. CASE ~(i \in 1..m /\ j \in 1..m) /\ (i \in 1..m \/ j \in 1..m)
    BY <1>8, <1>11, <1>12, <2>3
  <2> QED
    BY <2>1, <2>2, <2>3
<1>13. \A a \in DOMAIN Fixture : rows[a].end >= Lifetime
  <2>1. \A a \in DOMAIN Fixture : old[a].end \in Nat /\ rows[a].end \in Nat
    BY DEF Auctions
  <2> QED
    BY <2>1, MockAssumption DEF Fit
<1> HIDE DEF all
<1>14. Fit(rows, all)
  BY <1>3, <1>9, <1>10, <1>12, <1>13 DEF Fit
<1> QED
  BY <1>14 DEF all

LEMMA SimulateKeeps ==
  ASSUME MockOK, Simulate
  PROVE  MockOK' /\ Onward
<1> PICK buyer \in [Ids -> (Buyers \cap Seed) \cup {None}] :
      LET rows == [a \in Ids |-> Simulated(auctions[a], buyer[a])]
      IN  auctions' = rows /\ orders' = orders \o Sales(rows, NewlySold(rows))
  BY DEF Simulate
<1> DEFINE rows == [a \in Ids |-> Simulated(auctions[a], buyer[a])]
<1>1. Ids = DOMAIN Fixture /\ auctions \in [DOMAIN Fixture -> Auctions] /\ clock \in Nat
  BY DEF MockOK, Fit, Ids
<1>2. ASSUME NEW a \in DOMAIN Fixture
      PROVE  /\ rows[a] \in Auctions /\ auctions[a].end <= rows[a].end
             /\ auctions[a].status # "active" => rows[a] = auctions[a]
  <2>1. buyer[a] \in Users \cup {None} /\ auctions[a] \in Auctions
    BY <1>1, MockAssumption
  <2>2. rows[a] = Simulated(auctions[a], buyer[a])
    BY <1>1
  <2> HIDE DEF rows
  <2> QED
    BY <1>1, <2>1, <2>2, SimulatedRow
<1>3. DOMAIN rows = 1..Len(Fixture) /\ Len(Fixture) \in Nat /\ rows \in [DOMAIN Fixture -> Auctions]
  BY <1>1, <1>2, Sizes
<1>4. /\ auctions' = rows /\ orders' = orders \o Sales(rows, NewlySold(rows))
      /\ clock' \in Nat /\ users' = users
  <2>1. auctions' = rows /\ orders' = orders \o Sales(rows, NewlySold(rows))
    BY Zenon
  <2>2. clock' \in Nat /\ users' = users
    BY <1>1 DEF Simulate
  <2> QED
    BY <2>1, <2>2
<1> HIDE DEF rows
<1>5. Len(rows) = Len(Fixture)
  BY <1>3
<1>6. NewlySold(rows) = {a \in DOMAIN Fixture : IsSold(rows[a]) /\ auctions[a].status = "active"}
  BY <1>1 DEF NewlySold
<1>7. IsListOf(Sales(rows, NewlySold(rows)), rows, NewlySold(rows))
  <2>1. NewlySold(rows) \in SUBSET DOMAIN Fixture
    BY <1>6
  <2> QED
    BY <1>3, <1>5, <2>1, SalesListed
<1>8. Fit(rows, orders')
  BY <1>1, <1>2, <1>3, <1>4, <1>6, <1>7, SoldNow DEF MockOK
<1>9. Onward
  BY <1>2, <1>4 DEF Onward
<1> QED
  BY <1>4, <1>8, <1>9 DEF MockOK

LEMMA SalesAreOrders == MockOK => OrdersAreSales
<1> SUFFICES ASSUME MockOK PROVE OrdersAreSales
  OBVIOUS
<1>1. Ids = DOMAIN Fixture
  BY DEF MockOK, Fit, Ids
<1>2. \A a \in DOMAIN Fixture : Sale(auctions, a).auction = a
  BY DEF Sale
<1>3. \A i \in DOMAIN orders :
        orders[i].auction \in DOMAIN Fixture /\ IsSold(auctions[orders[i].auction])
  BY <1>2 DEF MockOK, Fit
<1>4. ASSUME NEW a \in DOMAIN Fixture, NEW i \in DOMAIN orders, orders[i] = Sale(auctions, a)
      PROVE  IsSold(auctions[a])
  BY <1>2, <1>3, <1>4
<1> QED
  BY <1>1, <1>3, <1>4 DEF MockOK, Fit, OrdersAreSales

-----------------------------------------------------------------------------
(* Calls.                                                                   *)

LEMMA KindsOfCalls ==
  ASSUME NEW k \in Calls
  PROVE  /\ k # None /\ k.by \in Users \cup {None} /\ k.of \in {"page", "nobody"}
         /\ k.kind \in {"me", "login", "list", "orders", "status", "cancel"}
         /\ k.kind = "me" => k.answer \in Users \cup {E401, None}
         /\ k.kind = "login" => k.answer \in Users \cup {None}
         /\ k.kind = "list" => k.arg \in Tab /\ k.answer \in {None} \cup SUBSET Listed
         /\ k.kind = "status" => k.arg \in DOMAIN Fixture /\ k.answer \in {None, Refused} \cup Answers
         /\ k.kind = "cancel" => k.arg \in [id : DOMAIN Fixture, tab : Tab \cup {None}]
BY CallAssumption DEF Calls, Asked

LEMMA NewCalls ==
  ASSUME NEW user \in Users \cup {None}
  PROVE  /\ Call("me", None, user) \in Calls
         /\ \A t \in Tab : Call("list", t, user) \in Calls /\ Call("orders", t, user) \in Calls
         /\ \A a \in DOMAIN Fixture : Call("status", a, user) \in Calls
         /\ \A a \in DOMAIN Fixture, t \in Tab \cup {None} :
              Call("cancel", [id |-> a, tab |-> t], user) \in Calls
         /\ \A u \in Users : [Call("login", u, user) EXCEPT !.answer = u] \in Calls
BY DEF Calls, Asked, Call

\* A call that is answered, or left.
LEMMA AnsweredCall ==
  ASSUME NEW k \in Calls, NEW x,
         \/ k.kind = "me" /\ x \in Users \cup {E401}
         \/ k.kind = "list" /\ x \in SUBSET Listed
         \/ k.kind = "orders" /\ x \in {E401} \cup SUBSET Nat
         \/ k.kind = "status" /\ x \in {Refused} \cup Answers
         \/ k.kind = "cancel" /\ x \in {"ok", E401, Refused}
  PROVE  LET l == [k EXCEPT !.answer = x]
         IN  l \in Calls /\ l.kind = k.kind /\ l.arg = k.arg /\ l.of = k.of /\ l.answer = x
BY DEF Calls, Asked

LEMMA LeftCall ==
  ASSUME NEW k \in Calls \cup {None}, Left(k) # None
  PROVE  /\ k \in Calls /\ Left(k) \in Calls /\ Left(k).kind = k.kind
         /\ k.kind \in {"me", "login", "orders", "cancel"}
         /\ k.kind \in {"orders", "cancel"} => Left(k).of = "nobody"
<1>1. k \in Calls /\ k.kind \in {"me", "login", "orders", "cancel"}
  BY KindsOfCalls DEF Left
<1>2. CASE k.kind \in {"me", "login"}
  BY <1>1, <1>2 DEF Left
<1>3. CASE k.kind \in {"orders", "cancel"}
  <2> DEFINE l == [k EXCEPT !.of = "nobody"]
  <2>1. Left(k) = l
    BY <1>1, <1>3, CallAssumption DEF Left
  <2>2. l \in Calls /\ l.kind = k.kind /\ l.of = "nobody"
    BY <1>1 DEF Calls, Asked
  <2> QED
    BY <1>1, <1>3, <2>1, <2>2
<1> QED
  BY <1>1, <1>2, <1>3

-----------------------------------------------------------------------------
(* Pages.                                                                   *)

LEMMA ShownBy ==
  ASSUME NEW a \in Auths, NEW p \in Places
  PROVE  /\ Shown(a, p) \in {"login", "spin", "forbidden", "auctions", "orders", "monitor"}
         /\ Shown(a, p) = "auctions" => p = List
         /\ Shown(a, p) = "orders" => p = Orders
         /\ Shown(a, p) = "monitor" => \E i \in DOMAIN Fixture : p = Monitor(i)
         /\ p = Login => Shown(a, p) = "login"
BY DEF Shown, Places, Login, List, Orders, Monitor, Auths

\* The first call of a page.
LEMMA FirstCallFits ==
  ASSUME NEW a \in Auths, NEW p \in Places, NEW user \in Users \cup {None},
         FirstCall(Shown(a, p), p, user) # None
  PROVE  LET k == FirstCall(Shown(a, p), p, user)
         IN  /\ k \in Calls /\ k.of = "page" /\ k.answer = None
             /\ \/ k.kind = "list" /\ Shown(a, p) = "auctions"
                \/ k.kind = "orders" /\ Shown(a, p) = "orders"
                \/ k.kind = "status" /\ Shown(a, p) = "monitor" /\ k.arg = p.id
<1>1. CASE Shown(a, p) = "auctions"
  BY <1>1, NewCalls DEF FirstCall, Tab, Call
<1>2. CASE Shown(a, p) = "orders"
  BY <1>2, NewCalls DEF FirstCall, Tab, Call
<1>3. CASE Shown(a, p) = "monitor"
  <2>1. PICK i \in DOMAIN Fixture : p = Monitor(i)
    BY <1>3, ShownBy
  <2>2. p.id = i
    BY <2>1 DEF Monitor
  <2>3. FirstCall(Shown(a, p), p, user) = Call("status", i, user)
    BY <1>3, <2>2 DEF FirstCall
  <2>4. FirstCall(Shown(a, p), p, user) \in Calls
    BY <2>3, NewCalls
  <2> QED
    BY <1>3, <2>2, <2>3, <2>4 DEF Call
<1> QED
  BY <1>1, <1>2, <1>3, ShownBy DEF FirstCall

PagesOK == PlaceOK /\ ViewOK /\ CallsOK /\ LoadingEnds

\* A page that is mounted: nothing is celebrated yet, and what it asks for is
\* under way.
LEMMA Mounted ==
  ASSUME MockOK', PlaceOK, CallsOK, PlaceOK',
         NEW a \in Auths, NEW p \in Places, NEW user \in Users \cup {None}, NEW c \in Slots,
         Page' = Shown(a, p), Shown(a, p) # "login" => path' = p,
         view' = FreshView(Shown(a, p), p),
         calls' = [d \in Slots |-> IF d = c THEN FirstCall(Shown(a, p), p, user) ELSE Left(calls[d])],
         \A d \in Slots \ {c} : ~Free(d) => calls[d].kind # "login"
  PROVE  PagesOK'
<1> DEFINE shown == Shown(a, p)
<1>1. ViewOK'
  BY ShownBy DEF ViewOK, FreshView, Tab, Monitor
<1>2. ASSUME NEW d \in Slots, calls'[d] # None
      PROVE  calls'[d] \in Calls /\ calls'[d].kind # "login"
             /\ Belongs(calls'[d], Page', path', view'.loading, auctions')
  <2>1. CASE d = c
    <3>1. calls'[d] = FirstCall(shown, p, user)
      BY <2>1
    <3> QED
      BY <1>2, <3>1, FirstCallFits DEF Belongs
  <2>2. CASE d # c
    <3>1. calls'[d] = Left(calls[d]) /\ calls[d] \in Calls \cup {None}
      BY <2>2 DEF CallsOK
    <3>2. /\ calls[d] \in Calls /\ calls'[d] \in Calls /\ calls'[d].kind = calls[d].kind
          /\ calls[d].kind \in {"me", "login", "orders", "cancel"}
          /\ calls[d].kind \in {"orders", "cancel"} => calls'[d].of = "nobody"
      BY <1>2, <3>1, LeftCall
    <3>3. calls[d].kind # "login"
      BY <2>2, <3>2, KindsOfCalls DEF Free
    <3> QED
      BY <3>2, <3>3 DEF Belongs
  <2> QED
    BY <2>1, <2>2
<1>3. CallsOK'
  BY <1>2 DEF CallsOK, Free
<1>4. LoadingEnds'
  <2> SUFFICES ASSUME shown \in {"auctions", "orders"}
               PROVE  (\E d \in Slots : ~Free(d) /\ calls[d].kind \in {"list", "orders"} /\ OfPage(d))'
    BY DEF LoadingEnds
  <2>1. calls'[c] = FirstCall(shown, p, user)
    OBVIOUS
  <2>2. FirstCall(shown, p, user) \in Calls
    BY NewCalls DEF FirstCall, Tab
  <2>3. calls'[c] # None /\ calls'[c].kind \in {"list", "orders"} /\ calls'[c].of = "page"
    BY <2>1, <2>2, KindsOfCalls DEF FirstCall, Call
  <2> QED
    BY <2>3 DEF Free, OfPage
<1> QED
  BY <1>1, <1>3, <1>4 DEF PagesOK

\* What was so earlier still is.
LEMMA EarlierStill ==
  ASSUME MockOK, MockOK', Onward, NEW i \in DOMAIN Fixture, NEW s, Earlier(s, auctions[i])
  PROVE  Earlier(s, auctions'[i])
<1>1. auctions[i].end \in Nat /\ auctions'[i].end \in Nat
  BY DEF MockOK, Fit, Auctions
<1> QED
  BY <1>1 DEF Onward, Earlier

LEMMA MonitorOf ==
  ASSUME PlaceOK, Page = "monitor"
  PROVE  path.id \in DOMAIN Fixture
BY ShownBy DEF PlaceOK, Page, Monitor

\* A page that stays, under which the auctions move on.
LEMMA Watched ==
  ASSUME MockOK, MockOK', Onward, PagesOK, path' = path, Page' = Page, view' = view
  PROVE  ViewOK'
<1>1. CASE Page = "monitor"
  <2>1. path.id \in DOMAIN Fixture
    BY <1>1, MonitorOf DEF PagesOK
  <2>2. auctions[path.id].end \in Nat /\ auctions'[path.id].end \in Nat
    BY <2>1 DEF MockOK, Fit, Auctions
  <2>3. view.extend => auctions'[path.id].end > Lifetime
    BY <1>1, <2>1, <2>2, MockAssumption DEF PagesOK, ViewOK, Onward
  <2>4. view.win => auctions'[path.id].status = "ended"
    BY <1>1, <2>1 DEF PagesOK, ViewOK, Onward
  <2>5. view.snap # None => Earlier(view.snap, auctions'[path.id])
    BY <1>1, <2>1, EarlierStill DEF PagesOK, ViewOK
  <2> QED
    BY <1>1, <2>3, <2>4, <2>5 DEF PagesOK, ViewOK
<1>2. CASE Page # "monitor"
  BY <1>2 DEF PagesOK, ViewOK
<1> QED
  BY <1>1, <1>2

\* Of the calls of a page that stays, one changes.
LEMMA OneCall ==
  ASSUME MockOK, MockOK', Onward, PagesOK, path' = path, Page' = Page,
         NEW c \in Slots, NEW k \in Calls \cup {None}, calls' = [calls EXCEPT ![c] = k],
         k # None => Belongs(k, Page, path, view'.loading, auctions'),
         k # None /\ k.kind = "login" =>
           \A d \in Slots \ {c} : ~Free(d) => calls[d].kind # "login",
         (\E d \in Slots \ {c} : ~Free(d) /\ calls[d].kind = "login") => view'.loading = view.loading
  PROVE  CallsOK'
<1>0. calls \in [Slots -> Calls \cup {None}]
  BY DEF PagesOK, CallsOK
<1>1. calls'[c] = k /\ \A d \in Slots \ {c} : calls'[d] = calls[d]
  BY <1>0
<1>2. ASSUME NEW d \in Slots \ {c}, ~Free(d)
      PROVE  Belongs(calls[d], Page, path, view'.loading, auctions')
  <2>1. Belongs(calls[d], Page, path, view.loading, auctions)
    BY <1>2 DEF PagesOK, CallsOK
  <2>2. calls[d].kind = "status" => path.id \in DOMAIN Fixture
    BY <2>1, MonitorOf DEF Belongs, PagesOK
  <2>3. calls[d].kind = "status" /\ calls[d].answer \notin {None, Refused} =>
          Earlier(calls[d].answer, auctions'[path.id])
    BY <2>1, <2>2, EarlierStill DEF Belongs
  <2> QED
    BY <1>2, <2>1, <2>3 DEF Belongs
<1>3. \A d \in Slots : calls'[d] # None =>
        Belongs(calls'[d], Page', path', view'.loading, auctions')
  BY <1>1, <1>2 DEF Free
<1>4. calls' \in [Slots -> Calls \cup {None}]
  BY <1>0
<1>5. ASSUME NEW d \in Slots, NEW e \in Slots, calls'[d] # None, calls'[e] # None,
             calls'[d].kind = "login", calls'[e].kind = "login"
      PROVE  d = e
  BY <1>1, <1>5 DEF Free, PagesOK, CallsOK
<1> QED
  BY <1>3, <1>4, <1>5 DEF CallsOK, Free

\* A list that loads still waits for a call.
LEMMA StillWaits ==
  ASSUME PagesOK, Page' = Page,
         NEW c \in Slots, NEW k \in Calls \cup {None}, calls' = [calls EXCEPT ![c] = k],
         Page \in {"auctions", "orders"} =>
           \/ ~view'.loading
           \/ k # None /\ k.kind \in {"list", "orders"} /\ k.of = "page"
           \/ /\ view'.loading = view.loading
              /\ Free(c) \/ calls[c].kind \notin {"list", "orders"} \/ ~OfPage(c)
  PROVE  LoadingEnds'
<1>0. calls \in [Slots -> Calls \cup {None}]
  BY DEF PagesOK, CallsOK
<1>1. calls'[c] = k /\ \A d \in Slots \ {c} : calls'[d] = calls[d]
  BY <1>0
<1> SUFFICES ASSUME Page \in {"auctions", "orders"}, view'.loading
             PROVE  \E d \in Slots : calls'[d] # None /\ calls'[d].kind \in {"list", "orders"}
                                     /\ calls'[d].of = "page"
  BY DEF LoadingEnds, Free, OfPage
<1>2. CASE k # None /\ k.kind \in {"list", "orders"} /\ k.of = "page"
  BY <1>1, <1>2
<1>3. CASE /\ view'.loading = view.loading
           /\ Free(c) \/ calls[c].kind \notin {"list", "orders"} \/ ~OfPage(c)
  <2>1. PICK d \in Slots : ~Free(d) /\ calls[d].kind \in {"list", "orders"} /\ OfPage(d)
    BY <1>3 DEF PagesOK, LoadingEnds
  <2>2. d # c
    BY <1>3, <2>1
  <2> QED
    BY <1>1, <2>1, <2>2 DEF Free, OfPage
<1> QED
  BY <1>2, <1>3

-----------------------------------------------------------------------------
(* The steps of the console.                                                *)

\* Where a session that changes lands.
LEMMA LandKeeps ==
  ASSUME MockOK, PagesOK, UNCHANGED mock, NEW a \in Auths, NEW p \in Places,
         NEW user \in Users \cup {None}, NEW c \in Slots, Land(a, p, user, c),
         token' \in Users \cup {None},
         Free(c) \/ calls[c].kind \in {"me", "login"} \/ path = Login,
         \A d \in Slots \ {c} : ~Free(d) /\ calls[d].kind = "login" => p = Login
  PROVE  PagesOK'
<1> DEFINE shown == Shown(a, p)
           away == shown = "login" /\ p # Login
           there == IF away THEN Login ELSE p
           same == there = path /\ shown = Page
<1>0. MockOK' /\ Onward
  BY SameMock
<1>1. auth' = a /\ path' = there /\ from' = IF away THEN p ELSE from
  BY DEF Land
<1>2. Login \in Places /\ Page' = shown
  BY <1>1, ShownBy DEF Places, Page, Auths
<1>3. PlaceOK'
  BY <1>1, <1>2 DEF PagesOK, PlaceOK
<1>4. \A d \in Slots : ~Free(d) /\ calls[d].kind = "login" => path = Login
  BY DEF PagesOK, CallsOK, Belongs
<1>5. CASE same
  <2>1. path' = path /\ Page' = Page /\ view' = view /\ calls' = [calls EXCEPT ![c] = None]
    BY <1>1, <1>2, <1>5 DEF Land, Page
  <2>2. Page \in {"auctions", "orders"} => path # Login
    BY ShownBy DEF PagesOK, PlaceOK, Page
  <2>3. ViewOK'
    BY <1>0, <2>1, Watched
  <2>4. CallsOK'
    BY <1>0, <2>1, OneCall
  <2>5. LoadingEnds'
    BY <2>1, <2>2, StillWaits
  <2> QED
    BY <1>3, <2>3, <2>4, <2>5 DEF PagesOK
<1>6. CASE ~same
  <2>1. /\ view' = FreshView(shown, p)
        /\ calls' = [d \in Slots |-> IF d = c THEN FirstCall(shown, p, user) ELSE Left(calls[d])]
    BY <1>6 DEF Land, Page
  <2>2. \A d \in Slots \ {c} : ~Free(d) => calls[d].kind # "login"
    <3> SUFFICES ASSUME NEW d \in Slots \ {c}, ~Free(d), calls[d].kind = "login" PROVE FALSE
      OBVIOUS
    <3>1. p = Login /\ path = Login
      BY <1>4
    <3>2. shown = "login" /\ Page = "login"
      BY <3>1, ShownBy DEF PagesOK, PlaceOK, Page
    <3> QED
      BY <1>6, <3>1, <3>2
  <2>3. shown # "login" => path' = p
    BY <1>1
  <2> QED
    BY <1>0, <1>2, <1>3, <2>1, <2>2, <2>3, Mounted DEF PagesOK
<1> QED
  BY <1>5, <1>6

\* The tab is loaded: what was under way is gone.
LEMMA LoadKeeps ==
  ASSUME NEW p \in Places, NEW origin \in Places \ {Login}, NEW user \in Users \cup {None},
         NEW c \in Slots, Load(p, origin, user, c), token' = user
  PROVE  MockOK' /\ PagesOK'
<1>1. MockOK'
  BY MockRestarts DEF Load
<1>2. /\ auth' = Started(user) /\ path' = IF user = None THEN Login ELSE p
      /\ from' = IF user = None /\ p # Login THEN p ELSE origin
      /\ view' = FreshView(Page', path')
      /\ calls' = [d \in Slots |-> IF d = c /\ user # None THEN Call("me", None, user) ELSE None]
  BY DEF Load, Page
<1>3. auth' \in Auths /\ path' \in Places
  BY <1>2 DEF Started, Auths, Places
<1>4. Page' \in {"login", "spin"} /\ (Page' = "login" => path' = Login)
  BY <1>2, MockAssumption DEF Page, Shown, Started, Login
<1>5. PlaceOK'
  BY <1>2, <1>3, <1>4 DEF PlaceOK
<1>6. ViewOK'
  BY <1>2, <1>4 DEF ViewOK, FreshView
<1>7. \A d \in Slots : calls'[d] # None => calls'[d] = Call("me", None, user)
  BY <1>2
<1>8. Call("me", None, user) \in Calls /\ Call("me", None, user).kind = "me"
  BY NewCalls DEF Call
<1>9. CallsOK'
  BY <1>2, <1>7, <1>8 DEF CallsOK, Free, Belongs
<1>10. LoadingEnds'
  BY <1>4 DEF LoadingEnds
<1> QED
  BY <1>1, <1>5, <1>6, <1>9, <1>10 DEF PagesOK

\* What the seller does on a page that stays.
LEMMA SubmitKeeps ==
  ASSUME MockOK, PagesOK, NEW c \in Slots, SubmitLogin(c)
  PROVE  MockOK' /\ PagesOK'
<1>1. PICK user \in Users :
        /\ LoginStep(user)
        /\ calls' = [calls EXCEPT ![c] = [Call("login", user, token) EXCEPT !.answer = user]]
  BY DEF SubmitLogin
<1> DEFINE k == [Call("login", user, token) EXCEPT !.answer = user]
<1>2. /\ Page = "login" /\ ~view.loading /\ Free(c)
      /\ view' = [view EXCEPT !.loading = TRUE] /\ UNCHANGED <<token, auth, path, from>>
  BY DEF SubmitLogin, session
<1>3. MockOK' /\ Onward
  BY <1>1, SameAuctions DEF LoginStep, MockOK
<1>4. Page' = Page /\ path = Login /\ token \in Users \cup {None}
  BY <1>2 DEF Page, PagesOK, PlaceOK
<1>5. k \in Calls
  BY <1>4, NewCalls
<1>6. k.kind = "login"
  BY DEF Call
<1>7. DOMAIN view' = {"loading"} /\ view'.loading = TRUE
  BY <1>2 DEF PagesOK, ViewOK
<1>8. PlaceOK' /\ ViewOK'
  BY <1>2, <1>4, <1>7 DEF PagesOK, PlaceOK, ViewOK
<1>9. \A d \in Slots : ~Free(d) => calls[d].kind # "login"
  BY <1>2 DEF PagesOK, CallsOK, Belongs
<1> HIDE DEF k
<1>10. k # None => Belongs(k, Page, path, view'.loading, auctions')
  BY <1>4, <1>6, <1>7 DEF Belongs
<1>11. calls' = [calls EXCEPT ![c] = k]
  BY <1>1 DEF k
<1>12. CallsOK'
  BY <1>2, <1>3, <1>4, <1>5, <1>9, <1>10, <1>11, OneCall
<1>13. LoadingEnds'
  BY <1>2, <1>4 DEF LoadingEnds
<1> QED
  BY <1>3, <1>8, <1>12, <1>13 DEF PagesOK

\* A call that is made on a page that does not change.
LEMMA AskKeeps ==
  ASSUME MockOK, PagesOK, UNCHANGED <<mock, session, view>>, NEW c \in Slots,
         Free(c) \/ calls[c].kind \notin {"list", "orders"},
         NEW k \in Calls, calls' = [calls EXCEPT ![c] = k], k.kind # "login",
         Belongs(k, Page, path, view.loading, auctions)
  PROVE  MockOK' /\ PagesOK'
<1>1. MockOK' /\ Onward /\ auctions' = auctions
  BY SameMock DEF mock
<1>2. UNCHANGED <<token, auth, path, from>> /\ Page' = Page /\ view' = view
  BY DEF session, Page
<1>3. PlaceOK'
  BY <1>2 DEF PagesOK, PlaceOK
<1>4. ViewOK'
  BY <1>1, <1>2, Watched
<1>5. CallsOK'
  BY <1>1, <1>2, OneCall
<1>6. LoadingEnds'
  BY <1>2, StillWaits
<1> QED
  BY <1>1, <1>3, <1>4, <1>5, <1>6 DEF PagesOK

LEMMA ChooseKeeps ==
  ASSUME MockOK, PagesOK, NEW c \in Slots, Choose(c)
  PROVE  MockOK' /\ PagesOK'
<1>1. PICK tab \in Tabs \ {view.tab} :
        /\ view' = [view EXCEPT !.tab = tab, !.loading = TRUE]
        /\ Ask(c, IF Page = "auctions" THEN "list" ELSE "orders", tab)
  BY DEF Choose
<1> DEFINE kind == IF Page = "auctions" THEN "list" ELSE "orders"
           k == Call(kind, tab, token)
<1>2. MockOK' /\ Onward /\ auctions' = auctions
  BY SameMock DEF Choose, mock
<1>3. /\ UNCHANGED <<token, auth, path, from>> /\ Page' = Page
      /\ Page \in {"auctions", "orders"} /\ Free(c)
  BY DEF Choose, session, Page
<1>4. PlaceOK' /\ token \in Users \cup {None}
  BY <1>3 DEF PagesOK, PlaceOK
<1>5. /\ DOMAIN view' = {"tab", "rows", "loading"} /\ view'.tab = tab /\ view'.rows = view.rows
      /\ view'.loading = TRUE
  BY <1>1, <1>3 DEF PagesOK, ViewOK
<1>6. ViewOK'
  BY <1>3, <1>5 DEF PagesOK, ViewOK, Tab
<1>7. k \in Calls
  BY <1>4, NewCalls DEF Tab
<1>8. k.kind = kind /\ k.of = "page"
  BY DEF Call
<1>9. calls' = [calls EXCEPT ![c] = k]
  BY <1>1 DEF Ask
<1>10. \A d \in Slots : ~Free(d) => calls[d].kind # "login"
  <2>1. path # Login
    BY <1>3, ShownBy DEF PagesOK, PlaceOK, Page
  <2> QED
    BY <2>1 DEF PagesOK, CallsOK, Belongs
<1> HIDE DEF k
<1>11. Belongs(k, Page, path, view'.loading, auctions')
  BY <1>3, <1>8 DEF Belongs
<1>12. CallsOK'
  BY <1>2, <1>3, <1>7, <1>8, <1>9, <1>10, <1>11, OneCall
<1>13. LoadingEnds'
  BY <1>3, <1>7, <1>8, <1>9, KindsOfCalls, StillWaits
<1> QED
  BY <1>2, <1>4, <1>6, <1>12, <1>13 DEF PagesOK

LEMMA CancelPageKeeps ==
  ASSUME MockOK, PagesOK, NEW c \in Slots, Cancel(c)
  PROVE  MockOK' /\ PagesOK'
<1>1. Free(c) /\ UNCHANGED <<mock, session, view>> /\ token \in Users \cup {None}
  BY DEF Cancel, PagesOK, PlaceOK
<1>2. CASE Page = "auctions"
  <2>1. PICK r \in view.rows : Ask(c, "cancel", [id |-> r.id, tab |-> view.tab])
    BY <1>2 DEF Cancel
  <2> DEFINE k == Call("cancel", [id |-> r.id, tab |-> view.tab], token)
  <2>2. r.id \in DOMAIN Fixture /\ view.tab \in Tab
    BY <1>2 DEF PagesOK, ViewOK, Listed
  <2>3. k \in Calls
    BY <1>1, <2>2, NewCalls
  <2>4. k.kind = "cancel" /\ k.of = "page" /\ k.arg.tab = view.tab
    BY DEF Call
  <2>5. calls' = [calls EXCEPT ![c] = k]
    BY <2>1 DEF Ask
  <2> HIDE DEF k
  <2>6. Belongs(k, Page, path, view.loading, auctions)
    BY <1>2, <2>2, <2>4 DEF Belongs
  <2> QED
    BY <1>1, <2>3, <2>4, <2>5, <2>6, AskKeeps
<1>3. CASE Page = "monitor"
  <2>1. Ask(c, "cancel", [id |-> path.id, tab |-> None])
    BY <1>3 DEF Cancel
  <2> DEFINE k == Call("cancel", [id |-> path.id, tab |-> None], token)
  <2>2. path.id \in DOMAIN Fixture
    BY <1>3, MonitorOf DEF PagesOK
  <2>3. k \in Calls
    BY <1>1, <2>2, NewCalls
  <2>4. k.kind = "cancel"
    BY DEF Call
  <2>5. calls' = [calls EXCEPT ![c] = k]
    BY <2>1 DEF Ask
  <2> HIDE DEF k
  <2>6. Belongs(k, Page, path, view.loading, auctions)
    BY <1>3, <2>4 DEF Belongs
  <2> QED
    BY <1>1, <2>3, <2>4, <2>5, <2>6, AskKeeps
<1> QED
  BY <1>2, <1>3 DEF Cancel

\* The monitor polls, on its interval or after a cancellation.
LEMMA PollKeeps ==
  ASSUME MockOK, PagesOK, NEW c \in Slots, Page = "monitor", Ask(c, "status", path.id),
         Free(c) \/ calls[c].kind \notin {"list", "orders"}, UNCHANGED <<mock, session, view>>
  PROVE  MockOK' /\ PagesOK'
<1> DEFINE k == Call("status", path.id, token)
<1>1. token \in Users \cup {None} /\ path.id \in DOMAIN Fixture
  BY MonitorOf DEF PagesOK, PlaceOK
<1>2. k \in Calls
  BY <1>1, NewCalls
<1>3. k.kind = "status" /\ k.arg = path.id /\ k.answer = None
  BY DEF Call
<1>4. calls' = [calls EXCEPT ![c] = k]
  BY DEF Ask
<1> HIDE DEF k
<1>5. Belongs(k, Page, path, view.loading, auctions)
  BY <1>3 DEF Belongs
<1> QED
  BY <1>2, <1>3, <1>4, <1>5, AskKeeps

LEMMA FollowKeeps ==
  ASSUME MockOK, PagesOK, NEW c \in Slots, Follow(c)
  PROVE  MockOK' /\ PagesOK'
<1>1. PICK p \in {List, Orders} \cup
           (IF Page = "auctions"
            THEN {Monitor(r.id) : r \in {s \in view.rows : s.status = "active"}} ELSE {}) :
        Land(auth, p, token, c)
  BY DEF Follow
<1>2. p \in Places
  BY <1>1 DEF PagesOK, ViewOK, Listed, Places
<1>3. Free(c) /\ UNCHANGED mock /\ token' = token /\ Page \in {"auctions", "orders", "monitor"}
  BY DEF Follow
<1>4. path # Login
  BY <1>3, ShownBy DEF PagesOK, PlaceOK, Page
<1>5. \A d \in Slots \ {c} : ~(~Free(d) /\ calls[d].kind = "login")
  BY <1>4 DEF PagesOK, CallsOK, Belongs
<1>6. auth \in Auths /\ token \in Users \cup {None}
  BY DEF PagesOK, PlaceOK
<1>7. PagesOK'
  BY <1>1, <1>2, <1>3, <1>5, <1>6, LandKeeps
<1> QED
  BY <1>3, <1>7, SameMock

\* A message is taken off the monitor.
LEMMA CloseKeeps ==
  ASSUME MockOK, PagesOK, Close
  PROVE  MockOK' /\ PagesOK'
<1>1. /\ Page = "monitor" /\ UNCHANGED <<token, auth, path, from>> /\ Page' = Page
      /\ calls' = calls
  BY DEF Close, session, Page
<1>2. MockOK' /\ auctions' = auctions
  BY SameMock DEF Close, mock
<1>3. /\ DOMAIN view' = {"snap", "error", "extend", "win"} /\ view'.snap = view.snap
      /\ (view'.win => view.win) /\ (view'.extend => view.extend)
  BY <1>1 DEF Close, PagesOK, ViewOK
<1>4. PlaceOK' /\ ViewOK'
  BY <1>1, <1>2, <1>3 DEF PagesOK, PlaceOK, ViewOK
<1>5. path # Login
  BY <1>1, ShownBy DEF PagesOK, PlaceOK, Page
<1>6. CallsOK'
  BY <1>1, <1>2, <1>5 DEF PagesOK, CallsOK, Belongs, Free
<1>7. LoadingEnds'
  BY <1>1 DEF LoadingEnds
<1> QED
  BY <1>2, <1>4, <1>6, <1>7 DEF PagesOK

\* Only the auctions move on.
LEMMA UnseenKeeps ==
  ASSUME MockOK, MockOK', Onward, PagesOK, UNCHANGED <<session, view, calls>>
  PROVE  PagesOK'
<1>1. UNCHANGED <<token, auth, path, from>> /\ Page' = Page /\ calls' = calls /\ view' = view
  BY DEF session, Page
<1>2. PlaceOK' /\ LoadingEnds'
  BY <1>1 DEF PagesOK, PlaceOK, LoadingEnds, Free, OfPage
<1>3. ViewOK'
  BY <1>1, Watched
<1>4. ASSUME NEW c \in Slots, ~Free(c)
      PROVE  Belongs(calls[c], Page, path, view.loading, auctions')
  <2>1. Belongs(calls[c], Page, path, view.loading, auctions)
    BY <1>4 DEF PagesOK, CallsOK
  <2>2. calls[c].kind = "status" => path.id \in DOMAIN Fixture
    BY <2>1, MonitorOf DEF Belongs, PagesOK
  <2> QED
    BY <2>1, <2>2, EarlierStill DEF Belongs
<1>5. CallsOK'
  BY <1>1, <1>4 DEF PagesOK, CallsOK, Free
<1> QED
  BY <1>2, <1>3, <1>5 DEF PagesOK

-----------------------------------------------------------------------------
(* The server's side.                                                       *)

LEMMA AnswerKeeps ==
  ASSUME MockOK, MockOK', Onward, PagesOK, UNCHANGED <<session, view>>,
         NEW c \in Slots, ~Free(c), NEW x, Answered(c, x),
         \/ calls[c].kind = "me" /\ x \in Users \cup {E401}
         \/ calls[c].kind = "list" /\ x \in SUBSET Listed
         \/ calls[c].kind = "orders" /\ x \in {E401} \cup SUBSET Nat
         \/ calls[c].kind = "status" /\ x \in {Refused} \cup Answers
         \/ calls[c].kind = "cancel" /\ x \in {"ok", E401, Refused},
         calls[c].kind = "status" /\ x # Refused => Earlier(x, auctions'[path.id])
  PROVE  PagesOK'
<1> DEFINE k == [calls[c] EXCEPT !.answer = x]
<1>1. UNCHANGED <<token, auth, path, from>> /\ Page' = Page /\ view' = view
  BY DEF session, Page
<1>2. calls[c] \in Calls
  BY DEF PagesOK, CallsOK, Free
<1>3. k \in Calls /\ k.kind = calls[c].kind /\ k.arg = calls[c].arg /\ k.of = calls[c].of
      /\ k.answer = x
  BY <1>2, AnsweredCall
<1>4. calls' = [calls EXCEPT ![c] = k]
  BY DEF Answered
<1> HIDE DEF k
<1>5. Belongs(calls[c], Page, path, view.loading, auctions)
  BY DEF PagesOK, CallsOK
<1>6. Belongs(k, Page, path, view.loading, auctions')
  BY <1>3, <1>5 DEF Belongs
<1>7. CallsOK'
  BY <1>1, <1>3, <1>4, <1>6, OneCall
<1>8. LoadingEnds'
  <2>1. k # None
    BY <1>3, KindsOfCalls
  <2>2. CASE calls[c].kind \in {"list", "orders"} /\ OfPage(c)
    BY <1>1, <1>3, <1>4, <2>1, <2>2, StillWaits DEF OfPage
  <2>3. CASE ~(calls[c].kind \in {"list", "orders"} /\ OfPage(c))
    BY <1>1, <1>3, <1>4, <2>3, StillWaits
  <2> QED
    BY <2>2, <2>3
<1>9. PlaceOK' /\ ViewOK'
  BY <1>1, Watched DEF PagesOK, PlaceOK
<1> QED
  BY <1>7, <1>8, <1>9 DEF PagesOK

LEMMA ServeKeeps ==
  ASSUME MockOK, PagesOK, NEW c \in Slots, Serve(c)
  PROVE  MockOK' /\ PagesOK'
<1> DEFINE k == calls[c]
<1>1. ~Free(c) /\ UNCHANGED <<session, view>> /\ k \in Calls
  BY DEF Serve, PagesOK, CallsOK, Free
<1>2. Ids = DOMAIN Fixture /\ users \subseteq Users
  BY DEF MockOK, Fit, Ids
<1>3. \A a \in DOMAIN Fixture :
        auctions[a] \in Auctions /\ auctions[a].end \in Nat /\ auctions[a].end >= Lifetime
  BY DEF MockOK, Fit, Auctions
<1>4. CASE ServeCancel(c)
  <2>1. k.kind = "cancel" /\ CancelStep(k.by, k.arg.id) /\ Answered(c, CancelAnswer(k.by, k.arg.id))
    BY <1>4 DEF ServeCancel
  <2>2. MockOK' /\ Onward
    BY <2>1, CancelKeeps
  <2>3. CancelAnswer(k.by, k.arg.id) \in {"ok", E401, Refused}
    BY DEF CancelAnswer, Verdict
  <2> QED
    BY <1>1, <2>1, <2>2, <2>3, AnswerKeeps
<1>5. CASE ServeRead(c)
  <2>1. MockOK' /\ Onward /\ auctions' = auctions
    BY <1>5, SameMock DEF ServeRead, mock
  <2>2. CASE k.kind = "me" /\ Answered(c, MeAnswer(k.by))
    <3>1. MeAnswer(k.by) \in Users \cup {E401}
      BY <1>2 DEF MeAnswer, Known
    <3> QED
      BY <1>1, <2>1, <2>2, <3>1, AnswerKeeps
  <2>3. CASE k.kind = "list" /\ Answered(c, ListAnswer(k.by, k.arg))
    <3>1. ListAnswer(k.by, k.arg) \in SUBSET Listed
      BY <1>2, <1>3 DEF ListAnswer, Listed, Auctions
    <3> QED
      BY <1>1, <2>1, <2>3, <3>1, AnswerKeeps
  <2>4. CASE k.kind = "orders" /\ Answered(c, OrdersAnswer(k.by))
    <3>1. DOMAIN orders \subseteq Nat
      BY DEF MockOK, Fit
    <3>2. OrdersAnswer(k.by) \in {E401} \cup SUBSET Nat
      BY <3>1 DEF OrdersAnswer
    <3> QED
      BY <1>1, <2>1, <2>4, <3>2, AnswerKeeps
  <2>5. CASE k.kind = "status" /\ Answered(c, StatusAnswer(k.arg))
    <3>1. k.arg \in DOMAIN Fixture /\ k.arg = path.id
      BY <1>1, <2>5, KindsOfCalls DEF PagesOK, CallsOK, Belongs
    <3> DEFINE x == StatusAnswer(k.arg)
    <3>2. x = [status |-> auctions[path.id].status, end |-> auctions[path.id].end]
      BY <1>2, <3>1 DEF StatusAnswer
    <3> HIDE DEF x
    <3>3. x \in Answers /\ Earlier(x, auctions[path.id])
      BY <1>3, <3>1, <3>2, MockAssumption DEF Answers, Earlier, Auctions
    <3> QED
      BY <1>1, <2>1, <2>5, <3>3, AnswerKeeps DEF x
  <2> QED
    BY <1>5, <2>2, <2>3, <2>4, <2>5 DEF ServeRead
<1> QED
  BY <1>4, <1>5 DEF Serve

-----------------------------------------------------------------------------
(* Answers and failures.                                                    *)

\* A call is over that changes nothing of what is shown.
LEMMA DoneKeeps ==
  ASSUME MockOK, PagesOK, NEW c \in Slots, Done(c), UNCHANGED <<mock, session, view>>,
         ~Free(c), calls[c].kind \notin {"list", "orders"} \/ ~OfPage(c)
  PROVE  MockOK' /\ PagesOK'
<1>1. MockOK' /\ Onward
  BY SameMock
<1>2. /\ UNCHANGED <<token, auth, path, from>> /\ Page' = Page /\ view' = view
      /\ calls' = [calls EXCEPT ![c] = None]
  BY DEF session, Page, Done
<1>3. PlaceOK' /\ ViewOK'
  BY <1>1, <1>2, Watched DEF PagesOK, PlaceOK
<1>4. CallsOK'
  BY <1>1, <1>2, OneCall
<1>5. LoadingEnds'
  BY <1>2, StillWaits
<1> QED
  BY <1>1, <1>3, <1>4, <1>5 DEF PagesOK

\* A call is over, and the page that stays shows it.
LEMMA ShownKeeps ==
  ASSUME MockOK, PagesOK, NEW c \in Slots, ~Free(c), Done(c), UNCHANGED <<mock, path, from>>,
         PlaceOK', Page' = Page, ViewOK',
         Page \in {"auctions", "orders"} => ~view'.loading,
         \A d \in Slots \ {c} : ~Free(d) => calls[d].kind # "login"
  PROVE  MockOK' /\ PagesOK'
<1>1. MockOK' /\ Onward
  BY SameMock
<1>2. calls' = [calls EXCEPT ![c] = None]
  BY DEF Done
<1>3. CallsOK'
  BY <1>1, <1>2, OneCall
<1>4. LoadingEnds'
  BY <1>2, StillWaits
<1> QED
  BY <1>1, <1>3, <1>4 DEF PagesOK

\* Where logins are under way.
LEMMA LoginsAt ==
  ASSUME PagesOK, NEW c \in Slots, ~Free(c), calls[c].kind = "login" \/ path # Login
  PROVE  /\ \A d \in Slots \ {c} : ~Free(d) => calls[d].kind # "login"
         /\ calls[c].kind = "login" => path = Login
BY DEF PagesOK, CallsOK, Belongs

LEMMA NotAtLogin ==
  ASSUME PagesOK, Page \in {"auctions", "orders", "monitor"}
  PROVE  path # Login
BY ShownBy DEF PagesOK, PlaceOK, Page

LEMMA UnauthorizedKeeps ==
  ASSUME MockOK, PagesOK, NEW c \in Slots, ~Free(c), Unauthorized(c)
  PROVE  MockOK' /\ PagesOK'
<1>1. Login \in Places /\ List \in Places \ {Login} /\ None \in Users \cup {None}
  BY DEF Places, Login, List
<1>2. CASE path # Login
  <2>1. Load(Login, List, None, c) /\ token' = None
    BY <1>2 DEF Unauthorized
  <2> QED
    BY <1>1, <2>1, LoadKeeps
<1>3. CASE path = Login
  <2> DEFINE b == [auth EXCEPT !.ready = @ \/ calls[c].kind = "me"]
             a == LoggedOut(b)
  <2>1. /\ UNCHANGED mock /\ token' = None /\ Land(a, Login, None, c)
    BY <1>3 DEF Unauthorized
  <2>2. b \in Auths
    <3> DEFINE r == auth.ready \/ calls[c].kind = "me"
    <3>1. r \in BOOLEAN
      BY DEF PagesOK, PlaceOK, Auths
    <3>2. b = [auth EXCEPT !.ready = r]
      OBVIOUS
    <3> HIDE DEF r, b
    <3> QED
      BY <3>1, <3>2 DEF PagesOK, PlaceOK, Auths
  <2> HIDE DEF b
  <2>3. a \in Auths
    BY <2>2 DEF LoggedOut, Auths
  <2> HIDE DEF a
  <2>4. PagesOK'
    BY <1>1, <1>3, <2>1, <2>3, LandKeeps
  <2> QED
    BY <2>1, <2>4, SameMock
<1> QED
  BY <1>2, <1>3

\* The token was looked up, or could not be.
LEMMA ReadyKeeps ==
  ASSUME MockOK, PagesOK, NEW c \in Slots, ~Free(c), calls[c].kind = "me", UNCHANGED <<mock, token>>,
         NEW user \in Users \cup {None},
         Land([auth EXCEPT !.ready = TRUE, !.user = user], path, token, c)
  PROVE  MockOK' /\ PagesOK'
<1> DEFINE a == [auth EXCEPT !.ready = TRUE, !.user = user]
<1>1. a \in Auths /\ path \in Places /\ token \in Users \cup {None}
  BY DEF PagesOK, PlaceOK, Auths
<1> HIDE DEF a
<1>2. \A d \in Slots \ {c} : ~Free(d) /\ calls[d].kind = "login" => path = Login
  BY DEF PagesOK, CallsOK, Belongs
<1>3. PagesOK'
  BY <1>1, <1>2, LandKeeps DEF a
<1> QED
  BY <1>3, SameMock

LEMMA RestoredKeeps ==
  ASSUME MockOK, PagesOK, NEW c \in Slots, Restored(c)
  PROVE  MockOK' /\ PagesOK'
<1>1. /\ ~Free(c) /\ calls[c].kind = "me" /\ calls[c].answer \notin {None, E401}
      /\ UNCHANGED <<mock, token>>
      /\ Land([auth EXCEPT !.ready = TRUE, !.user = calls[c].answer], path, token, c)
  BY DEF Restored, Arrived
<1>2. calls[c].answer \in Users
  BY <1>1, KindsOfCalls DEF PagesOK, CallsOK, Free
<1> QED
  BY <1>1, <1>2, ReadyKeeps

LEMMA LoggedInKeeps ==
  ASSUME MockOK, PagesOK, NEW c \in Slots, LoggedIn(c)
  PROVE  MockOK' /\ PagesOK'
<1> DEFINE user == calls[c].answer
<1>1. ~Free(c) /\ calls[c].kind = "login" /\ user # None /\ UNCHANGED mock
  BY DEF LoggedIn, Arrived
<1>2. user \in Users
  BY <1>1, KindsOfCalls DEF PagesOK, CallsOK, Free
<1>3. path = Login /\ \A d \in Slots \ {c} : ~Free(d) => calls[d].kind # "login"
  BY <1>1, LoginsAt
<1>4. CASE user \in Sellers
  <2> DEFINE a == [auth EXCEPT !.token = user, !.user = user]
  <2>1. a \in Auths /\ from \in Places
    BY <1>2 DEF PagesOK, PlaceOK, Auths
  <2>2. Land(a, from, user, c) /\ token' = user
    BY <1>4 DEF LoggedIn
  <2> HIDE DEF a
  <2>3. PagesOK'
    BY <1>1, <1>2, <1>3, <2>1, <2>2, LandKeeps
  <2> QED
    BY <1>1, <2>3, SameMock
<1>5. CASE user \notin Sellers
  <2>1. /\ token' = None /\ auth' = LoggedOut(auth) /\ view' = [view EXCEPT !.loading = FALSE]
        /\ Done(c) /\ UNCHANGED <<path, from>>
    BY <1>5 DEF LoggedIn, TurnedAway
  <2>2. auth' \in Auths
    BY <2>1 DEF LoggedOut, Auths, PagesOK, PlaceOK
  <2>3. Page = "login" /\ Page' = "login"
    BY <1>3, <2>1, <2>2, ShownBy DEF PagesOK, PlaceOK, Page
  <2>4. PlaceOK' /\ ViewOK'
    BY <1>3, <2>1, <2>2, <2>3 DEF PagesOK, PlaceOK, ViewOK
  <2> QED
    BY <1>1, <1>3, <2>1, <2>3, <2>4, ShownKeeps
<1> QED
  BY <1>4, <1>5

LEMMA ListArrivesKeeps ==
  ASSUME MockOK, PagesOK, NEW c \in Slots, ListArrives(c)
  PROVE  MockOK' /\ PagesOK'
<1>1. /\ ~Free(c) /\ calls[c].kind \in {"list", "orders"} /\ calls[c].answer # None
      /\ Done(c) /\ UNCHANGED <<mock, session>>
  BY DEF ListArrives, Arrived
<1>2. CASE ~OfPage(c)
  <2>1. UNCHANGED view
    BY <1>2 DEF ListArrives
  <2> QED
    BY <1>1, <1>2, <2>1, DoneKeeps
<1>3. CASE OfPage(c)
  <2>1. view' = [view EXCEPT !.rows = calls[c].answer, !.loading = FALSE]
    BY <1>3 DEF ListArrives
  <2>2. /\ calls[c].kind = "list" => Page = "auctions" /\ calls[c].answer \in SUBSET Listed
        /\ calls[c].kind = "orders" => Page = "orders"
    BY <1>1, <1>3, KindsOfCalls DEF PagesOK, CallsOK, Belongs, OfPage, Free
  <2>3. UNCHANGED <<token, auth, path, from>> /\ Page' = Page
    BY <1>1 DEF session, Page
  <2>4. /\ DOMAIN view' = {"tab", "rows", "loading"} /\ view'.tab = view.tab
        /\ view'.rows = calls[c].answer /\ view'.loading = FALSE
    BY <1>1, <2>1, <2>2 DEF PagesOK, ViewOK
  <2>5. PlaceOK' /\ ViewOK'
    BY <1>1, <2>2, <2>3, <2>4 DEF PagesOK, PlaceOK, ViewOK
  <2>6. \A d \in Slots \ {c} : ~Free(d) => calls[d].kind # "login"
    BY <1>1, <2>2, NotAtLogin, LoginsAt
  <2> QED
    BY <1>1, <2>3, <2>4, <2>5, <2>6, ShownKeeps
<1> QED
  BY <1>2, <1>3

\* What a poll makes of the monitor.
LEMMA PolledFits ==
  ASSUME NEW v, DOMAIN v = {"snap", "error", "extend", "win"}, NEW r, r.end \in Nat,
         v.snap # None => Earlier(v.snap, r), v.win => r.status = "ended",
         v.extend => r.end > Lifetime, NEW s, Earlier(s, r)
  PROVE  LET w == Polled(v, s)
         IN  /\ DOMAIN w = {"snap", "error", "extend", "win"} /\ w.snap = s
             /\ (w.win => r.status = "ended") /\ (w.extend => r.end > Lifetime)
<1> DEFINE e == v.extend \/ (v.snap # None /\ s.end > v.snap.end)
           n == v.win \/ (v.snap # None /\ v.snap.status = "active" /\ s.status = "ended")
           w == [v EXCEPT !.snap = s, !.extend = e, !.win = n]
<1>1. Polled(v, s) = w
  BY DEF Polled
<1>2. (e => r.end > Lifetime) /\ (n => r.status = "ended")
  BY MockAssumption DEF Earlier
<1> HIDE DEF e, n
<1>3. DOMAIN w = {"snap", "error", "extend", "win"} /\ w.snap = s /\ w.extend = e /\ w.win = n
  OBVIOUS
<1> HIDE DEF w
<1> QED
  BY <1>1, <1>2, <1>3

LEMMA StatusArrivesKeeps ==
  ASSUME MockOK, PagesOK, NEW c \in Slots, StatusArrives(c)
  PROVE  MockOK' /\ PagesOK'
<1>1. /\ ~Free(c) /\ calls[c].kind = "status" /\ calls[c].answer # None
      /\ Done(c) /\ UNCHANGED <<mock, session>>
  BY DEF StatusArrives, Arrived
<1>2. /\ Page = "monitor"
      /\ calls[c].answer # Refused => Earlier(calls[c].answer, auctions[path.id])
  BY <1>1 DEF PagesOK, CallsOK, Belongs
<1>3. path.id \in DOMAIN Fixture /\ auctions[path.id].end \in Nat
  BY <1>2, MonitorOf DEF PagesOK, MockOK, Fit, Auctions
<1>4. UNCHANGED <<token, auth, path, from>> /\ Page' = Page /\ auctions' = auctions
  BY <1>1 DEF session, Page, mock
<1>5. /\ DOMAIN view = {"snap", "error", "extend", "win"}
      /\ view.snap # None => Earlier(view.snap, auctions[path.id])
      /\ view.win => auctions[path.id].status = "ended"
      /\ view.extend => auctions[path.id].end > Lifetime
  BY <1>2 DEF PagesOK, ViewOK
<1>6. /\ DOMAIN view' = {"snap", "error", "extend", "win"}
      /\ view'.snap # None => Earlier(view'.snap, auctions[path.id])
      /\ view'.win => auctions[path.id].status = "ended"
      /\ view'.extend => auctions[path.id].end > Lifetime
  <2>1. CASE calls[c].answer = Refused
    <3>1. view' = [view EXCEPT !.error = TRUE]
      BY <2>1 DEF StatusArrives
    <3> QED
      BY <1>5, <3>1
  <2>2. CASE calls[c].answer # Refused
    <3>1. view' = Polled(view, calls[c].answer)
      BY <2>2 DEF StatusArrives
    <3> QED
      BY <1>2, <1>3, <1>5, <2>2, <3>1, PolledFits
  <2> QED
    BY <2>1, <2>2
<1>7. PlaceOK' /\ ViewOK'
  BY <1>2, <1>4, <1>6 DEF PagesOK, PlaceOK, ViewOK
<1>8. \A d \in Slots \ {c} : ~Free(d) => calls[d].kind # "login"
  BY <1>1, <1>2, NotAtLogin, LoginsAt
<1> QED
  BY <1>1, <1>2, <1>4, <1>7, <1>8, ShownKeeps

LEMMA CancelledKeeps ==
  ASSUME MockOK, PagesOK, NEW c \in Slots, Cancelled(c)
  PROVE  MockOK' /\ PagesOK'
<1>1. ~Free(c) /\ calls[c].kind = "cancel" /\ UNCHANGED <<mock, session>>
  BY DEF Cancelled, Arrived
<1>2. CASE ~(calls[c].answer = "ok" /\ OfPage(c))
  BY <1>1, <1>2, DoneKeeps DEF Cancelled
<1>3. CASE calls[c].answer = "ok" /\ OfPage(c) /\ Page = "monitor"
  BY <1>1, <1>3, PollKeeps DEF Cancelled
<1>4. CASE calls[c].answer = "ok" /\ OfPage(c) /\ Page # "monitor"
  <2> DEFINE t == calls[c].arg.tab
             k == Call("list", t, token)
  <2>1. Page = "auctions" /\ t \in Tab /\ path # Login
    BY <1>1, <1>4, NotAtLogin DEF PagesOK, CallsOK, Belongs, OfPage
  <2>2. calls' = [calls EXCEPT ![c] = k] /\ view' = [view EXCEPT !.loading = TRUE]
    BY <1>4 DEF Cancelled, Ask
  <2>3. MockOK' /\ Onward /\ UNCHANGED <<token, auth, path, from>> /\ Page' = Page
    BY <1>1, SameMock DEF session, Page
  <2>4. /\ DOMAIN view' = {"tab", "rows", "loading"} /\ view'.tab = view.tab
        /\ view'.rows = view.rows
    BY <2>1, <2>2 DEF PagesOK, ViewOK
  <2>5. PlaceOK' /\ ViewOK' /\ token \in Users \cup {None}
    BY <2>1, <2>3, <2>4 DEF PagesOK, PlaceOK, ViewOK
  <2>6. k \in Calls
    BY <2>1, <2>5, NewCalls
  <2>7. k.kind = "list" /\ k.of = "page" /\ k # None
    BY <2>6, KindsOfCalls DEF Call
  <2> HIDE DEF k
  <2>8. Belongs(k, Page, path, view'.loading, auctions')
    BY <2>1, <2>7 DEF Belongs
  <2>9. \A d \in Slots \ {c} : ~Free(d) => calls[d].kind # "login"
    BY <1>1, <2>1, LoginsAt
  <2>10. CallsOK'
    BY <2>2, <2>3, <2>6, <2>7, <2>8, <2>9, OneCall
  <2>11. LoadingEnds'
    BY <2>2, <2>3, <2>6, <2>7, StillWaits
  <2> QED
    BY <2>3, <2>5, <2>10, <2>11 DEF PagesOK
<1> QED
  BY <1>2, <1>3, <1>4

LEMMA FailsKeeps ==
  ASSUME MockOK, PagesOK, NEW c \in Slots, Fails(c)
  PROVE  MockOK' /\ PagesOK'
<1>1. ~Free(c) /\ UNCHANGED <<mock, token>> /\ calls[c] \in Calls
  BY DEF Fails, PagesOK, CallsOK, Free
<1>2. CASE calls[c].kind = "me"
  <2>1. [auth EXCEPT !.ready = TRUE] = [auth EXCEPT !.ready = TRUE, !.user = auth.user]
        /\ auth.user \in Users \cup {None}
    BY DEF PagesOK, PlaceOK, Auths
  <2>2. Land([auth EXCEPT !.ready = TRUE], path, token, c)
    BY <1>2 DEF Fails, LookUpFails
  <2> QED
    BY <1>1, <1>2, <2>1, <2>2, ReadyKeeps
<1>3. CASE calls[c].kind # "me"
  <2>1. /\ view' = IF OfPage(c) THEN Undone(calls[c].kind) ELSE view
        /\ Done(c) /\ UNCHANGED <<token, auth, path, from, loaded>> /\ Page' = Page
    BY <1>1, <1>3 DEF Fails, Page
  <2>2. PlaceOK'
    BY <2>1 DEF PagesOK, PlaceOK
  <2>3. Belongs(calls[c], Page, path, view.loading, auctions)
    BY <1>1 DEF PagesOK, CallsOK
  <2>4. CASE ~OfPage(c) \/ calls[c].kind = "cancel"
    <3>1. view' = view
      BY <2>1, <2>4 DEF Undone
    <3> QED
      BY <1>1, <2>1, <2>4, <3>1, DoneKeeps DEF session
  <2>5. CASE OfPage(c) /\ calls[c].kind \in {"login", "list", "orders"}
    <3>1. view' = [view EXCEPT !.loading = FALSE]
      BY <2>1, <2>5 DEF Undone
    <3>2. /\ calls[c].kind = "login" => path = Login
          /\ calls[c].kind # "login" => Page \in {"auctions", "orders"} /\ path # Login
      BY <2>3, <2>5, NotAtLogin DEF Belongs, OfPage
    <3>3. path = Login => Page = "login"
      BY ShownBy DEF PagesOK, PlaceOK, Page
    <3>4. ViewOK' /\ (Page \in {"auctions", "orders"} => ~view'.loading)
      BY <2>1, <2>5, <3>1, <3>2, <3>3 DEF PagesOK, ViewOK
    <3>5. \A d \in Slots \ {c} : ~Free(d) => calls[d].kind # "login"
      BY <1>1, <3>2, LoginsAt
    <3> QED
      BY <1>1, <2>1, <2>2, <3>4, <3>5, ShownKeeps
  <2>6. CASE OfPage(c) /\ calls[c].kind = "status"
    <3>1. view' = [view EXCEPT !.error = TRUE]
      BY <2>1, <2>6 DEF Undone
    <3>2. Page = "monitor" /\ path # Login /\ auctions' = auctions
      BY <1>1, <2>3, <2>6, NotAtLogin DEF Belongs, mock
    <3>3. ViewOK'
      BY <2>1, <3>1, <3>2 DEF PagesOK, ViewOK
    <3>4. \A d \in Slots \ {c} : ~Free(d) => calls[d].kind # "login"
      BY <1>1, <3>2, LoginsAt
    <3> QED
      BY <1>1, <2>1, <2>2, <3>2, <3>3, <3>4, ShownKeeps
  <2> QED
    BY <1>1, <1>3, <2>4, <2>5, <2>6, KindsOfCalls
<1> QED
  BY <1>2, <1>3

LEMMA ReloadKeeps ==
  ASSUME PagesOK, NEW c \in Slots, Reload(c)
  PROVE  MockOK' /\ PagesOK'
<1>1. /\ path \in Places /\ from \in Places \ {Login} /\ token \in Users \cup {None}
      /\ Login \in Places /\ List \in Places \ {Login}
  BY DEF PagesOK, PlaceOK, Places, Login, List
<1> QED
  BY <1>1, LoadKeeps DEF Reload

LEMMA ConsoleBegins == Init => MockOK /\ PagesOK
<1> SUFFICES ASSUME Init PROVE MockOK /\ PagesOK
  OBVIOUS
<1>1. MockOK
  BY MockBegins DEF Init
<1>2. Page = "login"
  BY DEF Init, Page, Shown, Started
<1>3. PlaceOK /\ ViewOK
  BY <1>2 DEF Init, PlaceOK, ViewOK, Started, Auths, Places, Login, List, FreshView
<1>4. CallsOK /\ LoadingEnds
  BY <1>2 DEF Init, CallsOK, Free, LoadingEnds
<1> QED
  BY <1>1, <1>3, <1>4 DEF PagesOK

LEMMA ConsoleSteps == MockOK /\ PagesOK /\ [Next]_vars => MockOK' /\ PagesOK'
<1> SUFFICES ASSUME MockOK, PagesOK, [Next]_vars PROVE MockOK' /\ PagesOK'
  OBVIOUS
<1>1. ASSUME NEW c \in Slots, Reload(c) \/ SubmitLogin(c) \/ Follow(c) \/ Choose(c) \/ Cancel(c)
                              \/ Serve(c) \/ Fails(c)
      PROVE  MockOK' /\ PagesOK'
  BY <1>1, ReloadKeeps, SubmitKeeps, FollowKeeps, ChooseKeeps, CancelPageKeeps, ServeKeeps, FailsKeeps
<1>2. ASSUME NEW c \in Slots, Poll(c) PROVE MockOK' /\ PagesOK'
  BY <1>2, PollKeeps DEF Poll
<1>3. ASSUME NEW c \in Slots, Arrives(c) PROVE MockOK' /\ PagesOK'
  BY <1>3, UnauthorizedKeeps, RestoredKeeps, LoggedInKeeps, ListArrivesKeeps,
     StatusArrivesKeeps, CancelledKeeps DEF Arrives
<1>4. CASE Close
  BY <1>4, CloseKeeps
<1>5. CASE Simulate /\ UNCHANGED <<session, view, calls>>
  BY <1>5, SimulateKeeps, UnseenKeeps
<1>6. CASE UNCHANGED vars
  BY <1>6, SameMock, UnseenKeeps DEF vars
<1> QED
  BY <1>1, <1>2, <1>3, <1>4, <1>5, <1>6 DEF Next

LEMMA ConsoleSound == Spec => [](MockOK /\ PagesOK)
  BY ConsoleBegins, ConsoleSteps, PTL DEF Spec

-----------------------------------------------------------------------------
(* Who signs.  Calls that ask who the token's owner is were made when the tab  *)
(* was loaded; those of the page were made with the token that is stored.     *)

SignedCall(k, first, now) ==
  /\ k.kind = "me" => k.by = first /\ k.answer \in {None, E401, first}
  /\ k.of = "page" /\ k.kind \in PageKinds => k.by = now

Signed ==
  /\ auth.user \in {None, loaded, token}
  /\ \A c \in Slots : ~Free(c) => SignedCall(calls[c], loaded, token)

\* Calls of a page are not made at the login.
LEMMA NoneAtLogin ==
  ASSUME PagesOK, Signed, path = Login, NEW c \in Slots, ~Free(c), NEW user
  PROVE  SignedCall(calls[c], loaded, user)
BY DEF PagesOK, CallsOK, Belongs, Signed, SignedCall, PageKinds, Page, Shown, Login

\* A session that lands signs what it asks for, and leaves what it does not sign.
LEMMA LandSigns ==
  ASSUME PagesOK, Signed, NEW a \in Auths, NEW p \in Places, NEW user \in Users \cup {None},
         NEW c \in Slots, Land(a, p, user, c), user = token', user = token \/ path = Login,
         a.user \in {None, loaded, user}
  PROVE  Signed'
<1>1. auth' = a /\ loaded' = loaded
  BY DEF Land
<1>2. ASSUME NEW d \in Slots, calls[d] # None
      PROVE  SignedCall(calls[d], loaded, user) /\ calls[d] \in Calls
  BY <1>2, NoneAtLogin DEF Signed, Free, PagesOK, CallsOK
<1>3. ASSUME NEW d \in Slots, calls'[d] # None
      PROVE  SignedCall(calls'[d], loaded, user)
  <2>1. CASE calls' = [calls EXCEPT ![c] = None]
    BY <1>2, <1>3, <2>1 DEF PagesOK, CallsOK
  <2>2. CASE calls' = [e \in Slots |-> IF e = c THEN FirstCall(Shown(a, p), p, user)
                                       ELSE Left(calls[e])]
    <3>1. CASE d = c
      <4>1. calls'[d] = FirstCall(Shown(a, p), p, user)
        BY <2>2, <3>1
      <4> QED
        BY <1>3, <4>1 DEF FirstCall, Call, SignedCall
    <3>2. CASE d # c
      <4>1. calls'[d] = Left(calls[d]) /\ calls[d] # None
        BY <1>3, <2>2, <3>2 DEF Left
      <4>2. calls[d].kind \in {"me", "login"} => calls'[d] = calls[d]
        BY <4>1 DEF Left
      <4>3. calls'[d].kind \in {"me", "login"} \/ calls'[d].of = "nobody"
        BY <1>3, <4>1, LeftCall DEF PagesOK, CallsOK
      <4>4. calls'[d].kind = calls[d].kind
        BY <1>3, <4>1, LeftCall DEF PagesOK, CallsOK
      <4> QED
        BY <1>2, <4>1, <4>2, <4>3, <4>4 DEF SignedCall, PageKinds
    <3> QED
      BY <3>1, <3>2
  <2> QED
    BY <2>1, <2>2 DEF Land
<1> QED
  BY <1>1, <1>3 DEF Signed, Free

LEMMA LoadSigns ==
  ASSUME NEW p, NEW origin, NEW user, NEW c, Load(p, origin, user, c), token' = user
  PROVE  Signed'
<1>1. /\ auth'.user = None /\ loaded' = user
      /\ \A d \in Slots : calls'[d] # None => calls'[d] = Call("me", None, user)
  BY DEF Load, Started
<1> QED
  BY <1>1 DEF Signed, Free, SignedCall, Call, PageKinds

\* What is asked on a page is signed by the token; what is answered keeps its signature.
LEMMA AskSigns ==
  ASSUME PagesOK, Signed, UNCHANGED session, NEW c \in Slots, NEW kind, NEW arg,
         kind # "me", Ask(c, kind, arg)
  PROVE  Signed'
<1>1. SignedCall(Call(kind, arg, token), loaded, token)
  BY DEF SignedCall, Call
<1>2. \A d \in Slots : calls'[d] = IF d = c THEN Call(kind, arg, token) ELSE calls[d]
  BY DEF Ask, PagesOK, CallsOK
<1> QED
  BY <1>1, <1>2 DEF Signed, Free, session

LEMMA DoneSigns ==
  ASSUME PagesOK, Signed, UNCHANGED loaded, auth'.user \in {None, loaded, token'},
         token' = token \/ path = Login, NEW c \in Slots, Done(c)
  PROVE  Signed'
<1>1. \A d \in Slots : calls'[d] = IF d = c THEN None ELSE calls[d]
  BY DEF Done, PagesOK, CallsOK
<1>2. \A d \in Slots : ~Free(d) => SignedCall(calls[d], loaded, token')
  BY NoneAtLogin DEF Signed
<1> QED
  BY <1>1, <1>2 DEF Signed, Free

LEMMA SameSigns ==
  ASSUME Signed, UNCHANGED <<session, calls>>
  PROVE  Signed'
BY DEF Signed, Free, session

LEMMA ServeSigns ==
  ASSUME PagesOK, Signed, NEW c \in Slots, Serve(c)
  PROVE  Signed'
<1>1. ~Free(c) /\ UNCHANGED session
  BY DEF Serve
<1>2. PICK x : Answered(c, x) /\ (calls[c].kind = "me" => x \in {E401, calls[c].by})
  BY Zenon DEF Serve, ServeRead, ServeCancel, MeAnswer
<1>3. calls[c] \in Calls
  BY <1>1 DEF PagesOK, CallsOK, Free
<1>4. [calls[c] EXCEPT !.answer = x].by = calls[c].by
      /\ [calls[c] EXCEPT !.answer = x].kind = calls[c].kind
      /\ [calls[c] EXCEPT !.answer = x].of = calls[c].of
      /\ [calls[c] EXCEPT !.answer = x].answer = x
  BY <1>3 DEF Calls, Asked
<1>5. \A d \in Slots : calls'[d] = IF d = c THEN [calls[c] EXCEPT !.answer = x] ELSE calls[d]
  BY <1>2 DEF Answered, PagesOK, CallsOK
<1>6. SignedCall(calls'[c], loaded, token)
  BY <1>1, <1>2, <1>4, <1>5 DEF Signed, SignedCall
<1> QED
  BY <1>1, <1>5, <1>6 DEF Signed, Free, session

LEMMA ArrivalSigns ==
  ASSUME OneSession, PagesOK, Signed, NEW c \in Slots, Arrives(c)
  PROVE  Signed'
<1>0. /\ ~Free(c) /\ calls[c] \in Calls /\ SignedCall(calls[c], loaded, token)
      /\ Login \in Places /\ path \in Places /\ from \in Places
      /\ None \in Users \cup {None} /\ token \in Users \cup {None}
      /\ auth \in Auths /\ DOMAIN auth = Fields
  BY DEF Arrives, PagesOK, CallsOK, PlaceOK, Free, Signed, OneSession, Places
<1>1. CASE Unauthorized(c)
  <2>1. CASE path # Login
    BY <1>1, <2>1, LoadSigns DEF Unauthorized
  <2>2. CASE path = Login
    <3> DEFINE r == auth.ready \/ calls[c].kind = "me"
               b == [auth EXCEPT !.ready = r]
               a == LoggedOut(b)
    <3>1. r \in BOOLEAN
      BY <1>0 DEF Auths
    <3>2. b = [auth EXCEPT !.ready = @ \/ calls[c].kind = "me"]
      OBVIOUS
    <3>3. b \in Auths
      <4> HIDE DEF r
      <4> QED
        BY <1>0, <3>1 DEF Auths
    <3> HIDE DEF r
    <3>4. Land(a, Login, None, c) /\ token' = None
      BY <1>1, <2>2, <3>2 DEF Unauthorized
    <3> HIDE DEF b
    <3>5. a \in Auths /\ a.user = None
      BY <3>3 DEF LoggedOut, Auths
    <3> HIDE DEF a
    <3> QED
      BY <1>0, <2>2, <3>4, <3>5, LandSigns
  <2> QED
    BY <2>1, <2>2
<1>2. CASE Restored(c)
  <2> DEFINE a == [auth EXCEPT !.ready = TRUE, !.user = calls[c].answer]
  <2>1. calls[c].kind = "me" /\ calls[c].answer = loaded /\ calls[c].answer \in Users
    BY <1>0, <1>2, KindsOfCalls DEF Restored, Arrived, SignedCall
  <2>2. a \in Auths /\ a.user = loaded
    BY <1>0, <2>1 DEF Auths
  <2>3. Land(a, path, token, c) /\ token' = token
    BY <1>2 DEF Restored
  <2> HIDE DEF a
  <2> QED
    BY <1>0, <2>2, <2>3, LandSigns
<1>3. CASE LoggedIn(c)
  <2> DEFINE user == calls[c].answer
             a == [auth EXCEPT !.token = user, !.user = user]
  <2>1. path = Login /\ user \in Users
    BY <1>0, <1>3, KindsOfCalls DEF LoggedIn, Arrived, PagesOK, CallsOK, Belongs
  <2>2. CASE user \in Sellers
    <3>1. a \in Auths /\ a.user = user
      BY <1>0, <2>1 DEF Auths
    <3>2. Land(a, from, user, c) /\ token' = user
      BY <1>3, <2>2 DEF LoggedIn
    <3> HIDE DEF a
    <3> QED
      BY <1>0, <2>1, <3>1, <3>2, LandSigns
  <2>3. CASE user \notin Sellers
    <3>1. token' = None /\ auth' = LoggedOut(auth) /\ Done(c) /\ UNCHANGED loaded
      BY <1>3, <2>3 DEF LoggedIn, TurnedAway
    <3>2. auth'.user = None
      BY <1>0, <3>1 DEF LoggedOut, Auths
    <3> QED
      BY <2>1, <3>1, <3>2, DoneSigns
  <2> QED
    BY <2>2, <2>3
<1>4. CASE ListArrives(c) \/ StatusArrives(c)
  <2>1. Done(c) /\ UNCHANGED session
    BY <1>4, Zenon DEF ListArrives, StatusArrives
  <2> QED
    BY <2>1, DoneSigns DEF session, Signed
<1>5. CASE Cancelled(c)
  <2>1. UNCHANGED session
    BY <1>5 DEF Cancelled
  <2>2. Done(c) \/ (\E kind \in {"status", "list"}, arg \in {path.id, calls[c].arg.tab} :
                      Ask(c, kind, arg))
    BY <1>5, Zenon DEF Cancelled
  <2> QED
    BY <2>1, <2>2, DoneSigns, AskSigns DEF session, Signed
<1> QED
  BY <1>1, <1>2, <1>3, <1>4, <1>5 DEF Arrives

LEMMA FailureSigns ==
  ASSUME PagesOK, Signed, NEW c \in Slots, Fails(c)
  PROVE  Signed'
<1>1. CASE calls[c].kind = "me"
  <2> DEFINE a == [auth EXCEPT !.ready = TRUE]
  <2>1. a \in Auths /\ a.user = auth.user /\ path \in Places /\ token \in Users \cup {None}
    BY DEF PagesOK, PlaceOK, Auths
  <2>2. Land(a, path, token, c) /\ token' = token
    BY <1>1 DEF Fails, LookUpFails
  <2>3. auth.user \in {None, loaded, token}
    BY DEF Signed
  <2> HIDE DEF a
  <2> QED
    BY <2>1, <2>2, <2>3, LandSigns
<1>2. CASE calls[c].kind # "me"
  <2>1. Done(c) /\ UNCHANGED <<auth, loaded, token>>
    BY <1>2 DEF Fails
  <2> QED
    BY <2>1, DoneSigns DEF Signed
<1> QED
  BY <1>1, <1>2

LEMMA SignedSteps ==
  ASSUME OneSession, MockOK, PagesOK, Signed, [Next]_vars
  PROVE  Signed'
<1>1. ASSUME NEW c \in Slots, Reload(c) PROVE Signed'
  BY <1>1, LoadSigns DEF Reload
<1>2. ASSUME NEW c \in Slots, SubmitLogin(c) PROVE Signed'
  <2>1. PICK user : calls' = [calls EXCEPT ![c] = [Call("login", user, token) EXCEPT !.answer = user]]
    BY <1>2 DEF SubmitLogin
  <2>2. UNCHANGED session /\ \A d \in Slots \ {c} : calls'[d] = calls[d]
    BY <1>2, <2>1 DEF SubmitLogin, PagesOK, CallsOK
  <2>3. calls'[c].kind = "login"
    BY <2>1 DEF Call, PagesOK, CallsOK
  <2>4. SignedCall(calls'[c], loaded, token)
    BY <2>3 DEF SignedCall, PageKinds
  <2> QED
    BY <2>2, <2>4 DEF Signed, Free, session
<1>3. ASSUME NEW c \in Slots, Follow(c) PROVE Signed'
  <2>1. PICK p : Land(auth, p, token, c) /\ p \in Places
    <3>1. Page = "auctions" => view.rows \subseteq Listed
      BY DEF PagesOK, ViewOK
    <3>2. {List, Orders} \subseteq Places /\ \A r \in Listed : Monitor(r.id) \in Places
      BY DEF Places, Listed
    <3> QED
      BY <1>3, <3>1, <3>2 DEF Follow
  <2>2. auth \in Auths /\ token \in Users \cup {None} /\ token' = token
    BY <1>3 DEF Follow, PagesOK, PlaceOK
  <2> QED
    BY <2>1, <2>2, LandSigns DEF Signed
<1>4. ASSUME NEW c \in Slots, Choose(c) \/ Cancel(c) \/ Poll(c) PROVE Signed'
  <2>1. UNCHANGED session
    BY <1>4, Zenon DEF Choose, Cancel, Poll
  <2>2. \E kind \in {"list", "orders", "cancel", "status"} : \E arg : Ask(c, kind, arg)
    BY <1>4, Zenon DEF Choose, Cancel, Poll
  <2> QED
    BY <2>1, <2>2, AskSigns
<1>5. ASSUME NEW c \in Slots, Serve(c) \/ Arrives(c) \/ Fails(c) PROVE Signed'
  BY <1>5, ServeSigns, ArrivalSigns, FailureSigns
<1>6. CASE Close \/ (Simulate /\ UNCHANGED <<session, view, calls>>) \/ UNCHANGED vars
  BY <1>6, SameSigns DEF Close, vars
<1> QED
  BY <1>1, <1>2, <1>3, <1>4, <1>5, <1>6 DEF Next

\* Behind the gate a seller's token is stored and signs whatever the page has
\* asked; shown is its owner, or the one whose token was there when the tab was
\* loaded.  So it is whatever is answered late, to whom, and however often the tab
\* is loaded.
THEOREM GateKeeps == Spec => []SessionSigns
<1>1. Init => OneSession /\ Signed
  BY DEF Init, Started, OneSession, Fields, Signed, Free
<1>2. OneSession /\ MockOK /\ PagesOK /\ Signed /\ [Next]_vars => OneSession' /\ Signed'
  BY SessionSteps, SignedSteps
<1>3. OneSession /\ Signed => SessionSigns
  <2> SUFFICES ASSUME OneSession, Signed, Page \notin {"login", "spin"}
               PROVE  SessionSigns
    BY DEF SessionSigns
  <2>1. auth.token # None /\ auth.user # None
    BY DEF Page, Shown
  <2>2. token = auth.token /\ token \in Sellers /\ auth.user \in {token, loaded} \ {None}
    BY <2>1 DEF OneSession, Signed
  <2>3. \A c \in Slots : ~Free(c) /\ OfPage(c) /\ calls[c].kind \in PageKinds => calls[c].by = token
    BY DEF Signed, SignedCall, OfPage
  <2> QED
    BY <2>2, <2>3 DEF SessionSigns
<1> QED
  BY <1>1, <1>2, <1>3, ConsoleSound, PTL DEF Spec

-----------------------------------------------------------------------------
\* The orders of the mock server are its sales, one each, with the winner and the
\* last price, through any bids, extensions, cancellations and reloads.
THEOREM OrdersFit == Spec => []OrdersAreSales
BY ConsoleSound, SalesAreOrders, PTL

\* The confetti means that the auction has ended, and was not cancelled, and the
\* shock that its end has moved, in whatever order polls are answered and however
\* often pages change.
THEOREM CelebrationsTrue == Spec => []CelebratesTrue
<1>1. PagesOK => CelebratesTrue
  BY DEF PagesOK, ViewOK, CelebratesTrue
<1> QED
  BY <1>1, ConsoleSound, PTL

\* A spinner always has a call that will end it, whatever tabs are chosen and
\* whatever fails or is cancelled while it turns.
THEOREM SpinnersEnd == Spec => []LoadingEnds
<1>1. PagesOK => LoadingEnds
  BY DEF PagesOK
<1> QED
  BY <1>1, ConsoleSound, PTL

\* The states of the console and of the mock server's rows have their types; the
\* address to return to after a login is never the login's.
THEOREM ConsoleTyped == Spec => []TypeOK
<1>1. ASSUME MockOK, PagesOK PROVE TypeOK
  <2>1. token \in Users \cup {None} /\ auth \in Auths /\ path \in Places /\ from # Login
    BY <1>1 DEF PagesOK, PlaceOK
  <2>2. path.page \in {"login", "auctions", "orders", "monitor"}
    BY <2>1 DEF Places, Login, List, Orders, Monitor
  <2>3. \A a \in Ids : auctions[a].status \in {"pending", "active", "ended", "cancelled"}
    BY <1>1 DEF MockOK, Fit, Ids, Auctions, Statuses
  <2> QED
    BY <2>1, <2>2, <2>3 DEF TypeOK, Auths
<1> QED
  BY <1>1, ConsoleSound, PTL

-----------------------------------------------------------------------------
(* The form: its pictures, its rows and what it sends.                      *)

Picture == Int \cup Uploads

\* A list of pictures that fits though some were chosen late, and one to which `u`
\* may be added.
Fits(s, l) == s \in Seq(Picture) /\ IsInjective(s) /\ Cardinality(ToSet(s) \ l) <= MaxImages
RoomFor(s, u, l) == Fits(s, l) /\ ~Contains(s, u) /\ (Len(s) < MaxImages \/ u \in l)

\* One that the server takes.
Short(s) == s \in Seq(Picture) /\ IsInjective(s) /\ Len(s) <= MaxImages

Draft == [fields : Field, images : Seq(Picture)]

\* What is in a row passed the checks of the server once.
RowType == [fields : Field, status : {"pending", "active"}, images : Seq(Picture)]
IsRow(r) ==
  r \in RowType /\ Short(r.images) /\ (r.fields.ceiling # Empty => r.fields.ceiling > 0)

SoundRow == row # Empty \/ page = "loading" => IsRow(row)

\* What is shown for a last look, or was sent, the form accepted at some time.
SoundDraft(d, l) == d \in Draft /\ Fits(d.images, l) /\ \E now \in Int : Accepts(d.fields, now)

FormInv ==
  /\ time \in Int /\ fields \in Field /\ initial \in Draft /\ Short(initial.images)
  /\ Fits(images, late)
  /\ uploads \in [Uploads -> {Empty} \cup [base : Seq(Picture)]]
  /\ \A u \in Uploads : uploads[u] # Empty => RoomFor(uploads[u].base, u, late)
  /\ SoundRow
  /\ preview # Empty => SoundDraft(preview, late)
  /\ call # Empty =>
       call \in [sent : Draft, answer : {Empty, "ok", "refused"}] /\ SoundDraft(call.sent, late)

-----------------------------------------------------------------------------
\* A list has no more pictures than places.
LEMMA Held ==
  ASSUME NEW s \in Seq(Picture), NEW l
  PROVE  /\ IsFiniteSet(ToSet(s) \ l) /\ Cardinality(ToSet(s) \ l) \in Nat
         /\ Cardinality(ToSet(s) \ l) <= Len(s)
<1>1. Len(s) \in Nat /\ DOMAIN s = 1..Len(s)
  BY LenProperties
<1>2. IsFiniteSet(1..Len(s)) /\ Cardinality(1..Len(s)) = Len(s)
  BY <1>1, FS_Interval
<1>3. s \in Surjection(1..Len(s), ToSet(s))
  BY <1>1 DEF Surjection, ToSet
<1>4. IsFiniteSet(ToSet(s)) /\ Cardinality(ToSet(s)) <= Len(s) /\ Cardinality(ToSet(s)) \in Nat
  BY <1>2, <1>3, FS_Surjection, FS_CardinalityType
<1>5. IsFiniteSet(ToSet(s) \ l) /\ Cardinality(ToSet(s) \ l) <= Cardinality(ToSet(s))
  BY <1>4, FS_Subset
<1>6. Cardinality(ToSet(s) \ l) \in Nat
  BY <1>5, FS_CardinalityType
<1> QED
  BY <1>1, <1>4, <1>5, <1>6

LEMMA ShortFits ==
  ASSUME NEW s, Short(s), NEW l
  PROVE  Fits(s, l)
<1>1. s \in Seq(Picture) /\ Len(s) \in Nat /\ Len(s) <= MaxImages /\ IsInjective(s)
  BY DEF Short
<1>2. Cardinality(ToSet(s) \ l) \in Nat /\ Cardinality(ToSet(s) \ l) <= Len(s)
  BY <1>1, Held
<1> QED
  BY <1>1, <1>2, FormAssumption DEF Fits

\* Files that are chosen now are in no list yet.
LEMMA StillFits ==
  ASSUME NEW s, NEW l, Fits(s, l), NEW files, \A u \in files : ~Contains(s, u)
  PROVE  Fits(s, l \ files) /\ Fits(s, l \cup files)
<1>1. ToSet(s) \ (l \ files) = ToSet(s) \ l
  BY DEF ToSet, Contains
<1>2. ToSet(s) \ (l \cup files) \subseteq ToSet(s) \ l
  OBVIOUS
<1>3. IsFiniteSet(ToSet(s) \ l) /\ Cardinality(ToSet(s) \ l) \in Nat
  BY Held DEF Fits
<1>4. Cardinality(ToSet(s) \ (l \cup files)) <= Cardinality(ToSet(s) \ l)
      /\ Cardinality(ToSet(s) \ (l \cup files)) \in Nat
  BY <1>2, <1>3, FS_Subset, FS_CardinalityType
<1>5. Cardinality(ToSet(s) \ l) <= MaxImages /\ s \in Seq(Picture) /\ IsInjective(s)
  BY DEF Fits
<1>6. Cardinality(ToSet(s) \ (l \cup files)) <= MaxImages
  BY <1>3, <1>4, <1>5, FormAssumption
<1>7. Cardinality(ToSet(s) \ (l \ files)) <= MaxImages
  BY <1>1, <1>5
<1> QED
  BY <1>5, <1>6, <1>7 DEF Fits

\* A picture more, or one less, and the pictures still fit.
LEMMA OneMore ==
  ASSUME NEW s, NEW l, NEW u \in Uploads, RoomFor(s, u, l)
  PROVE  Fits(Append(s, u), l)
<1> DEFINE t == Append(s, u)
<1>1. /\ s \in Seq(Picture) /\ Len(s) \in Nat /\ t \in Seq(Picture) /\ Len(t) = Len(s) + 1
      /\ DOMAIN t = 1..(Len(s) + 1) /\ DOMAIN s = 1..Len(s)
      /\ \A i \in 1..Len(s) : t[i] = s[i]
      /\ t[Len(s) + 1] = u
  BY DEF RoomFor, Fits, Picture
<1>2. IsInjective(t)
  <2>1. \A i \in 1..Len(s) : s[i] # u
    BY <1>1 DEF RoomFor, Contains
  <2>2. \A i, j \in 1..Len(s) : s[i] = s[j] => i = j
    BY <1>1 DEF RoomFor, Fits, IsInjective
  <2> HIDE DEF t
  <2> QED
    BY <1>1, <2>1, <2>2 DEF IsInjective
<1>3. Cardinality(ToSet(t) \ l) <= MaxImages
  <2>1. CASE u \in l
    <3>1. ToSet(t) \ l = ToSet(s) \ l
      <4> HIDE DEF t
      <4>1. \A i \in 1..(Len(s) + 1) : i \in 1..Len(s) \/ i = Len(s) + 1
        BY <1>1
      <4>2. \A i \in 1..Len(s) : i \in 1..(Len(s) + 1)
        BY <1>1
      <4>3. ToSet(t) = ToSet(s) \cup {u}
        BY <1>1, <4>1, <4>2 DEF ToSet
      <4> QED
        BY <2>1, <4>3
    <3> QED
      BY <3>1 DEF RoomFor, Fits
  <2>2. CASE Len(s) < MaxImages
    <3>1. Cardinality(ToSet(t) \ l) \in Nat /\ Cardinality(ToSet(t) \ l) <= Len(s) + 1
      BY <1>1, Held
    <3> QED
      BY <1>1, <2>2, <3>1, FormAssumption
  <2> QED
    BY <2>1, <2>2 DEF RoomFor
<1> QED
  BY <1>1, <1>2, <1>3 DEF Fits

LEMMA TakenOut ==
  ASSUME NEW s, NEW l, Fits(s, l), NEW i \in 1..Len(s),
         NEW p \in Seq(Picture), Len(p) = i - 1, \A j \in 1..Len(p) : p[j] = s[j],
         NEW q \in Seq(Picture), Len(q) = Len(s) - i, \A j \in 1..Len(q) : q[j] = s[i + j]
  PROVE  Fits(p \o q, l)
<1>1. s \in Seq(Picture) /\ Len(s) \in Nat
  BY DEF Fits
<1>2. /\ p \o q \in Seq(Picture) /\ Len(p \o q) = Len(s) - 1
      /\ DOMAIN (p \o q) = 1..(Len(s) - 1)
      /\ \A j \in 1..(Len(s) - 1) : (p \o q)[j] = IF j <= i - 1 THEN p[j] ELSE q[j - (i - 1)]
  <2>1. /\ p \o q \in Seq(Picture) /\ Len(p \o q) = Len(p) + Len(q)
        /\ \A j \in 1..(Len(p) + Len(q)) : (p \o q)[j] = IF j <= Len(p) THEN p[j] ELSE q[j - Len(p)]
    BY ConcatProperties
  <2>2. Len(p) + Len(q) = Len(s) - 1
    BY <1>1
  <2>3. DOMAIN (p \o q) = 1..Len(p \o q)
    BY <2>1, LenProperties
  <2> QED
    BY <2>1, <2>2, <2>3
<1>3. \A j \in 1..(Len(s) - 1) :
        /\ j <= i - 1 => (p \o q)[j] = s[j]
        /\ ~(j <= i - 1) => (p \o q)[j] = s[j + 1]
  <2> SUFFICES ASSUME NEW j \in 1..(Len(s) - 1)
               PROVE  /\ j <= i - 1 => (p \o q)[j] = s[j]
                      /\ ~(j <= i - 1) => (p \o q)[j] = s[j + 1]
    OBVIOUS
  <2>1. CASE j <= i - 1
    <3>1. j \in 1..Len(p)
      BY <1>1, <2>1
    <3> QED
      BY <1>2, <2>1, <3>1
  <2>2. CASE ~(j <= i - 1)
    <3>1. j - (i - 1) \in 1..Len(q) /\ i + (j - (i - 1)) = j + 1
      BY <1>1, <2>2
    <3> QED
      BY <1>2, <2>2, <3>1
  <2> QED
    BY <2>1, <2>2
<1>4. \A j, k \in 1..Len(s) : s[j] = s[k] => j = k
  <2>1. DOMAIN s = 1..Len(s)
    BY <1>1, LenProperties
  <2> QED
    BY <2>1 DEF Fits, IsInjective
<1>5. IsInjective(p \o q)
  <2> DEFINE r == p \o q
  <2>1. /\ DOMAIN r = 1..(Len(s) - 1)
        /\ \A j \in 1..(Len(s) - 1) : j <= i - 1 => r[j] = s[j]
        /\ \A j \in 1..(Len(s) - 1) : ~(j <= i - 1) => r[j] = s[j + 1]
    BY <1>2, <1>3
  <2> HIDE DEF r
  <2> SUFFICES ASSUME NEW j \in 1..(Len(s) - 1), NEW k \in 1..(Len(s) - 1), r[j] = r[k] PROVE j = k
    BY <2>1 DEF IsInjective, r
  <2>2. CASE j <= i - 1 /\ k <= i - 1
    BY <1>1, <1>4, <2>1, <2>2
  <2>3. CASE j <= i - 1 /\ ~(k <= i - 1)
    BY <1>1, <1>4, <2>1, <2>3
  <2>4. CASE ~(j <= i - 1) /\ k <= i - 1
    BY <1>1, <1>4, <2>1, <2>4
  <2>5. CASE ~(j <= i - 1) /\ ~(k <= i - 1)
    BY <1>1, <1>4, <2>1, <2>5
  <2> QED
    BY <2>2, <2>3, <2>4, <2>5
<1>6. Cardinality(ToSet(p \o q) \ l) <= MaxImages
  <2> DEFINE r == p \o q
  <2>1. r \in Seq(Picture) /\ DOMAIN r = 1..(Len(s) - 1) /\ DOMAIN s = 1..Len(s)
    BY <1>1, <1>2
  <2>2. \A j \in 1..(Len(s) - 1) : j \in 1..Len(s) /\ j + 1 \in 1..Len(s)
    BY <1>1
  <2>3. \A j \in 1..(Len(s) - 1) : \E k \in 1..Len(s) : r[j] = s[k]
    BY <1>3, <2>2
  <2> HIDE DEF r
  <2>4. ToSet(r) \ l \subseteq ToSet(s) \ l
    <3>1. ToSet(r) = {r[j] : j \in 1..(Len(s) - 1)} /\ ToSet(s) = {s[k] : k \in 1..Len(s)}
      BY <2>1 DEF ToSet
    <3> QED
      BY <2>3, <3>1
  <2>5. IsFiniteSet(ToSet(s) \ l) /\ Cardinality(ToSet(s) \ l) \in Nat
    BY <1>1, Held
  <2>6. /\ Cardinality(ToSet(r) \ l) \in Nat
        /\ Cardinality(ToSet(r) \ l) <= Cardinality(ToSet(s) \ l)
    BY <2>4, <2>5, FS_Subset, FS_CardinalityType
  <2> QED
    BY <2>5, <2>6, FormAssumption DEF Fits, r
<1> QED
  BY <1>2, <1>5, <1>6 DEF Fits

LEMMA OneLess ==
  ASSUME NEW s, NEW l, NEW i \in DOMAIN s, Fits(s, l)
  PROVE  Fits(RemoveAt(s, i), l)
<1>1. s \in Seq(Picture) /\ i \in 1..Len(s) /\ Len(s) \in Nat
  BY DEF Fits
<1>2. /\ SubSeq(s, 1, i - 1) \in Seq(Picture) /\ Len(SubSeq(s, 1, i - 1)) = i - 1
      /\ \A j \in 1..(i - 1) : SubSeq(s, 1, i - 1)[j] = s[j]
  BY <1>1
<1>3. /\ SubSeq(s, i + 1, Len(s)) \in Seq(Picture) /\ Len(SubSeq(s, i + 1, Len(s))) = Len(s) - i
      /\ \A j \in 1..(Len(s) - i) : SubSeq(s, i + 1, Len(s))[j] = s[i + j]
  BY <1>1
<1> QED
  <2> DEFINE p == SubSeq(s, 1, i - 1)
             q == SubSeq(s, i + 1, Len(s))
  <2>1. RemoveAt(s, i) = p \o q
    BY DEF RemoveAt
  <2>2. /\ p \in Seq(Picture) /\ Len(p) = i - 1 /\ \A j \in 1..Len(p) : p[j] = s[j]
        /\ q \in Seq(Picture) /\ Len(q) = Len(s) - i /\ \A j \in 1..Len(q) : q[j] = s[i + j]
    BY <1>2, <1>3
  <2> HIDE DEF p, q
  <2> QED
    BY <1>1, <2>1, <2>2, TakenOut

\* The defaults, and what the form starts with.
LEMMA Defaults == Blank \in Field
<1>1. Blank \in Published
  BY BlankAssumption DEF Blank
<1> QED
  BY <1>1, FormAssumption DEF Published

LEMMA NoPictures == Short(<<>>)
  BY FormAssumption DEF Short, IsInjective

LEMMA NewForm == New \in Draft /\ Short(New.images)
  BY Defaults, NoPictures DEF New, Draft

LEMMA StartsSound ==
  ASSUME IsRow(row)
  PROVE  Stored \in Draft /\ Short(Stored.images)
<1>1. row.fields \in Field /\ row.images \in Seq(Picture) /\ row.fields.duration \in Nat
  BY DEF IsRow, RowType, Field
<1>2. 30 * Second \in Nat
  BY FormAssumption
<1>3. [row.fields EXCEPT !.duration = IF @ > 30 * Second THEN @ ELSE 30 * Second] \in Field
  BY <1>1, <1>2 DEF Field
<1> QED
  BY <1>1, <1>3 DEF Stored, Draft, IsRow

-----------------------------------------------------------------------------
LEMMA FormStarts == FormInit => FormInv
<1> SUFFICES ASSUME FormInit PROVE FormInv
  OBVIOUS
<1>1. ASSUME NEW n \in RowImages PROVE Short([i \in 1..n |-> i])
  <2>1. n \in Nat /\ n <= MaxImages
    BY FormAssumption
  <2> QED
    BY <2>1 DEF Short, IsInjective, Picture
<1>2. SoundRow
  <2> SUFFICES ASSUME row # Empty \/ page = "loading" PROVE IsRow(row)
    BY DEF SoundRow
  <2> PICK f \in Published, n \in RowImages :
         row = [fields |-> f, status |-> "pending", images |-> [i \in 1..n |-> i]]
    BY DEF FormInit
  <2>1. f \in Field /\ (f.ceiling # Empty => f.ceiling > 0)
    BY FormAssumption DEF Published
  <2>2. Short(row.images) /\ row.images \in Seq(Picture)
    BY <1>1 DEF Short
  <2> QED
    BY <2>1, <2>2 DEF IsRow, RowType
<1>3. Fits(<<>>, {})
  BY NoPictures, ShortFits
<1> QED
  BY <1>2, <1>3, Defaults, NewForm DEF FormInit, FormInv, NoUploads

\* Files that are chosen, when there is room or not.
LEMMA ChooseFits ==
  ASSUME FormInv, NEW files \in SUBSET Uploads, ChooseFiles(files)
  PROVE  FormInv'
<1> DEFINE l == late'
<1>1. /\ \A u \in files : NewFile(u)
      /\ uploads' = [u \in Uploads |-> IF u \in files THEN [base |-> images] ELSE uploads[u]]
      /\ UNCHANGED <<server, form, images, sending>>
      /\ Len(images) < MaxImages \/ files \subseteq late'
      /\ late' = late \ files \/ late' = late \cup files
  BY DEF ChooseFiles
<1>2. ASSUME NEW s \in Lists, Fits(s, late) PROVE Fits(s, l)
  <2>1. \A u \in files : ~Contains(s, u)
    BY <1>1 DEF NewFile
  <2>2. Fits(s, late \ files) /\ Fits(s, late \cup files)
    BY <1>2, <2>1, StillFits
  <2> QED
    BY <1>1, <2>2
<1>3. Fits(images, l)
  BY <1>2 DEF FormInv, Lists
<1>4. ASSUME NEW u \in Uploads, uploads'[u] # Empty
      PROVE  RoomFor(uploads'[u].base, u, l) /\ uploads'[u] \in [base : Seq(Picture)]
  <2>1. CASE u \in files
    <3>1. uploads'[u] = [base |-> images] /\ ~Contains(images, u)
      BY <1>1, <2>1 DEF NewFile, Lists
    <3> QED
      BY <1>1, <1>3, <2>1, <3>1 DEF RoomFor, Fits
  <2>2. CASE u \notin files
    <3>1. uploads'[u] = uploads[u] /\ uploads[u] # Empty
      BY <1>1, <1>4, <2>2
    <3>2. uploads[u].base \in Lists /\ RoomFor(uploads[u].base, u, late)
      BY <3>1 DEF Lists, FormInv
    <3>3. Fits(uploads[u].base, l) /\ (u \in late => u \in l)
      BY <1>1, <1>2, <2>2, <3>2 DEF RoomFor
    <3> QED
      BY <3>1, <3>2, <3>3 DEF RoomFor, FormInv
  <2> QED
    BY <2>1, <2>2
<1>5. uploads' \in [Uploads -> {Empty} \cup [base : Seq(Picture)]]
  BY <1>1, <1>4
<1>6. /\ preview # Empty => SoundDraft(preview, l)
      /\ call # Empty => SoundDraft(call.sent, l)
  <2>1. preview # Empty => preview.images \in Lists
    BY DEF Lists
  <2>2. call # Empty => call.sent.images \in Lists
    BY DEF Lists
  <2> QED
    BY <1>2, <2>1, <2>2 DEF FormInv, SoundDraft
<1>7. SoundRow'
  BY <1>1 DEF FormInv, SoundRow, server, form
<1> QED
  BY <1>1, <1>3, <1>4, <1>5, <1>6, <1>7 DEF FormInv, server, form, sending

LEMMA FormSteps == FormInv /\ [FormNext]_formVars => FormInv'
<1> SUFFICES ASSUME FormInv, [FormNext]_formVars PROVE FormInv'
  OBVIOUS
<1> USE DEF FormInv, server, form, pictures, sending
<1>1. CASE Loaded
  <2>1. Stored \in Draft /\ Short(Stored.images) /\ Fits(Stored.images, late)
    BY <1>1, StartsSound, ShortFits DEF Loaded, SoundRow
  <2>2. /\ initial' \in Draft /\ Short(initial'.images) /\ fields' \in Field
        /\ Fits(images', late) /\ page' # "loading"
    BY <1>1, <2>1 DEF Loaded, Draft
  <2> QED
    BY <1>1, <2>2 DEF Loaded, SoundRow
<1>2. CASE Fill
  BY <1>2, FormAssumption DEF Fill, SoundRow
<1>3. CASE Reset
  <2>1. initial.fields \in Field /\ Fits(initial.images, late)
    BY ShortFits DEF Draft
  <2> QED
    BY <1>3, <2>1 DEF Reset, SoundRow
<1>4. CASE RemovePicture
  BY <1>4, OneLess DEF RemovePicture, SoundRow
<1>5. CASE OpenDialog
  BY <1>5 DEF OpenDialog, SoundRow
<1>6. ASSUME NEW files \in SUBSET Uploads, ChooseFiles(files) PROVE FormInv'
  BY <1>6, ChooseFits
<1>7. ASSUME NEW u \in Uploads, UploadArrives(u) PROVE FormInv'
  <2>1. Fits(images', late)
    BY <1>7, OneMore DEF UploadArrives, Uploaded
  <2> QED
    BY <1>7, <2>1 DEF UploadArrives, SoundRow
<1>8. ASSUME NEW u \in Uploads, UploadFails(u) PROVE FormInv'
  BY <1>8 DEF UploadFails, SoundRow
<1>9. CASE OpenPreview
  <2>1. \A now \in Device : now \in Int
    BY FormAssumption DEF Device
  <2>2. SoundDraft([fields |-> fields, images |-> images], late)
    BY <1>9, <2>1 DEF OpenPreview, SoundDraft, Draft, Fits
  <2> QED
    BY <1>9, <2>2 DEF OpenPreview, SoundRow
<1>10. CASE ClosePreview
  BY <1>10 DEF ClosePreview, SoundRow
<1>11. CASE Confirm
  <2>1. [sent |-> preview, answer |-> Empty] \in [sent : Draft, answer : {Empty, "ok", "refused"}]
    BY <1>11 DEF Confirm, SoundDraft
  <2> QED
    BY <1>11, <2>1 DEF Confirm, SoundRow
<1>12. CASE ServeForm
  <2> DEFINE f == call.sent.fields
             ok == ServerTakes(f, call.sent.images)
  <2>1. /\ call # Empty /\ call' = [call EXCEPT !.answer = IF ok THEN "ok" ELSE "refused"]
        /\ UNCHANGED <<time, form, pictures, preview>>
    BY <1>12 DEF ServeForm
  <2>2. call' \in [sent : Draft, answer : {Empty, "ok", "refused"}] /\ call'.sent = call.sent
    BY <2>1
  <2>3. SoundRow'
    <3>1. CASE row' = row
      BY <2>1, <3>1 DEF SoundRow
    <3>2. CASE row' # row
      <4>1. /\ ok /\ row # Empty
            /\ row' = [row EXCEPT !.fields = [f EXCEPT !.ceiling = Kept(@)],
                                  !.images = call.sent.images]
        BY <1>12, <3>2 DEF ServeForm
      <4>2. row \in RowType /\ f \in Field /\ Short(call.sent.images)
            /\ call.sent.images \in Seq(Picture)
        BY <2>1, <4>1 DEF SoundRow, IsRow, SoundDraft, Fits, Draft, Short, ServerTakes
      <4>3. Kept(f.ceiling) \in Nat \cup {Empty} /\ (Kept(f.ceiling) # Empty => Kept(f.ceiling) > 0)
        BY <4>1, <4>2, <2>1 DEF SoundRow, IsRow, Kept, RowType, Field, ServerTakes, Valid
      <4>4. /\ [f EXCEPT !.ceiling = Kept(@)] \in Field
            /\ [f EXCEPT !.ceiling = Kept(@)].ceiling = Kept(f.ceiling)
        BY <4>2, <4>3 DEF Field
      <4>5. /\ row' \in RowType /\ row'.images = call.sent.images
            /\ row'.fields = [f EXCEPT !.ceiling = Kept(@)]
        BY <4>1, <4>2, <4>4 DEF RowType
      <4> QED
        BY <4>2, <4>3, <4>4, <4>5 DEF SoundRow, IsRow
    <3> QED
      BY <3>1, <3>2
  <2> QED
    BY <2>1, <2>2, <2>3
<1>13. CASE SubmissionAnswered
  <2>1. Fits(<<>>, {})
    BY NoPictures, ShortFits
  <2> QED
    BY <1>13, <2>1, Defaults, NewForm DEF SubmissionAnswered, SoundRow, NoUploads
<1>14. CASE SubmissionFails
  BY <1>14 DEF SubmissionFails, SoundRow
<1>15. CASE OtherSaves
  <2> PICK f \in Typed :
        /\ Valid([row.fields EXCEPT !.price = f.price], Kept(f.ceiling))
        /\ row' = Saved(f)
    BY <1>15 DEF OtherSaves
  <2>1. row # Empty /\ IsRow(row) /\ f \in Field
    BY <1>15, FormAssumption DEF OtherSaves, SoundRow
  <2>2. Kept(f.ceiling) \in Nat \cup {Empty} /\ (Kept(f.ceiling) # Empty => Kept(f.ceiling) > 0)
    BY <2>1 DEF IsRow, Kept, RowType, Field, Valid
  <2>3. row' \in RowType /\ row'.images = row.images /\ row'.fields.ceiling = Kept(f.ceiling)
    BY <2>1, <2>2 DEF Saved, IsRow, RowType, Field
  <2>4. SoundRow'
    BY <2>1, <2>2, <2>3 DEF SoundRow, IsRow
  <2> QED
    BY <1>15, <2>4 DEF OtherSaves
<1>16. CASE Tick
  <2>1. SoundRow'
    BY <1>16 DEF Tick, SoundRow, IsRow, RowType
  <2> QED
    BY <1>16, <2>1 DEF Tick
<1>17. CASE UNCHANGED formVars
  BY <1>17 DEF formVars, SoundRow
<1> QED
  BY <1>1, <1>2, <1>3, <1>4, <1>5, <1>6, <1>7, <1>8, <1>9, <1>10, <1>11, <1>12, <1>13, <1>14,
     <1>15, <1>16, <1>17 DEF FormNext

LEMMA FormSound == FormSpec => []FormInv
  BY FormStarts, FormSteps, PTL DEF FormSpec

-----------------------------------------------------------------------------
\* Only files that were chosen when there was no room any more are too many, and no
\* picture is there twice, for any number of uploads that overlap, any number the
\* uploader allows and dialogs that stay open meanwhile (ImageUploader.tsx:42-84).
THEOREM PicturesFit == FormSpec => []OnlyLateTooMany
<1>1. FormInv => OnlyLateTooMany
  BY DEF FormInv, OnlyLateTooMany, SoundDraft, Fits
<1> QED
  BY <1>1, FormSound, PTL

\* What the form accepted is refused for a reason it cannot see or does not look
\* at, whatever is typed, broken seconds and prices beyond the server's integers
\* among it, and however wrong the seller's time is (AuctionForm.tsx:163-276).
THEOREM RefusalsAreExplained == FormSpec => RefusalsExplained
<1> DEFINE Explained ==
      call # Empty /\ call.answer = Empty /\ call' # Empty /\ call'.answer = "refused" =>
       \/ call.sent.fields.start <= time \/ call.sent.fields.text = "odd"
       \/ ~Binds(call.sent.fields) \/ Len(call.sent.images) > MaxImages
       \/ row # Empty /\ ~Editable
       \/ row # Empty /\ call.sent.fields.ceiling = Empty /\ row.fields.ceiling # Empty
            /\ row.fields.ceiling < call.sent.fields.price
<1>1. FormInv /\ [FormNext]_formVars => [Explained]_formVars
  <2> SUFFICES ASSUME FormInv, FormNext, call # Empty, call.answer = Empty,
                      call' # Empty, call'.answer = "refused"
               PROVE  Explained
    BY DEF Explained
  <2> DEFINE f == call.sent.fields
  <2>1. ServeForm
    <3>1. Empty # "refused" /\ call' # call
      BY FormAssumption
    <3>2. ~Loaded /\ ~Fill /\ ~Reset /\ ~RemovePicture /\ ~OpenDialog /\ ~OpenPreview /\ ~ClosePreview
      BY <3>1 DEF Loaded, Fill, Reset, RemovePicture, OpenDialog, OpenPreview, ClosePreview, sending
    <3>3. /\ ~\E files \in SUBSET Uploads : ChooseFiles(files)
          /\ ~\E u \in Uploads : UploadArrives(u) \/ UploadFails(u)
      BY <3>1 DEF ChooseFiles, UploadArrives, UploadFails, sending
    <3>4. ~Confirm /\ ~SubmissionAnswered /\ ~SubmissionFails
      BY DEF Confirm, SubmissionAnswered, SubmissionFails
    <3>5. ~OtherSaves /\ ~Tick
      BY <3>1 DEF OtherSaves, Tick, sending
    <3> QED
      BY <3>2, <3>3, <3>4, <3>5 DEF FormNext
  <2>2. ~ServerTakes(f, call.sent.images)
    BY <2>1 DEF ServeForm, FormInv
  <2>3. /\ f \in Field /\ f.text \in {"fine", "odd"}
        /\ f.price \in Nat /\ f.step \in Nat /\ f.start \in Nat /\ time \in Int
        /\ Len(call.sent.images) \in Nat
    <3>1. f \in Field /\ call.sent.images \in Seq(Picture) /\ time \in Int
      BY DEF FormInv, SoundDraft, Draft
    <3> QED
      BY <3>1 DEF Field
  <2> PICK now \in Int : Accepts(f, now)
    BY DEF FormInv, SoundDraft
  <2>4. CASE \/ (row # Empty /\ ~Editable) \/ f.start <= time \/ f.text = "odd"
             \/ ~Binds(f) \/ Len(call.sent.images) > MaxImages
    BY <2>4 DEF Explained
  <2>5. CASE /\ (row # Empty => Editable) /\ f.start > time /\ f.text = "fine"
             /\ Binds(f) /\ Len(call.sent.images) <= MaxImages
    <3>1. ~(Kept(f.ceiling) # Empty => Kept(f.ceiling) > 0 /\ Kept(f.ceiling) >= f.price)
      BY <2>2, <2>3, <2>5 DEF ServerTakes, Valid, Accepts
    <3>2. f.ceiling = Empty /\ row # Empty
      BY <2>3, <3>1, FormAssumption DEF Kept, Accepts, Field
    <3>3. Kept(f.ceiling) = row.fields.ceiling
      BY <3>2 DEF Kept
    <3>4. row.fields.ceiling # Empty => row.fields.ceiling \in Nat /\ row.fields.ceiling > 0
      BY <3>2, FormAssumption DEF FormInv, SoundRow, IsRow, RowType, Field
    <3> QED
      BY <2>3, <3>1, <3>2, <3>3, <3>4 DEF Explained
  <2> QED
    BY <2>3, <2>4, <2>5, FormAssumption
<1> QED
  BY <1>1, FormSound, PTL DEF FormSpec, RefusalsExplained, Explained

\* The form's page, fields and row have their types.
THEOREM FormTyped == FormSpec => []FormTypeOK
<1> DEFINE Pages == {"loading", "form", "error", "list"}
<1>1. FormInit => page \in Pages
  BY DEF FormInit
<1>2. page \in Pages /\ [FormNext]_formVars => (page \in Pages)'
  BY DEF FormNext, formVars, form, Loaded, Fill, Reset, RemovePicture, OpenDialog, ChooseFiles,
         UploadArrives, UploadFails, OpenPreview, ClosePreview, Confirm, ServeForm, SubmissionAnswered,
         SubmissionFails, OtherSaves, Tick
<1>3. ASSUME FormInv, page \in Pages PROVE FormTypeOK
  <2>1. row # Empty => row \in RowType
    BY <1>3 DEF FormInv, SoundRow, IsRow
  <2>2. row # Empty => row.fields \in Field /\ row.status \in {"pending", "active"}
    BY <2>1 DEF RowType, Field
  <2> QED
    BY <1>3, <2>2 DEF FormInv, FormTypeOK
<1> QED
  BY <1>1, <1>2, <1>3, FormSound, PTL DEF FormSpec
=============================================================================
