-------------------------- MODULE ClientRoomProofs --------------------------
(***************************************************************************)
(* What TLAPS proves of ClientRoom, for any log, page size, window and     *)
(* number of requests under way.                                           *)
(*                                                                         *)
(* The row after n events and the store after a page are computed by       *)
(* recursive functions.  What these compute is shown by counting: a set    *)
(* that has 0 and with a number the next one has all numbers.              *)
(***************************************************************************)
EXTENDS ClientRoom, FiniteSetTheorems, WellFoundedInduction, TLAPS

-----------------------------------------------------------------------------
(* Counting.                                                                *)

LEMMA LeastNumber ==
  ASSUME NEW T \in SUBSET Nat, T # {}
  PROVE  \E x \in T : \A y \in T : x <= y
<1> DEFINE R == OpToRel(<, Nat)
<1>1. IsWellFoundedOn(R, Nat)
  BY NatLessThanWellFounded
<1>2. \A a, b \in Nat : <<a, b>> \in R <=> a < b
  BY DEF OpToRel
<1> HIDE DEF R
<1>3. PICK x \in T : \A y \in T : ~(<<y, x>> \in R)
  BY <1>1, WFMin
<1>4. \A y \in T : x <= y
  <2> TAKE y \in T
  <2>1. y \in Nat /\ x \in Nat /\ ~(y < x)
    BY <1>2, <1>3
  <2> QED
    BY <2>1
<1> QED
  BY <1>4

LEMMA Counting ==
  ASSUME NEW S, 0 \in S, \A n \in Nat : n \in S => n + 1 \in S
  PROVE  Nat \subseteq S
<1> SUFFICES ASSUME Nat \ S # {} PROVE FALSE
  OBVIOUS
<1>1. PICK x \in Nat \ S : \A y \in Nat \ S : x <= y
  BY LeastNumber
<1>2. x # 0 /\ x - 1 \in Nat /\ x - 1 \in S
  BY <1>1
<1> QED
  BY <1>1, <1>2

-----------------------------------------------------------------------------
(* The page, event by event.                                                *)

PageFrom(s, n, j, f) ==
  f = [k \in 0..j |-> IF k = 0 THEN s ELSE ApplyEvent(f[k - 1], n + k)]

LEMMA PageSteps ==
  ASSUME NEW s, NEW n, NEW j \in Nat
  PROVE  \E f : PageFrom(s, n, j, f)
<1> DEFINE S == {i \in Nat : \E f : PageFrom(s, n, i, f)}
<1>1. 0 \in S
  <2> DEFINE f == [k \in 0..0 |-> s]
  <2>1. PageFrom(s, n, 0, f)
    BY DEF PageFrom
  <2> QED
    BY <2>1
<1>2. ASSUME NEW i \in Nat, i \in S
      PROVE  i + 1 \in S
  <2>1. PICK f : PageFrom(s, n, i, f)
    BY <1>2
  <2> DEFINE step(k, before) == IF k = 0 THEN s ELSE ApplyEvent(before, n + k)
             g == [k \in 0..(i + 1) |-> step(k, f[k - 1])]
  <2>2. \A k \in 0..i : f[k] = step(k, f[k - 1])
    BY <2>1 DEF PageFrom
  <2>3. \A k \in 0..(i + 1) : k # 0 => k - 1 \in 0..i /\ k - 1 \in 0..(i + 1)
    OBVIOUS
  <2>4. \A k \in 0..i : k \in 0..(i + 1)
    OBVIOUS
  <2>5. \A k \in 0..i : g[k] = f[k]
    <3> HIDE DEF step
    <3> QED
      BY <2>2, <2>4
  <2>6. \A k \in 0..(i + 1) : step(k, f[k - 1]) = step(k, g[k - 1])
    BY <2>3, <2>5
  <2>7. g = [k \in 0..(i + 1) |-> step(k, g[k - 1])]
    <3> HIDE DEF step
    <3> QED
      BY <2>6
  <2>8. PageFrom(s, n, i + 1, g)
    BY <2>7 DEF PageFrom
  <2> QED
    BY <2>8
<1> HIDE DEF S
<1>3. j \in S
  BY <1>1, <1>2, Counting
<1> QED
  BY <1>3 DEF S

\* The states of the store while a page is applied.
OneByOne(s, n, m, f) ==
  /\ f[0] = s /\ f[m - n] = ApplyPage(s, n, m)
  /\ \A k \in 1..(m - n) : f[k] = ApplyEvent(f[k - 1], n + k)

LEMMA PageBy ==
  ASSUME NEW s, NEW n \in Nat, NEW m \in Nat, n <= m
  PROVE  \E f : OneByOne(s, n, m, f)
<1> DEFINE f == CHOOSE f : f = [k \in 0..(m - n) |->
                                  IF k = 0 THEN s ELSE ApplyEvent(f[k - 1], n + k)]
<1>1. m - n \in Nat
  OBVIOUS
<1>2. \E g : PageFrom(s, n, m - n, g)
  BY <1>1, PageSteps
<1>3. f = [k \in 0..(m - n) |-> IF k = 0 THEN s ELSE ApplyEvent(f[k - 1], n + k)]
  BY <1>2 DEF PageFrom
<1>4. f[m - n] = ApplyPage(s, n, m)
  BY DEF ApplyPage
<1> HIDE DEF f
<1>5. f[0] = s
  BY <1>1, <1>3
<1>6. \A k \in 1..(m - n) : f[k] = ApplyEvent(f[k - 1], n + k)
  BY <1>1, <1>3
<1>7. OneByOne(s, n, m, f)
  BY <1>4, <1>5, <1>6 DEF OneByOne
<1> QED
  BY <1>7

-----------------------------------------------------------------------------
(* The rows of the auction.                                                 *)

ViewFrom(j, f) ==
  f = [n \in 0..j |-> IF n = 0 THEN Copy("pending", 0, 0, 0) ELSE After(f[n - 1], Log[n])]

LEMMA ViewExists ==
  ASSUME NEW j \in Nat
  PROVE  \E f : ViewFrom(j, f)
<1> DEFINE S == {i \in Nat : \E f : ViewFrom(i, f)}
<1>1. 0 \in S
  <2> DEFINE f == [k \in 0..0 |-> Copy("pending", 0, 0, 0)]
  <2>1. ViewFrom(0, f)
    BY DEF ViewFrom
  <2> QED
    BY <2>1
<1>2. ASSUME NEW i \in Nat, i \in S
      PROVE  i + 1 \in S
  <2>1. PICK f : ViewFrom(i, f)
    BY <1>2
  <2> DEFINE step(k, before) == IF k = 0 THEN Copy("pending", 0, 0, 0) ELSE After(before, Log[k])
             g == [k \in 0..(i + 1) |-> step(k, f[k - 1])]
  <2>2. \A k \in 0..i : f[k] = step(k, f[k - 1])
    BY <2>1, Zenon DEF ViewFrom
  <2>3. \A k \in 0..(i + 1) : k # 0 => k - 1 \in 0..i /\ k - 1 \in 0..(i + 1)
    OBVIOUS
  <2>4. \A k \in 0..i : k \in 0..(i + 1)
    OBVIOUS
  <2>5. \A k \in 0..i : g[k] = f[k]
    <3> HIDE DEF step
    <3> QED
      BY <2>2, <2>4
  <2>6. \A k \in 0..(i + 1) : step(k, f[k - 1]) = step(k, g[k - 1])
    BY <2>3, <2>5
  <2>7. g = [k \in 0..(i + 1) |-> step(k, g[k - 1])]
    <3> HIDE DEF step
    <3> QED
      BY <2>6
  <2>8. ViewFrom(i + 1, g)
    BY <2>7 DEF ViewFrom
  <2> QED
    BY <2>8
<1> HIDE DEF S
<1>3. j \in S
  BY <1>1, <1>2, Counting
<1> QED
  BY <1>3 DEF S

LEMMA LogLength == Len(Log) \in Nat /\ DOMAIN Log = 1..Len(Log)
BY LogAssumption

LEMMA ViewBy ==
  /\ View[0] = Copy("pending", 0, 0, 0)
  /\ \A n \in 1..Len(Log) : View[n] = After(View[n - 1], Log[n])
<1>1. Len(Log) \in Nat
  BY LogLength
<1>2. \E f : ViewFrom(Len(Log), f)
  BY <1>1, ViewExists
<1>3. ViewFrom(Len(Log), View)
  BY <1>2 DEF ViewFrom, View
<1> HIDE DEF View
<1> QED
  BY <1>1, <1>3 DEF ViewFrom

\* What kinds of events there are, and where they stand.
LEMMA KindsOfEvents ==
  ASSUME NEW n \in 1..Len(Log)
  PROVE  /\ Log[n].type \in {"started", "bid", "extended", "ended", "sold", "cancelled"}
         /\ Log[n].type = "bid" => Log[n].price \in Nat
         /\ Log[n].type = "extended" => Log[n].end \in Nat
         /\ Log[n].type = "started" => n = 1
         /\ Log[n].type \in {"ended", "sold", "cancelled"} => n = Len(Log)
<1>1. n \in DOMAIN Log
  BY LogLength
<1>2. Log[n] \in Events
  BY <1>1, LogAssumption
<1> QED
  BY <1>1, <1>2, LogAssumption DEF Events

Rows == [status : Statuses, price : Nat, count : Nat, end : Nat]

\* One step of the row.
LEMMA RowStep ==
  ASSUME NEW a \in Rows, NEW n \in 1..Len(Log)
  PROVE  LET b == After(a, Log[n])
             type == Log[n].type
         IN  /\ b \in Rows /\ a.count <= b.count
             /\ type = "started" => b.status = "active"
             /\ type \in {"ended", "sold"} => b.status = "ended"
             /\ type = "cancelled" => b.status = "cancelled"
             /\ type \in {"bid", "extended"} => b.status = a.status
             /\ type = "bid" => b.price = Log[n].price /\ b.count = a.count + 1 /\ b.end = a.end
             /\ type = "extended" => b.end = Log[n].end
             /\ type # "bid" => b.price = a.price /\ b.count = a.count
             /\ type # "extended" => b.end = a.end
<1>1. CASE Log[n].type = "bid"
  <2> DEFINE p == Log[n].price
             c == a.count + 1
  <2>1. p \in Nat /\ c \in Nat /\ a.count <= c
    BY <1>1, KindsOfEvents DEF Rows
  <2>2. After(a, Log[n]) = [a EXCEPT !.price = p, !.count = c]
    BY <1>1 DEF After
  <2> HIDE DEF p, c
  <2> DEFINE b == [a EXCEPT !.price = p, !.count = c]
  <2>3. b \in Rows /\ b.price = p /\ b.count = c /\ b.status = a.status /\ b.end = a.end
    BY <2>1 DEF Rows
  <2> QED
    BY <1>1, <2>1, <2>2, <2>3 DEF p, c
<1>2. CASE Log[n].type = "extended"
  BY <1>2, KindsOfEvents DEF After, Rows
<1>3. CASE Log[n].type \in {"started", "ended", "sold", "cancelled"}
  BY <1>3 DEF After, Rows, Statuses
<1> HIDE DEF After, Rows
<1> QED
  BY <1>1, <1>2, <1>3, KindsOfEvents

\* Every row has its types, and an auction ends with its last event.
LEMMA ViewRows ==
  \A n \in 0..Len(Log) : View[n] \in Rows /\ (View[n].status = "ended" => n = Len(Log))
<1> DEFINE L == Len(Log)
           S == {n \in Nat : n <= L =>
                   /\ View[n] \in Rows
                   /\ View[n].status \in {"ended", "cancelled"} => n = L}
<1>0. L \in Nat
  BY LogLength
<1> HIDE DEF View, L
<1>1. 0 \in S
  BY ViewBy DEF Copy, Rows, Statuses
<1>2. ASSUME NEW n \in Nat, n \in S
      PROVE  n + 1 \in S
  <2> SUFFICES ASSUME n + 1 <= L
               PROVE  /\ View[n + 1] \in Rows
                      /\ View[n + 1].status \in {"ended", "cancelled"} => n + 1 = L
    OBVIOUS
  <2> DEFINE i == n + 1
  <2>1. i \in 1..L /\ n <= L /\ n # L /\ i - 1 = n
    BY <1>0
  <2>2. View[n] \in Rows /\ View[n].status \notin {"ended", "cancelled"}
    BY <1>2, <2>1
  <2> HIDE DEF i
  <2>3. View[i] = After(View[n], Log[i])
    BY <2>1, ViewBy DEF L
  <2>4. /\ View[i] \in Rows
        /\ Log[i].type \in {"started", "bid", "extended"} => View[i].status \in {"active", View[n].status}
    BY <2>1, <2>2, <2>3, RowStep DEF L
  <2>5. Log[i].type \in {"started", "bid", "extended"} \/ i = L
    BY <2>1, KindsOfEvents DEF L
  <2> QED
    BY <2>2, <2>4, <2>5 DEF i
<1>3. Nat \subseteq S
  <2> HIDE DEF S
  <2> QED
    BY <1>1, <1>2, Counting
<1> QED
  BY <1>0, <1>3 DEF L

LEMMA CountGrows ==
  ASSUME NEW m \in 0..Len(Log), NEW n \in m..Len(Log)
  PROVE  View[m].count <= View[n].count
<1> DEFINE L == Len(Log)
           S == {k \in Nat : m + k <= L => View[m].count <= View[m + k].count}
<1>0. L \in Nat /\ m \in 0..L /\ n \in m..L
  BY LogLength
<1> HIDE DEF View, L
<1>1. 0 \in S
  BY <1>0, ViewRows DEF Rows, L
<1>2. ASSUME NEW k \in Nat, k \in S
      PROVE  k + 1 \in S
  <2> SUFFICES ASSUME m + (k + 1) <= L
               PROVE  View[m].count <= View[m + (k + 1)].count
    OBVIOUS
  <2> DEFINE i == m + k
             j == m + (k + 1)
  <2>1. j \in 1..L /\ j \in 0..L /\ i \in 0..L /\ j - 1 = i
    BY <1>0
  <2>2. View[m].count <= View[i].count
    BY <1>0, <1>2, <2>1
  <2> HIDE DEF i, j
  <2>3. View[j] = After(View[i], Log[j])
    BY <2>1, ViewBy DEF L
  <2>4. View[m] \in Rows /\ View[i] \in Rows /\ View[j] \in Rows
    BY <2>1, ViewRows DEF L
  <2>5. View[i].count <= View[j].count
    BY <2>1, <2>3, <2>4, RowStep DEF L
  <2>6. View[m].count \in Nat /\ View[i].count \in Nat /\ View[j].count \in Nat
    BY <2>4 DEF Rows
  <2>7. View[m].count <= View[j].count
    BY <2>2, <2>5, <2>6
  <2> QED
    BY <2>7 DEF j
<1>3. Nat \subseteq S
  <2> HIDE DEF S
  <2> QED
    BY <1>1, <1>2, Counting
<1>4. n - m \in Nat /\ m + (n - m) = n /\ n <= L
  BY <1>0
<1> QED
  BY <1>3, <1>4

-----------------------------------------------------------------------------
(* What an event makes of a copy and of the store.                          *)

LEMMA MovedBy ==
  ASSUME NEW a \in {NoAuction} \cup Copies, NEW n \in 1..Len(Log)
  PROVE  LET b == Moved(a, n)
             row == View[n]
             type == Log[n].type
             told == type \in {"started", "ended"}
         IN  /\ b \in {NoAuction} \cup Copies
             /\ told => /\ b \in Copies /\ b.count = Unknown
                        /\ b.status = row.status /\ b.price = row.price /\ b.end = row.end
             /\ ~told /\ a = NoAuction => b = NoAuction
             /\ ~told /\ a # NoAuction =>
                  /\ b \in Copies
                  /\ b.status = IF type \in {"sold", "cancelled"} THEN row.status ELSE a.status
                  /\ b.price = IF type = "bid" THEN row.price ELSE a.price
                  /\ b.end = IF type = "extended" THEN row.end ELSE a.end
                  /\ b.count = IF type = "bid" THEN CountOne(a.count) ELSE a.count
<1> DEFINE e == Log[n]
           row == View[n]
           before == View[n - 1]
<1> HIDE DEF View
<1>1. row \in Rows /\ before \in Rows /\ row = After(before, e)
  <2>1. n \in 0..Len(Log) /\ n - 1 \in 0..Len(Log)
    BY LogLength
  <2>2. View[n] \in Rows /\ View[n - 1] \in Rows
    BY <2>1, ViewRows
  <2>3. View[n] = After(View[n - 1], Log[n])
    BY ViewBy
  <2> QED
    BY <2>2, <2>3
<1> HIDE DEF row, before
<1>2. CASE e.type \in {"started", "ended"}
  <2> DEFINE b == [row EXCEPT !.count = Unknown]
  <2>1. Moved(a, n) = b
    BY <1>2 DEF Moved, PartialCopy, row
  <2>2. b \in Copies /\ b.count = Unknown
        /\ b.status = row.status /\ b.price = row.price /\ b.end = row.end
    BY <1>1 DEF Rows, Copies
  <2> QED
    BY <1>2, <2>1, <2>2 DEF row
<1>3. CASE e.type \notin {"started", "ended"} /\ a = NoAuction
  BY <1>3 DEF Moved
<1>4. CASE e.type = "bid" /\ a # NoAuction
  <2> DEFINE p == e.price
             c == CountOne(a.count)
  <2>1. a \in Copies /\ p = row.price /\ p \in Nat
    BY <1>1, <1>4, RowStep, KindsOfEvents
  <2>2. Moved(a, n) = [a EXCEPT !.price = p, !.count = c]
    BY <1>4 DEF Moved
  <2>3. c \in Nat
    BY <2>1 DEF CountOne, Copies
  <2> HIDE DEF p, c
  <2> DEFINE b == [a EXCEPT !.price = p, !.count = c]
  <2>4. b \in Copies /\ b.price = p /\ b.count = c /\ b.status = a.status /\ b.end = a.end
    BY <2>1, <2>3 DEF Copies
  <2> QED
    BY <1>4, <2>1, <2>2, <2>4 DEF c, row
<1>5. CASE e.type = "extended" /\ a # NoAuction
  <2> DEFINE v == e.end
  <2>1. a \in Copies /\ v = row.end /\ v \in Nat
    BY <1>1, <1>5, RowStep, KindsOfEvents
  <2>2. Moved(a, n) = [a EXCEPT !.end = v]
    BY <1>5 DEF Moved
  <2> HIDE DEF v
  <2> DEFINE b == [a EXCEPT !.end = v]
  <2>3. b \in Copies /\ b.end = v /\ b.count = a.count /\ b.status = a.status /\ b.price = a.price
    BY <2>1 DEF Copies
  <2> QED
    BY <1>5, <2>1, <2>2, <2>3 DEF row
<1>6. CASE e.type \in {"sold", "cancelled"} /\ a # NoAuction
  <2> DEFINE v == row.status
  <2>1. a \in Copies /\ v \in Statuses /\ v = IF e.type = "sold" THEN "ended" ELSE "cancelled"
    BY <1>1, <1>6, RowStep DEF Rows
  <2>2. Moved(a, n) = [a EXCEPT !.status = v]
    BY <1>6, <2>1 DEF Moved
  <2> HIDE DEF v
  <2> DEFINE b == [a EXCEPT !.status = v]
  <2>3. b \in Copies /\ b.status = v /\ b.count = a.count /\ b.end = a.end /\ b.price = a.price
    BY <2>1 DEF Copies
  <2> QED
    BY <1>6, <2>1, <2>2, <2>3 DEF v, row
<1> QED
  BY <1>2, <1>3, <1>4, <1>5, <1>6, KindsOfEvents
LEMMA EventApplied ==
  ASSUME committed \in 0..Len(Log), NEW s \in Stores, NEW n \in 1..committed
  PROVE  LET t == ApplyEvent(s, n)
         IN  /\ t \in Stores
             /\ t.seen = s.seen \cup {EventMsg(n)}
             /\ IsNew(s, n) =>
                  /\ t.auction = Moved(s.auction, n) /\ t.lastSeq = n
                  /\ t.ended = IF Log[n].type \in {"ended", "sold"} THEN Deal(n) ELSE s.ended
             /\ ~IsNew(s, n) =>
                  t.auction = s.auction /\ t.lastSeq = s.lastSeq /\ t.ended = s.ended
<1> DEFINE t == ApplyEvent(s, n)
           over == IF Log[n].type \in {"ended", "sold"} THEN Deal(n) ELSE s.ended
<1> HIDE DEF View
<1>1. n \in 1..Len(Log) /\ n \in 0..Len(Log) /\ n \in Numbers /\ EventMsg(n) \in Messages
  BY LogLength DEF Numbers, Messages, EventMsg
<1>2. s.seen \cup {EventMsg(n)} \in SUBSET Messages
  BY <1>1 DEF Stores
<1>3. over \in [open : BOOLEAN, final : Nat \cup {Unknown}, order : BOOLEAN]
  <2>1. View[n].count \in Nat /\ View[n].price \in Nat
    BY <1>1, ViewRows DEF Rows
  <2>2. Deal(n) \in [open : BOOLEAN, final : Nat \cup {Unknown}, order : BOOLEAN]
    BY <2>1 DEF Deal
  <2> QED
    BY <2>2 DEF Stores
<1>4. Moved(s.auction, n) \in {NoAuction} \cup Copies
  BY <1>1, MovedBy DEF Stores
<1>5. CASE IsNew(s, n)
  <2>1. t = [auction |-> Moved(s.auction, n), lastSeq |-> n, seen |-> s.seen \cup {EventMsg(n)},
             ended |-> over]
    BY <1>5 DEF ApplyEvent
  <2> HIDE DEF t, over
  <2> QED
    BY <1>1, <1>2, <1>3, <1>4, <1>5, <2>1 DEF Stores, t, over
<1>6. CASE ~IsNew(s, n)
  <2>1. t = [s EXCEPT !.seen = s.seen \cup {EventMsg(n)}]
    BY <1>6 DEF ApplyEvent
  <2> HIDE DEF t
  <2> QED
    BY <1>2, <1>6, <2>1 DEF Stores, t
<1> QED
  BY <1>5, <1>6

-----------------------------------------------------------------------------
(* The parts of the invariant that speak of a store.                        *)

\* NothingInvented, of any store.
Truthful(s) ==
  /\ s.auction # NoAuction =>
       /\ s.auction.price \in {Unknown} \cup {View[n].price : n \in Numbers}
       /\ s.auction.status \in {Unknown} \cup {View[n].status : n \in Numbers}
  /\ s.ended.open =>
       /\ View[committed].status = "ended"
       /\ s.ended.final \in {Unknown, View[committed].price}

\* The bids counted are those of the row after event lastSeq, and `own` more.
Counted(s, own) ==
  s.auction # NoAuction /\ s.auction.count # Unknown
    => s.auction.count <= View[s.lastSeq].count + own

\* InStep, and what keeps the next event from being taken for a duplicate or its
\* count for wrong.
Follows(s) ==
  LET row == View[s.lastSeq]
  IN  /\ s.auction # NoAuction
      /\ s.auction.status = row.status /\ s.auction.price = row.price /\ s.auction.end = row.end
      /\ s.auction.count \in {row.count, Unknown}
      /\ s.auction.count = Unknown => row.count = 0 \/ s.lastSeq = Len(Log)
      /\ s.ended.open => row.status = "ended"
      /\ \A n \in Numbers : EventMsg(n) \in s.seen => n <= s.lastSeq

\* An event of the end is the last one, and the row tells of it.
LEMMA EndIsLast ==
  ASSUME committed \in 0..Len(Log), NEW n \in 0..committed,
         View[n].status = "ended" \/ (n # 0 /\ Log[n].type \in {"ended", "sold"})
  PROVE  n = Len(Log) /\ committed = n /\ View[n].status = "ended"
<1> HIDE DEF View
<1>1. n \in 0..Len(Log) /\ (n # 0 => n \in 1..Len(Log) /\ n - 1 \in 0..Len(Log))
  BY LogLength
<1>2. View[n].status = "ended"
  <2>1. CASE n # 0 /\ Log[n].type \in {"ended", "sold"}
    <3>1. View[n] = After(View[n - 1], Log[n]) /\ View[n - 1] \in Rows
      BY <1>1, <2>1, ViewBy, ViewRows
    <3> QED
      BY <1>1, <2>1, <3>1, RowStep
  <2> QED
    BY <2>1
<1>3. n = Len(Log)
  BY <1>1, <1>2, ViewRows
<1>4. committed = n
  BY <1>3, LogLength
<1> QED
  BY <1>2, <1>3, <1>4

LEMMA EventTruthful ==
  ASSUME committed \in 0..Len(Log), NEW s \in Stores, NEW n \in 1..committed, Truthful(s)
  PROVE  Truthful(ApplyEvent(s, n))
<1> DEFINE t == ApplyEvent(s, n)
<1> HIDE DEF View
<1>1. n \in Numbers /\ n \in 1..Len(Log) /\ n \in 0..committed /\ n # 0
  BY LogLength DEF Numbers
<1>2. CASE ~IsNew(s, n)
  BY <1>2, EventApplied DEF Truthful
<1>3. CASE IsNew(s, n)
  <2>1. t.auction = Moved(s.auction, n)
    BY <1>3, EventApplied
  <2>2. t.ended = IF Log[n].type \in {"ended", "sold"} THEN Deal(n) ELSE s.ended
    BY <1>3, EventApplied
  <2>3. t.auction # NoAuction =>
          /\ t.auction.price \in {View[n].price, s.auction.price}
          /\ t.auction.status \in {View[n].status, s.auction.status}
          /\ s.auction = NoAuction => t.auction.price = View[n].price /\ t.auction.status = View[n].status
    <3>1. s.auction \in {NoAuction} \cup Copies
      BY DEF Stores
    <3> DEFINE a == s.auction
               b == t.auction
    <3>2. b = Moved(a, n)
      BY <2>1
    <3> HIDE DEF a, b, t
    <3>3. b # NoAuction =>
            /\ b.price \in {View[n].price, a.price} /\ b.status \in {View[n].status, a.status}
            /\ a = NoAuction => b.price = View[n].price /\ b.status = View[n].status
      BY <1>1, <3>1, <3>2, MovedBy DEF a
    <3> QED
      BY <3>3 DEF a, b
  <2>4. t.auction # NoAuction =>
          /\ t.auction.price \in {Unknown} \cup {View[i].price : i \in Numbers}
          /\ t.auction.status \in {Unknown} \cup {View[i].status : i \in Numbers}
    BY <1>1, <2>3 DEF Truthful
  <2>5. CASE Log[n].type \in {"ended", "sold"}
    <3>1. committed = n /\ View[n].status = "ended"
      BY <1>1, <2>5, EndIsLast
    <3>2. t.ended.final \in {Unknown, View[n].price}
      BY <2>2, <2>5 DEF Deal
    <3> HIDE DEF t
    <3> QED
      BY <2>4, <3>1, <3>2 DEF Truthful, t
  <2>6. CASE Log[n].type \notin {"ended", "sold"}
    <3>1. t.ended = s.ended
      BY <2>2, <2>6
    <3> HIDE DEF t
    <3> QED
      BY <2>4, <3>1 DEF Truthful, t
  <2> QED
    BY <2>5, <2>6
<1> QED
  BY <1>2, <1>3

LEMMA EventCounted ==
  ASSUME committed \in 0..Len(Log), NEW s \in Stores, NEW n \in 1..committed,
         NEW own \in Nat, Counted(s, own)
  PROVE  Counted(ApplyEvent(s, n), own)
<1> DEFINE t == ApplyEvent(s, n)
           l == s.lastSeq
<1> HIDE DEF View
<1>1. n \in 1..Len(Log) /\ l \in 0..Len(Log) /\ l \in Int /\ n \in Int
  BY LogLength DEF Numbers, Stores
<1>2. CASE ~IsNew(s, n)
  BY <1>2, EventApplied DEF Counted
<1>3. CASE IsNew(s, n)
  <2>1. t.auction = Moved(s.auction, n) /\ t.lastSeq = n
    BY <1>3, EventApplied
  <2> DEFINE k == n - 1
  <2>2. k \in l..Len(Log) /\ k \in 0..Len(Log) /\ n \in 0..Len(Log)
    BY <1>1, <1>3, LogLength DEF IsNew
  <2>3. View[n] = After(View[k], Log[n]) /\ View[k] \in Rows /\ View[n] \in Rows /\ View[l] \in Rows
    BY <1>1, <2>2, ViewBy, ViewRows
  <2>4. View[l].count <= View[k].count
    BY <1>1, <2>2, CountGrows
  <2>5. View[n].count = IF Log[n].type = "bid" THEN View[k].count + 1 ELSE View[k].count
    BY <1>1, <2>3, RowStep
  <2>6. View[n].count \in Nat /\ View[k].count \in Nat /\ View[l].count \in Nat
    BY <2>3 DEF Rows
  <2>7. SUFFICES ASSUME t.auction # NoAuction, t.auction.count # Unknown
                 PROVE  t.auction.count <= View[n].count + own
    BY <2>1 DEF Counted
  <2>8. /\ s.auction # NoAuction /\ s.auction \in Copies
        /\ t.auction.count = IF Log[n].type = "bid" THEN CountOne(s.auction.count) ELSE s.auction.count
    BY <1>1, <2>1, <2>7, MovedBy DEF Stores
  <2>9. CASE s.auction.count = Unknown
    <3>1. Log[n].type = "bid" /\ t.auction.count = 1
      BY <2>7, <2>8, <2>9 DEF CountOne
    <3> DEFINE vn == View[n].count
               vk == View[k].count
    <3>2. vn = vk + 1 /\ vk \in Nat
      BY <2>5, <2>6, <3>1
    <3> HIDE DEF vn, vk
    <3>3. 1 <= vn + own
      BY <3>2
    <3> QED
      BY <3>1, <3>3 DEF vn
  <2>10. CASE s.auction.count # Unknown
    <3>1. s.auction.count <= View[l].count + own /\ s.auction.count \in Nat
      BY <2>8, <2>10 DEF Counted, Copies
    <3> DEFINE c == s.auction.count
               vl == View[l].count
               vk == View[k].count
               vn == View[n].count
    <3>2. /\ t.auction.count = IF Log[n].type = "bid" THEN c + 1 ELSE c
          /\ vn = IF Log[n].type = "bid" THEN vk + 1 ELSE vk
          /\ vl <= vk /\ c <= vl + own /\ {c, vl, vk, vn} \subseteq Nat
      BY <2>4, <2>5, <2>6, <2>8, <2>10, <3>1 DEF CountOne
    <3> HIDE DEF c, vl, vk, vn, t
    <3>3. t.auction.count <= vn + own
      BY <3>2
    <3> QED
      BY <3>3 DEF vn
  <2> QED
    BY <2>9, <2>10
<1> QED
  BY <1>2, <1>3
\* The next event, or one that was applied before, keeps a copy in step.
LEMMA EventFollows ==
  ASSUME committed \in 0..Len(Log), NEW s \in Stores, NEW n \in 1..committed,
         Follows(s), n <= s.lastSeq + 1
  PROVE  LET t == ApplyEvent(s, n)
         IN  Follows(t) /\ s.lastSeq <= t.lastSeq /\ n <= t.lastSeq
<1> DEFINE t == ApplyEvent(s, n)
           l == s.lastSeq
<1> HIDE DEF View
<1>1. n \in 1..Len(Log) /\ l \in 0..Len(Log) /\ l \in Int /\ n \in Int /\ n \in Numbers
  BY LogLength DEF Numbers, Stores
<1>2. \A i \in Numbers : EventMsg(i) \in t.seen => i <= l \/ i = n
  BY EventApplied DEF Follows, EventMsg
<1>3. CASE n <= l
  <2>1. ~IsNew(s, n)
    BY <1>1, <1>3 DEF IsNew
  <2>2. t.auction = s.auction /\ t.lastSeq = l /\ t.ended = s.ended
    BY <2>1, EventApplied
  <2> HIDE DEF t
  <2>3. Follows(t)
    BY <1>2, <1>3, <2>2 DEF Follows
  <2> QED
    BY <1>1, <1>3, <2>2, <2>3 DEF t
<1>4. CASE n = l + 1
  <2>1. IsNew(s, n)
    BY <1>1, <1>4 DEF IsNew, Follows
  <2>2. /\ t.auction = Moved(s.auction, n) /\ t.lastSeq = n
        /\ t.ended = IF Log[n].type \in {"ended", "sold"} THEN Deal(n) ELSE s.ended
    BY <2>1, EventApplied
  <2> DEFINE row == View[n]
             old == View[l]
             type == Log[n].type
  <2>3. n \in 0..Len(Log) /\ n - 1 = l /\ l # Len(Log)
    BY <1>1, <1>4, LogLength
  <2>4. row = After(old, Log[n]) /\ old \in Rows /\ row \in Rows
    BY <1>1, <2>3, ViewBy, ViewRows
  <2>5. type \in {"started", "bid", "extended", "ended", "sold", "cancelled"}
        /\ (type = "started" => n = 1) /\ (type \in {"ended", "sold", "cancelled"} => n = Len(Log))
    BY <1>1, KindsOfEvents
  <2>6. s.auction # NoAuction /\ s.auction \in Copies
        /\ s.auction.status = old.status /\ s.auction.price = old.price /\ s.auction.end = old.end
        /\ s.auction.count \in {old.count, Unknown}
        /\ (s.auction.count = Unknown => old.count = 0)
    BY <2>3 DEF Follows, Stores
  <2> DEFINE a == s.auction
             b == t.auction
             told == type \in {"started", "ended"}
  <2>7. /\ told => /\ b \in Copies /\ b.count = Unknown
                   /\ b.status = row.status /\ b.price = row.price /\ b.end = row.end
        /\ ~told => /\ b \in Copies
                    /\ b.status = IF type \in {"sold", "cancelled"} THEN row.status ELSE a.status
                    /\ b.price = IF type = "bid" THEN row.price ELSE a.price
                    /\ b.end = IF type = "extended" THEN row.end ELSE a.end
                    /\ b.count = IF type = "bid" THEN CountOne(a.count) ELSE a.count
    BY <1>1, <2>2, <2>6, MovedBy
  <2>8. /\ type = "started" => n = 1
        /\ type \in {"bid", "extended"} => row.status = old.status
        /\ row.price = IF type = "bid" THEN row.price ELSE old.price
        /\ row.end = IF type = "extended" THEN row.end ELSE old.end
        /\ row.count = IF type = "bid" THEN old.count + 1 ELSE old.count
    BY <1>1, <2>4, <2>5, RowStep
  <2>9. type = "started" => old.count = 0
    <3>1. View[0].count = 0
      BY ViewBy DEF Copy
    <3>2. type = "started" => l = 0
      BY <1>1, <1>4, <2>5
    <3> QED
      BY <3>1, <3>2
  <2>10. old.count \in Nat /\ row.count \in Nat /\ Unknown \notin Nat
    BY <2>4, NamesAssumption DEF Rows
  <2>11. t.ended.open => row.status = "ended"
    <3>1. CASE type \in {"ended", "sold"}
      BY <1>1, <2>4, <3>1, RowStep
    <3>2. CASE type \notin {"ended", "sold"}
      <4>1. t.ended = s.ended
        BY <2>2, <3>2
      <4>2. ~s.ended.open
        BY <1>1, <2>3, ViewRows DEF Follows
      <4> QED
        BY <4>1, <4>2
    <3> QED
      BY <3>1, <3>2
  <2> HIDE DEF row, old, type, a, b
  <2>12. b # NoAuction /\ b.status = row.status /\ b.price = row.price /\ b.end = row.end
    BY <2>5, <2>6, <2>7, <2>8, NamesAssumption DEF a
  <2>13. b.count \in {row.count, Unknown} /\ (b.count = Unknown => row.count = 0 \/ n = Len(Log))
    BY <2>5, <2>6, <2>7, <2>8, <2>9, <2>10 DEF a, CountOne
  <2>14. \A i \in Numbers : EventMsg(i) \in t.seen => i <= n
    BY <1>1, <1>2, <1>4 DEF Numbers
  <2>15. t.lastSeq = n
    BY <2>2
  <2> HIDE DEF t
  <2>16. Follows(t)
    BY <2>11, <2>12, <2>13, <2>14, <2>15 DEF Follows, row, b
  <2> QED
    BY <1>1, <1>4, <2>15, <2>16 DEF t
<1> QED
  BY <1>1, <1>3, <1>4
\* A store whose parts hold, with `own` bids whose answers were shown.
Good(s, own) == s \in Stores /\ Truthful(s) /\ Counted(s, own)

LEMMA EventGood ==
  ASSUME committed \in 0..Len(Log), NEW n \in 1..committed, NEW own \in Nat, NEW s, Good(s, own)
  PROVE  Good(ApplyEvent(s, n), own)
<1>1. s \in Stores /\ Truthful(s) /\ Counted(s, own)
  BY DEF Good
<1>2. ApplyEvent(s, n) \in Stores
  BY <1>1, EventApplied
<1> QED
  BY <1>1, <1>2, EventTruthful, EventCounted DEF Good

LEMMA PageGood ==
  ASSUME committed \in 0..Len(Log), NEW n \in Numbers, NEW m \in n..committed,
         NEW own \in Nat, NEW s, Good(s, own)
  PROVE  Good(ApplyPage(s, n, m), own)
<1>1. n \in Nat /\ m \in Nat /\ n <= m /\ m <= committed /\ committed \in Nat
  BY LogLength DEF Numbers
<1>2. PICK f : OneByOne(s, n, m, f)
  BY <1>1, PageBy
<1>3. /\ f[0] = s /\ f[m - n] = ApplyPage(s, n, m)
      /\ \A k \in 1..(m - n) : f[k] = ApplyEvent(f[k - 1], n + k)
  BY <1>2 DEF OneByOne
<1> DEFINE S == {k \in Nat : k <= m - n => Good(f[k], own)}
<1>4. 0 \in S
  BY <1>3
<1>5. ASSUME NEW k \in Nat, k \in S
      PROVE  k + 1 \in S
  <2> SUFFICES ASSUME k + 1 <= m - n PROVE Good(f[k + 1], own)
    OBVIOUS
  <2>1. k + 1 \in 1..(m - n) /\ k <= m - n /\ (k + 1) - 1 = k /\ n + (k + 1) \in 1..committed
    BY <1>1
  <2>2. f[k + 1] = ApplyEvent(f[k], n + (k + 1))
    BY <1>3, <2>1
  <2>3. Good(f[k], own)
    BY <1>5, <2>1
  <2> QED
    BY <2>1, <2>2, <2>3, EventGood
<1>6. Nat \subseteq S
  <2> HIDE DEF S
  <2> QED
    BY <1>4, <1>5, Counting
<1>7. m - n \in Nat
  BY <1>1
<1> QED
  BY <1>3, <1>6, <1>7

\* A page that begins with what the store has leaves no gap.
LEMMA PageFollows ==
  ASSUME committed \in 0..Len(Log), NEW n \in Numbers, NEW m \in n..committed,
         NEW s \in Stores, Follows(s), n <= s.lastSeq
  PROVE  LET t == ApplyPage(s, n, m)
         IN  Follows(t) /\ s.lastSeq <= t.lastSeq /\ m <= t.lastSeq
<1>1. n \in Nat /\ m \in Nat /\ n <= m /\ m <= committed /\ committed \in Nat
  BY LogLength DEF Numbers
<1>2. PICK f : OneByOne(s, n, m, f)
  BY <1>1, PageBy
<1>3. /\ f[0] = s /\ f[m - n] = ApplyPage(s, n, m)
      /\ \A k \in 1..(m - n) : f[k] = ApplyEvent(f[k - 1], n + k)
  BY <1>2 DEF OneByOne
<1> DEFINE Right(k) == /\ f[k] \in Stores /\ Follows(f[k])
                       /\ s.lastSeq <= f[k].lastSeq /\ n + k <= f[k].lastSeq
           S == {k \in Nat : k <= m - n => Right(k)}
<1>4. 0 \in S
  BY <1>1, <1>3 DEF Stores, Numbers
<1>5. ASSUME NEW k \in Nat, k \in S
      PROVE  k + 1 \in S
  <2> SUFFICES ASSUME k + 1 <= m - n PROVE Right(k + 1)
    OBVIOUS
  <2> DEFINE i == n + (k + 1)
  <2>1. k + 1 \in 1..(m - n) /\ k <= m - n /\ (k + 1) - 1 = k /\ i \in 1..committed /\ i = (n + k) + 1
    BY <1>1
  <2>2. f[k + 1] = ApplyEvent(f[k], i)
    BY <1>3, <2>1
  <2>3. Right(k)
    BY <1>5, <2>1
  <2>4. f[k].lastSeq \in Nat /\ s.lastSeq \in Nat
    BY <1>1, <2>3 DEF Stores, Numbers
  <2>5. i <= f[k].lastSeq + 1
    BY <1>1, <2>1, <2>3, <2>4
  <2> HIDE DEF i
  <2>6. f[k + 1] \in Stores
    BY <2>1, <2>2, <2>3, EventApplied
  <2>7. Follows(f[k + 1]) /\ f[k].lastSeq <= f[k + 1].lastSeq /\ i <= f[k + 1].lastSeq
    BY <2>1, <2>2, <2>3, <2>5, EventFollows
  <2>8. f[k + 1].lastSeq \in Nat
    BY <1>1, <2>6 DEF Stores, Numbers
  <2>9. s.lastSeq <= f[k + 1].lastSeq
    BY <2>3, <2>4, <2>7, <2>8
  <2> QED
    BY <2>6, <2>7, <2>9 DEF i
<1>6. Nat \subseteq S
  <2> HIDE DEF S
  <2> QED
    BY <1>4, <1>5, Counting
<1>7. m - n \in Nat /\ n + (m - n) = m
  BY <1>1
<1>8. Right(m - n)
  BY <1>6, <1>7
<1> HIDE DEF S
<1> QED
  BY <1>3, <1>7, <1>8

-----------------------------------------------------------------------------
(* The other changes of the store.                                          *)

LEMMA StubGood ==
  ASSUME committed \in 0..Len(Log), NEW n \in Numbers, NEW own \in Nat, NEW s, Good(s, own)
  PROVE  Good(ApplyStub(s, n), own)
<1>1. s \in Stores /\ Truthful(s) /\ Counted(s, own)
  BY DEF Good
<1>2. CASE SnapshotMsg(n) \in s.seen
  BY <1>2 DEF ApplyStub
<1>3. CASE SnapshotMsg(n) \notin s.seen
  <2> DEFINE t == [s EXCEPT !.auction = Stub, !.lastSeq = n, !.seen = s.seen \cup {SnapshotMsg(n)}]
  <2>1. ApplyStub(s, n) = t
    BY <1>3 DEF ApplyStub
  <2>2. Stub \in Copies /\ Stub.price = Unknown /\ Stub.status = Unknown /\ Stub.count = Unknown
    BY DEF Stub, Copy, Copies
  <2>3. s.seen \cup {SnapshotMsg(n)} \in SUBSET Messages
    BY <1>1 DEF Stores, Messages, SnapshotMsg
  <2> HIDE DEF Stub
  <2>4. t \in Stores /\ t.auction = Stub /\ t.ended = s.ended
    BY <1>1, <2>2, <2>3 DEF Stores
  <2> HIDE DEF t
  <2> QED
    BY <1>1, <2>1, <2>2, <2>4 DEF Good, Truthful, Counted
<1> QED
  BY <1>2, <1>3

\* The answer of GET status, whose row is not younger than its number.
LEMMA SnapshotGood ==
  ASSUME committed \in 0..Len(Log), NEW row \in Numbers, NEW seq \in Numbers, row <= seq,
         NEW s, NEW own \in Nat
  PROVE  Good(ApplySnapshot(s, row, seq), own)
<1> DEFINE t == ApplySnapshot(s, row, seq)
           v == View[row]
<1> HIDE DEF View
<1>1. row \in 0..Len(Log) /\ seq \in 0..Len(Log) /\ seq \in row..Len(Log) /\ row \in 0..committed
  BY LogLength DEF Numbers
<1>2. v \in Rows /\ View[seq] \in Rows /\ v.count <= View[seq].count
  BY <1>1, ViewRows, CountGrows
<1>3. v.status = "ended" => View[committed].status = "ended" /\ View[committed].price = v.price
  BY <1>1, EndIsLast
<1>4. /\ t.auction = v /\ t.lastSeq = seq /\ t.seen = {}
      /\ t.ended = IF v.status # "ended" THEN Closed
                   ELSE [open |-> TRUE, final |-> v.price, order |-> FALSE]
  BY DEF ApplySnapshot
<1>5. v \in Copies /\ v.price \in {View[n].price : n \in Numbers}
      /\ v.status \in {View[n].status : n \in Numbers}
  BY <1>2 DEF Rows, Copies
<1>6. t \in Stores
  BY <1>2, <1>5 DEF ApplySnapshot, Stores, Closed, Rows
<1> HIDE DEF v, t
<1>7. Truthful(t)
  BY <1>3, <1>4, <1>5 DEF Truthful, Closed
<1>8. Counted(t, own)
  BY <1>2, <1>4 DEF Counted, Rows
<1> QED
  BY <1>6, <1>7, <1>8 DEF Good, t

\* A status whose row and number are of one moment is a copy in step.
LEMMA SnapshotFollows ==
  ASSUME committed \in 0..Len(Log), NEW row \in Numbers, NEW s
  PROVE  Follows(ApplySnapshot(s, row, row))
<1> DEFINE t == ApplySnapshot(s, row, row)
           v == View[row]
<1> HIDE DEF View
<1>1. v \in Rows
  <2>1. row \in 0..Len(Log)
    BY LogLength DEF Numbers
  <2> QED
    BY <2>1, ViewRows
<1>2. /\ t.auction = v /\ t.lastSeq = row /\ t.seen = {}
      /\ t.ended.open => v.status = "ended"
  BY DEF ApplySnapshot, Closed
<1>3. v # NoAuction /\ v.count # Unknown
  BY <1>1, NamesAssumption DEF Rows, Copies
<1> HIDE DEF t
<1> QED
  BY <1>2, <1>3 DEF Follows, t

LEMMA ResponseGood ==
  ASSUME committed \in 0..Len(Log), NEW n \in 1..committed, Log[n].type = "bid",
         NEW own \in Nat, NEW s, Good(s, own)
  PROVE  Good(ApplyResponse(s, n), own + 1)
<1> DEFINE p == Log[n].price
           c == CountOne(s.auction.count)
           a == [s.auction EXCEPT !.price = p, !.count = c]
<1> HIDE DEF View
<1>1. s \in Stores /\ Truthful(s) /\ Counted(s, own)
  BY DEF Good
<1>2. s.lastSeq \in 0..Len(Log) /\ n \in Numbers /\ n \in 1..Len(Log)
      /\ n \in 0..Len(Log) /\ n - 1 \in 0..Len(Log)
  BY <1>1, LogLength DEF Stores, Numbers
<1>3. View[s.lastSeq].count \in Nat
  BY <1>2, ViewRows DEF Rows
<1>4. CASE s.auction = NoAuction
  BY <1>1, <1>4 DEF ApplyResponse, Good, Counted
<1>5. CASE s.auction # NoAuction
  <2>1. s.auction \in Copies
    BY <1>1, <1>5 DEF Stores
  <2>2. p \in Nat /\ p = View[n].price
    <3>1. View[n] = After(View[n - 1], Log[n]) /\ View[n - 1] \in Rows
      BY <1>2, ViewBy, ViewRows
    <3> QED
      BY <1>2, <3>1, RowStep, KindsOfEvents
  <2>3. c \in Nat /\ c <= View[s.lastSeq].count + (own + 1)
    <3>1. CASE s.auction.count = Unknown
      BY <1>3, <3>1 DEF CountOne
    <3>2. CASE s.auction.count # Unknown
      <4>1. s.auction.count \in Nat /\ s.auction.count <= View[s.lastSeq].count + own
        BY <1>1, <1>5, <2>1, <3>2 DEF Counted, Copies
      <4>2. c = s.auction.count + 1
        BY <3>2 DEF CountOne
      <4> DEFINE x == s.auction.count
                 y == View[s.lastSeq].count
      <4>3. x \in Nat /\ y \in Nat /\ x <= y + own /\ c = x + 1
        BY <1>3, <4>1, <4>2
      <4> HIDE DEF c, x, y
      <4>4. c \in Nat /\ c <= y + (own + 1)
        BY <4>3
      <4> QED
        BY <4>4 DEF y
    <3> QED
      BY <3>1, <3>2
  <2>4. ApplyResponse(s, n) = [s EXCEPT !.auction = a]
    BY <1>1, <1>5, <2>1 DEF ApplyResponse, Stores
  <2> HIDE DEF p, c
  <2>5. a \in Copies /\ a.price = p /\ a.count = c /\ a.status = s.auction.status
    BY <2>1, <2>2, <2>3 DEF Copies
  <2> HIDE DEF a
  <2> DEFINE t == [s EXCEPT !.auction = a]
  <2>6. t \in Stores /\ t.auction = a /\ t.lastSeq = s.lastSeq /\ t.ended = s.ended
    BY <1>1, <2>5 DEF Stores
  <2> HIDE DEF t
  <2>7. Truthful(t)
    BY <1>1, <1>2, <1>5, <2>2, <2>5, <2>6 DEF Truthful
  <2>8. Counted(t, own + 1)
    BY <2>3, <2>5, <2>6 DEF Counted
  <2> QED
    BY <2>4, <2>6, <2>7, <2>8 DEF Good, t
<1> QED
  BY <1>4, <1>5
-----------------------------------------------------------------------------
(* The invariant.                                                           *)

\* What an answer may say: the number of a status is read after its row, and
\* after the event that asked for it; the last page of events has that event.
Timely(t) ==
  /\ t.step = "answer" => t.row <= t.seq /\ t.event <= t.seq
  /\ t.step = "got" => t.cursor <= t.upto /\ (~t.more => t.event <= t.upto)

InNumbers(t) == {t.event, t.cursor, t.upto, t.row, t.seq} \subseteq Numbers

TasksOK ==
  /\ task \in [Slots -> {NoTask} \cup Requests]
  /\ \A s \in Slots : task[s] # NoTask => InNumbers(task[s]) /\ Timely(task[s])

\* What InStep is about.
Steady == whole /\ ~overtaken

\* A page that is under way begins with what a copy in step has.
InTouch ==
  Steady => /\ Follows(room)
            /\ \A s \in Slots : task[s] # NoTask => task[s].cursor <= room.lastSeq

Own == Cardinality(answered)

IInv == TypeOK /\ TasksOK /\ InTouch /\ Good(room, Own)

LEMMA OwnIsNumber ==
  ASSUME committed \in Nat, answered \subseteq Numbers
  PROVE  IsFiniteSet(answered) /\ Own \in Nat
<1>1. IsFiniteSet(Numbers)
  BY FS_Interval DEF Numbers
<1>2. IsFiniteSet(answered)
  BY <1>1, FS_Subset
<1> QED
  BY <1>2, FS_CardinalityType DEF Own

\* A request begins, moves on or ends.
LEMMA TaskChanges ==
  ASSUME TasksOK, NEW s \in Slots, NEW t, task' = [task EXCEPT ![s] = t], committed' = committed,
         t = NoTask \/ (t \in Requests /\ InNumbers(t) /\ Timely(t))
  PROVE  /\ TasksOK'
         /\ \A r \in Slots : task'[r] = IF r = s THEN t ELSE task[r]
<1>1. \A r \in Slots : task'[r] = IF r = s THEN t ELSE task[r]
  BY DEF TasksOK
<1>2. task' \in [Slots -> {NoTask} \cup Requests]
  BY DEF TasksOK
<1>3. \A r \in Slots : task'[r] # NoTask => InNumbers(task'[r]) /\ Timely(task'[r])
  BY <1>1 DEF TasksOK
<1>4. \A r \in Slots : task'[r] # NoTask => (InNumbers(task[r]) /\ Timely(task[r]))'
  BY <1>3 DEF InNumbers, Timely, Numbers
<1> QED
  BY <1>1, <1>2, <1>4 DEF TasksOK

\* A step that leaves the store alone, and gives a request no more to ask for.
LEMMA StoreStays ==
  ASSUME IInv, UNCHANGED <<committed, room, answered, whole, overtaken>>, TasksOK',
         published' \in Numbers, dialSeq' \in Numbers, wire' \in Seq(Messages),
         conn' \in {"down", "dialled", "replayed", "open"},
         \A r \in Slots : task'[r] # NoTask =>
           \/ task'[r].cursor \in {0, room.lastSeq}
           \/ task[r] # NoTask /\ task'[r].cursor = task[r].cursor
  PROVE  IInv'
<1>1. TypeOK'
  BY DEF IInv, TypeOK, TasksOK, InNumbers, Numbers, Messages, Stores
<1>2. InTouch'
  <2>1. Follows(room) => Follows(room)'
    BY DEF Follows, Numbers, View
  <2>2. 0 <= room.lastSeq /\ room.lastSeq <= room.lastSeq
    BY LogLength DEF IInv, TypeOK, Stores, Numbers
  <2> QED
    BY <2>1, <2>2 DEF IInv, InTouch, Steady
<1>3. Good(room, Own)'
  BY DEF IInv, Good, Truthful, Counted, Stores, Messages, Numbers, Own, View
<1> QED
  BY <1>1, <1>2, <1>3 DEF IInv
LEMMA InitHolds == Init => IInv
<1> SUFFICES ASSUME Init PROVE IInv
  OBVIOUS
<1> USE DEF Init
<1>1. committed \in 0..Len(Log) /\ 0 \in Numbers /\ committed \in Nat
  BY LogLength DEF Numbers
<1>2. wire \in Seq(Messages)
  OBVIOUS
<1>3. room \in Stores
  BY <1>1 DEF Stores, Closed
<1>4. TasksOK
  BY DEF TasksOK
<1>5. TypeOK
  BY <1>1, <1>2, <1>3, <1>4 DEF TypeOK, TasksOK
<1>6. Good(room, Own)
  BY <1>3 DEF Good, Truthful, Counted, Closed
<1> QED
  BY <1>4, <1>5, <1>6 DEF IInv, InTouch, Steady

-----------------------------------------------------------------------------
(* Steps that leave the store alone.                                        *)

LEMMA RequestTyped ==
  ASSUME NEW step \in {"ask", "status"}, NEW event \in Numbers, NEW cursor \in Numbers,
         committed \in Nat
  PROVE  LET t == Request(step, event, cursor)
         IN  t \in Requests /\ InNumbers(t) /\ Timely(t) /\ t.cursor = cursor
BY DEF Request, Requests, InNumbers, Timely, Numbers

LEMMA StartChanges ==
  ASSUME IInv, NEW s \in Slots, NEW step \in {"ask", "status"}, NEW event \in Numbers,
         NEW cursor \in {0, room.lastSeq}, Start(s, step, event, cursor), committed' = committed
  PROVE  /\ TasksOK'
         /\ \A r \in Slots : task'[r] # NoTask =>
              \/ task'[r].cursor \in {0, room.lastSeq}
              \/ task[r] # NoTask /\ task'[r].cursor = task[r].cursor
<1> DEFINE t == Request(step, event, cursor)
<1>1. committed \in Nat /\ cursor \in Numbers
  BY LogLength DEF IInv, TypeOK, Stores, Numbers
<1>2. t \in Requests /\ InNumbers(t) /\ Timely(t) /\ t.cursor = cursor
  BY <1>1, RequestTyped
<1> HIDE DEF t
<1>3. task' = [task EXCEPT ![s] = t]
  BY DEF Start, t
<1>4. TasksOK' /\ \A r \in Slots : task'[r] = IF r = s THEN t ELSE task[r]
  BY <1>2, <1>3, TaskChanges DEF IInv
<1> QED
  BY <1>2, <1>4

\* A request that is under way, and has moved on.
LEMMA MovesOn ==
  ASSUME IInv, NEW s \in Slots, NEW t, task' = [task EXCEPT ![s] = t], task[s] # NoTask,
         t = NoTask \/ (t \in Requests /\ InNumbers(t) /\ Timely(t) /\ t.cursor = task[s].cursor),
         UNCHANGED <<server, link, room, answered, whole, overtaken>>
  PROVE  IInv'
<1>1. TasksOK' /\ \A r \in Slots : task'[r] = IF r = s THEN t ELSE task[r]
  BY TaskChanges DEF IInv, server
<1> QED
  BY <1>1, StoreStays DEF IInv, TypeOK, server, link

LEMMA StepsOfRequests ==
  ASSUME IInv, NEW s \in Slots
  PROVE  StatusRow(s) \/ StatusSeq(s) \/ EventsAnswer(s) \/ Fails(s) => IInv'
<1> DEFINE t == task[s]
<1>1. committed \in Numbers /\ committed \in Nat
  BY LogLength DEF IInv, TypeOK, Numbers
<1>2. t # NoTask => t \in Requests /\ InNumbers(t) /\ Timely(t)
  BY DEF IInv, TasksOK
<1>3. ASSUME StatusRow(s) PROVE IInv'
  <2> DEFINE u == [t EXCEPT !.step = "row", !.row = committed]
  <2>1. t # NoTask /\ task' = [task EXCEPT ![s] = u] /\ UNCHANGED <<server, link, room, answered, whole, overtaken>>
    BY <1>3 DEF StatusRow, IInv, TasksOK
  <2>2. u \in Requests /\ InNumbers(u) /\ Timely(u) /\ u.cursor = t.cursor
    BY <1>1, <1>2, <2>1 DEF Requests, InNumbers, Timely
  <2> HIDE DEF u
  <2> QED
    BY <2>1, <2>2, MovesOn
<1>4. ASSUME StatusSeq(s) PROVE IInv'
  <2> DEFINE u == [t EXCEPT !.step = "answer", !.seq = committed]
  <2>1. t # NoTask /\ task' = [task EXCEPT ![s] = u] /\ UNCHANGED <<server, link, room, answered, whole, overtaken>>
    BY <1>4 DEF StatusSeq, IInv, TasksOK
  <2>2. u \in Requests /\ InNumbers(u) /\ u.cursor = t.cursor
    BY <1>1, <1>2, <2>1 DEF Requests, InNumbers
  <2>3. Timely(u)
    BY <1>1, <1>2, <2>1 DEF Requests, InNumbers, Timely, Numbers
  <2> HIDE DEF u
  <2> QED
    BY <2>1, <2>2, <2>3, MovesOn
<1>5. ASSUME EventsAnswer(s) PROVE IInv'
  <2> DEFINE upto == LastOfPage(t.cursor)
             more == committed > upto
  <2>1. t # NoTask /\ UNCHANGED <<server, link, room, answered, whole, overtaken>>
    BY <1>5 DEF EventsAnswer
  <2>2. t.cursor \in Numbers /\ t.event \in Numbers /\ t.cursor \in Nat
    BY <1>1, <1>2, <2>1 DEF InNumbers, Numbers
  <2>3. upto \in Numbers /\ t.cursor <= upto /\ upto \in Nat /\ (~more => t.event <= upto)
    BY <1>1, <2>2, BoundAssumption DEF LastOfPage, Numbers
  <2>4. more \in BOOLEAN
    OBVIOUS
  <2>5. CASE TooFarBehind(t.cursor)
    <3> DEFINE u == [t EXCEPT !.step = "status"]
    <3>1. task' = [task EXCEPT ![s] = u]
      BY <1>5, <2>5 DEF EventsAnswer, IInv, TasksOK
    <3>2. u \in Requests /\ InNumbers(u) /\ Timely(u) /\ u.cursor = t.cursor
      BY <1>2, <2>1 DEF Requests, InNumbers, Timely
    <3> HIDE DEF u
    <3> QED
      BY <2>1, <3>1, <3>2, MovesOn
  <2>6. CASE ~TooFarBehind(t.cursor)
    <3> DEFINE u == [t EXCEPT !.step = "got", !.upto = upto, !.more = more]
    <3>1. task' = [task EXCEPT ![s] = u]
      BY <1>5, <2>6 DEF EventsAnswer, IInv, TasksOK
    <3> HIDE DEF upto, more
    <3>2. u \in Requests /\ InNumbers(u) /\ Timely(u) /\ u.cursor = t.cursor
      BY <1>2, <2>1, <2>2, <2>3, <2>4 DEF Requests, InNumbers, Timely
    <3> HIDE DEF u
    <3> QED
      BY <2>1, <3>1, <3>2, MovesOn
  <2> QED
    BY <2>5, <2>6
<1>6. ASSUME Fails(s) PROVE IInv'
  BY <1>6, MovesOn DEF Fails
<1> QED
  BY <1>3, <1>4, <1>5, <1>6
LEMMA StepsOfLink ==
  ASSUME IInv
  PROVE  Broadcast \/ Lose \/ Dial \/ Replay \/ Join => IInv'
<1>1. /\ committed \in Nat /\ published \in Numbers /\ dialSeq \in Numbers /\ room.lastSeq \in Numbers
      /\ wire \in Seq(Messages) /\ TasksOK /\ conn \in {"down", "dialled", "replayed", "open"}
  BY LogLength DEF IInv, TypeOK, Stores, Numbers
<1>2. ASSUME UNCHANGED <<committed, room, task, answered, whole, overtaken>>,
             published' \in Numbers, dialSeq' \in Numbers, wire' \in Seq(Messages),
             conn' \in {"down", "dialled", "replayed", "open"}
      PROVE  IInv'
  <2>1. TasksOK'
    BY <1>1, <1>2 DEF TasksOK, InNumbers, Timely, Numbers
  <2> QED
    BY <1>2, <2>1, StoreStays
<1>3. ASSUME Broadcast PROVE IInv'
  <2>1. published + 1 \in Numbers \ {0}
    BY <1>1, <1>3 DEF Broadcast, Numbers
  <2>2. EventMsg(published + 1) \in Messages
    BY <2>1 DEF EventMsg, Messages
  <2>3. wire' \in Seq(Messages)
    BY <1>1, <1>3, <2>2 DEF Broadcast
  <2> QED
    BY <1>1, <1>2, <1>3, <2>1, <2>3 DEF Broadcast
<1>4. ASSUME Lose PROVE IInv'
  <2>1. published' \in Numbers
    BY <1>1, <1>4 DEF Lose, Numbers
  <2> QED
    BY <1>1, <1>2, <1>4, <2>1 DEF Lose, link
<1>5. ASSUME Dial PROVE IInv'
  BY <1>1, <1>2, <1>5 DEF Dial, server
<1>6. ASSUME Replay PROVE IInv'
  <2>1. 0 \in Numbers /\ committed \in Numbers
    BY <1>1 DEF Numbers
  <2>2. wire' \in Seq(Messages)
    <3>1. CASE CanReplay /\ wire' = [k \in 1..(committed - dialSeq) |-> EventMsg(dialSeq + k)]
      <4>1. committed - dialSeq \in Nat
        BY <1>1, <3>1 DEF Numbers
      <4>2. \A k \in 1..(committed - dialSeq) : EventMsg(dialSeq + k) \in Messages
        BY <1>1 DEF Numbers, EventMsg, Messages
      <4> QED
        BY <3>1, <4>1, <4>2
    <3>2. CASE wire' = <<SnapshotMsg(committed)>> \/ wire' = <<SnapshotMsg(0)>>
      <4>1. SnapshotMsg(committed) \in Messages /\ SnapshotMsg(0) \in Messages
        BY <2>1 DEF SnapshotMsg, Messages
      <4>2. \A m \in Messages : <<m>> \in Seq(Messages)
        OBVIOUS
      <4> QED
        BY <3>2, <4>1, <4>2
    <3> QED
      BY <1>6, <3>1, <3>2 DEF Replay
  <2> QED
    BY <1>1, <1>2, <1>6, <2>1, <2>2 DEF Replay, server
<1>7. ASSUME Join PROVE IInv'
  BY <1>1, <1>2, <1>7 DEF Join, server
<1> QED
  BY <1>3, <1>4, <1>5, <1>6, <1>7

LEMMA StepsThatAsk ==
  ASSUME IInv, NEW s \in Slots
  PROVE  Refresh(s) \/ Drop(s) => IInv'
<1>1. /\ 0 \in Numbers /\ published \in Numbers /\ dialSeq \in Numbers
      /\ wire \in Seq(Messages) /\ conn \in {"down", "dialled", "replayed", "open"}
  BY LogLength DEF IInv, TypeOK, Numbers
<1>2. ASSUME Start(s, "status", 0, 0), UNCHANGED <<server, room, answered, whole, overtaken>>,
             dialSeq' \in Numbers, wire' \in Seq(Messages),
             conn' \in {"down", "dialled", "replayed", "open"}
      PROVE  IInv'
  BY <1>1, <1>2, StartChanges, StoreStays DEF server
<1>3. ASSUME Refresh(s) PROVE IInv'
  BY <1>1, <1>2, <1>3 DEF Refresh, link
<1>4. ASSUME Drop(s) PROVE IInv'
  <2>1. <<>> \in Seq(Messages)
    OBVIOUS
  <2> QED
    BY <1>1, <1>2, <1>4, <2>1 DEF Drop
<1> QED
  BY <1>3, <1>4

\* An event happens: what was true of a time remains so, and an end that is
\* shown is the end, after which nothing happens.
LEMMA CommitHolds == IInv /\ Commit => IInv'
<1> SUFFICES ASSUME IInv, Commit PROVE IInv'
  OBVIOUS
<1> HIDE DEF View
<1>1. /\ committed \in 0..Len(Log) /\ committed' = committed + 1 /\ committed' \in 0..Len(Log)
      /\ committed \in Nat /\ committed # Len(Log)
      /\ UNCHANGED <<published, conn, dialSeq, wire, room, task, answered, whole, overtaken>>
  <2>1. committed \in 0..Len(Log) /\ committed' = committed + 1 /\ committed < Len(Log)
    BY DEF IInv, TypeOK, Commit
  <2>2. UNCHANGED <<published, conn, dialSeq, wire, room, task, answered, whole, overtaken>>
    BY DEF Commit, link
  <2> DEFINE L == Len(Log)
  <2>3. L \in Nat /\ committed \in 0..L /\ committed < L
    BY <2>1, LogLength
  <2> HIDE DEF L
  <2>4. committed \in Nat /\ committed + 1 \in 0..L /\ committed # L
    BY <2>3
  <2> QED
    BY <2>1, <2>2, <2>4 DEF L
<1>2. Numbers \subseteq Numbers' /\ committed \in 0..committed
  BY <1>1 DEF Numbers
<1>3. Messages \subseteq Messages'
  BY <1>2 DEF Messages
<1>4. Stores \subseteq Stores'
  BY <1>2, <1>3 DEF Stores
<1>5. TypeOK'
  <2>1. wire' \in Seq(Messages')
    BY <1>1, <1>3 DEF IInv, TypeOK
  <2>2. \A s \in Slots : task[s] # NoTask =>
          {task[s].event, task[s].cursor, task[s].upto, task[s].row, task[s].seq} \subseteq Numbers'
    BY <1>2 DEF IInv, TypeOK
  <2>3. room \in Stores' /\ answered \subseteq Numbers' /\ published \in Numbers' /\ dialSeq \in Numbers'
    BY <1>2, <1>4 DEF IInv, TypeOK
  <2> QED
    BY <1>1, <2>1, <2>2, <2>3 DEF IInv, TypeOK
<1>6. TasksOK'
  BY <1>1, <1>2 DEF IInv, TasksOK, InNumbers, Timely
<1>7. InTouch'
  <2>1. \A n : EventMsg(n) \in room.seen => n \in Numbers
    BY DEF IInv, TypeOK, Stores, Messages, EventMsg
  <2>2. Follows(room) => Follows(room)'
    BY <1>1, <2>1 DEF Follows
  <2> QED
    BY <1>1, <2>2 DEF IInv, InTouch, Steady
<1>8. Good(room, Own)'
  <2>1. ~room.ended.open
    BY <1>1, <1>2, EndIsLast DEF IInv, Good, Truthful
  <2>2. Truthful(room)'
    BY <1>1, <1>2, <2>1 DEF IInv, Good, Truthful
  <2>3. Counted(room, Own)' /\ (room \in Stores)'
    BY <1>1, <1>4 DEF IInv, Good, Counted, Own
  <2> QED
    BY <2>2, <2>3 DEF Good
<1> QED
  BY <1>5, <1>6, <1>7, <1>8 DEF IInv
-----------------------------------------------------------------------------
(* Steps that change the store.                                             *)

\* What is left to show of one that does not commit.
LEMMA StoreMoves ==
  ASSUME IInv, UNCHANGED server, conn' = conn, dialSeq' = dialSeq, wire' \in Seq(Messages),
         answered' \subseteq Numbers, whole' \in BOOLEAN, overtaken' \in BOOLEAN,
         TasksOK', Good(room', Own'),
         Steady' => /\ Follows(room')
                    /\ \A r \in Slots : task'[r] # NoTask => task'[r].cursor <= room'.lastSeq
  PROVE  IInv'
<1>1. committed' = committed /\ published' = published
  BY DEF server
<1>2. Good(room, Own)' /\ room' \in Stores'
  BY <1>1 DEF Good, Truthful, Counted, Stores, Messages, Numbers
<1>3. InTouch'
  <2>1. Follows(room') => Follows(room)'
    BY <1>1 DEF Follows, Numbers
  <2> QED
    BY <2>1 DEF InTouch
<1>4. TypeOK'
  BY <1>1, <1>2 DEF IInv, TypeOK, TasksOK, InNumbers, Numbers, Messages
<1> QED
  BY <1>2, <1>3, <1>4 DEF IInv

\* What the proofs below use of the invariant.
LEMMA InvFacts ==
  ASSUME IInv
  PROVE  /\ committed \in 0..Len(Log) /\ committed \in Nat /\ wire \in Seq(Messages)
         /\ room \in Stores /\ room.lastSeq \in Numbers /\ room.lastSeq \in Nat
         /\ answered \subseteq Numbers /\ whole \in BOOLEAN /\ overtaken \in BOOLEAN /\ Own \in Nat
         /\ Good(room, Own) /\ TasksOK /\ InTouch
<1>1. committed \in 0..Len(Log) /\ committed \in Nat /\ answered \subseteq Numbers
  BY LogLength DEF IInv, TypeOK
<1>2. Own \in Nat
  BY <1>1, OwnIsNumber
<1>3. room.lastSeq \in Numbers /\ room.lastSeq \in Nat
  BY <1>1 DEF IInv, TypeOK, Stores, Numbers
<1> QED
  BY <1>1, <1>2, <1>3 DEF IInv, TypeOK

\* handleServerEvent goes on: an event that is not newer changes nothing.
LEMMA ResumedGood ==
  ASSUME committed \in 0..Len(Log), NEW n \in Numbers, NEW own \in Nat, NEW s, Good(s, own)
  PROVE  Good(Resumed(s, n), own)
<1>1. CASE n > s.lastSeq
  <2>1. n \in 1..committed
    BY <1>1, LogLength DEF Good, Stores, Numbers
  <2> QED
    BY <1>1, <2>1, EventGood DEF Resumed
<1>2. CASE ~(n > s.lastSeq)
  BY <1>2 DEF Resumed
<1> QED
  BY <1>1, <1>2

LEMMA StatusArrivesHolds ==
  ASSUME IInv, NEW s \in Slots, StatusArrives(s)
  PROVE  IInv'
<1> DEFINE t == task[s]
           answer == ApplySnapshot(room, t.row, t.seq)
<1>1. t # NoTask /\ t.step = "answer"
  BY DEF StatusArrives
<1>2. /\ t.row \in Numbers /\ t.seq \in Numbers /\ t.event \in Numbers
      /\ t.row <= t.seq /\ t.event <= t.seq
  BY <1>1, InvFacts DEF TasksOK, InNumbers, Timely
<1>3. Good(answer, Own) /\ answer.lastSeq = t.seq
  BY <1>2, InvFacts, SnapshotGood DEF ApplySnapshot
<1>4. room' = answer
  <2>1. ~(t.event > t.seq)
    BY <1>2, InvFacts DEF Numbers
  <2> HIDE DEF answer
  <2>2. Resumed(answer, t.event) = answer
    BY <1>3, <2>1 DEF Resumed
  <2> QED
    BY <2>2 DEF StatusArrives, answer
<1>5. /\ whole' = (t.row = t.seq)
      /\ overtaken' = \E r \in Slots : task[r] # NoTask /\ task[r].cursor > t.seq
  BY DEF StatusArrives
<1>6. TasksOK' /\ \A r \in Slots : task'[r] = IF r = s THEN NoTask ELSE task[r]
  BY InvFacts, TaskChanges DEF StatusArrives, server
<1>7. ASSUME Steady'
      PROVE  /\ Follows(room')
             /\ \A r \in Slots : task'[r] # NoTask => task'[r].cursor <= room'.lastSeq
  <2>1. t.row = t.seq /\ \A r \in Slots : task[r] # NoTask => task[r].cursor <= t.seq
    <3>1. t.seq \in Nat /\ \A r \in Slots : task[r] # NoTask => task[r].cursor \in Nat
      BY <1>2, InvFacts DEF TasksOK, InNumbers, Numbers
    <3>2. whole' /\ ~overtaken'
      BY <1>7 DEF Steady
    <3>3. t.row = t.seq /\ \A r \in Slots : task[r] # NoTask => ~(task[r].cursor > t.seq)
      BY <1>5, <3>2
    <3> HIDE DEF t
    <3> QED
      BY <3>1, <3>3
  <2>2. Follows(answer)
    BY <1>2, <2>1, InvFacts, SnapshotFollows
  <2> HIDE DEF answer
  <2> QED
    BY <1>3, <1>4, <1>6, <2>1, <2>2
<1>8. UNCHANGED <<server, link, answered>> /\ Own' = Own /\ whole' \in BOOLEAN /\ overtaken' \in BOOLEAN
  BY <1>5 DEF StatusArrives, Own
<1> HIDE DEF answer
<1> QED
  BY <1>3, <1>4, <1>6, <1>7, <1>8, InvFacts, StoreMoves DEF link
LEMMA EventsArriveHolds ==
  ASSUME IInv, NEW s \in Slots, EventsArrive(s)
  PROVE  IInv'
<1> DEFINE t == task[s]
           moved == ApplyPage(room, t.cursor, t.upto)
<1>1. t # NoTask /\ t.step = "got" /\ UNCHANGED <<server, link, answered, whole, overtaken>>
  BY DEF EventsArrive
<1>2. /\ t \in Requests /\ InNumbers(t) /\ t.cursor \in Numbers /\ t.upto \in Numbers
      /\ t.event \in Numbers /\ t.cursor <= t.upto /\ (~t.more => t.event <= t.upto)
  BY <1>1, InvFacts DEF TasksOK, InNumbers, Timely
<1>3. t.upto \in t.cursor..committed
  BY <1>2, InvFacts DEF Numbers
<1>4. Good(moved, Own)
  BY <1>2, <1>3, InvFacts, PageGood
<1>5. Steady => /\ Follows(moved) /\ room.lastSeq <= moved.lastSeq /\ t.upto <= moved.lastSeq
                /\ \A r \in Slots : task[r] # NoTask => task[r].cursor <= room.lastSeq
  BY <1>1, <1>2, <1>3, InvFacts, PageFollows DEF InTouch
<1>6. Own' = Own /\ whole' \in BOOLEAN /\ overtaken' \in BOOLEAN /\ Steady' = Steady
      /\ wire' \in Seq(Messages) /\ answered' \subseteq Numbers
      /\ committed' = committed /\ conn' = conn /\ dialSeq' = dialSeq
  BY <1>1, InvFacts DEF Own, server, link, Steady
<1>7. moved.lastSeq \in Nat
  BY <1>4, InvFacts DEF Good, Stores, Numbers
<1>8. ASSUME Steady
      PROVE  \A r \in Slots : task[r] # NoTask => task[r].cursor <= moved.lastSeq
  <2>1. \A r \in Slots : task[r] # NoTask => task[r].cursor \in Nat
    BY InvFacts DEF TasksOK, InNumbers, Numbers
  <2> HIDE DEF moved
  <2> QED
    BY <1>5, <1>7, <1>8, <2>1, InvFacts
<1>9. CASE t.more
  <2> DEFINE step == IF t.page < Pages THEN "ask" ELSE "status"
             u == [t EXCEPT !.step = step, !.cursor = t.upto, !.page = t.page + 1]
  <2>1. room' = moved
    BY <1>9 DEF EventsArrive
  <2>2. task' = [task EXCEPT ![s] = u]
    BY <1>1, <1>2, <1>9 DEF EventsArrive
  <2>3. step \in {"ask", "status"}
    OBVIOUS
  <2> HIDE DEF step
  <2>4. u \in Requests /\ InNumbers(u) /\ Timely(u) /\ u.cursor = t.upto
    <3>1. t.upto \in Nat /\ t.page + 1 \in Nat
      BY <1>2, InvFacts DEF Requests, Numbers
    <3>2. u \in Requests /\ u.step = step /\ u.cursor = t.upto
          /\ u.event = t.event /\ u.upto = t.upto /\ u.row = t.row /\ u.seq = t.seq
      BY <1>2, <2>3, <3>1 DEF Requests
    <3> HIDE DEF u
    <3> QED
      BY <1>2, <2>3, <3>2 DEF InNumbers, Timely
  <2> HIDE DEF u, moved
  <2>5. TasksOK' /\ \A r \in Slots : task'[r] = IF r = s THEN u ELSE task[r]
    BY <1>6, <2>2, <2>4, InvFacts, TaskChanges
  <2>6. Steady => \A r \in Slots : task'[r] # NoTask => task'[r].cursor <= room'.lastSeq
    BY <1>5, <1>8, <2>1, <2>4, <2>5
  <2> QED
    BY <1>1, <1>4, <1>5, <1>6, <2>1, <2>5, <2>6, StoreMoves
<1>10. CASE ~t.more
  <2>1. room' = Resumed(moved, t.event) /\ task' = [task EXCEPT ![s] = NoTask]
    BY <1>10 DEF EventsArrive
  <2>2. TasksOK' /\ \A r \in Slots : task'[r] = IF r = s THEN NoTask ELSE task[r]
    BY <1>6, <2>1, InvFacts, TaskChanges
  <2>3. Good(room', Own)
    <3> HIDE DEF moved
    <3> QED
      BY <1>2, <1>4, <2>1, InvFacts, ResumedGood
  <2>4. Steady => room' = moved
    <3>1. Steady => ~(t.event > moved.lastSeq)
      BY <1>2, <1>5, <1>7, <1>10, InvFacts DEF Numbers
    <3> HIDE DEF moved
    <3> QED
      BY <2>1, <3>1 DEF Resumed
  <2> HIDE DEF moved
  <2>5. Steady => /\ Follows(room')
                  /\ \A r \in Slots : task'[r] # NoTask => task'[r].cursor <= room'.lastSeq
    BY <1>5, <1>8, <2>2, <2>4
  <2> QED
    BY <1>1, <1>6, <2>2, <2>3, <2>5, StoreMoves
<1> QED
  BY <1>9, <1>10

LEMMA ReceiveHolds ==
  ASSUME IInv, Receive
  PROVE  IInv'
<1> DEFINE n == Head(wire)[2]
<1>1. wire # <<>> /\ wire' = Tail(wire) /\ UNCHANGED <<server, conn, dialSeq, answered>>
  BY DEF Receive
<1>2. Head(wire) \in Messages /\ wire' \in Seq(Messages)
  BY <1>1, InvFacts
<1>3. Own' = Own /\ answered' \subseteq Numbers /\ committed' = committed
  BY <1>1, InvFacts DEF Own, server
<1>4. CASE Head(wire)[1] = "snapshot"
  <2>1. n \in Numbers
    BY <1>2, <1>4 DEF Messages
  <2>2. room' = ApplyStub(room, n) /\ whole' = (whole /\ room' = room) /\ task' = task
        /\ overtaken' = overtaken
    BY <1>4 DEF Receive, ReceiveSnapshot
  <2> HIDE DEF n
  <2>3. Good(room', Own)
    BY <2>1, <2>2, InvFacts, StubGood
  <2>4. TasksOK'
    BY <1>3, <2>2, InvFacts DEF TasksOK, InNumbers, Timely, Numbers
  <2>5. Steady' => /\ Follows(room')
                   /\ \A r \in Slots : task'[r] # NoTask => task'[r].cursor <= room'.lastSeq
    BY <2>2, InvFacts DEF InTouch, Steady
  <2>6. whole' \in BOOLEAN /\ overtaken' \in BOOLEAN
    BY <2>2, InvFacts
  <2> QED
    BY <1>1, <1>2, <1>3, <2>3, <2>4, <2>5, <2>6, StoreMoves
<1>5. CASE Head(wire)[1] # "snapshot"
  <2>1. n \in Numbers /\ n # 0 /\ n \in 1..committed
    BY <1>2, <1>5, InvFacts DEF Messages, Numbers
  <2>2. ReceiveEvent(n)
    BY <1>5 DEF Receive
  <2> HIDE DEF n
  <2>3. whole' = whole /\ overtaken' = overtaken /\ Steady' = Steady
    BY <1>5, <2>2 DEF Receive, ReceiveEvent, Steady
  <2>4. CASE Gap(n)
    <3>1. PICK s \in Slots : Start(s, "ask", n, room.lastSeq)
      BY <2>2, <2>4 DEF ReceiveEvent
    <3>2. room' = room
      BY <2>2, <2>4 DEF ReceiveEvent
    <3>3. /\ TasksOK'
          /\ \A r \in Slots : task'[r] # NoTask =>
               \/ task'[r].cursor \in {0, room.lastSeq}
               \/ task[r] # NoTask /\ task'[r].cursor = task[r].cursor
      BY <1>3, <2>1, <3>1, StartChanges
    <3>4. published' \in Numbers /\ dialSeq' \in Numbers
          /\ conn' \in {"down", "dialled", "replayed", "open"}
      BY <1>1 DEF server, IInv, TypeOK
    <3> QED
      BY <1>1, <1>2, <1>3, <2>3, <3>2, <3>3, <3>4, StoreStays
  <2>5. CASE ~Gap(n)
    <3>1. room' = ApplyEvent(room, n) /\ task' = task
      BY <2>2, <2>5 DEF ReceiveEvent
    <3>2. n <= room.lastSeq + 1
      BY <2>1, <2>5, InvFacts DEF Gap, Numbers
    <3>3. Good(room', Own)
      BY <2>1, <3>1, InvFacts, EventGood
    <3>4. Steady => Follows(room') /\ room.lastSeq <= room'.lastSeq
      BY <2>1, <3>1, <3>2, InvFacts, EventFollows DEF InTouch
    <3>5. TasksOK'
      BY <1>3, <3>1, InvFacts DEF TasksOK, InNumbers, Timely, Numbers
    <3>6. room'.lastSeq \in Nat /\ \A r \in Slots : task[r] # NoTask => task[r].cursor \in Nat
      BY <3>3, InvFacts DEF Good, Stores, Numbers, TasksOK, InNumbers
    <3>7. Steady => \A r \in Slots : task'[r] # NoTask => task'[r].cursor <= room'.lastSeq
      BY <3>1, <3>4, <3>6, InvFacts DEF InTouch
    <3> QED
      BY <1>1, <1>2, <1>3, <2>3, <3>3, <3>4, <3>5, <3>7, InvFacts, StoreMoves
  <2> QED
    BY <2>4, <2>5
<1> QED
  BY <1>4, <1>5
LEMMA OtherStoreSteps ==
  ASSUME IInv
  PROVE  CloseEndedModal \/ (\E n \in DOMAIN Log : BidResponse(n)) => IInv'
<1>1. ASSUME UNCHANGED <<server, link, task>> PROVE TasksOK' /\ conn' = conn /\ dialSeq' = dialSeq
                                                   /\ wire' \in Seq(Messages)
  BY <1>1, InvFacts DEF TasksOK, InNumbers, Timely, Numbers, server, link
<1>2. ASSUME CloseEndedModal PROVE IInv'
  <2> DEFINE u == [room EXCEPT !.ended.open = FALSE]
  <2>1. room' = u /\ UNCHANGED <<server, link, task, answered, whole, overtaken>>
    BY <1>2 DEF CloseEndedModal
  <2>2. u \in Stores /\ u.auction = room.auction /\ u.lastSeq = room.lastSeq
        /\ u.seen = room.seen /\ ~u.ended.open
    BY InvFacts DEF Stores
  <2> HIDE DEF u
  <2>3. Good(room', Own')
    BY <2>1, <2>2, InvFacts DEF Good, Truthful, Counted, Own
  <2>4. Follows(room) => Follows(room')
    BY <2>1, <2>2 DEF Follows
  <2> QED
    BY <1>1, <2>1, <2>2, <2>3, <2>4, InvFacts, StoreMoves DEF InTouch, Steady
<1>3. ASSUME NEW n \in DOMAIN Log, BidResponse(n) PROVE IInv'
  <2>1. n \in 1..committed /\ n \in Numbers /\ Log[n].type = "bid" /\ n \notin answered
    BY <1>3, LogLength, InvFacts DEF BidResponse, Numbers
  <2>2. room' = ApplyResponse(room, n) /\ answered' = answered \cup {n} /\ whole' = FALSE
        /\ UNCHANGED <<server, link, task, overtaken>>
    BY <1>3 DEF BidResponse
  <2>3. Own' = Own + 1 /\ answered' \subseteq Numbers
    BY <2>1, <2>2, InvFacts, OwnIsNumber, FS_AddElement DEF Own
  <2>4. Good(room', Own')
    BY <2>1, <2>2, <2>3, InvFacts, ResponseGood
  <2> QED
    BY <1>1, <2>2, <2>3, <2>4, InvFacts, StoreMoves DEF Steady
<1> QED
  BY <1>2, <1>3

-----------------------------------------------------------------------------
(* The theorems.                                                            *)

LEMMA IInvHolds == Spec => []IInv
<1>1. IInv /\ [Next]_vars => IInv'
  <2> SUFFICES ASSUME IInv, [Next]_vars PROVE IInv'
    OBVIOUS
  <2>1. ASSUME NEW s \in Slots,
               \/ Refresh(s) \/ StatusRow(s) \/ StatusSeq(s) \/ StatusArrives(s)
               \/ EventsAnswer(s) \/ EventsArrive(s) \/ Fails(s) \/ Drop(s)
        PROVE  IInv'
    BY <2>1, StepsOfRequests, StepsThatAsk, StatusArrivesHolds, EventsArriveHolds
  <2>2. CASE Commit
    BY <2>2, CommitHolds
  <2>3. CASE Broadcast \/ Lose \/ Dial \/ Replay \/ Join
    BY <2>3, StepsOfLink
  <2>4. CASE Receive
    BY <2>4, ReceiveHolds
  <2>5. CASE CloseEndedModal \/ \E n \in DOMAIN Log : BidResponse(n)
    BY <2>5, OtherStoreSteps
  <2>6. CASE UNCHANGED vars
    <3>1. UNCHANGED <<committed, room, answered, whole, overtaken, published, dialSeq, wire, conn, task>>
      BY <2>6 DEF vars, server, link
    <3>2. TasksOK'
      BY <3>1, InvFacts DEF TasksOK, InNumbers, Timely, Numbers
    <3> QED
      BY <3>1, <3>2, StoreStays DEF IInv, TypeOK
  <2> QED
    BY <2>1, <2>2, <2>3, <2>4, <2>5, <2>6 DEF Next
<1> QED
  BY <1>1, InitHolds, PTL DEF Spec

\* The server, the connection and the store hold values of their types, and no
\* number is ahead of the database.
THEOREM RoomTyped == Spec => []TypeOK
<1>1. IInv => TypeOK
  BY DEF IInv
<1> QED
  BY <1>1, IInvHolds, PTL

\* A copy that came from one moment of the server, ahead of the compensations
\* then under way, stays the row after event lastSeq, through gaps, duplicates,
\* pages that overlap and reconnections.
THEOREM StaysInStep == Spec => []InStep
<1>1. IInv => InStep
  BY DEF IInv, InTouch, Steady, Follows, InStep, RoomInStep
<1> QED
  BY <1>1, IInvHolds, PTL

\* What a client shows was so at some time, whatever was lost, late or repeated.
THEOREM ShowsWhatWas == Spec => []NothingInvented
<1>1. IInv => NothingInvented
  BY DEF IInv, Good, Truthful, NothingInvented
<1> QED
  BY <1>1, IInvHolds, PTL

\* A client counts a bid once, and its own at most once more.
THEOREM CountsAreExplained == Spec => []CountExplained
<1>1. IInv => CountExplained
  <2> SUFFICES ASSUME IInv, room.auction # NoAuction, room.auction.count # Unknown
               PROVE  room.auction.count <= View[committed].count + Own
    BY DEF CountExplained, Own
  <2> HIDE DEF View
  <2>1. room.lastSeq \in 0..Len(Log) /\ committed \in room.lastSeq..Len(Log) /\ committed \in 0..Len(Log)
    BY LogLength, InvFacts DEF Numbers
  <2>2. View[room.lastSeq].count <= View[committed].count
    BY <2>1, CountGrows
  <2>3. View[room.lastSeq].count \in Nat /\ View[committed].count \in Nat
    BY <2>1, ViewRows DEF Rows
  <2>4. room.auction.count <= View[room.lastSeq].count + Own /\ room.auction.count \in Nat
    BY InvFacts DEF Good, Counted, Stores, Copies
  <2>5. Own \in Nat
    BY InvFacts
  <2> QED
    BY <2>2, <2>3, <2>4, <2>5
<1> QED
  BY <1>1, IInvHolds, PTL
=============================================================================
