------------------------ MODULE MatchingEngineProofs ------------------------
(***************************************************************************)
(* Proofs about MatchingEngine: an inductive invariant, the safety         *)
(* properties it gives, and the refinement of Exchange.                    *)
(***************************************************************************)
EXTENDS MatchingEngine, SequenceTheorems, TLAPS

-----------------------------------------------------------------------------
(* Lemmas about queues.  Append, Tail and RemoveFirst are all that the     *)
(* code does to Level.Orders.                                              *)

(* RemoveAt drops one element and keeps the others in order. *)
LEMMA RemoveAtFacts ==
  ASSUME NEW S, NEW q \in Seq(S), NEW k \in 1 .. Len(q)
  PROVE  /\ RemoveAt(q, k) \in Seq(S)
         /\ Len(RemoveAt(q, k)) = Len(q) - 1
         /\ \A i \in 1 .. Len(q) - 1 :
              RemoveAt(q, k)[i] = IF i < k THEN q[i] ELSE q[i + 1]
<1> DEFINE front == SubSeq(q, 1, k - 1)
           back  == SubSeq(q, k + 1, Len(q))
<1>0. Len(q) \in Nat /\ \A i \in 1 .. Len(q) : q[i] \in S
  BY ElementOfSeq, LenProperties
<1>1. /\ front \in Seq(S)
      /\ Len(front) = k - 1
      /\ \A i \in 1 .. k - 1 : front[i] = q[i]
  <2>1. \A i \in 1 .. k - 1 : q[i] \in S  BY <1>0
  <2>2. k - 1 \in Int  OBVIOUS
  <2> HIDE DEF front
  <2> QED BY <2>1, <2>2, SubSeqProperties, Z3 DEF front
<1>2. /\ back \in Seq(S)
      /\ Len(back) = Len(q) - k
      /\ \A i \in 1 .. Len(q) - k : back[i] = q[k + i]
  <2>1. \A i \in k + 1 .. Len(q) : q[i] \in S  BY <1>0
  <2>2. k + 1 \in Int /\ Len(q) \in Int  BY <1>0
  <2>3. /\ back \in Seq(S)
        /\ Len(back) = IF k + 1 <= Len(q) THEN Len(q) - (k + 1) + 1 ELSE 0
        /\ \A i \in 1 .. Len(q) - (k + 1) + 1 : back[i] = q[(k + 1) + i - 1]
    BY <2>1, <2>2, SubSeqProperties
  <2> HIDE DEF back
  <2> QED BY <2>3, <1>0
<1> HIDE DEF front, back
<1>3. /\ front \o back \in Seq(S)
      /\ Len(front \o back) = Len(front) + Len(back)
      /\ \A i \in 1 .. Len(front) + Len(back) :
           (front \o back)[i] = IF i <= Len(front) THEN front[i] ELSE back[i - Len(front)]
  BY <1>1, <1>2, ConcatProperties
<1>4. RemoveAt(q, k) = front \o back
  BY DEF RemoveAt, front, back
<1>5. Len(q) - 1 = Len(front) + Len(back)
  BY <1>0, <1>1, <1>2
<1>6. ASSUME NEW i \in 1 .. Len(q) - 1
      PROVE  (front \o back)[i] = IF i < k THEN q[i] ELSE q[i + 1]
  <2>1. CASE i < k
    BY <2>1, <1>0, <1>1, <1>2, <1>3
  <2>2. CASE ~(i < k)
    <3>1. i - Len(front) \in 1 .. Len(q) - k /\ k + (i - Len(front)) = i + 1
      BY <2>2, <1>0, <1>1
    <3>2. (front \o back)[i] = back[i - Len(front)]
      BY <2>2, <1>0, <1>1, <1>3, <1>5
    <3> QED BY <2>2, <3>1, <3>2, <1>2
  <2> QED BY <2>1, <2>2
<1> QED BY <1>0, <1>1, <1>2, <1>3, <1>4, <1>5, <1>6

(* In a queue kept in arrival order RemoveFirst drops the order asked for. *)
LEMMA RemoveFirstIsRemoveAt ==
  ASSUME NEW q \in Seq(Orders), InArrivalOrder(q), NEW e
  PROVE  /\ ~Contains(q, e) => RemoveFirst(q, e) = q
         /\ Contains(q, e) =>
              \E k \in 1 .. Len(q) : q[k] = e /\ RemoveFirst(q, e) = RemoveAt(q, k)
<1>1. CASE ~Contains(q, e)
  BY <1>1 DEF Contains, RemoveFirst
<1>2. CASE Contains(q, e)
  <2> DEFINE I == {i \in 1 .. Len(q) : q[i] = e}
  <2>1. Len(q) \in Nat /\ \A i \in 1 .. Len(q) : q[i] \in Int
    <3>1. \A i \in 1 .. Len(q) : q[i] \in Orders  BY ElementOfSeq
    <3> QED BY <3>1, LenProperties, OrdersAssumption DEF Orders
  <2>2. PICK k \in 1 .. Len(q) : q[k] = e
    BY <1>2 DEF Contains
  <2>3. ASSUME NEW x \in I PROVE x = k
    <3>1. x \in Int /\ k \in Int /\ q[x] = q[k]  BY <2>1, <2>2
    <3>2. x < k => q[x] < q[k]  BY <2>1, <2>2 DEF InArrivalOrder
    <3>3. k < x => q[k] < q[x]  BY <2>1, <2>2 DEF InArrivalOrder
    <3> QED BY <3>1, <3>2, <3>3, <2>1, <2>2
  <2>4. I = {k}  BY <2>2, <2>3
  <2>5. Min(I) = k
    <3> HIDE DEF I
    <3> QED BY <2>4, <2>1, <2>2 DEF Min
  <2>6. SelectInSeq(q, LAMBDA v : v = e) = k
    BY <2>4, <2>5 DEF SelectInSeq
  <2>7. RemoveFirst(q, e) = RemoveAt(q, k)
    BY <1>2, <2>6 DEF RemoveFirst, Contains
  <2> QED BY <2>2, <2>7, <1>2
<1> QED BY <1>1, <1>2

(* Each operation on a queue in arrival order keeps it so, and changes what *)
(* it contains by exactly one order.                                        *)
LEMMA AppendQueue ==
  ASSUME NEW q \in Seq(Orders), InArrivalOrder(q), NEW o \in Orders,
         \A i \in 1 .. Len(q) : q[i] < o
  PROVE  /\ Append(q, o) \in Seq(Orders)
         /\ Append(q, o) # <<>>
         /\ InArrivalOrder(Append(q, o))
         /\ \A x \in Orders : Contains(Append(q, o), x) <=> Contains(q, x) \/ x = o
<1>1. Len(q) \in Nat  BY LenProperties
<1>2. /\ Append(q, o) \in Seq(Orders)
      /\ Append(q, o) # <<>>
      /\ Len(Append(q, o)) = Len(q) + 1
      /\ \A i \in 1 .. Len(q) : Append(q, o)[i] = q[i]
      /\ Append(q, o)[Len(q) + 1] = o
  BY AppendProperties
<1>3. InArrivalOrder(Append(q, o))
  <2> SUFFICES ASSUME NEW i \in 1 .. Len(q) + 1, NEW j \in 1 .. Len(q) + 1, i < j
               PROVE  Append(q, o)[i] < Append(q, o)[j]
    BY <1>2 DEF InArrivalOrder
  <2>1. CASE j = Len(q) + 1  BY <2>1, <1>1, <1>2
  <2>2. CASE j # Len(q) + 1  BY <2>2, <1>1, <1>2 DEF InArrivalOrder
  <2> QED BY <2>1, <2>2
<1>4. ASSUME NEW x \in Orders
      PROVE  Contains(Append(q, o), x) <=> Contains(q, x) \/ x = o
  BY <1>1, <1>2 DEF Contains
<1> QED BY <1>2, <1>3, <1>4

LEMMA TailQueue ==
  ASSUME NEW q \in Seq(Orders), InArrivalOrder(q), q # <<>>
  PROVE  /\ Tail(q) \in Seq(Orders)
         /\ InArrivalOrder(Tail(q))
         /\ Head(q) \in Orders
         /\ Contains(q, Head(q))
         /\ \A x \in Orders : Contains(Tail(q), x) <=> Contains(q, x) /\ x # Head(q)
<1>1. Len(q) \in Nat \ {0} /\ Head(q) = q[1]
  BY EmptySeq
<1>2. /\ Head(q) \in Orders
      /\ Tail(q) \in Seq(Orders)
      /\ Len(Tail(q)) = Len(q) - 1
      /\ \A i \in 1 .. Len(Tail(q)) : Tail(q)[i] = q[i + 1]
  BY HeadTailProperties
<1>3. InArrivalOrder(Tail(q))
  BY <1>1, <1>2 DEF InArrivalOrder
<1>4. ASSUME NEW x \in Orders
      PROVE  Contains(Tail(q), x) <=> Contains(q, x) /\ x # Head(q)
  <2>1. \A i \in 1 .. Len(q) : q[i] \in Int
    <3>1. \A i \in 1 .. Len(q) : q[i] \in Orders  BY ElementOfSeq
    <3> QED BY <3>1, OrdersAssumption DEF Orders
  <2>2. ASSUME NEW i \in 1 .. Len(q), q[i] = x, x # Head(q)
        PROVE  i - 1 \in 1 .. Len(Tail(q)) /\ Tail(q)[i - 1] = x
    BY <2>2, <1>1, <1>2
  <2>3. ASSUME NEW i \in 1 .. Len(Tail(q)), Tail(q)[i] = x
        PROVE  i + 1 \in 1 .. Len(q) /\ q[i + 1] = x /\ q[1] < q[i + 1]
    BY <2>3, <1>1, <1>2 DEF InArrivalOrder
  <2> QED BY <2>1, <2>2, <2>3, <1>1, <1>2 DEF Contains
<1>5. Contains(q, Head(q))
  BY <1>1 DEF Contains
<1> QED BY <1>2, <1>3, <1>4, <1>5

LEMMA RemoveFirstQueue ==
  ASSUME NEW q \in Seq(Orders), InArrivalOrder(q), NEW o \in Orders
  PROVE  /\ RemoveFirst(q, o) \in Seq(Orders)
         /\ InArrivalOrder(RemoveFirst(q, o))
         /\ \A x \in Orders :
              Contains(RemoveFirst(q, o), x) <=> Contains(q, x) /\ x # o
<1>1. CASE ~Contains(q, o)
  BY <1>1, RemoveFirstIsRemoveAt DEF Contains
<1>2. CASE Contains(q, o)
  <2>1. PICK k \in 1 .. Len(q) : q[k] = o /\ RemoveFirst(q, o) = RemoveAt(q, k)
    BY <1>2, RemoveFirstIsRemoveAt
  <2> DEFINE r == RemoveAt(q, k)
  <2>2. /\ r \in Seq(Orders)
        /\ Len(r) = Len(q) - 1
        /\ \A i \in 1 .. Len(q) - 1 : r[i] = IF i < k THEN q[i] ELSE q[i + 1]
    BY RemoveAtFacts
  <2> HIDE DEF r
  <2>3. Len(q) \in Nat /\ \A i \in 1 .. Len(q) : q[i] \in Int
    <3>1. \A i \in 1 .. Len(q) : q[i] \in Orders  BY ElementOfSeq
    <3> QED BY <3>1, LenProperties, OrdersAssumption DEF Orders
  <2>4. InArrivalOrder(r)
    <3> SUFFICES ASSUME NEW i \in 1 .. Len(r), NEW j \in 1 .. Len(r), i < j
                 PROVE  r[i] < r[j]
      BY DEF InArrivalOrder
    <3>1. i \in 1 .. Len(q) - 1 /\ j \in 1 .. Len(q) - 1  BY <2>2
    <3>2. PICK a \in 1 .. Len(q) : r[i] = q[a] /\ a = IF i < k THEN i ELSE i + 1
      BY <3>1, <2>2, <2>3, SMTT(20)
    <3>3. PICK b \in 1 .. Len(q) : r[j] = q[b] /\ b = IF j < k THEN j ELSE j + 1
      BY <3>1, <2>2, <2>3, SMTT(20)
    <3>4. a < b  BY <3>1, <3>2, <3>3, <2>3
    <3> QED BY <3>2, <3>3, <3>4 DEF InArrivalOrder
  <2>5. ASSUME NEW x \in Orders
        PROVE  Contains(r, x) <=> Contains(q, x) /\ x # o
    <3>1. ASSUME NEW i \in 1 .. Len(q), q[i] = x, x # o
          PROVE  \E j \in 1 .. Len(r) : r[j] = x
      <4>1. i # k  BY <3>1, <2>1
      <4>2. CASE i < k  BY <4>2, <3>1, <2>2, <2>3
      <4>3. CASE i > k
        <5>1. i - 1 \in 1 .. Len(q) - 1 /\ ~(i - 1 < k) /\ (i - 1) + 1 = i
          BY <4>3, <2>3
        <5> QED BY <5>1, <3>1, <2>2
      <4> QED BY <4>1, <4>2, <4>3, <2>3
    <3>2. ASSUME NEW j \in 1 .. Len(r), r[j] = x
          PROVE  x # o /\ \E i \in 1 .. Len(q) : q[i] = x
      <4>1. CASE j < k
        BY <4>1, <3>2, <2>1, <2>2, <2>3 DEF InArrivalOrder
      <4>2. CASE ~(j < k)
        <5>1. j + 1 \in 1 .. Len(q) /\ q[j + 1] = x /\ q[k] < q[j + 1]
          BY <4>2, <3>2, <2>1, <2>2, <2>3 DEF InArrivalOrder
        <5> QED BY <5>1, <2>1, <2>3
      <4> QED BY <4>1, <4>2
    <3> QED BY <3>1, <3>2 DEF Contains
  <2> QED BY <2>1, <2>2, <2>4, <2>5 DEF r
<1> QED BY <1>1, <1>2

-----------------------------------------------------------------------------
(* The inductive invariant. *)

(* What is at the head of a queue is an order that rests there. *)
LEMMA HeadRests ==
  ASSUME IndInv, NEW s \in Sides, NEW p \in Prices, queue[s][p] # <<>>
  PROVE  LET h == Head(queue[s][p]) IN
           h \in Orders /\ InBook(h) /\ side[h] = s /\ price[h] = p
<1>1. queue[s][p] \in Seq(Orders) /\ InArrivalOrder(queue[s][p])
  BY DEF IndInv, TypeOK, TimePriority
<1>2. Head(queue[s][p]) \in Orders /\ Contains(queue[s][p], Head(queue[s][p]))
  BY <1>1, TailQueue
<1> QED BY <1>2 DEF IndInv, BookComplete

LEMMA InitIndInv == Init => IndInv
<1> SUFFICES ASSUME Init PROVE IndInv
  OBVIOUS
<1> USE OrdersAssumption, CapacityAssumption DEF Init
<1>1. TypeOK
  BY DEF TypeOK, Orders, Sides, NoPrice, NoOrder
<1>2. FreshOrders /\ CallInProgress
  BY DEF FreshOrders, CallInProgress, Orders
<1>3. Conservation
  BY DEF Conservation
<1>4. BookComplete /\ TimePriority
  BY DEF BookComplete, TimePriority, InArrivalOrder, Contains, InBook, Orders
<1>5. BestLevelHasOrders
  BY DEF BestLevelHasOrders, HasBest
<1>6. TradesOfKnownOrders /\ TradesHonourLimits
  BY DEF TradesOfKnownOrders, TradesHonourLimits
<1> QED BY <1>1, <1>2, <1>3, <1>4, <1>5, <1>6 DEF IndInv

LEMMA SubmitKeepsIndInv ==
  ASSUME IndInv, NEW s \in Sides, NEW p \in Prices, NEW q \in Quantities, Submit(s, p, q)
  PROVE  IndInv'
<1> USE OrdersAssumption, PricesAssumption, QuantityAssumption
<1> DEFINE n == submitted + 1
<1>0. n \in Orders /\ submitted' = n /\ submitted \in Nat /\ pc = "idle" /\ pc' = "match"
  BY DEF IndInv, TypeOK, Submit, Orders
<1>1. TypeOK'
  <2>1. /\ side' \in [Orders -> Sides]
        /\ price' \in [Orders -> Prices \cup {NoPrice}]
    BY <1>0 DEF IndInv, TypeOK, Submit
  <2>2. quantity' \in [Orders -> Int] /\ original' \in [Orders -> Int]
    BY <1>0 DEF IndInv, TypeOK, Submit
  <2>3. /\ submitted' \in 0 .. MaxOrders
        /\ taker' \in Orders /\ maker' = NoOrder /\ matchQty' = 0 /\ trades' = 0
    BY <1>0 DEF Submit, Orders
  <2>4. UNCHANGED <<levels, queue, levelQuantity, orderCount, best, tradeChan,
                    executed, cancelled>>
    BY DEF Submit, bookVars
  <2>5. pc' = "match"  BY <1>0
  <2>6. TypeOK  BY DEF IndInv
  <2>7. /\ levels' \in [Sides -> SUBSET Prices]
        /\ queue' \in [Sides -> [Prices -> Seq(Orders)]]
        /\ levelQuantity' \in [Sides -> [Prices -> Int]]
        /\ orderCount' \in [Sides -> [Prices -> Int]]
        /\ best' \in [Sides -> Prices \cup {NoPrice}]
    BY <2>4, <2>6 DEF TypeOK
  <2>8. /\ tradeChan' \in Seq(Trade) /\ Len(tradeChan') <= ChanCapacity
    BY <2>4, <2>6 DEF TypeOK
  <2>9. /\ executed' \in [Orders -> Int] /\ cancelled' \in SUBSET Orders
    BY <2>4, <2>6 DEF TypeOK
  <2>10. /\ taker' \in Orders \cup {NoOrder}
         /\ maker' \in Orders \cup {NoOrder}
         /\ matchQty' \in Int
         /\ trades' \in Nat
    BY <2>3
  <2> QED BY <2>1, <2>2, <2>3, <2>5, <2>7, <2>8, <2>9, <2>10 DEF TypeOK
<1>2. \A o \in Orders : o # n =>
        /\ side'[o] = side[o] /\ price'[o] = price[o]
        /\ quantity'[o] = quantity[o] /\ original'[o] = original[o]
  BY <1>0 DEF IndInv, TypeOK, Submit
<1>3. /\ side'[n] = s /\ price'[n] = p /\ quantity'[n] = q /\ original'[n] = q
      /\ executed[n] = 0 /\ n \notin cancelled
  BY <1>0 DEF IndInv, TypeOK, FreshOrders, Submit, Orders
<1>4. executed' = executed /\ cancelled' = cancelled /\ queue' = queue /\ levels' = levels
      /\ best' = best /\ tradeChan' = tradeChan /\ taker' = n
  BY <1>0 DEF Submit, bookVars
<1>5. FreshOrders'
  <2> SUFFICES ASSUME NEW o \in Orders
               PROVE  /\ o > n => /\ quantity'[o] = 0 /\ executed'[o] = 0 /\ original'[o] = 0
                                  /\ o \notin cancelled'
                      /\ o <= n => price'[o] \in Prices
    BY <1>0 DEF FreshOrders
  <2> QED BY <1>0, <1>2, <1>3, <1>4 DEF IndInv, FreshOrders, Orders
<1>6. CallInProgress'
  BY <1>0, <1>3, <1>4 DEF CallInProgress
<1>7. Conservation'
  BY <1>0, <1>2, <1>3, <1>4 DEF IndInv, TypeOK, Conservation
<1>8. BookComplete'
  <2>1. ASSUME NEW o \in Orders PROVE InBook(o)' <=> InBook(o)
    BY <1>0, <1>2, <1>3, <1>4 DEF InBook, Orders
  <2>2. ~InBook(n)  BY <1>0 DEF InBook
  <2> SUFFICES ASSUME NEW o \in Orders, NEW t \in Sides, NEW r \in Prices
               PROVE  Contains(queue'[t][r], o)
                        <=> (InBook(o)' /\ side'[o] = t /\ price'[o] = r)
    BY DEF BookComplete
  <2>3. Contains(queue[t][r], o) <=> (InBook(o) /\ side[o] = t /\ price[o] = r)
    BY DEF IndInv, BookComplete
  <2>4. queue'[t][r] = queue[t][r]  BY <1>4
  <2> QED BY <2>1, <2>2, <2>3, <2>4, <1>2
<1>9. TimePriority' /\ BestLevelHasOrders'
  BY <1>4 DEF IndInv, TimePriority, BestLevelHasOrders, HasBest
<1>10. \A i \in DOMAIN tradeChan : tradeChan[i] \in Trade
  BY DEF IndInv, TypeOK
<1>11. TradesOfKnownOrders'
  BY <1>0, <1>4, <1>10 DEF IndInv, TradesOfKnownOrders, Trade, Orders
<1>12. TradesHonourLimits'
  <2> SUFFICES ASSUME NEW i \in DOMAIN tradeChan
               PROVE  LET t == tradeChan[i] IN
                        /\ side'[t.buyer] = "buy" /\ side'[t.seller] = "sell"
                        /\ t.price <= price'[t.buyer] /\ t.price >= price'[t.seller]
                        /\ t.quantity > 0
    BY <1>4 DEF TradesHonourLimits
  <2>1. tradeChan[i].buyer \in Orders /\ tradeChan[i].seller \in Orders
    BY <1>10 DEF Trade
  <2>2. tradeChan[i].buyer # n /\ tradeChan[i].seller # n
    BY <1>0, <2>1 DEF IndInv, TradesOfKnownOrders, Orders
  <2> QED BY <2>1, <2>2, <1>2 DEF IndInv, TradesHonourLimits
<1> QED BY <1>1, <1>5, <1>6, <1>7, <1>8, <1>9, <1>11, <1>12 DEF IndInv

LEMMA FetchKeepsIndInv ==
  ASSUME IndInv, Fetch
  PROVE  IndInv'
<1> DEFINE opp == Opposite(side[taker])
           first == Head(queue[opp][best[opp]])
<1>0. /\ pc = "match" /\ pc' = "send" /\ taker \in Orders /\ taker = submitted
      /\ taker' = taker /\ maker' = first
      /\ matchQty' = Minimum(quantity[taker], quantity[first])
      /\ UNCHANGED <<submitted, side, price, original, quantity, levels, queue,
                     levelQuantity, orderCount, best, tradeChan, trades, executed, cancelled>>
  BY DEF IndInv, CallInProgress, Fetch, orderVars, bookVars
<1>1. /\ opp \in Sides /\ side[taker] \in Sides
      /\ best[opp] \in Prices /\ queue[opp][best[opp]] # <<>>
      /\ Crosses(side[taker], price[taker], best[opp]) /\ quantity[taker] > 0
  BY <1>0 DEF IndInv, TypeOK, Fetch, CanMatch, HasBest, Opposite, Sides
<1>2. first \in Orders /\ InBook(first) /\ side[first] = opp /\ price[first] = best[opp]
  BY <1>1, HeadRests
<1>3. quantity[taker] \in Int /\ quantity[first] \in Int /\ first \in Int /\ taker \in Int
  BY <1>0, <1>2, OrdersAssumption DEF IndInv, TypeOK, Orders
<1>4. 0 < matchQty' /\ matchQty' <= quantity[taker] /\ matchQty' <= quantity[first]
  BY <1>0, <1>1, <1>2, <1>3, SMTT(20) DEF Minimum, InBook
<1>5. TypeOK'
  BY <1>0, <1>2, <1>3 DEF IndInv, TypeOK, Minimum
<1>6. CallInProgress'
  <2>1. first < taker
    <3> HIDE DEF first, opp
    <3>1. first <= taker /\ first # taker  BY <1>0, <1>2 DEF InBook
    <3> QED BY <3>1, <1>3
  <2> QED BY <2>1, <1>0, <1>1, <1>2, <1>4 DEF IndInv, CallInProgress, InBook
<1>7. FreshOrders' /\ Conservation' /\ TradesOfKnownOrders' /\ TradesHonourLimits'
  BY <1>0 DEF IndInv, FreshOrders, Conservation, TradesOfKnownOrders, TradesHonourLimits
<1>8. BookComplete' /\ TimePriority' /\ BestLevelHasOrders'
  BY <1>0 DEF IndInv, BookComplete, InBook, TimePriority, BestLevelHasOrders, HasBest
<1> QED BY <1>5, <1>6, <1>7, <1>8 DEF IndInv

(* The facts about the trade in progress that SendTrade and Fill need. *)
LEMMA TradeInProgress ==
  ASSUME IndInv, pc \in {"send", "fill"}
  PROVE  LET opp == Opposite(side[taker]) IN
           /\ taker \in Orders /\ taker = submitted /\ taker \notin cancelled
           /\ maker \in Orders /\ maker < taker /\ maker \notin cancelled
           /\ side[taker] \in Sides /\ opp \in Sides /\ side[maker] = opp
           /\ opp # side[taker]
           /\ price[maker] \in Prices /\ price[taker] \in Prices
           /\ matchQty \in Int /\ 0 < matchQty
           /\ matchQty <= quantity[taker] /\ matchQty <= quantity[maker]
<1>1. /\ taker \in Orders /\ taker = submitted /\ taker \notin cancelled
      /\ maker \in Orders /\ maker < taker /\ maker \notin cancelled
      /\ side[maker] = Opposite(side[taker])
      /\ 0 < matchQty /\ matchQty <= quantity[taker] /\ matchQty <= quantity[maker]
  BY DEF IndInv, CallInProgress
<1>2. side[taker] \in Sides /\ matchQty \in Int
  BY <1>1 DEF IndInv, TypeOK
<1>3. Opposite(side[taker]) \in Sides /\ Opposite(side[taker]) # side[taker]
  BY <1>2 DEF Opposite, Sides
<1>4. price[maker] \in Prices /\ price[taker] \in Prices
  <2>1. maker \in Int /\ taker \in Int  BY <1>1, OrdersAssumption DEF Orders
  <2> QED BY <1>1, <2>1 DEF IndInv, FreshOrders
<1> QED BY <1>1, <1>2, <1>3, <1>4

LEMMA SendTradeKeepsIndInv ==
  ASSUME IndInv, SendTrade
  PROVE  IndInv'
<1> USE OrdersAssumption, CapacityAssumption
<1> DEFINE opp == Opposite(side[taker])
           t == [price |-> price[maker], quantity |-> matchQty,
                 buyer  |-> IF side[taker] = "buy" THEN taker ELSE maker,
                 seller |-> IF side[taker] = "buy" THEN maker ELSE taker]
<1>0. /\ pc = "send" /\ pc' = "fill" /\ Len(tradeChan) < ChanCapacity
      /\ tradeChan' = Append(tradeChan, t) /\ trades' = trades + 1
      /\ executed' = [o \in Orders |->
            IF o \in {taker, maker} THEN executed[o] + matchQty ELSE executed[o]]
      /\ UNCHANGED <<submitted, side, price, original, quantity, levels, queue,
                     levelQuantity, orderCount, best, taker, maker, matchQty, cancelled>>
  BY DEF SendTrade, HasRoom, orderVars, bookVars
<1>1. /\ taker \in Orders /\ taker = submitted
      /\ maker \in Orders /\ maker < taker
      /\ side[taker] \in Sides /\ side[maker] = opp
      /\ price[maker] \in Prices /\ price[taker] \in Prices
      /\ matchQty \in Int /\ 0 < matchQty
      /\ matchQty <= quantity[taker] /\ matchQty <= quantity[maker]
  BY <1>0, TradeInProgress
<1>2. t \in Trade
  BY <1>1 DEF Trade
<1>3. /\ tradeChan \in Seq(Trade) /\ Len(tradeChan) \in Nat
      /\ tradeChan' \in Seq(Trade) /\ Len(tradeChan') = Len(tradeChan) + 1
      /\ \A i \in 1 .. Len(tradeChan) : tradeChan'[i] = tradeChan[i]
      /\ tradeChan'[Len(tradeChan) + 1] = t
      /\ DOMAIN tradeChan = 1 .. Len(tradeChan)
      /\ DOMAIN tradeChan' = 1 .. Len(tradeChan) + 1
  <2>1. tradeChan \in Seq(Trade)  BY DEF IndInv, TypeOK
  <2> HIDE DEF t
  <2> QED BY <2>1, <1>0, <1>2, AppendProperties, LenProperties
<1>4. TypeOK'
  <2>1. executed' \in [Orders -> Int]  BY <1>0, <1>1 DEF IndInv, TypeOK
  <2>2. Len(tradeChan') <= ChanCapacity  BY <1>0, <1>3
  <2>3. trades' \in Nat  BY <1>0 DEF IndInv, TypeOK
  <2>4. pc' \in {"idle", "match", "send", "fill"}  BY <1>0
  <2>5. TypeOK  BY DEF IndInv
  <2> HIDE DEF t
  <2> QED BY <2>1, <2>2, <2>3, <2>4, <2>5, <1>0, <1>3 DEF TypeOK
<1>5. FreshOrders'
  <2>1. submitted \in Nat /\ \A o \in Orders : o \in Nat  BY DEF IndInv, TypeOK, Orders
  <2> QED BY <2>1, <1>0, <1>1 DEF IndInv, FreshOrders
<1>6. CallInProgress'
  BY <1>0 DEF IndInv, CallInProgress
<1>7. Conservation'
  <2> SUFFICES ASSUME NEW o \in Orders
               PROVE  /\ quantity[o] + executed'[o] =
                           original[o] + (IF o \in {taker, maker} THEN matchQty ELSE 0)
                      /\ executed'[o] # 0 => 0 < executed'[o] /\ executed'[o] <= original[o]
    BY <1>0 DEF Conservation
  <2>1. quantity[o] \in Int /\ executed[o] \in Int /\ original[o] \in Int
    BY DEF IndInv, TypeOK
  <2>2. /\ quantity[o] + executed[o] = original[o]
        /\ executed[o] # 0 => 0 < executed[o] /\ executed[o] <= original[o]
    BY <1>0, <2>1 DEF IndInv, Conservation
  <2>3. CASE o \in {taker, maker}
    <3>1. executed'[o] = executed[o] + matchQty /\ matchQty <= quantity[o]
      BY <2>3, <1>0, <1>1
    <3> QED BY <2>1, <2>2, <2>3, <3>1, <1>1
  <2>4. CASE o \notin {taker, maker}
    BY <2>1, <2>2, <2>4, <1>0
  <2> QED BY <2>3, <2>4
<1>8. BookComplete' /\ TimePriority' /\ BestLevelHasOrders'
  BY <1>0 DEF IndInv, BookComplete, InBook, TimePriority, BestLevelHasOrders, HasBest
<1>9. TradesOfKnownOrders'
  <2>1. t.buyer <= submitted /\ t.seller <= submitted
    BY <1>1 DEF Orders
  <2> HIDE DEF t
  <2> QED BY <2>1, <1>0, <1>3 DEF IndInv, TradesOfKnownOrders
<1>10. TradesHonourLimits'
  <2>1. Crosses(side[taker], price[taker], price[maker])
    BY <1>0 DEF IndInv, CallInProgress
  <2>2. /\ side[t.buyer] = "buy" /\ side[t.seller] = "sell"
        /\ t.price <= price[t.buyer] /\ t.price >= price[t.seller] /\ t.quantity > 0
    <3>1. price[maker] \in Int /\ price[taker] \in Int
      BY <1>1, PricesAssumption
    <3>2. CASE side[taker] = "buy"
      BY <3>1, <3>2, <2>1, <1>1 DEF Crosses, Opposite
    <3>3. CASE side[taker] = "sell"
      BY <3>1, <3>3, <2>1, <1>1 DEF Crosses, Opposite
    <3> QED BY <3>2, <3>3, <1>1 DEF Sides
  <2> HIDE DEF t
  <2> QED BY <2>2, <1>0, <1>3 DEF IndInv, TradesHonourLimits
<1> QED BY <1>4, <1>5, <1>6, <1>7, <1>8, <1>9, <1>10 DEF IndInv

LEMMA FillKeepsIndInv ==
  ASSUME IndInv, Fill
  PROVE  IndInv'
<1> USE OrdersAssumption
<1> DEFINE opp == Opposite(side[taker])
           q   == queue[opp][price[maker]]
<1>0. /\ pc = "fill" /\ pc' = "match"
      /\ quantity' = [o \in Orders |->
            IF o \in {taker, maker} THEN quantity[o] - matchQty ELSE quantity[o]]
      /\ best' = [best EXCEPT ![opp] = NoPrice]
      /\ queue' = IF quantity'[maker] = 0
                  THEN [queue EXCEPT ![opp][price[maker]] = Tail(q)] ELSE queue
      /\ UNCHANGED <<submitted, side, price, original, levels, levelQuantity, orderCount,
                     tradeChan, taker, maker, matchQty, trades, executed, cancelled>>
  BY DEF Fill, orderVars, callVars, IndInv, TypeOK
<1>1. /\ taker \in Orders /\ taker = submitted /\ taker \notin cancelled
      /\ maker \in Orders /\ maker < taker /\ maker \notin cancelled
      /\ opp \in Sides /\ side[maker] = opp /\ opp # side[taker]
      /\ price[maker] \in Prices
      /\ matchQty \in Int /\ 0 < matchQty
      /\ matchQty <= quantity[taker] /\ matchQty <= quantity[maker]
  BY <1>0, TradeInProgress
<1>2. /\ q \in Seq(Orders) /\ InArrivalOrder(q) /\ q # <<>> /\ Head(q) = maker
  BY <1>0, <1>1 DEF IndInv, TypeOK, TimePriority, CallInProgress
<1>3. /\ Tail(q) \in Seq(Orders) /\ InArrivalOrder(Tail(q))
      /\ \A x \in Orders : Contains(Tail(q), x) <=> Contains(q, x) /\ x # maker
  BY <1>2, TailQueue
<1> HIDE DEF q
<1>4. \A s \in Sides, p \in Prices :
        queue'[s][p] = IF quantity'[maker] = 0 /\ s = opp /\ p = price[maker]
                       THEN Tail(q) ELSE queue[s][p]
  BY <1>0, <1>1 DEF IndInv, TypeOK
<1>5. /\ \A o \in Orders : quantity[o] \in Int /\ executed[o] \in Int /\ original[o] \in Int
      /\ \A o \in Orders : o \notin {taker, maker} => quantity'[o] = quantity[o]
      /\ quantity'[maker] = quantity[maker] - matchQty
      /\ quantity'[taker] = quantity[taker] - matchQty
  BY <1>0, <1>1 DEF IndInv, TypeOK
<1>6. TypeOK'
  <2>1. quantity' \in [Orders -> Int]  BY <1>0, <1>1 DEF IndInv, TypeOK
  <2>2. best' \in [Sides -> Prices \cup {NoPrice}]  BY <1>0 DEF IndInv, TypeOK
  <2>3. queue' \in [Sides -> [Prices -> Seq(Orders)]]
    BY <1>0, <1>1, <1>3 DEF IndInv, TypeOK
  <2>4. pc' \in {"idle", "match", "send", "fill"}  BY <1>0
  <2>5. TypeOK  BY DEF IndInv
  <2> QED BY <2>1, <2>2, <2>3, <2>4, <2>5, <1>0 DEF TypeOK
<1>7. FreshOrders'
  <2>1. submitted \in Nat /\ \A o \in Orders : o \in Nat  BY DEF IndInv, TypeOK, Orders
  <2> QED BY <2>1, <1>0, <1>1 DEF IndInv, FreshOrders
<1>8. CallInProgress'
  BY <1>0, <1>1 DEF CallInProgress
<1>9. Conservation'
  <2> SUFFICES ASSUME NEW o \in Orders
               PROVE  /\ quantity'[o] + executed[o] = original[o]
                      /\ executed[o] # 0 => 0 < executed[o] /\ executed[o] <= original[o]
    BY <1>0, <1>5 DEF Conservation
  <2>1. /\ quantity[o] + executed[o] =
             original[o] + (IF o \in {taker, maker} THEN matchQty ELSE 0)
        /\ executed[o] # 0 => 0 < executed[o] /\ executed[o] <= original[o]
    BY <1>0 DEF IndInv, Conservation
  <2> QED BY <2>1, <1>1, <1>5
<1>10. BookComplete'
  <2> SUFFICES ASSUME NEW o \in Orders, NEW s \in Sides, NEW p \in Prices
               PROVE  Contains(queue'[s][p], o)
                        <=> (InBook(o)' /\ side[o] = s /\ price[o] = p)
    BY <1>0 DEF BookComplete
  <2>1. Contains(queue[s][p], o) <=> (InBook(o) /\ side[o] = s /\ price[o] = p)
    BY DEF IndInv, BookComplete
  <2>2. o # maker => (InBook(o)' <=> InBook(o))
    BY <1>0, <1>5 DEF InBook
  <2>3. o = maker => InBook(o) /\ (InBook(o)' <=> quantity'[maker] # 0)
    BY <1>0, <1>1, <1>5 DEF InBook, Orders
  <2>4. CASE quantity'[maker] = 0 /\ s = opp /\ p = price[maker]
    <3>1. queue'[s][p] = Tail(q) /\ queue[s][p] = q  BY <2>4, <1>4 DEF q
    <3> QED BY <2>1, <2>2, <2>3, <2>4, <3>1, <1>3
  <2>5. CASE ~(quantity'[maker] = 0 /\ s = opp /\ p = price[maker])
    <3>1. queue'[s][p] = queue[s][p]  BY <2>5, <1>4
    <3> QED BY <2>1, <2>2, <2>3, <2>5, <3>1, <1>1
  <2> QED BY <2>4, <2>5
<1>11. TimePriority'
  BY <1>3, <1>4 DEF IndInv, TimePriority
<1>12. BestLevelHasOrders'
  <2> SUFFICES ASSUME NEW s \in Sides, HasBest(s)' PROVE queue'[s][best'[s]] # <<>>
    BY DEF BestLevelHasOrders
  <2>1. best'[opp] = NoPrice  BY <1>0, <1>1 DEF IndInv, TypeOK
  <2>2. s # opp  BY <2>1 DEF HasBest
  <2>3. best'[s] = best[s] /\ HasBest(s)  BY <2>2, <1>0 DEF HasBest, IndInv, TypeOK
  <2>4. best[s] \in Prices  BY <2>3 DEF HasBest, IndInv, TypeOK
  <2> QED BY <2>2, <2>3, <2>4, <1>4 DEF IndInv, BestLevelHasOrders
<1>13. TradesOfKnownOrders' /\ TradesHonourLimits'
  BY <1>0 DEF IndInv, TradesOfKnownOrders, TradesHonourLimits
<1> QED BY <1>6, <1>7, <1>8, <1>9, <1>10, <1>11, <1>12, <1>13 DEF IndInv

LEMMA RestKeepsIndInv ==
  ASSUME IndInv, Rest
  PROVE  IndInv'
<1> USE OrdersAssumption
<1> DEFINE s == side[taker]
           p == price[taker]
           q == queue[s][p]
<1>0. /\ pc = "match" /\ pc' = "idle"
      /\ UNCHANGED <<submitted, side, price, original, quantity, tradeChan, taker, maker,
                     matchQty, trades, executed, cancelled>>
  BY DEF Rest, orderVars, callVars
<1>1. /\ taker \in Orders /\ taker = submitted /\ taker \notin cancelled
      /\ s \in Sides /\ p \in Prices
      /\ \A o \in Orders : quantity[o] \in Int /\ o \in Nat
  <2>1. taker \in Orders /\ taker = submitted /\ taker \notin cancelled
    BY <1>0 DEF IndInv, CallInProgress
  <2> QED BY <2>1 DEF IndInv, TypeOK, FreshOrders, Orders
<1>2. /\ FreshOrders' /\ CallInProgress' /\ Conservation'
      /\ TradesOfKnownOrders' /\ TradesHonourLimits'
  BY <1>0 DEF IndInv, FreshOrders, CallInProgress, Conservation,
              TradesOfKnownOrders, TradesHonourLimits
<1>3. CASE quantity[taker] > 0
  <2>1. /\ best' = [best EXCEPT ![s] = IF Improves(s, p, @) THEN p ELSE @]
        /\ levels' = [levels EXCEPT ![s] = @ \cup {p}]
        /\ queue' = [queue EXCEPT ![s][p] = Append(@, taker)]
        /\ levelQuantity' = [levelQuantity EXCEPT ![s][p] = @ + quantity[taker]]
        /\ orderCount' = [orderCount EXCEPT ![s][p] = @ + 1]
    BY <1>3 DEF Rest, AddOrder
  <2>2. q \in Seq(Orders) /\ InArrivalOrder(q) /\ Len(q) \in Nat
    <3>1. q \in Seq(Orders) /\ InArrivalOrder(q)
      BY <1>1 DEF IndInv, TypeOK, TimePriority
    <3> HIDE DEF q
    <3> QED BY <3>1, LenProperties
  <2>3. \A i \in 1 .. Len(q) : q[i] < taker
    <3> SUFFICES ASSUME NEW i \in 1 .. Len(q) PROVE q[i] < taker
      OBVIOUS
    <3>1. q[i] \in Orders /\ Contains(q, q[i])
      BY <2>2, ElementOfSeq DEF Contains
    <3>2. InBook(q[i])  BY <3>1, <1>1 DEF IndInv, BookComplete
    <3> HIDE DEF q
    <3> QED BY <3>1, <3>2, <1>0, <1>1 DEF InBook
  <2>4. /\ Append(q, taker) \in Seq(Orders) /\ Append(q, taker) # <<>>
        /\ InArrivalOrder(Append(q, taker))
        /\ \A x \in Orders : Contains(Append(q, taker), x) <=> Contains(q, x) \/ x = taker
    <3> HIDE DEF q
    <3> QED BY <2>2, <2>3, <1>1, AppendQueue
  <2>5. \A t \in Sides, r \in Prices :
          queue'[t][r] = IF t = s /\ r = p THEN Append(q, taker) ELSE queue[t][r]
    BY <2>1, <1>1 DEF IndInv, TypeOK
  <2> HIDE DEF q
  <2>6. TypeOK'
    <3>1. queue' \in [Sides -> [Prices -> Seq(Orders)]]
      BY <2>1, <2>4, <1>1 DEF IndInv, TypeOK, q
    <3>2. levels' \in [Sides -> SUBSET Prices]  BY <2>1, <1>1 DEF IndInv, TypeOK
    <3>3. best' \in [Sides -> Prices \cup {NoPrice}]  BY <2>1, <1>1 DEF IndInv, TypeOK
    <3>4. levelQuantity' \in [Sides -> [Prices -> Int]]
      <4>1. levelQuantity \in [Sides -> [Prices -> Int]]  BY DEF IndInv, TypeOK
      <4>2. levelQuantity[s][p] + quantity[taker] \in Int
        BY <4>1, <1>1
      <4> QED BY <4>1, <4>2, <2>1, <1>1
    <3>5. orderCount' \in [Sides -> [Prices -> Int]]
      BY <2>1, <1>1, SMTT(20) DEF IndInv, TypeOK
    <3>6. TypeOK  BY DEF IndInv
    <3>7. pc' \in {"idle", "match", "send", "fill"}  BY <1>0
    <3> QED BY <3>1, <3>2, <3>3, <3>4, <3>5, <3>6, <3>7, <1>0 DEF TypeOK
  <2>7. BookComplete'
    <3> SUFFICES ASSUME NEW o \in Orders, NEW t \in Sides, NEW r \in Prices
                 PROVE  Contains(queue'[t][r], o)
                          <=> (InBook(o)' /\ side[o] = t /\ price[o] = r)
      BY <1>0 DEF BookComplete
    <3>1. Contains(queue[t][r], o) <=> (InBook(o) /\ side[o] = t /\ price[o] = r)
      BY DEF IndInv, BookComplete
    <3>2. o # taker => (InBook(o)' <=> InBook(o))
      BY <1>0 DEF InBook
    <3>3. o = taker => ~InBook(o) /\ InBook(o)'
      BY <1>0, <1>1, <1>3 DEF InBook
    <3>4. CASE t = s /\ r = p
      <4>1. queue'[t][r] = Append(q, taker) /\ queue[t][r] = q  BY <3>4, <2>5 DEF q
      <4> QED BY <3>1, <3>2, <3>3, <3>4, <4>1, <2>4
    <3>5. CASE ~(t = s /\ r = p)
      BY <3>1, <3>2, <3>3, <3>5, <2>5
    <3> QED BY <3>4, <3>5
  <2>8. TimePriority'
    BY <2>4, <2>5 DEF IndInv, TimePriority
  <2>9. BestLevelHasOrders'
    <3> SUFFICES ASSUME NEW t \in Sides, HasBest(t)' PROVE queue'[t][best'[t]] # <<>>
      BY DEF BestLevelHasOrders
    <3>1. best'[t] \in Prices  BY <2>6 DEF HasBest, TypeOK
    <3>2. CASE t = s /\ best'[t] = p
      BY <3>2, <1>1, <2>4, <2>5
    <3>3. CASE ~(t = s /\ best'[t] = p)
      <4>1. best'[t] = best[t]  BY <3>3, <2>1 DEF IndInv, TypeOK
      <4>2. best[t] \in levels[t]
        BY <3>3, <4>1, <2>1 DEF HasBest, IndInv, TypeOK
      <4>3. HasBest(t)  BY <4>1, <4>2 DEF HasBest
      <4> QED BY <4>1, <4>3, <3>1, <3>3, <2>5 DEF IndInv, BestLevelHasOrders
    <3> QED BY <3>2, <3>3
  <2> QED BY <1>2, <2>6, <2>7, <2>8, <2>9 DEF IndInv
<1>4. CASE ~(quantity[taker] > 0)
  <2>1. UNCHANGED <<levels, queue, levelQuantity, orderCount, best>>
    BY <1>4 DEF Rest, bookVars
  <2>2. TypeOK'
    BY <1>0, <2>1 DEF IndInv, TypeOK
  <2>3. BookComplete'
    <3> SUFFICES ASSUME NEW o \in Orders, NEW t \in Sides, NEW r \in Prices
                 PROVE  Contains(queue[t][r], o)
                          <=> (InBook(o)' /\ side[o] = t /\ price[o] = r)
      BY <1>0, <2>1 DEF BookComplete
    <3>1. InBook(o)' <=> InBook(o)  BY <1>0, <1>1, <1>4 DEF InBook
    <3> QED BY <3>1 DEF IndInv, BookComplete
  <2>4. TimePriority' /\ BestLevelHasOrders'
    BY <2>1 DEF IndInv, TimePriority, BestLevelHasOrders, HasBest
  <2> QED BY <1>2, <2>2, <2>3, <2>4 DEF IndInv
<1> QED BY <1>3, <1>4

LEMMA CancelOrderKeepsIndInv ==
  ASSUME IndInv, NEW c \in 1 .. submitted, NEW s \in Sides, NEW p \in Prices,
         CancelOrder(c, s, p)
  PROVE  IndInv'
<1> USE OrdersAssumption
<1> DEFINE q == queue[s][p]
           left == RemoveFirst(q, c)
<1>0. /\ pc = "idle" /\ pc' = "idle" /\ p \in levels[s]
      /\ queue' = [queue EXCEPT ![s][p] = left]
      /\ cancelled' = IF Contains(q, c) THEN cancelled \cup {c} ELSE cancelled
      /\ levels' = IF left = <<>> THEN [levels EXCEPT ![s] = @ \ {p}] ELSE levels
      /\ levelQuantity' = [levelQuantity EXCEPT ![s][p] =
            IF left = <<>> THEN 0 ELSE IF Contains(q, c) THEN @ - quantity[c] ELSE @]
      /\ orderCount' = [orderCount EXCEPT ![s][p] =
            IF left = <<>> THEN 0 ELSE IF Contains(q, c) THEN @ - 1 ELSE @]
      /\ UNCHANGED <<submitted, side, price, original, quantity, best, tradeChan, taker,
                     maker, matchQty, trades, executed>>
  BY DEF CancelOrder, orderVars, callVars
<1>1. c \in Orders /\ submitted \in Nat /\ c <= submitted
  BY DEF IndInv, TypeOK, Orders
<1>2. q \in Seq(Orders) /\ InArrivalOrder(q)
  BY DEF IndInv, TypeOK, TimePriority
<1>3. /\ left \in Seq(Orders) /\ InArrivalOrder(left)
      /\ \A x \in Orders : Contains(left, x) <=> Contains(q, x) /\ x # c
  <2> HIDE DEF q
  <2> QED BY <1>1, <1>2, RemoveFirstQueue
<1>4. \A t \in Sides, r \in Prices :
        queue'[t][r] = IF t = s /\ r = p THEN left ELSE queue[t][r]
  <2> HIDE DEF left
  <2> QED BY <1>0 DEF IndInv, TypeOK
<1>5. Contains(q, c) <=> (InBook(c) /\ side[c] = s /\ price[c] = p)
  BY <1>1 DEF IndInv, BookComplete
<1> HIDE DEF q, left
<1>6. TypeOK'
  <2>1. queue' \in [Sides -> [Prices -> Seq(Orders)]]
    BY <1>0, <1>3 DEF IndInv, TypeOK
  <2>2. levels' \in [Sides -> SUBSET Prices]
    BY <1>0 DEF IndInv, TypeOK
  <2>3. levelQuantity' \in [Sides -> [Prices -> Int]]
    <3>1. levelQuantity \in [Sides -> [Prices -> Int]] /\ quantity[c] \in Int
      BY <1>1 DEF IndInv, TypeOK
    <3>2. levelQuantity[s][p] - quantity[c] \in Int  BY <3>1
    <3> DEFINE new == IF left = <<>> THEN 0 ELSE IF Contains(q, c)
                      THEN levelQuantity[s][p] - quantity[c] ELSE levelQuantity[s][p]
    <3>3. new \in Int  BY <3>1, <3>2
    <3>4. levelQuantity' = [levelQuantity EXCEPT ![s][p] = new]  BY <1>0
    <3> HIDE DEF new
    <3> QED BY <3>1, <3>3, <3>4
  <2>4. orderCount' \in [Sides -> [Prices -> Int]]
    BY <1>0, SMTT(20) DEF IndInv, TypeOK
  <2>5. cancelled' \in SUBSET Orders
    BY <1>0, <1>1 DEF IndInv, TypeOK
  <2>6. TypeOK /\ pc' = pc  BY <1>0 DEF IndInv
  <2> QED BY <2>1, <2>2, <2>3, <2>4, <2>5, <2>6, <1>0 DEF TypeOK
<1>7. FreshOrders'
  <2> SUFFICES ASSUME NEW o \in Orders
               PROVE  /\ o > submitted => /\ quantity[o] = 0 /\ executed[o] = 0
                                          /\ original[o] = 0 /\ o \notin cancelled'
                      /\ o <= submitted => price[o] \in Prices
    BY <1>0 DEF FreshOrders
  <2>1. o > submitted => o # c  BY <1>1 DEF Orders
  <2> QED BY <2>1, <1>0 DEF IndInv, FreshOrders
<1>8. CallInProgress' /\ Conservation'
  BY <1>0 DEF IndInv, CallInProgress, Conservation
<1>9. BookComplete'
  <2> SUFFICES ASSUME NEW o \in Orders, NEW t \in Sides, NEW r \in Prices
               PROVE  Contains(queue'[t][r], o)
                        <=> (InBook(o)' /\ side[o] = t /\ price[o] = r)
    BY <1>0 DEF BookComplete
  <2>1. Contains(queue[t][r], o) <=> (InBook(o) /\ side[o] = t /\ price[o] = r)
    BY DEF IndInv, BookComplete
  <2>2. InBook(o)' <=> InBook(o) /\ ~(o = c /\ Contains(q, c))
    BY <1>0 DEF InBook
  <2>3. CASE t = s /\ r = p
    <3>1. queue'[t][r] = left /\ queue[t][r] = q  BY <2>3, <1>4 DEF q
    <3> QED BY <2>1, <2>2, <2>3, <3>1, <1>3
  <2>4. CASE ~(t = s /\ r = p)
    BY <2>1, <2>2, <2>4, <1>4, <1>5
  <2> QED BY <2>3, <2>4
<1>10. TimePriority'
  BY <1>3, <1>4 DEF IndInv, TimePriority
<1>11. BestLevelHasOrders'
  <2> SUFFICES ASSUME NEW t \in Sides, HasBest(t)' PROVE queue'[t][best[t]] # <<>>
    BY <1>0 DEF BestLevelHasOrders
  <2>1. best[t] # NoPrice /\ best[t] \in Prices /\ best[t] \in levels'[t]
    BY <1>0 DEF HasBest, IndInv, TypeOK
  <2>2. HasBest(t)
    BY <2>1, <1>0 DEF HasBest, IndInv, TypeOK
  <2>3. CASE t = s /\ best[t] = p
    <3>1. left # <<>>  BY <2>1, <2>3, <1>0 DEF IndInv, TypeOK
    <3> QED BY <3>1, <2>3, <1>4
  <2>4. CASE ~(t = s /\ best[t] = p)
    BY <2>1, <2>2, <2>4, <1>4 DEF IndInv, BestLevelHasOrders
  <2> QED BY <2>3, <2>4
<1>12. TradesOfKnownOrders' /\ TradesHonourLimits'
  BY <1>0 DEF IndInv, TradesOfKnownOrders, TradesHonourLimits
<1> QED BY <1>6, <1>7, <1>8, <1>9, <1>10, <1>11, <1>12 DEF IndInv

LEMMA ReceiveTradeKeepsIndInv ==
  ASSUME IndInv, ReceiveTrade
  PROVE  IndInv'
<1>0. /\ tradeChan # <<>> /\ tradeChan' = Tail(tradeChan)
      /\ UNCHANGED <<submitted, side, price, original, quantity, levels, queue,
                     levelQuantity, orderCount, best, pc, taker, maker, matchQty, trades,
                     executed, cancelled>>
  BY DEF ReceiveTrade, orderVars, bookVars, callVars
<1>1. /\ tradeChan' \in Seq(Trade) /\ Len(tradeChan) \in Nat \ {0}
      /\ Len(tradeChan') = Len(tradeChan) - 1
      /\ \A i \in 1 .. Len(tradeChan') : tradeChan'[i] = tradeChan[i + 1]
      /\ DOMAIN tradeChan = 1 .. Len(tradeChan)
      /\ DOMAIN tradeChan' = 1 .. Len(tradeChan')
  <2>1. tradeChan \in Seq(Trade)  BY DEF IndInv, TypeOK
  <2>2. Len(tradeChan) \in Nat \ {0}  BY <2>1, <1>0, EmptySeq
  <2> QED BY <2>1, <2>2, <1>0, HeadTailProperties, LenProperties
<1>2. TypeOK'
  <2>1. TypeOK /\ Len(tradeChan') <= ChanCapacity
    BY <1>1, CapacityAssumption, SMTT(20) DEF IndInv, TypeOK
  <2> QED BY <2>1, <1>0, <1>1 DEF TypeOK
<1>3. FreshOrders' /\ CallInProgress' /\ Conservation'
  BY <1>0 DEF IndInv, FreshOrders, CallInProgress, Conservation
<1>4. BookComplete' /\ TimePriority' /\ BestLevelHasOrders'
  BY <1>0 DEF IndInv, BookComplete, InBook, TimePriority, BestLevelHasOrders, HasBest
<1>5. \A i \in DOMAIN tradeChan' :
        i + 1 \in DOMAIN tradeChan /\ tradeChan'[i] = tradeChan[i + 1]
  BY <1>1
<1>6. TradesOfKnownOrders' /\ TradesHonourLimits'
  BY <1>0, <1>5 DEF IndInv, TradesOfKnownOrders, TradesHonourLimits
<1> QED BY <1>2, <1>3, <1>4, <1>6 DEF IndInv

LEMMA NextKeepsIndInv == IndInv /\ [Next]_vars => IndInv'
<1> SUFFICES ASSUME IndInv, [Next]_vars PROVE IndInv'
  OBVIOUS
<1>1. CASE UNCHANGED vars
  BY <1>1 DEF vars, orderVars, bookVars, callVars, IndInv, TypeOK, FreshOrders,
              CallInProgress, Conservation, BookComplete, InBook, TimePriority,
              BestLevelHasOrders, HasBest, TradesOfKnownOrders, TradesHonourLimits
<1>2. ASSUME NEW s \in Sides, NEW p \in Prices, NEW q \in Quantities, Submit(s, p, q)
      PROVE  IndInv'
  BY <1>2, SubmitKeepsIndInv
<1>3. CASE MatchStep
  BY <1>3, FetchKeepsIndInv, SendTradeKeepsIndInv, FillKeepsIndInv, RestKeepsIndInv
     DEF MatchStep
<1>4. ASSUME NEW o \in 1 .. submitted, NEW s \in Sides, NEW p \in Prices,
             CancelOrder(o, s, p)
      PROVE  IndInv'
  BY <1>4, CancelOrderKeepsIndInv
<1>5. CASE ReceiveTrade
  BY <1>5, ReceiveTradeKeepsIndInv
<1>6. CASE Finished
  BY <1>1, <1>6 DEF Finished
<1> QED BY <1>1, <1>2, <1>3, <1>4, <1>5, <1>6 DEF Next

-----------------------------------------------------------------------------
(* The theorems. *)

(* The inductive invariant holds of every state of every behaviour. *)
THEOREM Invariance == Spec => []IndInv
<1> QED BY InitIndInv, NextKeepsIndInv, PTL DEF Spec

(* Every variable keeps its type: in particular the channel never holds    *)
(* more trades than its capacity.                                          *)
THEOREM TypeCorrectness == Spec => []TypeOK
<1>1. IndInv => TypeOK  BY DEF IndInv
<1> QED BY <1>1, Invariance, PTL

(* matchOrder neither creates nor loses quantity and never overfills.      *)
THEOREM QuantityIsConserved == Spec => []Conservation
<1>1. IndInv => Conservation  BY DEF IndInv
<1> QED BY <1>1, Invariance, PTL

(* Orders with quantity left are in exactly the queue of their side and    *)
(* price until they are filled or cancelled.                               *)
THEOREM NoOrderIsLost == Spec => []BookComplete
<1>1. IndInv => BookComplete  BY DEF IndInv
<1> QED BY <1>1, Invariance, PTL

(* Within a level the oldest order trades first.                           *)
THEOREM LevelsAreFIFO == Spec => []TimePriority
<1>1. IndInv => TimePriority  BY DEF IndInv
<1> QED BY <1>1, Invariance, PTL

(* The level that a best price leads to is never empty.                    *)
THEOREM BestLevelNeverEmpty == Spec => []BestLevelHasOrders
<1>1. IndInv => BestLevelHasOrders  BY DEF IndInv
<1> QED BY <1>1, Invariance, PTL

(* Every trade on the channel honours the limits of both its orders.       *)
THEOREM TradesAreFair == Spec => []TradesHonourLimits
<1>1. IndInv => TradesHonourLimits  BY DEF IndInv
<1> QED BY <1>1, Invariance, PTL

(* A cancelled order never trades again.                                   *)
THEOREM CancelIsFinal == Spec => CancelledNeverTrades
<1>1. IndInv /\ [Next]_vars =>
        [\A o \in cancelled : executed'[o] = executed[o] /\ quantity'[o] = quantity[o]]_vars
  <2> SUFFICES ASSUME IndInv, [Next]_vars, NEW o \in cancelled
               PROVE  executed'[o] = executed[o] /\ quantity'[o] = quantity[o]
    OBVIOUS
  <2>1. o \in Orders /\ o <= submitted /\ submitted \in Nat
    BY OrdersAssumption DEF IndInv, TypeOK, FreshOrders, Orders
  <2>2. ASSUME NEW s \in Sides, NEW p \in Prices, NEW q \in Quantities, Submit(s, p, q)
        PROVE  executed'[o] = executed[o] /\ quantity'[o] = quantity[o]
    <3>1. o # submitted + 1  BY <2>1 DEF Orders
    <3> QED BY <2>1, <2>2, <3>1 DEF Submit, IndInv, TypeOK
  <2>3. CASE SendTrade \/ Fill
    <3>1. o \notin {taker, maker}
      BY <2>3 DEF IndInv, CallInProgress, SendTrade, Fill
    <3> QED BY <2>1, <2>3, <3>1 DEF SendTrade, Fill
  <2>4. CASE Fetch \/ Rest \/ ReceiveTrade \/ Finished \/ UNCHANGED vars
    BY <2>4 DEF Fetch, Rest, ReceiveTrade, Finished, vars
  <2>5. ASSUME NEW c \in 1 .. submitted, NEW s \in Sides, NEW p \in Prices,
               CancelOrder(c, s, p)
        PROVE  executed'[o] = executed[o] /\ quantity'[o] = quantity[o]
    BY <2>5 DEF CancelOrder
  <2> QED BY <2>2, <2>3, <2>4, <2>5 DEF Next, MatchStep
<1> QED BY <1>1, Invariance, PTL DEF Spec, CancelledNeverTrades

-----------------------------------------------------------------------------
(* The refinement of Exchange.  The abstract state is a function of what   *)
(* the engine submitted, executed and cancelled.                           *)
absState == [o \in Orders |-> IF o > submitted THEN "new"
                              ELSE IF o \in cancelled THEN "withdrawn" ELSE "live"]
absBuys  == [o \in Orders |-> side[o] = "buy"]
absOpen  == [o \in Orders |-> original[o] - executed[o]]

LEMMA InitRefines == Init => Promise!ExchangeInit
<1> SUFFICES ASSUME Init PROVE Promise!ExchangeInit
  OBVIOUS
<1>1. absState = [o \in Orders |-> "new"]
  BY OrdersAssumption DEF Init, absState, Orders
<1>2. absBuys \in [Orders -> BOOLEAN]
  BY DEF absBuys
<1>3. price \in [Orders -> Int]
  BY DEF Init, NoPrice
<1>4. absOpen = [o \in Orders |-> 0]
  BY DEF Init, absOpen
<1> QED BY <1>1, <1>2, <1>3, <1>4 DEF Promise!ExchangeInit, absState, absBuys, absOpen

LEMMA SubmitRefines ==
  ASSUME IndInv, NEW s \in Sides, NEW p \in Prices, NEW q \in Quantities, Submit(s, p, q)
  PROVE  Promise!Enter(submitted + 1, s = "buy", p, q)
<1> USE OrdersAssumption
<1> DEFINE n == submitted + 1
<1>1. n \in Orders /\ submitted' = n /\ submitted \in Nat /\ \A o \in Orders : o \in Nat
  BY DEF IndInv, TypeOK, Submit, Orders
<1>2. /\ side' = [side EXCEPT ![n] = s] /\ price' = [price EXCEPT ![n] = p]
      /\ original' = [original EXCEPT ![n] = q]
      /\ executed' = executed /\ cancelled' = cancelled
  BY <1>1 DEF Submit
<1>3. n \notin cancelled /\ executed[n] = 0 /\ q \in Int
  BY <1>1, QuantityAssumption DEF IndInv, FreshOrders
<1> HIDE DEF n
<1>4. absState[n] = "new"
  BY <1>1 DEF absState, n
<1>5. absState' = [absState EXCEPT ![n] = "live"]
  <2>1. ASSUME NEW o \in Orders, o # n PROVE o > n <=> o > submitted
    BY <2>1, <1>1 DEF n
  <2>2. ~(n > n)  BY <1>1
  <2> QED BY <2>1, <2>2, <1>1, <1>2, <1>3 DEF absState
<1>6. absBuys' = [absBuys EXCEPT ![n] = (s = "buy")]
  BY <1>1, <1>2 DEF absBuys, IndInv, TypeOK
<1>7. absOpen' = [absOpen EXCEPT ![n] = q]
  <2>1. absOpen' = [o \in Orders |-> original'[o] - executed[o]]
    BY <1>2 DEF absOpen
  <2>2. \A o \in Orders : o # n => original'[o] = original[o]
    BY <1>2 DEF IndInv, TypeOK
  <2>3. original'[n] = q  BY <1>1, <1>2 DEF IndInv, TypeOK
  <2>4. q - 0 = q  BY <1>3
  <2>5. original'[n] - executed[n] = q  BY <2>3, <2>4, <1>3
  <2> QED BY <2>1, <2>2, <2>5, <1>1 DEF absOpen
<1> QED BY <1>2, <1>4, <1>5, <1>6, <1>7
        DEF Promise!Enter, absState, absBuys, absOpen, n

LEMMA SendTradeRefines ==
  ASSUME IndInv, SendTrade
  PROVE  LET b == IF side[taker] = "buy" THEN taker ELSE maker
             s == IF side[taker] = "buy" THEN maker ELSE taker
         IN  matchQty \in 1 .. absOpen[b] /\ Promise!Execute(b, s, matchQty)
<1> DEFINE b == IF side[taker] = "buy" THEN taker ELSE maker
           s == IF side[taker] = "buy" THEN maker ELSE taker
<1>0. pc = "send"  BY DEF SendTrade
<1>1. /\ taker \in Orders /\ taker = submitted /\ taker \notin cancelled
      /\ maker \in Orders /\ maker < taker /\ maker \notin cancelled
      /\ side[taker] \in Sides /\ side[maker] = Opposite(side[taker])
      /\ price[maker] \in Prices /\ price[taker] \in Prices
      /\ matchQty \in Int /\ 0 < matchQty
      /\ matchQty <= quantity[taker] /\ matchQty <= quantity[maker]
  BY <1>0, TradeInProgress
<1>2. /\ executed' = [o \in Orders |->
            IF o \in {taker, maker} THEN executed[o] + matchQty ELSE executed[o]]
      /\ UNCHANGED <<submitted, side, price, original, cancelled>>
  BY DEF SendTrade, orderVars
<1>3. \A o \in Orders : /\ quantity[o] \in Int /\ executed[o] \in Int /\ original[o] \in Int
                        /\ absOpen[o] = quantity[o]
  BY <1>0 DEF IndInv, TypeOK, Conservation, absOpen
<1>4. absState[taker] = "live" /\ absState[maker] = "live"
  BY <1>1, OrdersAssumption DEF absState, Orders
<1>5. /\ b \in Orders /\ s \in Orders /\ {b, s} = {taker, maker}
      /\ absBuys[b] /\ ~absBuys[s]
  BY <1>1 DEF absBuys, Opposite, Sides
<1>6. price[s] <= price[b]
  <2>1. Crosses(side[taker], price[taker], price[maker])
    BY <1>0 DEF IndInv, CallInProgress
  <2>2. price[maker] \in Int /\ price[taker] \in Int  BY <1>1, PricesAssumption
  <2> QED BY <1>1, <2>1, <2>2 DEF Crosses, Sides
<1>7. matchQty <= absOpen[b] /\ matchQty <= absOpen[s] /\ matchQty \in 1 .. absOpen[b]
  BY <1>1, <1>3
<1> HIDE DEF b, s
<1>8. absOpen' = [o \in Orders |-> IF o \in {b, s} THEN absOpen[o] - matchQty ELSE absOpen[o]]
  <2>1. ASSUME NEW o \in Orders
        PROVE  original[o] - executed'[o] =
                 IF o \in {b, s} THEN absOpen[o] - matchQty ELSE absOpen[o]
    <3>1. absOpen[o] = original[o] - executed[o]  BY DEF absOpen
    <3>2. executed'[o] = IF o \in {b, s} THEN executed[o] + matchQty ELSE executed[o]
      BY <1>2, <1>5
    <3>3. original[o] \in Int /\ executed[o] \in Int /\ matchQty \in Int  BY <1>1, <1>3
    <3> QED BY <3>1, <3>2, <3>3
  <2> QED BY <2>1, <1>2 DEF absOpen
<1>9. absState' = absState /\ absBuys' = absBuys /\ price' = price
  BY <1>2 DEF absState, absBuys
<1>10. absState[b] = "live" /\ absState[s] = "live"
  BY <1>4 DEF b, s
<1>11. Promise!Execute(b, s, matchQty)
  BY <1>5, <1>6, <1>7, <1>8, <1>9, <1>10
     DEF Promise!Execute, absState, absBuys, absOpen
<1> QED BY <1>7, <1>11 DEF b, s

LEMMA CancelOrderRefines ==
  ASSUME IndInv, NEW c \in 1 .. submitted, NEW s \in Sides, NEW p \in Prices,
         CancelOrder(c, s, p)
  PROVE  Promise!Withdraw(c) \/ UNCHANGED <<absState, absBuys, price, absOpen>>
<1>1. c \in Orders /\ c <= submitted /\ submitted \in Nat
  BY OrdersAssumption DEF IndInv, TypeOK, Orders
<1>2. /\ cancelled' = IF Contains(queue[s][p], c) THEN cancelled \cup {c} ELSE cancelled
      /\ UNCHANGED <<submitted, side, price, original, executed>>
  BY DEF CancelOrder, orderVars
<1>3. absBuys' = absBuys /\ absOpen' = absOpen
  BY <1>2 DEF absBuys, absOpen
<1>4. CASE Contains(queue[s][p], c)
  <2>1. c \notin cancelled
    BY <1>1, <1>4 DEF IndInv, BookComplete, InBook
  <2>2. ~(c > submitted)  BY <1>1, OrdersAssumption DEF Orders
  <2>3. absState[c] = "live"  BY <1>1, <2>1, <2>2 DEF absState
  <2>4. absState' = [absState EXCEPT ![c] = "withdrawn"]
    BY <1>1, <1>2, <1>4, <2>2 DEF absState
  <2> QED BY <2>3, <2>4, <1>2, <1>3 DEF Promise!Withdraw, absState, absBuys, absOpen
<1>5. CASE ~Contains(queue[s][p], c)
  <2>1. absState' = absState  BY <1>2, <1>5 DEF absState
  <2> QED BY <2>1, <1>2, <1>3
<1> QED BY <1>4, <1>5

LEMMA NextRefines ==
  IndInv /\ [Next]_vars => [Promise!ExchangeNext]_(Promise!exchangeVars)
<1> SUFFICES ASSUME IndInv, [Next]_vars
             PROVE  Promise!ExchangeNext \/ UNCHANGED <<absState, absBuys, price, absOpen>>
  BY DEF Promise!exchangeVars, absState, absBuys, absOpen
<1>1. ASSUME NEW s \in Sides, NEW p \in Prices, NEW q \in Quantities, Submit(s, p, q)
      PROVE  Promise!ExchangeNext
  <2>1. submitted + 1 \in Orders
    BY <1>1, OrdersAssumption DEF Submit, IndInv, TypeOK, Orders
  <2> DEFINE b == s = "buy"
  <2>2. Promise!Enter(submitted + 1, b, p, q)
    BY <1>1, SubmitRefines
  <2>3. b \in BOOLEAN  OBVIOUS
  <2> HIDE DEF b
  <2> QED BY <2>1, <2>2, <2>3, Zenon DEF Promise!ExchangeNext
<1>2. CASE SendTrade
  <2> DEFINE b == IF side[taker] = "buy" THEN taker ELSE maker
             s == IF side[taker] = "buy" THEN maker ELSE taker
  <2>1. matchQty \in 1 .. absOpen[b] /\ Promise!Execute(b, s, matchQty)
    BY <1>2, SendTradeRefines
  <2>2. b \in Orders /\ s \in Orders
    BY <1>2, TradeInProgress DEF SendTrade
  <2> HIDE DEF b, s
  <2>3. \E x, y \in Orders : \E n \in 1 .. absOpen[x] : Promise!Execute(x, y, n)
    <3>1. PICK x \in Orders, y \in Orders, n \in 1 .. absOpen[b] :
                 x = b /\ y = s /\ n = matchQty
      BY <2>1, <2>2
    <3>2. n \in 1 .. absOpen[x]  BY <3>1
    <3>3. Promise!Execute(x, y, n)  BY <2>1, <3>1 DEF Promise!Execute
    <3> QED BY <3>2, <3>3, Zenon
  <2> QED BY <2>3, Zenon DEF Promise!ExchangeNext, absOpen
<1>3. CASE Fetch \/ Fill \/ Rest \/ ReceiveTrade \/ Finished \/ UNCHANGED vars
  <2>1. UNCHANGED <<submitted, side, price, original, executed, cancelled>>
    BY <1>3 DEF Fetch, Fill, Rest, ReceiveTrade, Finished, vars, orderVars
  <2> QED BY <2>1 DEF absState, absBuys, absOpen
<1>4. ASSUME NEW c \in 1 .. submitted, NEW s \in Sides, NEW p \in Prices,
             CancelOrder(c, s, p)
      PROVE  Promise!ExchangeNext \/ UNCHANGED <<absState, absBuys, price, absOpen>>
  <2>1. c \in Orders  BY OrdersAssumption DEF IndInv, TypeOK, Orders
  <2> QED BY <2>1, <1>4, CancelOrderRefines DEF Promise!ExchangeNext
<1> QED BY <1>1, <1>2, <1>3, <1>4 DEF Next, MatchStep

(* The engine, with the steps of its matching loop and its channel, does   *)
(* only what the exchange of module Exchange promises.                     *)
THEOREM EngineImplementsExchange == Spec => ImplementsExchange
<1> QED BY Invariance, InitRefines, NextRefines, PTL
        DEF Spec, ImplementsExchange, Promise!ExchangeSpec
=============================================================================
