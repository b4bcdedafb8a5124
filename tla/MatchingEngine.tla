--------------------------- MODULE MatchingEngine ---------------------------
(***************************************************************************)
(* The matching engine of src/engine/internal/orderbook: one order book    *)
(* and the goroutine that submits and cancels orders on it, with the       *)
(* bounded channel on which every trade is published.                      *)
(*                                                                         *)
(* SubmitOrder is not atomic: it can block on the trade channel between    *)
(* choosing a counterparty and reducing the two quantities, so the trade   *)
(* is visible to the reader of the channel before the book reflects it.    *)
(* Its steps are the actions Fetch, SendTrade, Fill and Rest.              *)
(*                                                                         *)
(* One goroutine makes all the calls, as cmd/engine/main.go:57-61 wires    *)
(* it.  Books of different symbols share only the channel; this is one of  *)
(* them.  Orders are named by the position of their SubmitOrder call.      *)
(***************************************************************************)
EXTENDS Integers, Sequences, SequencesExt

CONSTANTS
  MaxOrders,      \* bound: the number of SubmitOrder calls
  Prices,         \* the limit prices that orders carry; nothing validates them
  Quantities,     \* the quantities that orders carry; nothing validates them
  ChanCapacity    \* the capacity of tradeChan

ASSUME OrdersAssumption   == MaxOrders \in Nat
ASSUME PricesAssumption   == Prices \subseteq Int
ASSUME QuantityAssumption == Quantities \subseteq Int
ASSUME CapacityAssumption == ChanCapacity \in Nat \ {0}

VARIABLES
  submitted,      \* how many orders SubmitOrder has received
  side, price, quantity,    \* the fields of each Order
  levels,         \* per side, the prices that are keys of the level map
  queue,          \* per side and price, Level.Orders
  levelQuantity,  \* per side and price, Level.Quantity
  orderCount,     \* per side and price, Level.OrderCount
  best,           \* bestBid and bestAsk
  tradeChan,      \* the trades sent and not received yet
  pc,             \* where the submitting goroutine is
  taker, maker, matchQty,   \* order, askOrder/bidOrder and matchQty of matchOrder
  trades,         \* len(trades) of the current call of matchOrder
  original,       \* history: the quantity each order was submitted with
  executed,       \* history: the quantity of each order in trades sent
  cancelled       \* history: the orders that CancelOrder found and removed

orderVars   == <<submitted, side, price, original>>
bookVars    == <<levels, queue, levelQuantity, orderCount, best>>
callVars    == <<taker, maker, matchQty, trades>>
vars == <<orderVars, quantity, bookVars, tradeChan, pc, callVars, executed, cancelled>>

-----------------------------------------------------------------------------
Orders  == 1 .. MaxOrders
NoOrder == 0
NoPrice == -1                       \* the sentinel of bestBid and bestAsk
Sides   == {"buy", "sell"}
Opposite(s) == IF s = "buy" THEN "sell" ELSE "buy"

Trade == [price : Prices, quantity : Int, buyer : Orders, seller : Orders]

(* BestBid() and BestAsk() return a level, not nil. *)
HasBest(s) == best[s] # NoPrice /\ best[s] \in levels[s]

(* Mutant: the comparison of the limits is the wrong way round. *)
CrossesReversed(s, l, p) == IF s = "buy" THEN p >= l ELSE p <= l

(* A resting order of price p can trade with an order of side s and limit l. *)
Crosses(s, l, p) == IF s = "buy" THEN p <= l ELSE p >= l

(* An order of side s and price p becomes the best one, the best being b. *)
Improves(s, p, b) == IF s = "buy" THEN p > b ELSE b = NoPrice \/ p < b

(* Mutant: the larger of the two quantities is matched. *)
Larger(a, b) == IF a < b THEN b ELSE a

Minimum(a, b) == IF a < b THEN a ELSE b

TypeOK ==
  /\ submitted \in 0 .. MaxOrders
  /\ side \in [Orders -> Sides]
  /\ price \in [Orders -> Prices \cup {NoPrice}]
  /\ quantity \in [Orders -> Int]
  /\ levels \in [Sides -> SUBSET Prices]
  /\ queue \in [Sides -> [Prices -> Seq(Orders)]]
  /\ levelQuantity \in [Sides -> [Prices -> Int]]
  /\ orderCount \in [Sides -> [Prices -> Int]]
  /\ best \in [Sides -> Prices \cup {NoPrice}]
  /\ tradeChan \in Seq(Trade)
  /\ Len(tradeChan) <= ChanCapacity
  /\ pc \in {"idle", "match", "send", "fill"}
  /\ taker \in Orders \cup {NoOrder}
  /\ maker \in Orders \cup {NoOrder}
  /\ matchQty \in Int
  /\ trades \in Nat
  /\ original \in [Orders -> Int]
  /\ executed \in [Orders -> Int]
  /\ cancelled \in SUBSET Orders

Init ==
  /\ submitted = 0
  /\ side = [o \in Orders |-> "buy"]
  /\ price = [o \in Orders |-> NoPrice]
  /\ quantity = [o \in Orders |-> 0]
  /\ levels = [s \in Sides |-> {}]
  /\ queue = [s \in Sides |-> [p \in Prices |-> <<>>]]
  /\ levelQuantity = [s \in Sides |-> [p \in Prices |-> 0]]
  /\ orderCount = [s \in Sides |-> [p \in Prices |-> 0]]
  /\ best = [s \in Sides |-> NoPrice]
  /\ tradeChan = <<>>
  /\ pc = "idle"
  /\ taker = NoOrder
  /\ maker = NoOrder
  /\ matchQty = 0
  /\ trades = 0
  /\ original = [o \in Orders |-> 0]
  /\ executed = [o \in Orders |-> 0]
  /\ cancelled = {}

-----------------------------------------------------------------------------
(* SubmitOrder is called with a new order. *)
Submit(s, p, q) ==
  /\ pc = "idle"
  /\ submitted < MaxOrders
  /\ submitted' = submitted + 1
  /\ side' = [side EXCEPT ![submitted'] = s]
  /\ price' = [price EXCEPT ![submitted'] = p]
  /\ quantity' = [quantity EXCEPT ![submitted'] = q]
  /\ original' = [original EXCEPT ![submitted'] = q]
  /\ taker' = submitted'
  /\ maker' = NoOrder
  /\ matchQty' = 0
  /\ trades' = 0
  /\ pc' = "match"
  /\ UNCHANGED <<bookVars, tradeChan, executed, cancelled>>

(* The condition of the matching loop, with the break for an empty level. *)
CanMatch ==
  LET opp == Opposite(side[taker]) IN
    /\ HasBest(opp)
    /\ Crosses(side[taker], price[taker], best[opp])
    /\ quantity[taker] > 0
    /\ queue[opp][best[opp]] # <<>>

(* The loop takes the first order of the best opposite level. *)
Fetch ==
  /\ pc = "match"
  /\ CanMatch
  /\ LET opp   == Opposite(side[taker])
         first == Head(queue[opp][best[opp]])
     IN  /\ maker' = first
         /\ matchQty' = Minimum(quantity[taker], quantity[first])
  /\ pc' = "send"
  /\ UNCHANGED <<orderVars, quantity, bookVars, tradeChan, taker, trades,
                 executed, cancelled>>

(* The channel takes another trade. *)
HasRoom == Len(tradeChan) < ChanCapacity

(* The trade is published; the send blocks while the channel is full. *)
SendTrade ==
  /\ pc = "send"
  /\ HasRoom
  /\ tradeChan' = Append(tradeChan,
        [price |-> price[maker], quantity |-> matchQty,
         buyer  |-> IF side[taker] = "buy" THEN taker ELSE maker,
         seller |-> IF side[taker] = "buy" THEN maker ELSE taker])
  /\ trades' = trades + 1
  /\ executed' = [o \in Orders |->
        IF o \in {taker, maker} THEN executed[o] + matchQty ELSE executed[o]]
  /\ pc' = "fill"
  /\ UNCHANGED <<orderVars, quantity, bookVars, taker, maker, matchQty, cancelled>>

(* Both quantities are reduced, the best opposite price is forgotten, and  *)
(* a filled maker leaves its level; the level keeps its aggregates and     *)
(* stays in the map even when no order is left in it.                      *)
Fill ==
  /\ pc = "fill"
  /\ quantity' = [o \in Orders |->
        IF o \in {taker, maker} THEN quantity[o] - matchQty ELSE quantity[o]]
  /\ LET opp == Opposite(side[taker]) IN
       /\ best' = [best EXCEPT ![opp] = NoPrice]
       /\ queue' = IF quantity'[maker] = 0
                   THEN [queue EXCEPT ![opp][price[maker]] = Tail(@)]
                   ELSE queue
  /\ pc' = "match"
  /\ UNCHANGED <<orderVars, levels, levelQuantity, orderCount, tradeChan, callVars,
                 executed, cancelled>>

(* Mutant: the order enters at the head of its level. *)
AddOrderFirst(o) ==
  LET s == side[o]
      p == price[o]
  IN  /\ best' = [best EXCEPT ![s] = IF Improves(s, p, @) THEN p ELSE @]
      /\ levels' = [levels EXCEPT ![s] = @ \cup {p}]
      /\ queue' = [queue EXCEPT ![s][p] = <<o>> \o @]
      /\ levelQuantity' = [levelQuantity EXCEPT ![s][p] = @ + quantity[o]]
      /\ orderCount' = [orderCount EXCEPT ![s][p] = @ + 1]

(* OrderBook.AddOrder and Level.AddOrder. *)
AddOrder(o) ==
  LET s == side[o]
      p == price[o]
  IN  /\ best' = [best EXCEPT ![s] = IF Improves(s, p, @) THEN p ELSE @]
      /\ levels' = [levels EXCEPT ![s] = @ \cup {p}]
      /\ queue' = [queue EXCEPT ![s][p] = Append(@, o)]
      /\ levelQuantity' = [levelQuantity EXCEPT ![s][p] = @ + quantity[o]]
      /\ orderCount' = [orderCount EXCEPT ![s][p] = @ + 1]

(* Mutant: a filled order does not leave the loop. *)
RestOnlyLeftovers ==
  /\ pc = "match"
  /\ ~CanMatch
  /\ IF quantity[taker] > 0 THEN AddOrder(taker) /\ pc' = "idle"
                            ELSE UNCHANGED <<bookVars, pc>>
  /\ UNCHANGED <<orderVars, quantity, tradeChan, callVars, executed, cancelled>>

(* The loop is over: what is left of the order rests in the book. *)
Rest ==
  /\ pc = "match"
  /\ ~CanMatch
  /\ IF quantity[taker] > 0 THEN AddOrder(taker) ELSE UNCHANGED bookVars
  /\ pc' = "idle"
  /\ UNCHANGED <<orderVars, quantity, tradeChan, callVars, executed, cancelled>>

(* Mutant: the aggregates are corrected and the order stays in the level. *)
CancelOrderKeepsOrder(o, s, p) ==
  /\ pc = "idle"
  /\ p \in levels[s]
  /\ Contains(queue[s][p], o)
  /\ cancelled' = cancelled \cup {o}
  /\ levelQuantity' = [levelQuantity EXCEPT ![s][p] = @ - quantity[o]]
  /\ orderCount' = [orderCount EXCEPT ![s][p] = @ - 1]
  /\ UNCHANGED <<orderVars, quantity, levels, queue, best, tradeChan, pc, callVars,
                 executed>>

(* CancelOrder is called with an order, a side and a price, which need not *)
(* be those of the order.  A level left without orders is deleted; the     *)
(* best price is not recomputed.                                           *)
CancelOrder(o, s, p) ==
  /\ pc = "idle"
  /\ p \in levels[s]
  /\ LET found == Contains(queue[s][p], o)
         left  == RemoveFirst(queue[s][p], o)
     IN  /\ queue' = [queue EXCEPT ![s][p] = left]
         /\ cancelled' = IF found THEN cancelled \cup {o} ELSE cancelled
         /\ levels' = IF left = <<>> THEN [levels EXCEPT ![s] = @ \ {p}] ELSE levels
         /\ levelQuantity' = [levelQuantity EXCEPT ![s][p] =
               IF left = <<>> THEN 0 ELSE IF found THEN @ - quantity[o] ELSE @]
         /\ orderCount' = [orderCount EXCEPT ![s][p] =
               IF left = <<>> THEN 0 ELSE IF found THEN @ - 1 ELSE @]
  /\ UNCHANGED <<orderVars, quantity, best, tradeChan, pc, callVars, executed>>

(* A consumer of TradeChannel() receives the oldest trade. *)
ReceiveTrade ==
  /\ tradeChan # <<>>
  /\ tradeChan' = Tail(tradeChan)
  /\ UNCHANGED <<orderVars, quantity, bookVars, pc, callVars, executed, cancelled>>

(* The bound on the orders is reached and nothing is in progress. *)
Finished ==
  /\ pc = "idle" /\ submitted = MaxOrders /\ tradeChan = <<>>
  /\ UNCHANGED vars

MatchStep == Fetch \/ SendTrade \/ Fill \/ Rest

Next ==
  \/ \E s \in Sides, p \in Prices, q \in Quantities : Submit(s, p, q)
  \/ MatchStep
  \/ \E o \in 1 .. submitted, s \in Sides, p \in Prices : CancelOrder(o, s, p)
  \/ ReceiveTrade
  \/ Finished

Spec == Init /\ [][Next]_vars

(* The goroutine that submits keeps running, and the trades are received. *)
FairSpec == Spec /\ WF_vars(MatchStep) /\ WF_vars(ReceiveTrade)
-----------------------------------------------------------------------------
(* Every quantity submitted is either still in Order.Quantity or was       *)
(* published in a trade, except for the trade that is on the channel and   *)
(* not applied yet; no order executes for more than it was submitted with. *)
(* matchOrder reduces the quantities only after the blocking send          *)
(* (matching_engine.go:66-69).                                             *)
Conservation ==
  \A o \in Orders :
    /\ quantity[o] + executed[o] =
         original[o] + (IF pc = "fill" /\ o \in {taker, maker} THEN matchQty ELSE 0)
    /\ executed[o] # 0 => 0 < executed[o] /\ executed[o] <= original[o]

(* Every published trade is between a buyer and a seller, for a positive   *)
(* quantity, at a price that honours both limits, although the best price  *)
(* the loop starts from is often stale (matching_engine.go:50, 81).        *)
TradesHonourLimits ==
  \A i \in DOMAIN tradeChan :
    LET t == tradeChan[i] IN
      /\ side[t.buyer] = "buy" /\ side[t.seller] = "sell"
      /\ t.price <= price[t.buyer] /\ t.price >= price[t.seller]
      /\ t.quantity > 0

(* Where an order with something left to trade must be: in the one queue   *)
(* of its side and price, exactly until it is filled or cancelled.  An     *)
(* order being matched is not in the book yet, and a filled maker stays    *)
(* at the head of its queue until Fill pops it.  Nothing is lost by a pop  *)
(* (matching_engine.go:73, 104) or by a level that CancelOrder deletes.    *)
InBook(o) == o <= submitted /\ ~(o = taker /\ pc # "idle")
                            /\ o \notin cancelled /\ quantity[o] > 0
BookComplete ==
  \A o \in Orders, s \in Sides, p \in Prices :
    Contains(queue[s][p], o)
       <=> (InBook(o) /\ side[o] = s /\ price[o] = p)

(* Within a price level orders keep the order of their arrival, so the     *)
(* counterparty of a trade is the oldest one of its level (level.go:23-27, *)
(* 35, matching_engine.go:56, 73, 87, 104).                                *)
InArrivalOrder(q) == \A i, j \in 1 .. Len(q) : i < j => q[i] < q[j]
TimePriority == \A s \in Sides, p \in Prices : InArrivalOrder(queue[s][p])

(* A level that bestBid or bestAsk leads to is never empty, whatever was   *)
(* filled or cancelled before: the break for an empty level                *)
(* (matching_engine.go:52-54, 83-85) is never taken.  Only the level of    *)
(* best is protected: levels emptied by fills stay in the map.             *)
BestLevelHasOrders ==
  \A s \in Sides : HasBest(s) => queue[s][best[s]] # <<>>

(* An order that CancelOrder removed is never again part of a trade, and   *)
(* its quantity no longer changes.                                         *)
CancelledNeverTrades ==
  [][\A o \in cancelled : executed'[o] = executed[o] /\ quantity'[o] = quantity[o]]_vars

(* Every SubmitOrder returns, if the trades are received: the loop makes   *)
(* progress and the blocking send (matching_engine.go:66, 97) ends.        *)
SubmitReturns == pc # "idle" ~> pc = "idle"

(* The inductive invariant: the properties above that are about states,    *)
(* with what is known of orders not submitted yet and of the trade in      *)
(* progress.  Fill may pop the head of the maker's queue only because the  *)
(* head is still the maker.                                                *)
FreshOrders ==
  \A o \in Orders :
    /\ o > submitted => /\ quantity[o] = 0 /\ executed[o] = 0 /\ original[o] = 0
                        /\ o \notin cancelled
    /\ o <= submitted => price[o] \in Prices

CallInProgress ==
  /\ pc # "idle" => taker = submitted /\ taker \in Orders /\ taker \notin cancelled
  /\ pc \in {"send", "fill"} =>
       LET opp == Opposite(side[taker]) IN
         /\ maker \in Orders /\ maker < taker
         /\ side[maker] = opp
         /\ maker \notin cancelled
         /\ queue[opp][price[maker]] # <<>>
         /\ Head(queue[opp][price[maker]]) = maker
         /\ Crosses(side[taker], price[taker], price[maker])
         /\ 0 < matchQty /\ matchQty <= quantity[taker] /\ matchQty <= quantity[maker]

TradesOfKnownOrders ==
  \A i \in DOMAIN tradeChan :
    tradeChan[i].buyer <= submitted /\ tradeChan[i].seller <= submitted

IndInv ==
  /\ TypeOK
  /\ FreshOrders
  /\ CallInProgress
  /\ Conservation
  /\ BookComplete
  /\ TimePriority
  /\ BestLevelHasOrders
  /\ TradesOfKnownOrders
  /\ TradesHonourLimits

(* Every trade executes at the best price that rests on the other side:    *)
(* the price priority of "Price-time priority algorithm"                   *)
(* (docs/architecture/system_design.md:33).                                *)
PricePriority ==
  pc = "send" =>
    \A p \in Prices :
      queue[Opposite(side[taker])][p] # <<>> =>
        IF side[taker] = "buy" THEN price[maker] <= p ELSE price[maker] >= p

(* The engine implements the exchange: a trade happens when it is sent.    *)
Promise == INSTANCE Exchange WITH
  state <- [o \in Orders |-> IF o > submitted THEN "new"
                             ELSE IF o \in cancelled THEN "withdrawn" ELSE "live"],
  buys  <- [o \in Orders |-> side[o] = "buy"],
  limit <- price,
  open  <- [o \in Orders |-> original[o] - executed[o]]

(* matchOrder and CancelOrder, with all their steps, only ever do what an  *)
(* exchange promises.                                                      *)
ImplementsExchange == Promise!ExchangeSpec
=============================================================================
