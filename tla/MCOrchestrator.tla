--------------------------- MODULE MCOrchestrator ---------------------------
(* An instance of Orchestrator for TLC: one symbol, a batch of two events  *)
(* that share one permit and a batch of one in another process, so that    *)
(* callers meet in Redis, and enough triggers to open the circuit, close   *)
(* it and trigger it again.                                                *)
EXTENDS Orchestrator, TLC

MCCallers  == {"e1", "e2", "e3"}
MCSymbolOf == [e \in MCCallers |-> "AAPL"]
MCBatchOf  == ("e1" :> "b1") @@ ("e2" :> "b1") @@ ("e3" :> "b2")

Trader(tier, maxOrders, orderLimit) ==
  [tier |-> tier, maxOrders |-> maxOrders, orderLimit |-> orderLimit]

(* The highest score there is without a sanctions match. *)
Worst == [sanctions |-> FALSE, value |-> 5000, profile |-> Trader("high", 5, 1000),
          flags |-> ("wash_trade" :> 100) @@ ("spoofing" :> 100)]
Plain      == [sanctions |-> FALSE, value |-> 5000, profile |-> NoProfile, flags |-> <<>>]
Sanctioned == [Plain EXCEPT !.sanctions = TRUE]

MCRequests == ("e1" :> {Worst, Sanctioned}) @@ ("e2" :> {Plain}) @@ ("e3" :> {Worst})
=============================================================================
