------------------------------ MODULE Exchange ------------------------------
(***************************************************************************)
(* What an exchange promises about its orders, with no book, no price      *)
(* levels and no channel: an order enters once with a quantity; two live   *)
(* orders of opposite sides whose limits are compatible may execute, never *)
(* for more than either has open; a withdrawn order never executes again.  *)
(* MatchingEngine is shown to implement it.                                *)
(***************************************************************************)
EXTENDS Integers

CONSTANTS Orders, Prices, Quantities

VARIABLES
  state,     \* "new", "live" or "withdrawn"
  buys,      \* TRUE for an order that buys
  limit,     \* the limit price
  open       \* the quantity not executed yet

exchangeVars == <<state, buys, limit, open>>

ExchangeInit ==
  /\ state = [o \in Orders |-> "new"]
  /\ buys \in [Orders -> BOOLEAN]
  /\ limit \in [Orders -> Int]
  /\ open = [o \in Orders |-> 0]

Enter(o, b, p, q) ==
  /\ state[o] = "new"
  /\ state' = [state EXCEPT ![o] = "live"]
  /\ buys'  = [buys EXCEPT ![o] = b]
  /\ limit' = [limit EXCEPT ![o] = p]
  /\ open'  = [open EXCEPT ![o] = q]

Execute(b, s, q) ==
  /\ state[b] = "live" /\ state[s] = "live"
  /\ buys[b] /\ ~buys[s]
  /\ limit[s] <= limit[b]
  /\ q <= open[b] /\ q <= open[s]
  /\ open' = [o \in Orders |-> IF o \in {b, s} THEN open[o] - q ELSE open[o]]
  /\ UNCHANGED <<state, buys, limit>>

Withdraw(o) ==
  /\ state[o] = "live"
  /\ state' = [state EXCEPT ![o] = "withdrawn"]
  /\ UNCHANGED <<buys, limit, open>>

ExchangeNext ==
  \/ \E o \in Orders, b \in BOOLEAN, p \in Prices, q \in Quantities : Enter(o, b, p, q)
  \/ \E b, s \in Orders : \E q \in 1 .. open[b] : Execute(b, s, q)
  \/ \E o \in Orders : Withdraw(o)

ExchangeSpec == ExchangeInit /\ [][ExchangeNext]_exchangeVars
=============================================================================
