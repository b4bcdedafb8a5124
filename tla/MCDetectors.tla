---------------------------- MODULE MCDetectors -----------------------------
(* An instance of Detectors for TLC: an account that buys and sells near   *)
(* one price and far from it, a second account, and steps of the clock     *)
(* that leave and do not leave the windows.  An order submitted at 1 is    *)
(* cancelled with a stamp before that time and with one a second later,    *)
(* and is filled, once with a quantity of nothing.                         *)
EXTENDS Detectors

Event(a, o, act, side, price, stamp) ==
  [account |-> a, symbol |-> "AAPL", order |-> o, action |-> act,
   side |-> side, price |-> price, qty |-> 2, stamp |-> stamp]

EmptyFill == [Event("alice", "o1", "FILL", "BUY", 200, 1) EXCEPT !.qty = 0]

MCEvents == {
  Event("alice", "o1", "SUBMIT", "BUY", 200, 1), Event("alice", "o1", "CANCEL", "BUY", 200, 0),
  Event("alice", "o1", "CANCEL", "BUY", 200, 2), Event("alice", "o1", "FILL", "BUY", 230, 1),
  Event("alice", "o2", "SUBMIT", "SELL", 201, 1), Event("bob", "o3", "SUBMIT", "BUY", 200, 1),
  EmptyFill}
=============================================================================
