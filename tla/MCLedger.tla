------------------------------ MODULE MCLedger ------------------------------
(* Instances of Ledger for TLC: a quantity of four bits, amounts that wrap *)
(* after two or three deposits, and for MCAnyAmounts the smallest quantity, *)
(* which is its own negation.                                              *)
EXTENDS Ledger

MCAccounts   == {"alice", "bob"}
MCAnyAmounts == {-8, -3, 2, 5}
=============================================================================
