-------------------------- MODULE MCMatchingEngine --------------------------
(* Instances of MatchingEngine for TLC. *)
EXTENDS MatchingEngine

MCPrices     == {1, 2}
MCQuantities == {1, 2}
=============================================================================
