----------------------------- MODULE MCDisruptor ----------------------------
(* Instances of Disruptor for TLC. *)
EXTENDS Disruptor

CONSTANTS p1, p2

TwoProducers == {p1, p2}
=============================================================================
