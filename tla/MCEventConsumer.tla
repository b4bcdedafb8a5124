--------------------------- MODULE MCEventConsumer --------------------------
(* An instance of EventConsumer for TLC: two replicas, or one that is      *)
(* started again; two messages, each an event or malformed, which one      *)
(* batch may take; and two assignments that are taken back.                *)
EXTENDS EventConsumer
=============================================================================
