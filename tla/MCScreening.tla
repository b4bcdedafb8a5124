----------------------------- MODULE MCScreening ----------------------------
(* Instances of Screening for TLC: ann is screened twice at a time, and    *)
(* checked by the agent; of bob no identifier is known.                    *)
EXTENDS Screening

MCUsers  == {"ann", "bob"}
MCIdsOf  == [u \in MCUsers |-> IF u = "ann" THEN <<"name", "mail">> ELSE <<>>]
MCUserOf == [b1 |-> "ann", b2 |-> "bob", s1 |-> "ann", a1 |-> "ann"]
=============================================================================
