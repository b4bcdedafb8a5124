--------------------------- MODULE MCRiskPipeline ---------------------------
(* An instance of RiskPipeline for TLC: an event in a batch and one posted *)
(* directly, confidences below, between and above the thresholds, flags of *)
(* both kinds, either answer of the test for fraud whatever the confidence, *)
(* and decisions with different effects.                                   *)
EXTENDS RiskPipeline

MCAnomalies ==
  [conf : {10, 60, 96}, flags : {{}, {"spoofing_detected"}}, fraud : BOOLEAN]
    \cup [conf : {10}, flags : {{"vwap_deviation"}}, fraud : {FALSE}]

Answer(t, r, b) == [type |-> t, review |-> r, breaker |-> b, error |-> FALSE]
MCAnswers == {Answer("ALLOW", FALSE, FALSE), Answer("ALLOW", TRUE, FALSE),
              Answer("FLAG", FALSE, TRUE), Answer("BLOCK", FALSE, TRUE)}
=============================================================================
