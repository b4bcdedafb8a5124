---------------------------- MODULE RiskPipeline ----------------------------
(***************************************************************************)
(* RiskPipeline (graph/pipeline.py) and PipelineRouter (graph/router.py):  *)
(* an event passes through anomaly detection, context, decision and        *)
(* post-processing; the coroutine of every event suspends in each of them, *)
(* and each may raise.  Whatever raises, process_event answers with an     *)
(* ALLOW.  The agents are external here and return anything: a context may *)
(* miss the match of an account on a sanctions list, as module Screening   *)
(* shows of the agent, or report one of an account that is on none.  Two   *)
(* methods that the pipeline calls are not in the repository's models,     *)
(* is_high_confidence_fraud and should_update_circuit_breaker; they answer *)
(* anything as well.  Confidences are percentages.                         *)
(***************************************************************************)
EXTENDS Integers, FiniteSets

CONSTANTS
  Batch,       \* the events handed to process_batch
  Direct,      \* the events posted to /process-event
  Anomalies,   \* what the anomaly agent may return besides nothing
  Answers      \* the decisions the orchestrator may make

VARIABLES
  ppc,         \* where the coroutine of each event is
  anomaly,     \* anomaly_result
  context,     \* context_bundle
  decision,    \* risk_decision, as the decision engine left it
  reported,    \* the events an incident report was generated for
  updated,     \* the events the circuit breaker was updated for
  result,      \* the decision in the state that process_event returned
  response     \* what the callers were given

vars == <<ppc, anomaly, context, decision, reported, updated, result, response>>

-----------------------------------------------------------------------------
Events == Batch \cup Direct

Nothing    == [conf |-> -1, flags |-> {}, fraud |-> FALSE]   \* no anomaly_result
NoContext  == [sanctions |-> FALSE, vip |-> FALSE]
Contexts   == [sanctions : BOOLEAN, vip : BOOLEAN]
NoDecision == [type |-> "NONE", review |-> FALSE, breaker |-> FALSE, error |-> FALSE]

Types     == {"ALLOW", "FLAG", "BLOCK", "ADJUST_LIMIT"}
Decisions == [type : Types, review : BOOLEAN, breaker : BOOLEAN, error : BOOLEAN]

ASSUME PipelineAssumption ==
  /\ Anomalies \subseteq [conf : 0 .. 100, flags : SUBSET STRING, fraud : BOOLEAN]
  /\ \A d \in Answers : d \in Decisions /\ ~d.error
  /\ Batch \cap Direct = {}

(* The router. *)
HighRiskFlags   == {"sanctions_match", "confirmed_wash_trade", "spoofing_detected",
                    "velocity_breach_critical"}
MediumRiskFlags == {"velocity_warning", "vwap_deviation", "unusual_pattern",
                    "new_counterparty"}

IsHighConfidenceFraud(a) == a.conf >= 85 \/ a.flags \cap HighRiskFlags # {}
IsSuspicious(a)          == a.conf >= 50 \/ a.flags \cap MediumRiskFlags # {}

(* PipelineRouter.route_after_anomaly *)
RouterRoute(a) ==
  IF a = Nothing THEN "normal"
  ELSE IF IsHighConfidenceFraud(a) THEN "high_risk"
  ELSE IF IsSuspicious(a) THEN "suspicious" ELSE "normal"

ShouldEnrichContext(a) ==
  \/ a = Nothing
  \/ ~IsHighConfidenceFraud(a) /\ ~(a.conf < 20 /\ a.flags = {})

AutoBlocks(a, c) ==
  \/ c.sanctions
  \/ a.conf >= 95 /\ a.flags \cap {"confirmed_wash_trade", "spoofing_detected",
                                   "sanctions_match"} # {}

DeterminePath(a, c) ==
  IF AutoBlocks(a, c) THEN "auto_block"
  ELSE IF a.conf < 30 THEN "auto_allow"        \* without a result as well
  ELSE IF c.vip THEN "human_review" ELSE "llm_review"

(* Mutant: the sanctions match is looked at last. *)
PriorityByConfidence(a, c) ==
  IF a.conf >= 90 THEN 2 ELSE IF a.conf >= 50 THEN 3
  ELSE IF a.flags # {} THEN 4 ELSE IF c.sanctions THEN 1 ELSE 5

PriorityLevel(a, c) ==
  IF c.sanctions THEN 1 ELSE IF a.conf >= 90 THEN 2 ELSE IF a.conf >= 50 THEN 3
  ELSE IF a.flags # {} THEN 4 ELSE 5

-----------------------------------------------------------------------------
(* RiskPipeline._route_after_anomaly, with the anomaly's own test for      *)
(* fraud, which need not be the router's.                                  *)
Route(a) ==
  IF a = Nothing THEN "normal"
  ELSE IF a.fraud THEN "high_risk" ELSE "suspicious"

(* The edges of the graph. *)
After(route) == IF route = "high_risk" THEN "decide" ELSE "context"

SanctionsBlocks == [type : {"BLOCK"}, review : {TRUE}, breaker : BOOLEAN, error : {FALSE}]
FailOpen == [type |-> "ALLOW", review |-> TRUE, breaker |-> FALSE, error |-> TRUE]

NeedsReport(d) == d.review \/ d.type \in {"BLOCK", "FLAG"}
Over(e)        == ppc[e] \in {"done", "raised"}

Init ==
  /\ ppc = [e \in Events |-> "detect"]
  /\ anomaly = [e \in Events |-> Nothing]
  /\ context = [e \in Events |-> NoContext]
  /\ decision = [e \in Events |-> NoDecision]
  /\ reported = {} /\ updated = {}
  /\ result = [e \in Events |-> NoDecision]
  /\ response = [e \in Events |-> NoDecision]

Goto(e, where) == ppc' = [ppc EXCEPT ![e] = where]

(* _run_anomaly_detection *)
Detect(e) ==
  /\ ppc[e] = "detect"
  /\ \E a \in Anomalies \cup {Nothing} :
       /\ anomaly' = [anomaly EXCEPT ![e] = a]
       /\ Goto(e, After(Route(a)))
  /\ UNCHANGED <<context, decision, reported, updated, result, response>>

(* _run_rag_context; the agent may give no context. *)
GatherContext(e) ==
  /\ ppc[e] = "context"
  /\ \E c \in Contexts : context' = [context EXCEPT ![e] = c]
  /\ Goto(e, "decide")
  /\ UNCHANGED <<anomaly, decision, reported, updated, result, response>>

(* Mutant: without a result of the detectors there is nothing to block. *)
DecideOnAnomaly(e) ==
  /\ ppc[e] = "decide"
  /\ IF context[e].sanctions /\ anomaly[e] # Nothing
     THEN \E d \in SanctionsBlocks : decision' = [decision EXCEPT ![e] = d]
     ELSE \E d \in Answers : decision' = [decision EXCEPT ![e] = d]
  /\ Goto(e, "report")
  /\ UNCHANGED <<anomaly, context, reported, updated, result, response>>

(* _run_decision_engine: the hard rule, or else the orchestrator. *)
Decide(e) ==
  /\ ppc[e] = "decide"
  /\ IF context[e].sanctions
     THEN \E d \in SanctionsBlocks : decision' = [decision EXCEPT ![e] = d]
     ELSE \E d \in Answers : decision' = [decision EXCEPT ![e] = d]
  /\ Goto(e, "report")
  /\ UNCHANGED <<anomaly, context, reported, updated, result, response>>

(* Mutant: the circuit breaker comes before the report. *)
ReportAfterBreaker(e) ==
  /\ ppc[e] = "report"
  /\ updated' = IF decision[e].breaker THEN updated \cup {e} ELSE updated
  /\ Goto(e, "breaker")
  /\ UNCHANGED <<anomaly, context, decision, reported, result, response>>

(* _run_post_processing generates the report ... *)
Report(e) ==
  /\ ppc[e] = "report"
  /\ reported' = IF NeedsReport(decision[e]) THEN reported \cup {e} ELSE reported
  /\ Goto(e, "breaker")
  /\ UNCHANGED <<anomaly, context, decision, updated, result, response>>

(* ... and then updates the circuit breaker; the graph ends. *)
UpdateBreaker(e) ==
  /\ ppc[e] = "breaker"
  /\ updated' = IF decision[e].breaker THEN updated \cup {e} ELSE updated
  /\ result' = [result EXCEPT ![e] = decision[e]]
  /\ Goto(e, "done")
  /\ UNCHANGED <<anomaly, context, decision, reported, response>>

(* A node raises, before or after its call took effect; so may the hard    *)
(* rule, where it builds its decision.                                     *)
Raise(e) ==
  /\ ppc[e] \in {"detect", "context", "decide", "report", "breaker"}
  /\ \/ reported' = reported
     \/ ppc[e] = "report" /\ NeedsReport(decision[e]) /\ reported' = reported \cup {e}
  /\ \/ updated' = updated
     \/ ppc[e] = "breaker" /\ decision[e].breaker /\ updated' = updated \cup {e}
  /\ Goto(e, "failing")
  /\ UNCHANGED <<anomaly, context, decision, result, response>>

(* process_event answers with the state it began with and a new decision.  *)
(* Its import may raise in turn, and process_event with it.                *)
FailedOpen(e) ==
  /\ ppc[e] = "failing"
  /\ \/ result' = [result EXCEPT ![e] = FailOpen] /\ Goto(e, "done")
     \/ result' = result /\ Goto(e, "raised")
  /\ UNCHANGED <<anomaly, context, decision, reported, updated, response>>

(* What a caller gets who gets no decision. *)
Refused == [NoDecision EXCEPT !.error = TRUE]

(* process_batch gathers; what raised is given an error state of its own,  *)
(* and when that cannot be built process_batch raises.                     *)
BatchReturns ==
  /\ Batch # {} /\ \A e \in Batch : Over(e) /\ response[e] = NoDecision
  /\ \/ response' = [e \in Events |->
            IF e \notin Batch THEN response[e]
            ELSE IF ppc[e] = "raised" THEN FailOpen ELSE result[e]]
     \/ /\ \E e \in Batch : ppc[e] = "raised"
        /\ response' = [e \in Events |-> IF e \in Batch THEN Refused ELSE response[e]]
  /\ UNCHANGED <<ppc, anomaly, context, decision, reported, updated, result>>

(* process_event_direct answers with the decision, or with an error when   *)
(* process_event or its own bookkeeping raised.                            *)
DirectReturns(e) ==
  /\ e \in Direct /\ Over(e) /\ response[e] = NoDecision
  /\ \/ ppc[e] = "done" /\ response' = [response EXCEPT ![e] = result[e]]
     \/ response' = [response EXCEPT ![e] = Refused]
  /\ UNCHANGED <<ppc, anomaly, context, decision, reported, updated, result>>

Stopped ==
  /\ \A e \in Events : response[e] # NoDecision
  /\ UNCHANGED vars

EventStep(e) == Detect(e) \/ GatherContext(e) \/ Decide(e) \/ Report(e)
                \/ UpdateBreaker(e) \/ Raise(e) \/ FailedOpen(e) \/ DirectReturns(e)

Next == (\E e \in Events : EventStep(e)) \/ BatchReturns \/ Stopped

Spec == Init /\ [][Next]_vars

-----------------------------------------------------------------------------
PipelineTypeOK ==
  /\ ppc \in [Events -> {"detect", "context", "decide", "report", "breaker",
                         "failing", "done", "raised"}]
  /\ anomaly \in [Events -> Anomalies \cup {Nothing}]
  /\ context \in [Events -> Contexts]
  /\ decision \in [Events -> Answers \cup SanctionsBlocks \cup {NoDecision}]
  /\ result \in [Events -> Answers \cup SanctionsBlocks \cup {NoDecision, FailOpen}]
  /\ response \in [Events -> Answers \cup SanctionsBlocks \cup {NoDecision, FailOpen, Refused}]
  /\ reported \subseteq Events /\ updated \subseteq Events

(* What an event went through so far, from where its coroutine is. *)
Progress(e) ==
  /\ ppc[e] \in {"detect", "context", "decide"} =>
        decision[e] = NoDecision /\ e \notin reported
  /\ ppc[e] \in {"report", "breaker"} => decision[e] # NoDecision
  /\ ppc[e] = "report" => e \notin reported
  /\ ppc[e] = "breaker" => (e \in reported <=> NeedsReport(decision[e]))
  /\ ppc[e] \in {"detect", "context", "decide", "report", "breaker"} => e \notin updated
  /\ e \in reported => NeedsReport(decision[e])
  /\ e \in updated => decision[e].breaker /\ (NeedsReport(decision[e]) => e \in reported)
  /\ decision[e] # NoDecision /\ context[e].sanctions => decision[e] \in SanctionsBlocks
  /\ ppc[e] = "done" => result[e] # NoDecision
  /\ ppc[e] # "done" => result[e] = NoDecision
  /\ ppc[e] = "done" /\ ~result[e].error =>
        /\ result[e] = decision[e]
        /\ e \in reported <=> NeedsReport(decision[e])
        /\ e \in updated <=> decision[e].breaker
  /\ ppc[e] \in {"detect", "context"} => context[e] = NoContext
  /\ ppc[e] = "context" => ~anomaly[e].fraud
  /\ anomaly[e].fraud => context[e] = NoContext
  /\ response[e] # NoDecision =>
        Over(e) /\ response[e] \in {FailOpen, Refused, result[e]}

(* Types and progress: the inductive invariant. *)
PipelineInd == PipelineTypeOK /\ \A e \in Events : Progress(e)

(* A decision handed to a caller without an error has had all of its       *)
(* effects; one with an error is an ALLOW for review or a refusal, and     *)
(* then no circuit breaker was updated for an event whose report is        *)
(* missing.                                                                *)
ResponsesMatchEffects ==
  \A e \in Events : response[e] # NoDecision =>
    IF response[e].error
    THEN /\ response[e] \in {FailOpen, Refused}
         /\ e \in updated => (NeedsReport(decision[e]) => e \in reported)
    ELSE /\ e \in reported <=> NeedsReport(response[e])
         /\ e \in updated <=> response[e].breaker

(* A match that the context agent found is answered with a BLOCK that was  *)
(* reported, unless the answer is an error: whatever the detectors said,   *)
(* whatever else the context holds and whichever node raised               *)
(* (pipeline.py:117-131, 152-157).  The route for obvious fraud never has  *)
(* a match looked for (pipeline.py:57), so that the hard rule cannot hold  *)
(* there.                                                                  *)
FoundMatchBlocks ==
  \A e \in Events : response[e] # NoDecision /\ context[e].sanctions =>
    /\ ~anomaly[e].fraud
    /\ response[e].error \/ (response[e].type = "BLOCK" /\ e \in reported)

(* PipelineRouter's answers about an event: what is blocked without review *)
(* has priority, what is let through without one has none, and context is  *)
(* left out for fraud and gathered for what is suspicious.  They disagree  *)
(* in one case only: with a confidence below 0.3 a flag of high risk makes *)
(* an event fraud (router.py:62-70) that is let through without context or *)
(* review (router.py:139-141).                                             *)
RoutersAgree ==
  \A e \in Events :
    LET a == anomaly[e]
        c == context[e] IN
    /\ DeterminePath(a, c) = "auto_block" => PriorityLevel(a, c) <= 2
    /\ DeterminePath(a, c) = "auto_allow" => PriorityLevel(a, c) >= 4
    /\ RouterRoute(a) = "high_risk" => ~ShouldEnrichContext(a)
    /\ RouterRoute(a) = "suspicious" => ShouldEnrichContext(a)
    /\ RouterRoute(a) = "high_risk" /\ DeterminePath(a, c) = "auto_allow" =>
          a.conf < 30 /\ a.flags \cap HighRiskFlags # {}

(* The claim of _run_decision_engine, "sanctions match always blocks":     *)
(* an event whose match was found is answered with a BLOCK.                *)
SanctionsAlwaysBlock ==
  \A e \in Events : context[e].sanctions /\ response[e] # NoDecision =>
    response[e].type = "BLOCK"

=============================================================================
