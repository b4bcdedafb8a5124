------------------------- MODULE RiskPipelineProofs -------------------------
(***************************************************************************)
(* The inductive invariant of RiskPipeline and what follows from it, for   *)
(* any events, anomalies and decisions of the agents.                      *)
(***************************************************************************)
EXTENDS RiskPipeline, TLAPS

(* What the decisions have that the pipeline makes itself, and those of    *)
(* the orchestrator.                                                       *)
LEMMA DecisionFacts ==
  /\ \A d \in Answers : d # NoDecision /\ ~d.error
  /\ \A d \in SanctionsBlocks : d # NoDecision /\ ~d.error /\ d.type = "BLOCK" /\ d.review
  /\ FailOpen # NoDecision /\ FailOpen.error
  /\ Refused # NoDecision /\ Refused.error
  /\ ~NoDecision.error
<1>1. NoDecision.type = "NONE" /\ ~NoDecision.error  BY DEF NoDecision
<1>2. ASSUME NEW d \in Answers PROVE d # NoDecision /\ ~d.error
  <2>1. d.type \in Types /\ ~d.error  BY PipelineAssumption DEF Decisions
  <2>. QED BY <1>1, <2>1 DEF Types
<1>3. ASSUME NEW d \in SanctionsBlocks
      PROVE  d # NoDecision /\ ~d.error /\ d.type = "BLOCK" /\ d.review
  <2>1. ~d.error /\ d.type = "BLOCK" /\ d.review  BY DEF SanctionsBlocks
  <2>. QED BY <1>1, <2>1
<1>4. FailOpen # NoDecision /\ FailOpen.error
  <2>1. FailOpen.type = "ALLOW" /\ FailOpen.error  BY DEF FailOpen
  <2>. QED BY <1>1, <2>1
<1>5. Refused # NoDecision /\ Refused.error
  <2>1. Refused.error  BY DEF Refused, NoDecision
  <2>. QED BY <1>1, <2>1
<1>. QED BY <1>1, <1>2, <1>3, <1>4, <1>5

LEMMA ContextFacts ==
  /\ NoContext \in Contexts /\ ~NoContext.sanctions
  /\ ~Nothing.fraud
BY DEF NoContext, Contexts, Nothing

LEMMA InitEstablishes == Init => PipelineInd
BY DecisionFacts, ContextFacts
   DEF Init, PipelineInd, PipelineTypeOK, Progress, Over

(* What the steps of one event preserve of the others. *)
Untouched(e) ==
  \A f \in Events \ {e} :
    /\ ppc'[f] = ppc[f] /\ anomaly'[f] = anomaly[f] /\ context'[f] = context[f]
    /\ decision'[f] = decision[f] /\ result'[f] = result[f] /\ response'[f] = response[f]
    /\ (f \in reported' <=> f \in reported) /\ (f \in updated' <=> f \in updated)

LEMMA OthersKeep ==
  ASSUME PipelineInd, NEW e \in Events, Untouched(e), NEW f \in Events \ {e}
  PROVE  Progress(f)'
BY DEF PipelineInd, Progress, Untouched, Over

LEMMA DetectKeeps ==
  ASSUME PipelineInd, NEW e \in Events, Detect(e)
  PROVE  PipelineInd'
<1>1. PipelineTypeOK'
  BY DEF PipelineInd, PipelineTypeOK, Detect, Goto, After, Route
<1>2. Untouched(e)
  BY DEF PipelineInd, PipelineTypeOK, Detect, Goto, Untouched
<1>3. Progress(e)'
  <2>1. PICK a \in Anomalies \cup {Nothing} :
          /\ anomaly' = [anomaly EXCEPT ![e] = a]
          /\ Goto(e, After(Route(a)))
    BY DEF Detect
  <2>2. anomaly'[e] = a /\ ppc'[e] = After(Route(a)) /\ ppc'[e] \in {"decide", "context"}
    BY <2>1 DEF PipelineInd, PipelineTypeOK, Goto, After
  <2>3. ppc'[e] = "context" => ~a.fraud
    BY <2>2, ContextFacts DEF After, Route
  <2>. QED BY <2>2, <2>3 DEF PipelineInd, PipelineTypeOK, Progress, Detect, Over
<1>. QED BY <1>1, <1>2, <1>3, OthersKeep DEF PipelineInd

LEMMA GatherContextKeeps ==
  ASSUME PipelineInd, NEW e \in Events, GatherContext(e)
  PROVE  PipelineInd'
<1>1. PICK c \in Contexts : context' = [context EXCEPT ![e] = c]
  BY DEF GatherContext
<1>2. PipelineTypeOK'
  BY <1>1 DEF PipelineInd, PipelineTypeOK, GatherContext, Goto
<1>3. Untouched(e)
  BY <1>1 DEF PipelineInd, PipelineTypeOK, GatherContext, Goto, Untouched
<1>4. Progress(e)'
  <2>1. context'[e] = c /\ ppc'[e] = "decide" /\ ppc[e] = "context"
    BY <1>1 DEF PipelineInd, PipelineTypeOK, GatherContext, Goto
  <2>. QED BY <1>1, <2>1 DEF PipelineInd, PipelineTypeOK, Progress, GatherContext, Over
<1>. QED BY <1>2, <1>3, <1>4, OthersKeep DEF PipelineInd

LEMMA DecideKeeps ==
  ASSUME PipelineInd, NEW e \in Events, Decide(e)
  PROVE  PipelineInd'
<1>1. PICK d \in Answers \cup SanctionsBlocks :
        /\ decision' = [decision EXCEPT ![e] = d]
        /\ context[e].sanctions => d \in SanctionsBlocks
  BY DEF Decide
<1>2. PipelineTypeOK'
  BY <1>1 DEF PipelineInd, PipelineTypeOK, Decide, Goto
<1>3. Untouched(e)
  BY <1>1 DEF PipelineInd, PipelineTypeOK, Decide, Goto, Untouched
<1>4. Progress(e)'
  <2>1. decision'[e] = d /\ ppc'[e] = "report" /\ ppc[e] = "decide" /\ d # NoDecision
    BY <1>1, DecisionFacts DEF PipelineInd, PipelineTypeOK, Decide, Goto
  <2>. QED BY <1>1, <2>1 DEF PipelineInd, PipelineTypeOK, Progress, Decide, Over
<1>. QED BY <1>2, <1>3, <1>4, OthersKeep DEF PipelineInd

LEMMA ReportKeeps ==
  ASSUME PipelineInd, NEW e \in Events, Report(e)
  PROVE  PipelineInd'
<1>1. PipelineTypeOK'
  BY DEF PipelineInd, PipelineTypeOK, Report, Goto
<1>2. Untouched(e)
  BY DEF PipelineInd, PipelineTypeOK, Report, Goto, Untouched
<1>3. Progress(e)'
  <2>1. /\ ppc'[e] = "breaker" /\ ppc[e] = "report"
        /\ e \in reported' <=> NeedsReport(decision[e])
    BY DEF PipelineInd, PipelineTypeOK, Progress, Report, Goto
  <2>. QED BY <2>1 DEF PipelineInd, PipelineTypeOK, Progress, Report, Over
<1>. QED BY <1>1, <1>2, <1>3, OthersKeep DEF PipelineInd

LEMMA UpdateBreakerKeeps ==
  ASSUME PipelineInd, NEW e \in Events, UpdateBreaker(e)
  PROVE  PipelineInd'
<1>1. PipelineTypeOK'
  BY DEF PipelineInd, PipelineTypeOK, UpdateBreaker, Goto
<1>2. Untouched(e)
  BY DEF PipelineInd, PipelineTypeOK, UpdateBreaker, Goto, Untouched
<1>3. Progress(e)'
  <2>1. /\ ppc'[e] = "done" /\ ppc[e] = "breaker" /\ result'[e] = decision[e]
        /\ e \in updated' <=> decision[e].breaker
    BY DEF PipelineInd, PipelineTypeOK, Progress, UpdateBreaker, Goto
  <2>. QED BY <2>1 DEF PipelineInd, PipelineTypeOK, Progress, UpdateBreaker, Over
<1>. QED BY <1>1, <1>2, <1>3, OthersKeep DEF PipelineInd

LEMMA RaiseKeeps ==
  ASSUME PipelineInd, NEW e \in Events, Raise(e)
  PROVE  PipelineInd'
<1>1. PipelineTypeOK'
  BY DEF PipelineInd, PipelineTypeOK, Raise, Goto
<1>2. Untouched(e)
  BY DEF PipelineInd, PipelineTypeOK, Raise, Goto, Untouched
<1>3. Progress(e)'
  <2>1. ppc'[e] = "failing"
    BY DEF PipelineInd, PipelineTypeOK, Raise, Goto
  <2>. QED BY <2>1 DEF PipelineInd, PipelineTypeOK, Progress, Raise, Over
<1>. QED BY <1>1, <1>2, <1>3, OthersKeep DEF PipelineInd

LEMMA FailedOpenKeeps ==
  ASSUME PipelineInd, NEW e \in Events, FailedOpen(e)
  PROVE  PipelineInd'
<1>1. PipelineTypeOK'
  BY DEF PipelineInd, PipelineTypeOK, FailedOpen, Goto
<1>2. Untouched(e)
  BY DEF PipelineInd, PipelineTypeOK, FailedOpen, Goto, Untouched
<1>3. Progress(e)'
  <2>1. \/ ppc'[e] = "done" /\ result'[e] = FailOpen
        \/ ppc'[e] = "raised" /\ result'[e] = result[e]
    BY DEF PipelineInd, PipelineTypeOK, FailedOpen, Goto
  <2>. QED BY <2>1, DecisionFacts DEF PipelineInd, PipelineTypeOK, Progress, FailedOpen, Over
<1>. QED BY <1>1, <1>2, <1>3, OthersKeep DEF PipelineInd

LEMMA DirectReturnsKeeps ==
  ASSUME PipelineInd, NEW e \in Events, DirectReturns(e)
  PROVE  PipelineInd'
<1>1. PipelineTypeOK'
  BY DEF PipelineInd, PipelineTypeOK, DirectReturns
<1>2. Untouched(e)
  BY DEF PipelineInd, PipelineTypeOK, DirectReturns, Untouched
<1>3. Progress(e)'
  <2>1. response'[e] \in {Refused, result[e]} /\ Over(e)
    BY DEF PipelineInd, PipelineTypeOK, DirectReturns
  <2>. QED BY <2>1 DEF PipelineInd, PipelineTypeOK, Progress, DirectReturns, Over
<1>. QED BY <1>1, <1>2, <1>3, OthersKeep DEF PipelineInd

LEMMA BatchReturnsKeeps ==
  ASSUME PipelineInd, BatchReturns
  PROVE  PipelineInd'
<1>1. PipelineTypeOK'
  BY DEF PipelineInd, PipelineTypeOK, BatchReturns
<1>2. ASSUME NEW e \in Events
      PROVE  Progress(e)'
  <2>1. \/ response'[e] = response[e]
        \/ response'[e] \in {FailOpen, Refused, result[e]} /\ Over(e)
    BY DEF BatchReturns
  <2>. QED BY <2>1 DEF PipelineInd, PipelineTypeOK, Progress, BatchReturns, Over
<1>. QED BY <1>1, <1>2 DEF PipelineInd

LEMMA StepKeeps == PipelineInd /\ [Next]_vars => PipelineInd'
<1>. SUFFICES ASSUME PipelineInd, [Next]_vars
              PROVE  PipelineInd'
  OBVIOUS
<1>1. ASSUME NEW e \in Events, EventStep(e)
      PROVE  PipelineInd'
  BY <1>1, DetectKeeps, GatherContextKeeps, DecideKeeps, ReportKeeps, UpdateBreakerKeeps,
     RaiseKeeps, FailedOpenKeeps, DirectReturnsKeeps DEF EventStep
<1>2. CASE BatchReturns  BY <1>2, BatchReturnsKeeps
<1>3. CASE UNCHANGED vars
  BY <1>3 DEF vars, PipelineInd, PipelineTypeOK, Progress, Over
<1>. QED BY <1>1, <1>2, <1>3 DEF Next, Stopped

(* Types and progress are invariant: what an event has caused follows from *)
(* where its coroutine is, for every answer that the constants and Contexts *)
(* allow the collaborators, whichever node raises and however the          *)
(* coroutines interleave.                                                  *)
THEOREM PipelineInvariance == Spec => []PipelineInd
<1>. QED BY InitEstablishes, StepKeeps, PTL DEF Spec

(* An answer without an error has had exactly the effects its decision     *)
(* asks for.  One with an error is an ALLOW for review or a refusal; the   *)
(* effects of the decision behind it may have taken place, some or all,    *)
(* but the circuit breaker was not updated without the report before it.   *)
THEOREM ResponsesAgreeWithEffects == Spec => []ResponsesMatchEffects
<1>1. PipelineInd => ResponsesMatchEffects
  <2>. SUFFICES ASSUME PipelineInd, NEW e \in Events, response[e] # NoDecision
                PROVE  IF response[e].error
                       THEN /\ response[e] \in {FailOpen, Refused}
                            /\ e \in updated => (NeedsReport(decision[e]) => e \in reported)
                       ELSE /\ e \in reported <=> NeedsReport(response[e])
                            /\ e \in updated <=> response[e].breaker
    BY DEF ResponsesMatchEffects
  <2>1. Progress(e) /\ result[e] \in Answers \cup SanctionsBlocks \cup {NoDecision, FailOpen}
    BY DEF PipelineInd, PipelineTypeOK
  <2>2. CASE response[e] \in {FailOpen, Refused}
    BY <2>1, <2>2, DecisionFacts DEF Progress
  <2>3. CASE response[e] = result[e] /\ response[e] # FailOpen
    <3>1. ~response[e].error /\ ppc[e] = "done"
      BY <2>1, <2>3, DecisionFacts DEF Progress
    <3>. QED BY <2>1, <2>3, <3>1 DEF Progress
  <2>. QED BY <2>1, <2>2, <2>3 DEF Progress
<1>. QED BY <1>1, PipelineInvariance, PTL

(* A match that was found leads to a BLOCK that is reported, or to an      *)
(* error; no match is found on the route for fraud.                        *)
THEOREM FoundMatchesAreBlocked == Spec => []FoundMatchBlocks
<1>1. PipelineInd => FoundMatchBlocks
  <2>. SUFFICES ASSUME PipelineInd, NEW e \in Events, response[e] # NoDecision,
                       context[e].sanctions
                PROVE  /\ ~anomaly[e].fraud
                       /\ response[e].error \/ (response[e].type = "BLOCK" /\ e \in reported)
    BY DEF FoundMatchBlocks
  <2>1. Progress(e) /\ result[e] \in Answers \cup SanctionsBlocks \cup {NoDecision, FailOpen}
    BY DEF PipelineInd, PipelineTypeOK
  <2>2. ~anomaly[e].fraud
    BY <2>1, ContextFacts DEF Progress
  <2>3. ASSUME ~response[e].error
        PROVE  response[e].type = "BLOCK" /\ e \in reported
    <3>1. response[e] = result[e] /\ ppc[e] = "done"
      BY <2>1, <2>3, DecisionFacts DEF Progress
    <3>2. decision[e] = result[e] /\ (e \in reported <=> NeedsReport(decision[e]))
      BY <2>1, <2>3, <3>1 DEF Progress
    <3>3. decision[e] \in SanctionsBlocks
      BY <2>1, <3>1, <3>2 DEF Progress
    <3>. QED BY <3>1, <3>2, <3>3, DecisionFacts DEF NeedsReport
  <2>. QED BY <2>2, <2>3
<1>. QED BY <1>1, PipelineInvariance, PTL

(* The answers of the router contradict each other in no other case than a *)
(* flag of high risk with a confidence below 0.3, at any confidence and    *)
(* with any flags.                                                         *)
THEOREM RoutersAreConsistent == Spec => []RoutersAgree
<1>1. PipelineInd => RoutersAgree
  <2>. SUFFICES ASSUME PipelineInd, NEW e \in Events,
                       NEW a, a = anomaly[e], NEW c, c = context[e]
                PROVE  /\ DeterminePath(a, c) = "auto_block" => PriorityLevel(a, c) <= 2
                       /\ DeterminePath(a, c) = "auto_allow" => PriorityLevel(a, c) >= 4
                       /\ RouterRoute(a) = "high_risk" => ~ShouldEnrichContext(a)
                       /\ RouterRoute(a) = "suspicious" => ShouldEnrichContext(a)
                       /\ RouterRoute(a) = "high_risk" /\ DeterminePath(a, c) = "auto_allow" =>
                             a.conf < 30 /\ a.flags \cap HighRiskFlags # {}
    BY DEF RoutersAgree
  <2>1. a = Nothing \/ (a \in [conf : 0 .. 100, flags : SUBSET STRING, fraud : BOOLEAN])
    BY PipelineAssumption DEF PipelineInd, PipelineTypeOK
  <2>2. a.conf \in Int /\ (a = Nothing => a.conf = -1 /\ a.flags = {})
    BY <2>1 DEF Nothing
  <2>3. DeterminePath(a, c) = "auto_block" => PriorityLevel(a, c) <= 2
    BY <2>2 DEF DeterminePath, AutoBlocks, PriorityLevel
  <2>4. DeterminePath(a, c) = "auto_allow" => a.conf < 30 /\ PriorityLevel(a, c) >= 4
    BY <2>2 DEF DeterminePath, AutoBlocks, PriorityLevel
  <2>5. RouterRoute(a) = "high_risk" => ~ShouldEnrichContext(a)
    BY <2>2 DEF RouterRoute, ShouldEnrichContext
  <2>6. RouterRoute(a) = "suspicious" => ShouldEnrichContext(a)
    BY <2>2 DEF RouterRoute, ShouldEnrichContext, IsSuspicious
  <2>7. RouterRoute(a) = "high_risk" /\ DeterminePath(a, c) = "auto_allow" =>
          a.flags \cap HighRiskFlags # {}
    BY <2>2, <2>4 DEF RouterRoute, IsHighConfidenceFraud
  <2>. QED BY <2>3, <2>4, <2>5, <2>6, <2>7
<1>. QED BY <1>1, PipelineInvariance, PTL
=============================================================================
