---------------------------- MODULE Orchestrator ----------------------------
(***************************************************************************)
(* DecisionOrchestrator (agent3_orchestrator/agent.py) with its scorer,    *)
(* its LLM client and the circuit breaker it writes.  An evaluation is a   *)
(* coroutine that suspends at every call of the LLM, the report store and  *)
(* Redis; batch_evaluate runs those of one batch under a semaphore and     *)
(* gathers them.  A process runs one batch and may stop at any moment.     *)
(*                                                                         *)
(* Scores are percentages of a percentage: 10000 is the score 1.0.         *)
(***************************************************************************)
EXTENDS CircuitBreaker, FiniteSets, Functions

CONSTANTS
  Batches,
  BatchOf,      \* the batch of each evaluation; the evaluations are the Callers
  Permits,      \* the semaphore of batch_evaluate
  Requests,     \* what each evaluation may be called with, see ScoreOf
  Answers       \* what the LLM may answer, see Decide

ASSUME OrchestratorAssumption ==
  /\ BatchOf \in [Callers -> Batches]
  /\ Permits \in Nat \ {0}
  /\ Answers \subseteq {"ALLOW", "FLAG", "BLOCK", "ADJUST_LIMIT", "missing", "unusable"}

(* There are finitely many flags, and a confidence is between 0 and 1, as  *)
(* AnomalyResult demands.                                                  *)
ASSUME RequestsAssumption ==
  \A e \in Callers : \A r \in Requests[e] :
    /\ r.sanctions \in BOOLEAN /\ r.value \in Int
    /\ IsFiniteSet(DOMAIN r.flags)
    /\ \A type \in DOMAIN r.flags : r.flags[type] \in 0 .. 100

VARIABLES
  epc,          \* where each evaluation is
  score,        \* base_score
  decision,     \* the decision evaluate has come to
  stored,       \* the evaluations whose report is in the store
  triggered,    \* the evaluations that called increment_trigger_count
  results       \* what batch_evaluate returned, NoResult before

evalVars == <<epc, score, decision, stored, triggered, results>>
vars == <<epc, score, decision, stored, triggered, results, breakerVars>>

-----------------------------------------------------------------------------
(* The scorer. *)
Unset     == -1                \* a limit the profile does not have
NoProfile == [tier |-> "none", maxOrders |-> Unset, orderLimit |-> Unset]

SeverityWeight(type) ==
  CASE type = "velocity_check" -> 3
    [] type = "vwap_deviation" -> 2
    [] type = "wash_trade" -> 8
    [] type = "spoofing" -> 7
    [] type = "embedding_similarity" -> 4
    [] OTHER -> 5

(* The confidences of the flags, weighted by what they flag; in percent. *)
AnomalyScore(flags) ==
  LET types    == DOMAIN flags
      weight   == [t \in types |-> SeverityWeight(t)]
      weighted == [t \in types |-> SeverityWeight(t) * flags[t]] IN
  IF types = {} THEN 0
  ELSE SumFunctionOnSet(weighted, types) \div SumFunctionOnSet(weight, types)

TierScore(profile) ==
  IF profile = NoProfile THEN 30
  ELSE CASE profile.tier = "low" -> 10
         [] profile.tier = "elevated" -> 60
         [] profile.tier = "high" -> 90
         [] OTHER -> 30

(* The velocity is a placeholder of the code, 10 orders a minute. *)
VelocityFactor(profile) ==
  IF profile = NoProfile THEN 30
  ELSE LET max == IF profile.maxOrders = Unset THEN 60 ELSE profile.maxOrders IN
       IF 10 > max THEN 90 ELSE IF 100 > 8 * max THEN 70
       ELSE IF 20 > max THEN 40 ELSE 20

SizeFactor(value, profile) ==
  IF profile = NoProfile THEN 30
  ELSE LET max == IF profile.orderLimit = Unset THEN 100000 ELSE profile.orderLimit IN
       IF value > max THEN 80 ELSE IF 10 * value > 8 * max THEN 60
       ELSE IF 2 * value > max THEN 40 ELSE 20

SanctionsFactor(match) == IF match THEN 100 ELSE 0

Total(anomaly, tier, velocity, size, sanctions) ==
  30 * anomaly + 20 * tier + 15 * velocity + 15 * size + 20 * sanctions

(* calculate_score; the sum stays between 0 and 1. *)
ScoreOf(r) == Total(AnomalyScore(r.flags), TierScore(r.profile), VelocityFactor(r.profile),
                    SizeFactor(r.value, r.profile), SanctionsFactor(r.sanctions))

-----------------------------------------------------------------------------
Actions    == {"ALLOW", "FLAG", "BLOCK", "ADJUST_LIMIT"}
Pending    == [action |-> "NONE", by |-> "nobody"]
NoResult   == <<>>
Reportable == {"BLOCK", "FLAG"}

FallbackAction(s) ==
  IF s >= 8000 THEN "BLOCK" ELSE IF s >= 5000 THEN "FLAG" ELSE "ALLOW"

(* _fallback_decision *)
Fallback(s, who) == [action |-> FallbackAction(s), by |-> who]

(* generate_decision fills in an action that is missing.  evaluate falls   *)
(* back when there is no usable decision: no answer in time, no JSON, an   *)
(* action or a level that does not exist.                                  *)
Decide(answer, s) ==
  CASE answer = "missing"  -> [action |-> "FLAG", by |-> "llm"]
    [] answer = "unusable" -> Fallback(s, "fallback")
    [] OTHER               -> [action |-> answer, by |-> "llm"]

Members(b)  == {e \in Callers : BatchOf[e] = b}
Running(e)  == epc[e] \in {"ask", "store", "trigger"}
Finished(e) == epc[e] \in {"done", "raised"}
Returned(b) == results[b] # NoResult

DecisionType == [action : Actions \cup {"NONE"},
                 by : {"nobody", "sanctions", "llm", "fallback"}]

Init ==
  /\ BreakerInit
  /\ epc = [e \in Callers |-> "waiting"]
  /\ score = [e \in Callers |-> 0]
  /\ decision = [e \in Callers |-> Pending]
  /\ stored = {} /\ triggered = {}
  /\ results = [b \in Batches |-> NoResult]

-----------------------------------------------------------------------------
(* Mutant: an evaluation that raised keeps its permit. *)
HasPermitLeaky(e) ==
  Cardinality({d \in Members(BatchOf[e]) : Running(d) \/ epc[d] = "raised"}) < Permits

(* The semaphore of the batch is free. *)
HasPermit(e) == Cardinality({d \in Members(BatchOf[e]) : Running(d)}) < Permits

(* evaluate returns early on a sanctions match. *)
BlockSanctioned(e) ==
  /\ epc[e] = "waiting" /\ HasPermit(e)
  /\ \E r \in Requests[e] : r.sanctions
  /\ decision' = [decision EXCEPT ![e] = [action |-> "BLOCK", by |-> "sanctions"]]
  /\ epc' = [epc EXCEPT ![e] = "done"]
  /\ UNCHANGED <<score, stored, triggered, results, breakerVars>>

(* Otherwise it computes the score and builds the prompt. *)
Score(e) ==
  /\ epc[e] = "waiting" /\ HasPermit(e)
  /\ \E r \in Requests[e] : ~r.sanctions /\ score' = [score EXCEPT ![e] = ScoreOf(r)]
  /\ epc' = [epc EXCEPT ![e] = "ask"]
  /\ UNCHANGED <<decision, stored, triggered, results, breakerVars>>

(* Scoring or building the prompt raises, outside of any try: a limit of   *)
(* zero, a value that JSON cannot express.                                 *)
PromptFails(e) ==
  /\ epc[e] = "waiting" /\ HasPermit(e)
  /\ epc' = [epc EXCEPT ![e] = "raised"]
  /\ UNCHANGED <<score, decision, stored, triggered, results, breakerVars>>

AskLLM(e) ==
  /\ epc[e] = "ask"
  /\ \E answer \in Answers : decision' = [decision EXCEPT ![e] = Decide(answer, score[e])]
  /\ epc' = [epc EXCEPT ![e] = IF decision'[e].action \in Reportable THEN "store" ELSE "done"]
  /\ UNCHANGED <<score, stored, triggered, results, breakerVars>>

(* Mutant: the circuit breaker is triggered before the report is stored. *)
StoreReportLast(e) ==
  /\ epc[e] = "store"
  /\ IF decision[e].action = "BLOCK"
     THEN triggered' = triggered \cup {e} /\ BeginTrigger(e)
     ELSE UNCHANGED <<triggered, breakerVars>>
  /\ \/ stored' = stored \cup {e} /\ epc' = [epc EXCEPT ![e] = "trigger"]
     \/ stored' = stored /\ epc' = [epc EXCEPT ![e] = "raised"]
  /\ UNCHANGED <<score, decision, results>>

(* insert_incident_report; when it raises the report may be stored or not. *)
StoreReport(e) ==
  /\ epc[e] = "store"
  /\ \/ /\ stored' = stored \cup {e}
        /\ IF decision[e].action = "BLOCK"
           THEN /\ epc' = [epc EXCEPT ![e] = "trigger"]
                /\ triggered' = triggered \cup {e}
                /\ BeginTrigger(e)
           ELSE /\ epc' = [epc EXCEPT ![e] = "done"]
                /\ UNCHANGED <<triggered, breakerVars>>
     \/ /\ stored' \in {stored, stored \cup {e}}
        /\ epc' = [epc EXCEPT ![e] = "raised"]
        /\ UNCHANGED <<triggered, breakerVars>>
  /\ UNCHANGED <<score, decision, results>>

(* increment_trigger_count goes on; it comes back and never raises. *)
Trigger(e) ==
  /\ epc[e] = "trigger"
  /\ WriterStep(e)
  /\ epc' = [epc EXCEPT ![e] = IF wpc'[e] = "out" THEN "done" ELSE "trigger"]
  /\ UNCHANGED <<score, decision, stored, triggered, results>>

(* batch_evaluate returns; an evaluation that raised counts as one of      *)
(* score 0.5 without flags.                                                *)
BatchReturn(b) ==
  /\ \A e \in Members(b) : Finished(e)
  /\ ~Returned(b)
  /\ results' = [results EXCEPT ![b] =
       [e \in Members(b) |-> IF epc[e] = "raised" THEN Fallback(5000, "batch") ELSE decision[e]]]
  /\ UNCHANGED <<epc, score, decision, stored, triggered, breakerVars>>

(* The process that runs b stops. *)
Crash(b) ==
  LET lost == {e \in Members(b) : ~Finished(e)} IN
  /\ lost # {}
  /\ epc' = [e \in Callers |-> IF e \in lost THEN "dead" ELSE epc[e]]
  /\ Abandon(lost)
  /\ UNCHANGED <<score, decision, stored, triggered, results>>

Operate    == (ManualClose \/ ResetAll \/ OperatorStep) /\ UNCHANGED evalVars
TimePasses == Tick /\ UNCHANGED evalVars

(* Nothing is left to do but to wait for the keys to expire. *)
Over ==
  /\ \A b \in Batches : Returned(b) \/ \E e \in Members(b) : epc[e] = "dead"
  /\ closing = {}
  /\ UNCHANGED vars

EvalStep(e) == BlockSanctioned(e) \/ Score(e) \/ PromptFails(e) \/ AskLLM(e)
               \/ StoreReport(e) \/ Trigger(e)

Next ==
  \/ \E e \in Callers : EvalStep(e)
  \/ \E b \in Batches : BatchReturn(b) \/ Crash(b)
  \/ Operate \/ TimePasses \/ Over

(* The event loop resumes a coroutine whose call came back, and every call *)
(* comes back: the LLM client has a timeout, the other clients answer or   *)
(* raise.                                                                  *)
Fairness ==
  /\ \A e \in Callers : WF_vars(EvalStep(e))
  /\ \A b \in Batches : WF_vars(BatchReturn(b))

Spec == Init /\ [][Next]_vars /\ Fairness

-----------------------------------------------------------------------------
EvaluationTypes ==
  /\ epc \in [Callers -> {"waiting", "ask", "store", "trigger", "done", "raised", "dead"}]
  /\ decision \in [Callers -> DecisionType]
  /\ stored \in SUBSET Callers /\ triggered \in SUBSET Callers
  /\ DOMAIN results = Batches

OrchestratorTypeOK == BreakerTypeOK /\ EvaluationTypes /\ score \in [Callers -> 0 .. 10000]

EvaluationOK(e) ==
  /\ epc[e] = "store" => decision[e].action \in Reportable /\ decision[e].by # "sanctions"
  /\ epc[e] = "trigger" => decision[e].action = "BLOCK" /\ e \in triggered /\ e \in stored
  /\ wpc[e] # "out" <=> epc[e] = "trigger"
  /\ epc[e] \in {"waiting", "ask"} => decision[e] = Pending /\ e \notin stored
  /\ e \in triggered => decision[e].action = "BLOCK" /\ e \in stored
                        /\ epc[e] \in {"trigger", "done", "dead"}
  /\ e \in stored => decision[e].action \in Reportable /\ decision[e].by # "sanctions"
  /\ epc[e] = "done" => /\ decision[e].action # "NONE"
                        /\ decision[e].action \in Reportable /\ decision[e].by # "sanctions"
                              => e \in stored
                        /\ decision[e].action = "BLOCK" /\ decision[e].by # "sanctions"
                              => e \in triggered

(* Whose batch has returned is finished, and its result stays what it was. *)
ResultOK(e) ==
  LET b == BatchOf[e] IN
  Returned(b) =>
    /\ Finished(e)
    /\ results[b][e] = IF epc[e] = "raised" THEN Fallback(5000, "batch") ELSE decision[e]

(* The inductive invariant: what an evaluation has done follows from where *)
(* it is in evaluate.                                                      *)
OrchestratorInd ==
  /\ BreakerInd
  /\ EvaluationTypes
  /\ \A e \in Callers : EvaluationOK(e) /\ ResultOK(e)

(* No trigger count lives for ever: INCR and EXPIRE are two calls of       *)
(* increment_trigger_count, with other callers, the operator and the clock *)
(* in between.                                                             *)
CounterExpires == \A s \in Symbols : CounterOK(s)

(* What batch_evaluate returns agrees with what was done for the event: a  *)
(* BLOCK of the LLM is reported and counted against the circuit breaker, a *)
(* FLAG is reported unless it stands for an evaluation that raised, and an *)
(* event that is let through leaves no report.  An event downgraded to the *)
(* batch's own FLAG never reached the circuit breaker.                     *)
ResultsMatchEffects ==
  \A b \in Batches : Returned(b) => \A e \in Members(b) :
    LET d == results[b][e] IN
    /\ d.by # "sanctions" /\ d.action = "BLOCK" => e \in stored /\ e \in triggered
    /\ d.by \in {"llm", "fallback"} /\ d.action = "FLAG" => e \in stored /\ e \notin triggered
    /\ d.by = "batch" => d.action = "FLAG" /\ e \notin triggered
    /\ d.action \in {"ALLOW", "ADJUST_LIMIT"} => e \notin stored

(* The inductive invariant behind the type of score, next to               *)
(* OrchestratorInd: evaluate returns before it scores an event with a      *)
(* sanctions match, and without one the weights do not reach 0.8; the      *)
(* fallback decides by the score (agent.py:85, 144-158).                   *)
ScoresInd ==
  /\ score \in [Callers -> Nat]
  /\ \A e \in Callers : score[e] < 8000
  /\ \A e \in Callers :
       decision[e].by = "fallback" => decision[e].action = FallbackAction(score[e])

(* The circuit is open only after as many triggers as the threshold since  *)
(* it was last closed by hand, unless a call failed or the closing raced   *)
(* with a trigger.                                                         *)
OpenNeedsTriggers ==
  \A s \in Symbols :
    status[s].v = "OPEN" /\ ~failed[s] /\ ~raced[s] => fresh[s] >= Threshold

(* batch_evaluate returns unless its process stops, whatever the LLM, the  *)
(* store and Redis do: a raised evaluation gives its permit back.          *)
BatchesReturn ==
  \A b \in Batches : <>(Returned(b) \/ \E e \in Members(b) : epc[e] = "dead")

=============================================================================
