--------------------------- MODULE CircuitBreaker ---------------------------
(***************************************************************************)
(* CircuitBreakerWriter (agent3_orchestrator/redis_writer.py): for every   *)
(* symbol a counter of triggers and a status in Redis, both with a time to *)
(* live.  Every Redis call is a step, and any of them may fail before or   *)
(* after it took effect; the writer swallows the exception.  Time passes   *)
(* for all keys at once and is counted in parts of _open_duration.         *)
(***************************************************************************)
EXTENDS Integers

CONSTANTS
  Callers,      \* the tasks that report triggers
  Symbols,
  SymbolOf,     \* the symbol each caller reports
  Threshold,    \* _trigger_threshold
  Duration,     \* _open_duration, in ticks
  MaxCloses,    \* bound: how many times an operator closes circuits
  MaxFaults     \* bound: how many Redis calls fail

ASSUME BreakerAssumption ==
  /\ SymbolOf \in [Callers -> Symbols]
  /\ Threshold \in Nat /\ Threshold >= 2
  /\ Duration \in Nat \ {0}
  /\ MaxCloses \in Nat /\ MaxFaults \in Nat

VARIABLES
  triggers,     \* the key ...:triggers, its count and time to live
  status,       \* the key ...:status, its value and time to live
  wpc,          \* where each caller is in increment_trigger_count
  closing,      \* the symbols the operator still has to close
  deleting,     \* the symbol whose status is set and whose counter is not deleted yet
  closes,       \* bound: operations begun by the operator
  faults,       \* bound: Redis calls that failed
  fresh,        \* history: triggers counted since the circuit was last closed by hand
  raced,        \* history: closing and triggering the symbol overlapped
  failed        \* history: a call about the symbol failed or was never made

breakerVars == <<triggers, status, wpc, closing, deleting, closes, faults,
                 fresh, raced, failed>>

-----------------------------------------------------------------------------
Forever == Duration + 1                      \* the time to live of a key without one
NoCount == [n |-> 0, ttl |-> Forever]        \* a key that does not exist counts 0
NoState == [v |-> "NONE", ttl |-> Forever]

InWriter(s) == \E c \in Callers : SymbolOf[c] = s /\ wpc[c] # "out"

BreakerTypeOK ==
  /\ triggers \in [Symbols -> [n : Nat, ttl : 1 .. Forever]]
  /\ status \in [Symbols -> [v : {"NONE", "OPEN", "CLOSED"}, ttl : 1 .. Forever]]
  /\ wpc \in [Callers -> {"out", "incr", "expire", "open"}]
  /\ closing \in SUBSET Symbols
  /\ deleting \in SUBSET closing
  /\ closes \in 0 .. MaxCloses
  /\ faults \in 0 .. MaxFaults
  /\ fresh \in [Symbols -> Nat]
  /\ raced \in [Symbols -> BOOLEAN]
  /\ failed \in [Symbols -> BOOLEAN]

BreakerInit ==
  /\ triggers = [s \in Symbols |-> NoCount]
  /\ status = [s \in Symbols |-> NoState]
  /\ wpc = [c \in Callers |-> "out"]
  /\ closing = {} /\ deleting = {}
  /\ closes = 0 /\ faults = 0
  /\ fresh = [s \in Symbols |-> 0]
  /\ raced = [s \in Symbols |-> FALSE]
  /\ failed = [s \in Symbols |-> FALSE]

-----------------------------------------------------------------------------
(* A call about s raised; the effect it had, if any, is in the other       *)
(* conjuncts of the step.                                                  *)
Fault(s) ==
  /\ faults < MaxFaults
  /\ faults' = faults + 1
  /\ failed' = [failed EXCEPT ![s] = TRUE]

(* Mutant: the expiry is set when the threshold is reached. *)
AfterIncrAtThreshold(n) == IF n = Threshold THEN "expire" ELSE "out"

(* What increment_trigger_count does with the count that INCR returned. *)
AfterIncr(n) ==
  CASE n = 1         -> "expire"
    [] n >= Threshold -> "open"
    [] OTHER          -> "out"

(* INCR keeps the time to live of a counter that exists. *)
Counted(s) ==
  /\ triggers' = [triggers EXCEPT ![s].n = @ + 1]
  /\ fresh' = [fresh EXCEPT ![s] = @ + 1]

(* increment_trigger_count is called. *)
BeginTrigger(c) ==
  /\ wpc[c] = "out"
  /\ wpc' = [wpc EXCEPT ![c] = "incr"]
  /\ raced' = [raced EXCEPT ![SymbolOf[c]] = @ \/ SymbolOf[c] \in closing]
  /\ UNCHANGED <<triggers, status, closing, deleting, closes, faults, fresh, failed>>

Incr(c) ==
  LET s == SymbolOf[c] IN
  /\ wpc[c] = "incr"
  /\ \/ /\ Counted(s)
        /\ wpc' = [wpc EXCEPT ![c] = AfterIncr(triggers[s].n + 1)]
        /\ UNCHANGED <<faults, failed>>
     \/ /\ Fault(s)
        /\ wpc' = [wpc EXCEPT ![c] = "out"]
        /\ Counted(s) \/ UNCHANGED <<triggers, fresh>>
  /\ UNCHANGED <<status, closing, deleting, closes, raced>>

(* EXPIRE of a key that is gone does nothing.  Threshold is above one, so  *)
(* the first trigger does not open the circuit.                            *)
Expire(c) ==
  LET s == SymbolOf[c]
      Expires == triggers' = IF triggers[s].n = 0 THEN triggers
                             ELSE [triggers EXCEPT ![s].ttl = Duration] IN
  /\ wpc[c] = "expire"
  /\ wpc' = [wpc EXCEPT ![c] = "out"]
  /\ \/ Expires /\ UNCHANGED <<faults, failed>>
     \/ Fault(s) /\ (Expires \/ UNCHANGED triggers)
  /\ UNCHANGED <<status, closing, deleting, closes, fresh, raced>>

(* _open_circuit; publishing the event to Kafka is left out. *)
OpenCircuit(c) ==
  LET s == SymbolOf[c]
      Opens == status' = [status EXCEPT ![s] = [v |-> "OPEN", ttl |-> Duration]] IN
  /\ wpc[c] = "open"
  /\ wpc' = [wpc EXCEPT ![c] = "out"]
  /\ \/ Opens /\ UNCHANGED <<faults, failed>>
     \/ Fault(s) /\ (Opens \/ UNCHANGED status)
  /\ UNCHANGED <<triggers, closing, deleting, closes, fresh, raced>>

-----------------------------------------------------------------------------
(* An operator calls close_circuit for one symbol. *)
BeginClose(S) ==
  /\ closing = {} /\ S # {}
  /\ closes < MaxCloses
  /\ closes' = closes + 1
  /\ closing' = S
  /\ raced' = [s \in Symbols |-> raced[s] \/ (s \in S /\ InWriter(s))]
  /\ UNCHANGED <<triggers, status, wpc, deleting, faults, fresh, failed>>

ManualClose == \E s \in Symbols : BeginClose({s})

(* reset_all closes every circuit that has a status key, whatever it says. *)
ResetAll == BeginClose({s \in Symbols : status[s].v # "NONE"})

(* The symbol is dealt with; reset_all goes on with the next one. *)
Closed(s) == closing' = closing \ {s} /\ deleting' = {}

CloseSet(s) ==
  LET Closes == /\ status' = [status EXCEPT ![s] = [v |-> "CLOSED", ttl |-> Forever]]
                /\ fresh' = [fresh EXCEPT ![s] = 0] IN
  /\ s \in closing /\ deleting = {}
  /\ \/ Closes /\ deleting' = {s} /\ UNCHANGED <<closing, faults, failed>>
     \/ Fault(s) /\ Closed(s) /\ (Closes \/ UNCHANGED <<status, fresh>>)
  /\ UNCHANGED <<triggers, wpc, closes, raced>>

(* Mutant: the counter is left where it is. *)
CloseDeleteNothing(s) ==
  /\ s \in deleting /\ Closed(s)
  /\ UNCHANGED <<triggers, status, wpc, closes, faults, fresh, raced, failed>>

CloseDelete(s) ==
  LET Deletes == triggers' = [triggers EXCEPT ![s] = NoCount] IN
  /\ s \in deleting
  /\ Closed(s)
  /\ \/ Deletes /\ UNCHANGED <<faults, failed>>
     \/ Fault(s) /\ (Deletes \/ UNCHANGED triggers)
  /\ UNCHANGED <<status, wpc, closes, fresh, raced>>

-----------------------------------------------------------------------------
(* One tick of Redis' clock. *)
Left(ttl) == IF ttl = Forever THEN Forever ELSE ttl - 1

Tick ==
  /\ \E s \in Symbols : Forever # triggers[s].ttl \/ Forever # status[s].ttl
  /\ triggers' = [s \in Symbols |-> IF triggers[s].ttl = 1 THEN NoCount
                                    ELSE [triggers[s] EXCEPT !.ttl = Left(@)]]
  /\ status' = [s \in Symbols |-> IF status[s].ttl = 1 THEN NoState
                                  ELSE [status[s] EXCEPT !.ttl = Left(@)]]
  /\ UNCHANGED <<wpc, closing, deleting, closes, faults, fresh, raced, failed>>

(* The processes that run the callers in C stop; what they have not done   *)
(* for their symbols is never done.                                        *)
Abandon(C) ==
  /\ wpc' = [c \in Callers |-> IF c \in C THEN "out" ELSE wpc[c]]
  /\ failed' = [s \in Symbols |-> failed[s] \/
                  \E c \in C : SymbolOf[c] = s /\ wpc[c] # "out"]
  /\ UNCHANGED <<triggers, status, closing, deleting, closes, faults, fresh, raced>>

WriterStep(c) == Incr(c) \/ Expire(c) \/ OpenCircuit(c)

OperatorStep == \E s \in Symbols : CloseSet(s) \/ CloseDelete(s)

-----------------------------------------------------------------------------
(* A counter that never expires is one whose first caller has yet to set   *)
(* the expiry, or whose EXPIRE failed.                                     *)
CounterOK(s) ==
  triggers[s].n > 0 /\ triggers[s].ttl = Forever =>
    \/ failed[s]
    \/ \E c \in Callers : SymbolOf[c] = s /\ wpc[c] = "expire"

(* Without failures and races the counter holds no more than was counted   *)
(* since the circuit was closed, and only that opens it.                   *)
OpenOK(s) ==
  ~failed[s] /\ ~raced[s] =>
    /\ s \notin deleting => triggers[s].n <= fresh[s]
    /\ InWriter(s) => s \notin closing
    /\ \A c \in Callers : SymbolOf[c] = s /\ wpc[c] = "open" => fresh[s] >= Threshold
    /\ status[s].v = "OPEN" => fresh[s] >= Threshold

(* The inductive invariant. *)
BreakerInd ==
  /\ BreakerTypeOK
  /\ \A r, s \in deleting : r = s
  /\ \A s \in Symbols : CounterOK(s) /\ OpenOK(s)

=============================================================================
