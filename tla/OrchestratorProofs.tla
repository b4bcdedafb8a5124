------------------------- MODULE OrchestratorProofs -------------------------
(***************************************************************************)
(* The inductive invariants of CircuitBreaker and of Orchestrator and what *)
(* follows from them, for any evaluations, batches, symbols, permits and   *)
(* thresholds.                                                             *)
(***************************************************************************)
EXTENDS Orchestrator, Sums, TLAPS

-----------------------------------------------------------------------------
(* The circuit breaker. *)

LEMMA BreakerFacts ==
  ASSUME BreakerTypeOK
  PROVE  /\ \A c \in Callers : SymbolOf[c] \in Symbols
         /\ Forever \in Nat /\ Duration \in Nat /\ Duration >= 1 /\ Forever = Duration + 1
         /\ Threshold \in Nat /\ Threshold >= 2
         /\ \A s \in Symbols : /\ triggers[s] \in [n : Nat, ttl : 1 .. Forever]
                               /\ triggers[s].n \in Nat /\ triggers[s].ttl \in 1 .. Forever
                               /\ status[s].ttl \in 1 .. Forever
                               /\ fresh[s] \in Nat
BY BreakerAssumption DEF BreakerTypeOK, Forever

LEMMA NoKeys ==
  /\ NoCount \in [n : Nat, ttl : 1 .. Forever] /\ NoCount.n = 0
  /\ NoState \in [v : {"NONE", "OPEN", "CLOSED"}, ttl : 1 .. Forever] /\ NoState.v = "NONE"
BY BreakerAssumption DEF NoCount, NoState, Forever

LEMMA BreakerInitEstablishes == BreakerInit => BreakerInd
<1>. SUFFICES ASSUME BreakerInit PROVE BreakerInd
  OBVIOUS
<1>1. BreakerTypeOK
  BY NoKeys, BreakerAssumption DEF BreakerInit, BreakerTypeOK
<1>2. \A s \in Symbols : CounterOK(s) /\ OpenOK(s)
  BY NoKeys DEF BreakerInit, CounterOK, OpenOK, InWriter
<1>. QED BY <1>1, <1>2 DEF BreakerInit, BreakerInd

LEMMA BreakerStutter == ASSUME BreakerInd, UNCHANGED breakerVars PROVE BreakerInd'
BY DEF breakerVars, BreakerInd, BreakerTypeOK, CounterOK, OpenOK, InWriter

LEMMA BeginTriggerKeeps ==
  ASSUME BreakerInd, NEW c \in Callers, BeginTrigger(c)
  PROVE  BreakerInd'
<1>1. /\ wpc[c] = "out" /\ wpc' = [wpc EXCEPT ![c] = "incr"]
      /\ raced' = [raced EXCEPT ![SymbolOf[c]] = raced[SymbolOf[c]] \/ SymbolOf[c] \in closing]
      /\ UNCHANGED <<triggers, status, closing, deleting, closes, faults, fresh, failed>>
  BY DEF BeginTrigger
<1>2. BreakerTypeOK'
  BY <1>1 DEF BreakerInd, BreakerTypeOK
<1>3. wpc'[c] = "incr" /\ \A d \in Callers : d # c => wpc'[d] = wpc[d]
  BY <1>1 DEF BreakerInd, BreakerTypeOK
<1>4. \A s \in Symbols : (raced[s] => raced'[s])
        /\ (s = SymbolOf[c] /\ s \in closing => raced'[s])
  BY <1>1 DEF BreakerInd, BreakerTypeOK
<1>5. ASSUME NEW s \in Symbols PROVE CounterOK(s)'
  BY <1>1, <1>3 DEF BreakerInd, CounterOK
<1>6. ASSUME NEW s \in Symbols PROVE OpenOK(s)'
  <2>. SUFFICES ASSUME ~failed[s], ~raced'[s] PROVE OpenOK(s)'
    BY <1>1 DEF OpenOK
  <2>1. OpenOK(s) /\ ~raced[s]
    BY <1>4 DEF BreakerInd
  <2>2. InWriter(s)' => s \notin closing
    BY <1>3, <1>4, <2>1 DEF OpenOK, InWriter
  <2>. QED BY <1>1, <1>3, <2>1, <2>2 DEF OpenOK
<1>. QED BY <1>1, <1>2, <1>5, <1>6 DEF BreakerInd

(* A step that fails spoils the claims about its symbol only. *)
LEMMA FaultFacts ==
  ASSUME BreakerInd, NEW s \in Symbols, Fault(s)
  PROVE  /\ faults' \in 0 .. MaxFaults
         /\ failed' \in [Symbols -> BOOLEAN] /\ failed'[s]
         /\ \A r \in Symbols : r # s => failed'[r] = failed[r]
BY BreakerAssumption DEF Fault, BreakerInd, BreakerTypeOK

LEMMA IncrKeeps ==
  ASSUME BreakerInd, NEW c \in Callers, Incr(c)
  PROVE  BreakerInd'
<1>. DEFINE s == SymbolOf[c]
<1>0. s \in Symbols /\ wpc[c] = "incr" /\ UNCHANGED <<status, closing, deleting, closes, raced>>
  BY BreakerFacts DEF Incr, BreakerInd
<1>1. Counted(s) =>
        /\ triggers' \in [Symbols -> [n : Nat, ttl : 1 .. Forever]]
        /\ triggers'[s].n = triggers[s].n + 1 /\ triggers'[s].ttl = triggers[s].ttl
        /\ fresh' \in [Symbols -> Nat] /\ fresh'[s] = fresh[s] + 1
        /\ \A r \in Symbols : r # s => triggers'[r] = triggers[r] /\ fresh'[r] = fresh[r]
  BY <1>0, BreakerFacts DEF Counted, BreakerInd, BreakerTypeOK
<1>2. \A n : AfterIncr(n) \in {"expire", "open", "out"}
  BY DEF AfterIncr
<1>3. \A d \in Callers : d # c => wpc'[d] = wpc[d]
  BY DEF Incr, BreakerInd, BreakerTypeOK
<1>4. CASE /\ Counted(s)
           /\ wpc' = [wpc EXCEPT ![c] = AfterIncr(triggers[s].n + 1)]
           /\ UNCHANGED <<faults, failed>>
  <2>1. BreakerTypeOK'
    BY <1>0, <1>1, <1>2, <1>4 DEF BreakerInd, BreakerTypeOK
  <2>2. wpc'[c] = AfterIncr(triggers[s].n + 1)
    BY <1>4 DEF BreakerInd, BreakerTypeOK
  <2>3. triggers[s].n \in Nat /\ fresh[s] \in Nat /\ Threshold \in Nat
    BY <1>0, BreakerFacts DEF BreakerInd
  <2>4. CounterOK(s)'
    <3>1. CASE triggers[s].n = 0
      <4>1. triggers[s].n + 1 = 1
        BY <3>1
      <4>2. wpc'[c] = "expire"
        BY <2>2, <4>1, BreakerFacts DEF AfterIncr, BreakerInd
      <4>. QED BY <4>2 DEF CounterOK
    <3>2. CASE triggers[s].n # 0
      BY <1>0, <1>1, <1>3, <1>4, <2>3, <3>2 DEF BreakerInd, CounterOK
    <3>. QED BY <3>1, <3>2
  <2>5. OpenOK(s)'
    <3>. SUFFICES ASSUME ~failed[s], ~raced[s] PROVE OpenOK(s)'
      BY <1>0, <1>4 DEF OpenOK
    <3>1. OpenOK(s) /\ InWriter(s)
      BY <1>0 DEF BreakerInd, InWriter
    <3>2. s \notin closing /\ s \notin deleting
      BY <3>1 DEF OpenOK, BreakerInd, BreakerTypeOK
    <3>3. triggers[s].n <= fresh[s]
      BY <3>1, <3>2 DEF OpenOK
    <3>4. AfterIncr(triggers[s].n + 1) = "open" => triggers[s].n + 1 >= Threshold
      BY DEF AfterIncr
    <3>5. \A d \in Callers : SymbolOf[d] = s /\ wpc'[d] = "open" => fresh'[s] >= Threshold
      <4>. SUFFICES ASSUME NEW d \in Callers, SymbolOf[d] = s, wpc'[d] = "open"
                    PROVE  fresh'[s] >= Threshold
        OBVIOUS
      <4>1. CASE d = c
        BY <1>1, <1>4, <2>2, <2>3, <3>3, <3>4, <4>1
      <4>2. CASE d # c
        BY <1>1, <1>3, <1>4, <2>3, <3>1, <4>2 DEF OpenOK
      <4>. QED BY <4>1, <4>2
    <3>6. triggers'[s].n <= fresh'[s]
      BY <1>1, <1>4, <2>3, <3>3
    <3>7. status[s].v = "OPEN" => fresh'[s] >= Threshold
      BY <1>1, <1>4, <2>3, <3>1 DEF OpenOK
    <3>. QED BY <1>0, <3>2, <3>5, <3>6, <3>7 DEF OpenOK
  <2>6. ASSUME NEW r \in Symbols, r # s PROVE CounterOK(r)' /\ OpenOK(r)'
    BY <1>0, <1>1, <1>3, <1>4, <2>6 DEF BreakerInd, CounterOK, OpenOK, InWriter
  <2>. QED BY <1>0, <2>1, <2>4, <2>5, <2>6 DEF BreakerInd
<1>5. CASE /\ Fault(s)
           /\ wpc' = [wpc EXCEPT ![c] = "out"]
           /\ Counted(s) \/ UNCHANGED <<triggers, fresh>>
  <2>1. BreakerTypeOK'
    BY <1>0, <1>1, <1>5, FaultFacts DEF BreakerInd, BreakerTypeOK
  <2>2. CounterOK(s)' /\ OpenOK(s)'
    BY <1>0, <1>5, FaultFacts DEF CounterOK, OpenOK
  <2>3. ASSUME NEW r \in Symbols, r # s PROVE CounterOK(r)' /\ OpenOK(r)'
    <3>1. triggers'[r] = triggers[r] /\ fresh'[r] = fresh[r] /\ failed'[r] = failed[r]
      BY <1>0, <1>1, <1>5, <2>3, FaultFacts
    <3>. QED BY <1>0, <1>3, <2>3, <3>1 DEF BreakerInd, CounterOK, OpenOK, InWriter
  <2>. QED BY <1>0, <2>1, <2>2, <2>3 DEF BreakerInd
<1>. QED BY <1>4, <1>5 DEF Incr

LEMMA ExpireKeeps ==
  ASSUME BreakerInd, NEW c \in Callers, Expire(c)
  PROVE  BreakerInd'
<1>. DEFINE s == SymbolOf[c]
            Expires == triggers' = IF triggers[s].n = 0 THEN triggers
                                   ELSE [triggers EXCEPT ![s].ttl = Duration]
<1>0. /\ s \in Symbols /\ wpc[c] = "expire" /\ wpc' = [wpc EXCEPT ![c] = "out"]
      /\ UNCHANGED <<status, closing, deleting, closes, fresh, raced>>
      /\ \A d \in Callers : d # c => wpc'[d] = wpc[d]
      /\ wpc'[c] = "out"
  BY BreakerFacts DEF Expire, BreakerInd, BreakerTypeOK
<1>1. /\ triggers' \in [Symbols -> [n : Nat, ttl : 1 .. Forever]]
      /\ triggers'[s].n = triggers[s].n
      /\ Expires => triggers'[s].n = 0 \/ triggers'[s].ttl # Forever
      /\ \A r \in Symbols : r # s => triggers'[r] = triggers[r]
  <2>1. CASE Expires /\ triggers[s].n # 0
    BY <1>0, <2>1, BreakerFacts DEF BreakerInd, BreakerTypeOK
  <2>2. CASE triggers' = triggers
    BY <1>0, <2>2, BreakerFacts DEF BreakerInd, BreakerTypeOK
  <2>. QED BY <2>1, <2>2 DEF Expire
<1>2. /\ faults' \in 0 .. MaxFaults /\ failed' \in [Symbols -> BOOLEAN]
      /\ failed'[s] \/ (Expires /\ failed' = failed)
      /\ \A r \in Symbols : r # s => failed'[r] = failed[r]
  BY <1>0, FaultFacts DEF Expire, BreakerInd, BreakerTypeOK
<1>3. BreakerTypeOK'
  BY <1>0, <1>1, <1>2 DEF BreakerInd, BreakerTypeOK
<1>4. CounterOK(s)'
  BY <1>0, <1>1, <1>2 DEF CounterOK
<1>5. OpenOK(s)'
  <2>. SUFFICES ASSUME failed' = failed PROVE OpenOK(s)'
    BY <1>2 DEF OpenOK
  <2>. QED BY <1>0, <1>1 DEF BreakerInd, OpenOK, InWriter
<1>6. ASSUME NEW r \in Symbols, r # s PROVE CounterOK(r)' /\ OpenOK(r)'
  BY <1>0, <1>1, <1>2, <1>6 DEF BreakerInd, CounterOK, OpenOK, InWriter
<1>. QED BY <1>0, <1>3, <1>4, <1>5, <1>6 DEF BreakerInd

LEMMA OpenCircuitKeeps ==
  ASSUME BreakerInd, NEW c \in Callers, OpenCircuit(c)
  PROVE  BreakerInd'
<1>. DEFINE s == SymbolOf[c]
            Opens == status' = [status EXCEPT ![s] = [v |-> "OPEN", ttl |-> Duration]]
<1>0. /\ s \in Symbols /\ wpc[c] = "open" /\ wpc' = [wpc EXCEPT ![c] = "out"]
      /\ UNCHANGED <<triggers, closing, deleting, closes, fresh, raced>>
      /\ \A d \in Callers : d # c => wpc'[d] = wpc[d]
      /\ wpc'[c] = "out"
  BY BreakerFacts DEF OpenCircuit, BreakerInd, BreakerTypeOK
<1>1. /\ status' \in [Symbols -> [v : {"NONE", "OPEN", "CLOSED"}, ttl : 1 .. Forever]]
      /\ \A r \in Symbols : r # s => status'[r] = status[r]
  <2>1. [v |-> "OPEN", ttl |-> Duration] \in [v : {"NONE", "OPEN", "CLOSED"}, ttl : 1 .. Forever]
    BY BreakerFacts DEF BreakerInd
  <2>2. Opens \/ status' = status
    BY DEF OpenCircuit
  <2>. QED BY <1>0, <2>1, <2>2 DEF BreakerInd, BreakerTypeOK
<1>2. /\ faults' \in 0 .. MaxFaults /\ failed' \in [Symbols -> BOOLEAN]
      /\ failed'[s] \/ failed' = failed
      /\ \A r \in Symbols : r # s => failed'[r] = failed[r]
  BY <1>0, FaultFacts DEF OpenCircuit, BreakerInd, BreakerTypeOK
<1>3. BreakerTypeOK'
  BY <1>0, <1>1, <1>2 DEF BreakerInd, BreakerTypeOK
<1>4. CounterOK(s)'
  BY <1>0, <1>2 DEF BreakerInd, CounterOK
<1>5. OpenOK(s)'
  BY <1>0, <1>2 DEF BreakerInd, OpenOK, InWriter
<1>6. ASSUME NEW r \in Symbols, r # s PROVE CounterOK(r)' /\ OpenOK(r)'
  BY <1>0, <1>1, <1>2, <1>6 DEF BreakerInd, CounterOK, OpenOK, InWriter
<1>. QED BY <1>0, <1>3, <1>4, <1>5, <1>6 DEF BreakerInd

LEMMA BeginCloseKeeps ==
  ASSUME BreakerInd, NEW S \in SUBSET Symbols, BeginClose(S)
  PROVE  BreakerInd'
<1>0. /\ closing = {} /\ deleting = {} /\ closing' = S
      /\ raced' = [s \in Symbols |-> raced[s] \/ (s \in S /\ InWriter(s))]
      /\ UNCHANGED <<triggers, status, wpc, deleting, faults, fresh, failed>>
  BY DEF BeginClose, BreakerInd, BreakerTypeOK
<1>1. BreakerTypeOK'
  <2>1. closes' \in 0 .. MaxCloses
    BY BreakerAssumption DEF BeginClose, BreakerInd, BreakerTypeOK
  <2>2. raced' \in [Symbols -> BOOLEAN]
    BY <1>0 DEF BreakerInd, BreakerTypeOK, InWriter
  <2>. QED BY <1>0, <2>1, <2>2 DEF BreakerInd, BreakerTypeOK
<1>2. ASSUME NEW s \in Symbols PROVE CounterOK(s)'
  BY <1>0 DEF BreakerInd, CounterOK
<1>3. ASSUME NEW s \in Symbols PROVE OpenOK(s)'
  <2>. SUFFICES ASSUME ~failed[s], ~raced'[s] PROVE OpenOK(s)'
    BY <1>0 DEF OpenOK
  <2>1. OpenOK(s) /\ ~raced[s] /\ (InWriter(s) => s \notin S)
    BY <1>0 DEF BreakerInd
  <2>. QED BY <1>0, <2>1 DEF OpenOK, InWriter
<1>. QED BY <1>0, <1>1, <1>2, <1>3 DEF BreakerInd

LEMMA CloseSetKeeps ==
  ASSUME BreakerInd, NEW s \in Symbols, CloseSet(s)
  PROVE  BreakerInd'
<1>. DEFINE Closes == /\ status' = [status EXCEPT ![s] = [v |-> "CLOSED", ttl |-> Forever]]
                      /\ fresh' = [fresh EXCEPT ![s] = 0]
<1>0. /\ s \in closing /\ deleting = {}
      /\ UNCHANGED <<triggers, wpc, closes, raced>>
      /\ closing' \subseteq closing
      /\ deleting' \subseteq {s}
      /\ Closes \/ UNCHANGED <<status, fresh>>
      /\ \/ Closes /\ deleting' = {s} /\ closing' = closing /\ UNCHANGED <<faults, failed>>
         \/ Fault(s) /\ deleting' = {}
  BY DEF CloseSet, Closed
<1>1. /\ status' \in [Symbols -> [v : {"NONE", "OPEN", "CLOSED"}, ttl : 1 .. Forever]]
      /\ fresh' \in [Symbols -> Nat]
      /\ Closes => status'[s].v = "CLOSED" /\ fresh'[s] = 0
      /\ \A r \in Symbols : r # s => status'[r] = status[r] /\ fresh'[r] = fresh[r]
  <2>1. [v |-> "CLOSED", ttl |-> Forever] \in [v : {"NONE", "OPEN", "CLOSED"}, ttl : 1 .. Forever]
    BY BreakerFacts DEF BreakerInd
  <2>2. CASE Closes
    BY <2>1, <2>2 DEF BreakerInd, BreakerTypeOK
  <2>3. CASE UNCHANGED <<status, fresh>> /\ ~Closes
    BY <2>3 DEF BreakerInd, BreakerTypeOK
  <2>. QED BY <1>0, <2>2, <2>3
<1>2. /\ faults' \in 0 .. MaxFaults /\ failed' \in [Symbols -> BOOLEAN]
      /\ failed'[s] \/ (Closes /\ deleting' = {s} /\ failed' = failed)
      /\ \A r \in Symbols : r # s => failed'[r] = failed[r]
      /\ failed[s] => failed'[s]
  BY <1>0, FaultFacts DEF BreakerInd, BreakerTypeOK
<1>3. BreakerTypeOK'
  <2>1. deleting' \in SUBSET closing'
    BY <1>0 DEF CloseSet, Closed
  <2>. QED BY <1>0, <1>1, <1>2, <2>1 DEF BreakerInd, BreakerTypeOK
<1>4. CounterOK(s)'
  BY <1>0, <1>2 DEF BreakerInd, CounterOK
<1>5. OpenOK(s)'
  <2>. SUFFICES ASSUME ~failed'[s], ~raced[s] PROVE OpenOK(s)'
    BY <1>0 DEF OpenOK
  <2>1. Closes /\ deleting' = {s} /\ ~failed[s] /\ closing' = closing
    BY <1>0, <1>2
  <2>2. ~InWriter(s)
    BY <1>0, <2>1 DEF BreakerInd, OpenOK
  <2>. QED BY <1>0, <1>1, <2>1, <2>2 DEF OpenOK, InWriter
<1>6. ASSUME NEW r \in Symbols, r # s PROVE CounterOK(r)' /\ OpenOK(r)'
  BY <1>0, <1>1, <1>2, <1>6 DEF BreakerInd, CounterOK, OpenOK, InWriter
<1>. QED BY <1>0, <1>3, <1>4, <1>5, <1>6 DEF BreakerInd

LEMMA CloseDeleteKeeps ==
  ASSUME BreakerInd, NEW s \in Symbols, CloseDelete(s)
  PROVE  BreakerInd'
<1>. DEFINE Deletes == triggers' = [triggers EXCEPT ![s] = NoCount]
<1>0. /\ s \in deleting /\ deleting = {s}
      /\ deleting' = {} /\ closing' \subseteq closing
      /\ UNCHANGED <<status, wpc, closes, fresh, raced>>
      /\ Deletes \/ UNCHANGED triggers
      /\ (Deletes /\ UNCHANGED <<faults, failed>>) \/ Fault(s)
  BY DEF CloseDelete, Closed, BreakerInd
<1>1. /\ triggers' \in [Symbols -> [n : Nat, ttl : 1 .. Forever]]
      /\ Deletes => triggers'[s].n = 0
      /\ \A r \in Symbols : r # s => triggers'[r] = triggers[r]
  <2>1. CASE Deletes
    BY <2>1, NoKeys DEF BreakerInd, BreakerTypeOK
  <2>2. CASE UNCHANGED triggers /\ ~Deletes
    BY <2>2 DEF BreakerInd, BreakerTypeOK
  <2>. QED BY <1>0, <2>1, <2>2
<1>2. /\ faults' \in 0 .. MaxFaults /\ failed' \in [Symbols -> BOOLEAN]
      /\ failed'[s] \/ (Deletes /\ failed' = failed)
      /\ \A r \in Symbols : r # s => failed'[r] = failed[r]
      /\ failed[s] => failed'[s]
  BY <1>0, FaultFacts DEF BreakerInd, BreakerTypeOK
<1>3. BreakerTypeOK'
  BY <1>0, <1>1, <1>2 DEF BreakerInd, BreakerTypeOK
<1>4. CounterOK(s)'
  BY <1>0, <1>1, <1>2 DEF CounterOK
<1>5. OpenOK(s)'
  <2>. SUFFICES ASSUME ~failed'[s], ~raced[s] PROVE OpenOK(s)'
    BY <1>0 DEF OpenOK
  <2>1. Deletes /\ ~failed[s] /\ OpenOK(s)
    BY <1>2 DEF BreakerInd
  <2>2. fresh[s] \in Nat
    BY BreakerFacts DEF BreakerInd
  <2>. QED BY <1>0, <1>1, <2>1, <2>2 DEF OpenOK, InWriter
<1>6. ASSUME NEW r \in Symbols, r # s PROVE CounterOK(r)' /\ OpenOK(r)'
  BY <1>0, <1>1, <1>2, <1>6 DEF BreakerInd, CounterOK, OpenOK, InWriter
<1>. QED BY <1>0, <1>3, <1>4, <1>5, <1>6 DEF BreakerInd

LEMMA TickKeeps == ASSUME BreakerInd, Tick PROVE BreakerInd'
<1>0. /\ triggers' = [s \in Symbols |-> IF triggers[s].ttl = 1 THEN NoCount
                                       ELSE [triggers[s] EXCEPT !.ttl = Left(triggers[s].ttl)]]
      /\ status' = [s \in Symbols |-> IF status[s].ttl = 1 THEN NoState
                                     ELSE [status[s] EXCEPT !.ttl = Left(status[s].ttl)]]
      /\ UNCHANGED <<wpc, closing, deleting, closes, faults, fresh, raced, failed>>
  BY DEF Tick
<1>1. ASSUME NEW ttl \in 1 .. Forever, ttl # 1
      PROVE  Left(ttl) \in 1 .. Forever /\ (Left(ttl) = Forever => ttl = Forever)
  BY <1>1, BreakerFacts DEF Left, BreakerInd
<1>2. ASSUME NEW s \in Symbols
      PROVE  /\ triggers'[s] \in [n : Nat, ttl : 1 .. Forever]
             /\ \/ triggers'[s].n = 0
                \/ /\ triggers'[s].n = triggers[s].n
                   /\ triggers'[s].ttl = Forever => triggers[s].ttl = Forever
             /\ status'[s] \in [v : {"NONE", "OPEN", "CLOSED"}, ttl : 1 .. Forever]
             /\ status'[s].v = "NONE" \/ status'[s].v = status[s].v
  <2>1. triggers[s] \in [n : Nat, ttl : 1 .. Forever]
        /\ status[s] \in [v : {"NONE", "OPEN", "CLOSED"}, ttl : 1 .. Forever]
    BY DEF BreakerInd, BreakerTypeOK
  <2>2. /\ triggers'[s] = IF triggers[s].ttl = 1 THEN NoCount
                          ELSE [triggers[s] EXCEPT !.ttl = Left(triggers[s].ttl)]
        /\ status'[s] = IF status[s].ttl = 1 THEN NoState
                        ELSE [status[s] EXCEPT !.ttl = Left(status[s].ttl)]
    BY <1>0
  <2>3. CASE triggers[s].ttl = 1
    <3>1. triggers'[s] \in [n : Nat, ttl : 1 .. Forever] /\ triggers'[s].n = 0
      BY <2>2, <2>3, NoKeys
    <3>2. CASE status[s].ttl = 1
      BY <2>2, <3>1, <3>2, NoKeys
    <3>3. CASE status[s].ttl # 1
      BY <1>1, <2>1, <2>2, <3>1, <3>3
    <3>. QED BY <3>2, <3>3
  <2>4. CASE triggers[s].ttl # 1
    <3>1. /\ triggers'[s] \in [n : Nat, ttl : 1 .. Forever]
          /\ triggers'[s].n = triggers[s].n
          /\ triggers'[s].ttl = Forever => triggers[s].ttl = Forever
      BY <1>1, <2>1, <2>2, <2>4
    <3>2. CASE status[s].ttl = 1
      BY <2>2, <3>1, <3>2, NoKeys
    <3>3. CASE status[s].ttl # 1
      BY <1>1, <2>1, <2>2, <3>1, <3>3
    <3>. QED BY <3>2, <3>3
  <2>. QED BY <2>3, <2>4
<1>3. BreakerTypeOK'
  <2>1. triggers' \in [Symbols -> [n : Nat, ttl : 1 .. Forever]]
    BY <1>0, <1>2
  <2>2. status' \in [Symbols -> [v : {"NONE", "OPEN", "CLOSED"}, ttl : 1 .. Forever]]
    BY <1>0, <1>2
  <2>. QED BY <1>0, <2>1, <2>2 DEF BreakerInd, BreakerTypeOK
<1>4. UNCHANGED <<wpc, closing, deleting, fresh, raced, failed>>
  BY <1>0
<1>5. ASSUME NEW s \in Symbols PROVE CounterOK(s)' /\ OpenOK(s)'
  <2>1. fresh[s] \in Nat /\ CounterOK(s) /\ OpenOK(s)
    BY BreakerFacts DEF BreakerInd
  <2>2. CounterOK(s)'
    <3>1. CASE triggers'[s].n = 0
      BY <3>1 DEF CounterOK
    <3>2. CASE triggers'[s].n # 0
      BY <1>2, <1>4, <2>1, <3>2 DEF CounterOK
    <3>. QED BY <3>1, <3>2
  <2>3. triggers[s].n <= fresh[s] => triggers'[s].n <= fresh[s]
    BY <1>2, <2>1
  <2>4. status'[s].v = "OPEN" => status[s].v = "OPEN"
    BY <1>2
  <2>. QED BY <1>4, <2>1, <2>2, <2>3, <2>4 DEF OpenOK, InWriter
<1>. QED BY <1>3, <1>4, <1>5 DEF BreakerInd

LEMMA AbandonKeeps ==
  ASSUME BreakerInd, NEW C \in SUBSET Callers, Abandon(C)
  PROVE  BreakerInd'
<1>0. /\ wpc' = [c \in Callers |-> IF c \in C THEN "out" ELSE wpc[c]]
      /\ failed' = [s \in Symbols |-> failed[s] \/
                       \E c \in C : SymbolOf[c] = s /\ wpc[c] # "out"]
      /\ UNCHANGED <<triggers, status, closing, deleting, closes, faults, fresh, raced>>
  BY DEF Abandon
<1>1. BreakerTypeOK'
  <2>1. failed' \in [Symbols -> BOOLEAN]
    BY <1>0 DEF BreakerInd, BreakerTypeOK
  <2>2. wpc' \in [Callers -> {"out", "incr", "expire", "open"}]
    BY <1>0 DEF BreakerInd, BreakerTypeOK
  <2>. QED BY <1>0, <2>1, <2>2 DEF BreakerInd, BreakerTypeOK
<1>2. ASSUME NEW s \in Symbols PROVE CounterOK(s)'
  <2>. SUFFICES ASSUME triggers[s].n > 0, triggers[s].ttl = Forever, ~failed'[s]
                PROVE  \E c \in Callers : SymbolOf[c] = s /\ wpc'[c] = "expire"
    BY <1>0 DEF CounterOK
  <2>1. PICK c \in Callers : SymbolOf[c] = s /\ wpc[c] = "expire"
    BY <1>0 DEF BreakerInd, CounterOK
  <2>2. c \notin C
    BY <1>0, <2>1
  <2>. QED BY <1>0, <2>1, <2>2
<1>3. ASSUME NEW s \in Symbols PROVE OpenOK(s)'
  <2>1. failed[s] => failed'[s]
    BY <1>0
  <2>2. \A c \in Callers : wpc'[c] # "out" => wpc'[c] = wpc[c]
    BY <1>0
  <2>. QED BY <1>0, <2>1, <2>2 DEF BreakerInd, OpenOK, InWriter
<1>. QED BY <1>0, <1>1, <1>2, <1>3 DEF BreakerInd

-----------------------------------------------------------------------------
(* The evaluations. *)

LEMMA MemberFacts ==
  ASSUME NEW e \in Callers
  PROVE  /\ BatchOf[e] \in Batches
         /\ \A b : e \in Members(b) <=> b = BatchOf[e]
BY OrchestratorAssumption DEF Members

LEMMA DecideFacts ==
  ASSUME NEW answer \in Answers, NEW s
  PROVE  /\ Decide(answer, s) \in DecisionType
         /\ Decide(answer, s).action \in Actions
         /\ Decide(answer, s).by \in {"llm", "fallback"}
BY OrchestratorAssumption DEF Decide, Fallback, FallbackAction, DecisionType, Actions

LEMMA BatchFallback == Fallback(5000, "batch") = [action |-> "FLAG", by |-> "batch"]
BY DEF Fallback, FallbackAction

LEMMA InitEstablishes == Init => OrchestratorInd
<1>. SUFFICES ASSUME Init PROVE OrchestratorInd
  OBVIOUS
<1>1. BreakerInd
  BY BreakerInitEstablishes DEF Init
<1>2. EvaluationTypes
  BY DEF Init, EvaluationTypes, Pending, DecisionType
<1>3. ASSUME NEW e \in Callers PROVE EvaluationOK(e)
  BY DEF Init, EvaluationOK, BreakerInit
<1>4. ASSUME NEW e \in Callers PROVE ResultOK(e)
  BY MemberFacts DEF Init, ResultOK, Returned
<1>. QED BY <1>1, <1>2, <1>3, <1>4 DEF OrchestratorInd

(* A step of an evaluation that has not finished concerns no other.        *)
LEMMA EvalKeeps ==
  ASSUME OrchestratorInd, NEW e \in Callers, ~Finished(e),
         BreakerInd', EvaluationTypes', UNCHANGED results,
         \A d \in Callers \ {e} :
           /\ epc'[d] = epc[d] /\ decision'[d] = decision[d] /\ wpc'[d] = wpc[d]
           /\ d \in stored' <=> d \in stored
           /\ d \in triggered' <=> d \in triggered,
         EvaluationOK(e)'
  PROVE  OrchestratorInd'
<1>1. ASSUME NEW d \in Callers PROVE EvaluationOK(d)'
  <2>1. CASE d # e
    BY <2>1 DEF OrchestratorInd, EvaluationOK
  <2>. QED BY <2>1
<1>2. ASSUME NEW d \in Callers PROVE ResultOK(d)'
  <2>1. CASE d # e
    BY <2>1 DEF OrchestratorInd, ResultOK, Returned, Finished
  <2>2. CASE d = e
    BY <2>2 DEF OrchestratorInd, ResultOK, Returned
  <2>. QED BY <2>1, <2>2
<1>. QED BY <1>1, <1>2 DEF OrchestratorInd

LEMMA BeginKeeps ==
  ASSUME OrchestratorInd, NEW e \in Callers,
         BlockSanctioned(e) \/ Score(e) \/ PromptFails(e)
  PROVE  OrchestratorInd'
<1>0. /\ epc[e] = "waiting" /\ UNCHANGED <<stored, triggered, results, breakerVars>>
      /\ wpc[e] = "out" /\ decision[e] = Pending /\ e \notin stored /\ e \notin triggered
      /\ epc' \in [Callers -> {"waiting", "ask", "store", "trigger", "done", "raised", "dead"}]
      /\ \A d \in Callers \ {e} : epc'[d] = epc[d] /\ decision'[d] = decision[d]
  BY DEF OrchestratorInd, EvaluationTypes, EvaluationOK, BlockSanctioned, Score, PromptFails
<1>1. BreakerInd' /\ UNCHANGED wpc
  BY <1>0, BreakerStutter DEF OrchestratorInd, breakerVars
<1>2. CASE BlockSanctioned(e)
  <2>1. /\ decision' = [decision EXCEPT ![e] = [action |-> "BLOCK", by |-> "sanctions"]]
        /\ epc' = [epc EXCEPT ![e] = "done"]
    BY <1>2 DEF BlockSanctioned
  <2>2. /\ decision'[e] = [action |-> "BLOCK", by |-> "sanctions"] /\ epc'[e] = "done"
        /\ decision' \in [Callers -> DecisionType]
    BY <2>1 DEF OrchestratorInd, EvaluationTypes, DecisionType, Actions
  <2>3. EvaluationTypes'
    BY <1>0, <2>2 DEF OrchestratorInd, EvaluationTypes
  <2>4. EvaluationOK(e)'
    BY <1>0, <1>1, <2>2 DEF EvaluationOK, Reportable
  <2>. QED BY <1>0, <1>1, <2>3, <2>4, EvalKeeps DEF Finished
<1>3. CASE Score(e) \/ PromptFails(e)
  <2>1. decision' = decision /\ epc'[e] \in {"ask", "raised"}
    BY <1>3 DEF Score, PromptFails, OrchestratorInd, EvaluationTypes
  <2>2. EvaluationTypes'
    BY <1>0, <2>1 DEF OrchestratorInd, EvaluationTypes
  <2>3. EvaluationOK(e)'
    BY <1>0, <1>1, <2>1 DEF EvaluationOK
  <2>. QED BY <1>0, <1>1, <2>2, <2>3, EvalKeeps DEF Finished
<1>. QED BY <1>2, <1>3

LEMMA AskKeeps ==
  ASSUME OrchestratorInd, NEW e \in Callers, AskLLM(e)
  PROVE  OrchestratorInd'
<1>0. /\ epc[e] = "ask" /\ UNCHANGED <<stored, triggered, results, breakerVars>>
      /\ wpc[e] = "out" /\ decision[e] = Pending /\ e \notin stored /\ e \notin triggered
  BY DEF OrchestratorInd, EvaluationOK, AskLLM
<1>1. BreakerInd' /\ UNCHANGED wpc
  BY <1>0, BreakerStutter DEF OrchestratorInd, breakerVars
<1>2. PICK answer \in Answers : decision' = [decision EXCEPT ![e] = Decide(answer, score[e])]
  BY DEF AskLLM
<1>3. /\ decision'[e] = Decide(answer, score[e])
      /\ decision' \in [Callers -> DecisionType]
      /\ decision'[e].action \in Actions /\ decision'[e].by \in {"llm", "fallback"}
      /\ \A d \in Callers \ {e} : decision'[d] = decision[d]
  BY <1>2, DecideFacts DEF OrchestratorInd, EvaluationTypes
<1>4. /\ epc'[e] = IF decision'[e].action \in Reportable THEN "store" ELSE "done"
      /\ epc' \in [Callers -> {"waiting", "ask", "store", "trigger", "done", "raised", "dead"}]
      /\ \A d \in Callers \ {e} : epc'[d] = epc[d]
  BY DEF AskLLM, OrchestratorInd, EvaluationTypes
<1>5. EvaluationTypes'
  BY <1>0, <1>3, <1>4 DEF OrchestratorInd, EvaluationTypes
<1>6. EvaluationOK(e)'
  BY <1>0, <1>1, <1>3, <1>4 DEF EvaluationOK, Reportable, Actions
<1>. QED BY <1>0, <1>1, <1>3, <1>4, <1>5, <1>6, EvalKeeps DEF Finished

LEMMA StoreKeeps ==
  ASSUME OrchestratorInd, NEW e \in Callers, StoreReport(e)
  PROVE  OrchestratorInd'
<1>0. /\ epc[e] = "store" /\ UNCHANGED <<decision, results>>
      /\ wpc[e] = "out" /\ decision[e].action \in Reportable /\ e \notin triggered
      /\ decision[e].by # "sanctions"
  BY DEF OrchestratorInd, EvaluationOK, StoreReport
<1>1. /\ epc' \in [Callers -> {"waiting", "ask", "store", "trigger", "done", "raised", "dead"}]
      /\ \A d \in Callers \ {e} : epc'[d] = epc[d]
      /\ stored' \in {stored, stored \cup {e}} /\ triggered' \in {triggered, triggered \cup {e}}
  BY DEF StoreReport, OrchestratorInd, EvaluationTypes
<1>2. EvaluationTypes'
  BY <1>0, <1>1 DEF OrchestratorInd, EvaluationTypes
<1>3. CASE BeginTrigger(e) /\ epc'[e] = "trigger" /\ decision[e].action = "BLOCK"
           /\ stored' = stored \cup {e} /\ triggered' = triggered \cup {e}
  <2>1. BreakerInd'
    BY <1>3, BeginTriggerKeeps DEF OrchestratorInd
  <2>2. wpc'[e] = "incr" /\ \A d \in Callers \ {e} : wpc'[d] = wpc[d]
    BY <1>3 DEF BeginTrigger, OrchestratorInd, BreakerInd, BreakerTypeOK
  <2>3. EvaluationOK(e)'
    BY <1>0, <1>3, <2>2 DEF EvaluationOK, Reportable, OrchestratorInd
  <2>. QED BY <1>0, <1>1, <1>2, <1>3, <2>1, <2>2, <2>3, EvalKeeps DEF Finished
<1>4. CASE UNCHANGED <<triggered, breakerVars>>
           /\ \/ epc'[e] = "raised"
              \/ epc'[e] = "done" /\ decision[e].action = "FLAG" /\ e \in stored'
  <2>1. BreakerInd' /\ UNCHANGED wpc
    BY <1>4, BreakerStutter DEF OrchestratorInd, breakerVars
  <2>2. EvaluationOK(e)'
    BY <1>0, <1>1, <1>4, <2>1 DEF EvaluationOK, Reportable, OrchestratorInd
  <2>. QED BY <1>0, <1>1, <1>2, <1>4, <2>1, <2>2, EvalKeeps DEF Finished
<1>. QED BY <1>0, <1>3, <1>4 DEF StoreReport, OrchestratorInd, EvaluationTypes, Reportable

LEMMA TriggerKeeps ==
  ASSUME OrchestratorInd, NEW e \in Callers, Trigger(e)
  PROVE  OrchestratorInd'
<1>0. /\ epc[e] = "trigger" /\ WriterStep(e)
      /\ epc' = [epc EXCEPT ![e] = IF wpc'[e] = "out" THEN "done" ELSE "trigger"]
      /\ UNCHANGED <<score, decision, stored, triggered, results>>
      /\ decision[e].action = "BLOCK" /\ e \in triggered /\ e \in stored
      /\ decision[e].by # "sanctions"
  BY DEF OrchestratorInd, EvaluationOK, Trigger
<1>1. BreakerInd'
  BY <1>0, IncrKeeps, ExpireKeeps, OpenCircuitKeeps DEF WriterStep, OrchestratorInd
<1>2. \A d \in Callers \ {e} : wpc'[d] = wpc[d]
  BY <1>0 DEF WriterStep, Incr, Expire, OpenCircuit, OrchestratorInd, BreakerInd, BreakerTypeOK
<1>3. /\ epc'[e] = IF wpc'[e] = "out" THEN "done" ELSE "trigger"
      /\ \A d \in Callers \ {e} : epc'[d] = epc[d]
      /\ epc' \in [Callers -> {"waiting", "ask", "store", "trigger", "done", "raised", "dead"}]
  BY <1>0 DEF OrchestratorInd, EvaluationTypes
<1>4. EvaluationTypes'
  BY <1>0, <1>3 DEF OrchestratorInd, EvaluationTypes
<1>5. EvaluationOK(e)'
  BY <1>0, <1>3 DEF EvaluationOK, Reportable
<1>. QED BY <1>0, <1>1, <1>2, <1>3, <1>4, <1>5, EvalKeeps DEF Finished

LEMMA BatchReturnKeeps ==
  ASSUME OrchestratorInd, NEW b \in Batches, BatchReturn(b)
  PROVE  OrchestratorInd'
<1>0. /\ \A e \in Members(b) : Finished(e)
      /\ results' = [results EXCEPT ![b] =
           [e \in Members(b) |-> IF epc[e] = "raised" THEN Fallback(5000, "batch")
                                 ELSE decision[e]]]
      /\ UNCHANGED <<epc, decision, stored, triggered, breakerVars>>
  BY DEF BatchReturn
<1>1. BreakerInd' /\ UNCHANGED wpc
  BY <1>0, BreakerStutter DEF OrchestratorInd, breakerVars
<1>2. /\ DOMAIN results' = Batches
      /\ \A e \in Members(b) : results'[b][e] =
            IF epc[e] = "raised" THEN Fallback(5000, "batch") ELSE decision[e]
      /\ \A a \in Batches : a # b => results'[a] = results[a]
  BY <1>0 DEF OrchestratorInd, EvaluationTypes
<1>3. EvaluationTypes'
  BY <1>0, <1>2 DEF OrchestratorInd, EvaluationTypes
<1>4. ASSUME NEW e \in Callers PROVE EvaluationOK(e)'
  BY <1>0, <1>1 DEF OrchestratorInd, EvaluationOK
<1>5. ASSUME NEW e \in Callers PROVE ResultOK(e)'
  <2>1. CASE BatchOf[e] = b
    BY <1>0, <1>2, <2>1, MemberFacts DEF ResultOK, Finished
  <2>2. CASE BatchOf[e] # b
    BY <1>0, <1>2, <2>2, MemberFacts DEF OrchestratorInd, ResultOK, Returned, Finished
  <2>. QED BY <2>1, <2>2
<1>. QED BY <1>1, <1>3, <1>4, <1>5 DEF OrchestratorInd

LEMMA CrashKeeps ==
  ASSUME OrchestratorInd, NEW b \in Batches, Crash(b)
  PROVE  OrchestratorInd'
<1>. DEFINE lost == {e \in Members(b) : ~Finished(e)}
<1>0. /\ epc' = [e \in Callers |-> IF e \in lost THEN "dead" ELSE epc[e]]
      /\ Abandon(lost) /\ lost \in SUBSET Callers
      /\ UNCHANGED <<decision, stored, triggered, results>>
  BY DEF Crash, Members
<1>1. BreakerInd'
  BY <1>0, AbandonKeeps DEF OrchestratorInd
<1>2. \A e \in Callers : /\ epc'[e] = IF e \in lost THEN "dead" ELSE epc[e]
                         /\ wpc'[e] = IF e \in lost THEN "out" ELSE wpc[e]
  BY <1>0 DEF Abandon
<1>3. EvaluationTypes'
  BY <1>0 DEF OrchestratorInd, EvaluationTypes
<1>4. ASSUME NEW e \in Callers PROVE EvaluationOK(e)'
  <2>1. CASE e \in lost
    BY <1>0, <1>2, <2>1 DEF OrchestratorInd, EvaluationOK
  <2>2. CASE e \notin lost
    BY <1>0, <1>2, <2>2 DEF OrchestratorInd, EvaluationOK
  <2>. QED BY <2>1, <2>2
<1>5. ASSUME NEW e \in Callers PROVE ResultOK(e)'
  BY <1>0, <1>2, MemberFacts DEF OrchestratorInd, ResultOK, Returned, Finished
<1>. QED BY <1>1, <1>3, <1>4, <1>5 DEF OrchestratorInd

(* The operator and the clock concern the circuit breaker only.            *)
LEMMA OutsideKeeps ==
  ASSUME OrchestratorInd, Operate \/ TimePasses
  PROVE  OrchestratorInd'
<1>1. BreakerInd'
  <2>1. CASE ManualClose
    <3>1. PICK s \in Symbols : BeginClose({s})
      BY <2>1 DEF ManualClose
    <3>. QED BY <3>1, BeginCloseKeeps DEF OrchestratorInd
  <2>2. CASE ResetAll
    BY <2>2, BeginCloseKeeps DEF ResetAll, OrchestratorInd
  <2>3. CASE OperatorStep
    BY <2>3, CloseSetKeeps, CloseDeleteKeeps DEF OperatorStep, OrchestratorInd
  <2>4. CASE Tick
    BY <2>4, TickKeeps DEF OrchestratorInd
  <2>. QED BY <2>1, <2>2, <2>3, <2>4 DEF Operate, TimePasses
<1>2. UNCHANGED <<epc, decision, stored, triggered, results, wpc>>
  BY DEF Operate, TimePasses, evalVars, ManualClose, ResetAll, BeginClose, OperatorStep,
         CloseSet, CloseDelete, Tick
<1>. QED BY <1>1, <1>2 DEF OrchestratorInd, EvaluationTypes, EvaluationOK, ResultOK,
                           Returned, Finished

LEMMA StepKeeps == OrchestratorInd /\ [Next]_vars => OrchestratorInd'
<1>. SUFFICES ASSUME OrchestratorInd, [Next]_vars PROVE OrchestratorInd'
  OBVIOUS
<1>1. CASE UNCHANGED vars
  <2>1. BreakerInd'
    BY <1>1, BreakerStutter DEF vars, OrchestratorInd
  <2>. QED BY <1>1, <2>1 DEF vars, breakerVars, OrchestratorInd, EvaluationTypes,
                             EvaluationOK, ResultOK, Returned, Finished
<1>2. ASSUME NEW e \in Callers, EvalStep(e) PROVE OrchestratorInd'
  BY <1>2, BeginKeeps, AskKeeps, StoreKeeps, TriggerKeeps DEF EvalStep
<1>. QED BY <1>1, <1>2, BatchReturnKeeps, CrashKeeps, OutsideKeeps DEF Next, Over

LEMMA Invariance == Spec => []OrchestratorInd
BY InitEstablishes, StepKeeps, PTL DEF Spec

-----------------------------------------------------------------------------
(* Between INCR and EXPIRE nothing makes a trigger count live for ever but *)
(* a call that fails or a process that stops.                              *)
THEOREM CountersExpire == Spec => []CounterExpires
<1>1. OrchestratorInd => CounterExpires
  BY DEF OrchestratorInd, BreakerInd, CounterExpires
<1>. QED BY <1>1, Invariance, PTL

(* Without a failure or a race with the operator the circuit opens on the  *)
(* threshold and not before.                                               *)
THEOREM OpensOnTriggers == Spec => []OpenNeedsTriggers
<1>1. OrchestratorInd => OpenNeedsTriggers
  BY DEF OrchestratorInd, BreakerInd, OpenOK, OpenNeedsTriggers
<1>. QED BY <1>1, Invariance, PTL

(* What a batch returns agrees with the reports and the triggers.          *)
THEOREM ResultsAgreeWithEffects == Spec => []ResultsMatchEffects
<1>1. OrchestratorInd => ResultsMatchEffects
  <2>. SUFFICES ASSUME OrchestratorInd, NEW b \in Batches, Returned(b), NEW e \in Members(b)
                PROVE
    LET d == results[b][e] IN
    /\ d.by # "sanctions" /\ d.action = "BLOCK" => e \in stored /\ e \in triggered
    /\ d.by \in {"llm", "fallback"} /\ d.action = "FLAG" => e \in stored /\ e \notin triggered
    /\ d.by = "batch" => d.action = "FLAG" /\ e \notin triggered
    /\ d.action \in {"ALLOW", "ADJUST_LIMIT"} => e \notin stored
    BY DEF ResultsMatchEffects
  <2>1. e \in Callers /\ BatchOf[e] = b
    BY DEF Members
  <2>2. /\ EvaluationOK(e) /\ Finished(e)
        /\ results[b][e] = IF epc[e] = "raised" THEN Fallback(5000, "batch") ELSE decision[e]
        /\ decision[e] \in DecisionType
    BY <2>1 DEF OrchestratorInd, ResultOK, EvaluationTypes
  <2>3. CASE epc[e] = "raised"
    BY <2>2, <2>3, BatchFallback DEF EvaluationOK
  <2>4. CASE epc[e] = "done"
    BY <2>2, <2>4 DEF EvaluationOK, DecisionType, Reportable
  <2>. QED BY <2>2, <2>3, <2>4 DEF Finished
<1>. QED BY <1>1, Invariance, PTL

-----------------------------------------------------------------------------
(* What the flags contribute is an average of their confidences, weighted  *)
(* by what they flag.                                                      *)
LEMMA SeverityWeights == \A type : SeverityWeight(type) \in 2 .. 8
BY DEF SeverityWeight

LEMMA AverageOfConfidences ==
  ASSUME NEW flags, IsFiniteSet(DOMAIN flags),
         \A type \in DOMAIN flags : flags[type] \in 0 .. 100
  PROVE  AnomalyScore(flags) \in 0 .. 100
<1>. DEFINE types    == DOMAIN flags
            weight   == [t \in types |-> SeverityWeight(t)]
            weighted == [t \in types |-> SeverityWeight(t) * flags[t]]
            W        == SumFunctionOnSet(weight, types)
            V        == SumFunctionOnSet(weighted, types)
<1>1. CASE types = {}
  BY <1>1 DEF AnomalyScore
<1>2. CASE types # {}
  <2>1. \A t \in types : weight[t] \in Nat /\ weight[t] > 0  BY SeverityWeights
  <2>2. \A t \in types : weighted[t] \in Nat /\ weighted[t] <= 100 * weight[t]
    <3>1. ASSUME NEW t \in types
          PROVE  weighted[t] \in Nat /\ weighted[t] <= 100 * weight[t]
      <4>1. SeverityWeight(t) \in {2, 3, 4, 5, 6, 7, 8} /\ flags[t] \in 0 .. 100
        BY SeverityWeights
      <4>2. weighted[t] = SeverityWeight(t) * flags[t] /\ weight[t] = SeverityWeight(t)
        OBVIOUS
      <4>. QED BY <4>1, <4>2
    <3>. QED BY <3>1
  <2>. HIDE DEF weight, weighted
  <2>3. PICK t : t \in types  BY <1>2
  <2>4. W \in Nat /\ weight[t] <= W  BY <2>1, <2>3, SumOfNaturals
  <2>5. V \in Nat  BY <2>2, SumOfNaturals
  <2>6. V <= 100 * W  BY <2>1, <2>2, SumIsBounded
  <2>7. AnomalyScore(flags) = V \div W
    BY <1>2 DEF AnomalyScore, weight, weighted
  <2>. HIDE DEF V, W
  <2>8. W > 0  BY <2>1, <2>3, <2>4
  <2>9. V \div W \in 0 .. 100  BY <2>4, <2>5, <2>6, <2>8
  <2>. QED BY <2>7, <2>9
<1>. QED BY <1>1, <1>2

(* The five weights add up to one, and without a sanctions match the other *)
(* four do not reach the score of a BLOCK.  The clamp at the end of        *)
(* calculate_score never has anything to do.                               *)
THEOREM ScoreStaysInRange ==
  ASSUME NEW e \in Callers, NEW r \in Requests[e]
  PROVE  /\ ScoreOf(r) \in Nat /\ ScoreOf(r) <= 10000
         /\ ~r.sanctions => ScoreOf(r) < 8000
<1>. DEFINE anomaly   == AnomalyScore(r.flags)
            tier      == TierScore(r.profile)
            velocity  == VelocityFactor(r.profile)
            size      == SizeFactor(r.value, r.profile)
            sanctions == SanctionsFactor(r.sanctions)
<1>1. anomaly \in 0 .. 100  BY RequestsAssumption, AverageOfConfidences
<1>2. tier \in 10 .. 90  BY DEF TierScore
<1>3. velocity \in 20 .. 90  BY DEF VelocityFactor
<1>4. size \in 20 .. 80  BY DEF SizeFactor
<1>5. sanctions \in {0, 100} /\ (~r.sanctions => sanctions = 0)
  BY RequestsAssumption DEF SanctionsFactor
<1>6. ScoreOf(r) = 30 * anomaly + 20 * tier + 15 * velocity + 15 * size + 20 * sanctions
  BY DEF ScoreOf, Total
<1>. HIDE DEF anomaly, tier, velocity, size, sanctions
<1>. DEFINE A == 30 * anomaly
            T == 20 * tier
            V == 15 * velocity
            Z == 15 * size
            S == 20 * sanctions
<1>7. /\ A \in Nat /\ A <= 3000 /\ T \in Nat /\ T <= 1800
      /\ V \in Nat /\ V <= 1350 /\ Z \in Nat /\ Z <= 1200
  <2>1. A \in Nat /\ A <= 3000  BY <1>1
  <2>2. T \in Nat /\ T <= 1800  BY <1>2
  <2>3. V \in Nat /\ V <= 1350  BY <1>3
  <2>4. Z \in Nat /\ Z <= 1200  BY <1>4
  <2>. QED BY <2>1, <2>2, <2>3, <2>4
<1>8. S \in Nat /\ S <= 2000 /\ (~r.sanctions => S = 0)
  BY <1>5
<1>9. ScoreOf(r) = A + T + V + Z + S
  BY <1>6
<1>. HIDE DEF A, T, V, Z, S
<1>10. /\ A + T + V + Z + S \in Nat /\ A + T + V + Z + S <= 10000
       /\ S = 0 => A + T + V + Z + S < 8000
  BY <1>7, <1>8
<1>. QED BY <1>8, <1>9, <1>10

-----------------------------------------------------------------------------
(* The decisions of the rules that stand in for the LLM.                   *)
LEMMA InitScores == Init => ScoresInd
BY DEF Init, ScoresInd, Pending

LEMMA StepKeepsScores == OrchestratorInd /\ ScoresInd /\ [Next]_vars => ScoresInd'
<1>. SUFFICES ASSUME OrchestratorInd, ScoresInd, [Next]_vars PROVE ScoresInd'
  OBVIOUS
<1>0. decision \in [Callers -> DecisionType]
  BY DEF OrchestratorInd, EvaluationTypes
<1>1. ASSUME NEW e \in Callers, BlockSanctioned(e) PROVE ScoresInd'
  <2>1. /\ decision' = [decision EXCEPT ![e] = [action |-> "BLOCK", by |-> "sanctions"]]
        /\ score' = score
    BY <1>1 DEF BlockSanctioned
  <2>2. decision'[e].by = "sanctions" /\ \A d \in Callers \ {e} : decision'[d] = decision[d]
    BY <2>1, <1>0
  <2>. QED BY <2>1, <2>2 DEF ScoresInd
<1>2. ASSUME NEW e \in Callers, Score(e) PROVE ScoresInd'
  <2>1. PICK r \in Requests[e] : ~r.sanctions /\ score' = [score EXCEPT ![e] = ScoreOf(r)]
    BY <1>2 DEF Score
  <2>. DEFINE n == ScoreOf(r)
  <2>2. n \in Nat /\ n < 8000
    BY <2>1, ScoreStaysInRange
  <2>3. score' = [score EXCEPT ![e] = n]
    BY <2>1
  <2>. HIDE DEF n
  <2>4. /\ score' \in [Callers -> Nat] /\ \A d \in Callers : score'[d] < 8000
        /\ \A d \in Callers \ {e} : score'[d] = score[d]
    BY <2>2, <2>3 DEF ScoresInd
  <2>5. epc[e] = "waiting" /\ decision' = decision
    BY <1>2 DEF Score
  <2>6. decision[e].by = "nobody"
    BY <2>5 DEF OrchestratorInd, EvaluationOK, Pending
  <2>7. ASSUME NEW d \in Callers, decision'[d].by = "fallback"
        PROVE  decision'[d].action = FallbackAction(score[d])'
    <3>1. d # e /\ decision[d].by = "fallback"  BY <2>5, <2>6, <2>7
    <3>2. score'[d] = score[d]  BY <2>4, <3>1
    <3>3. decision[d].action = FallbackAction(score[d])  BY <3>1 DEF ScoresInd
    <3>. QED BY <2>5, <3>2, <3>3 DEF FallbackAction
  <2>8. (\A d \in Callers :
           decision[d].by = "fallback" => decision[d].action = FallbackAction(score[d]))'
    BY <2>7
  <2>. QED BY <2>4, <2>8 DEF ScoresInd
<1>3. ASSUME NEW e \in Callers, AskLLM(e) PROVE ScoresInd'
  <2>1. PICK answer \in Answers : decision' = [decision EXCEPT ![e] = Decide(answer, score[e])]
    BY <1>3 DEF AskLLM
  <2>. DEFINE made == Decide(answer, score[e])
  <2>2. made.by = "fallback" => made.action = FallbackAction(score[e])
    BY DEF Decide, Fallback
  <2>3. decision' = [decision EXCEPT ![e] = made]
    BY <2>1
  <2>. HIDE DEF made
  <2>4. decision'[e] = made /\ \A d \in Callers \ {e} : decision'[d] = decision[d]
    BY <2>3, <1>0
  <2>5. score' = score
    BY <1>3 DEF AskLLM
  <2>. QED BY <2>2, <2>4, <2>5 DEF ScoresInd
<1>4. CASE UNCHANGED <<score, decision>>
  BY <1>4 DEF ScoresInd
<1>5. ASSUME NEW e \in Callers, PromptFails(e) \/ StoreReport(e) \/ Trigger(e)
      PROVE  UNCHANGED <<score, decision>>
  BY <1>5 DEF PromptFails, StoreReport, Trigger
<1>6. ASSUME NEW b \in Batches, BatchReturn(b) \/ Crash(b) PROVE UNCHANGED <<score, decision>>
  BY <1>6 DEF BatchReturn, Crash
<1>7. ASSUME Operate \/ TimePasses \/ Over \/ UNCHANGED vars PROVE UNCHANGED <<score, decision>>
  BY <1>7 DEF Operate, TimePasses, Over, vars, evalVars
<1>. QED BY <1>1, <1>2, <1>3, <1>4, <1>5, <1>6, <1>7 DEF Next, EvalStep

(* Type correctness of the orchestrator and of the circuit breakers.       *)
THEOREM OrchestratorTypeCorrectness == Spec => []OrchestratorTypeOK
<1>1. OrchestratorInd /\ ScoresInd => OrchestratorTypeOK
  <2>. DEFINE range == 0 .. 10000
  <2>1. \A n \in Nat : n < 8000 => n \in range
    OBVIOUS
  <2>. HIDE DEF range
  <2>2. ASSUME ScoresInd PROVE score \in [Callers -> range]
    <3>1. score \in [Callers -> Nat] /\ \A e \in Callers : score[e] < 8000
      BY <2>2 DEF ScoresInd
    <3>2. ASSUME NEW e \in Callers PROVE score[e] \in range
      <4>. DEFINE n == score[e]
      <4>1. n \in Nat /\ n < 8000  BY <3>1
      <4>. HIDE DEF n
      <4>2. n \in range  BY <2>1, <4>1
      <4>. QED BY <4>2 DEF n
    <3>. QED BY <3>1, <3>2
  <2>3. ScoresInd => score \in [Callers -> 0 .. 10000]
    BY <2>2 DEF range
  <2>. QED BY <2>3 DEF OrchestratorInd, BreakerInd, OrchestratorTypeOK
<1>. QED BY <1>1, InitScores, StepKeepsScores, Invariance, PTL DEF Spec

=============================================================================
