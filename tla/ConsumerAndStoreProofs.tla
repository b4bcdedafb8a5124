----------------------- MODULE ConsumerAndStoreProofs -----------------------
(***************************************************************************)
(* What survives: the consumer's offsets, for any number of messages and   *)
(* starts and any size of a batch, and the tables behind the shared        *)
(* connection, for any number of threads, rows, failures and lost          *)
(* connections.                                                            *)
(***************************************************************************)
EXTENDS EventConsumer, IncidentStore, FiniteSetTheorems, SequenceTheorems, TLAPS

-----------------------------------------------------------------------------
(* The Kafka consumers.                                                    *)

LEMMA ConsumerFacts ==
  ASSUME ConsumerTypeOK
  PROVE  /\ Len(log) \in Nat /\ 1 .. Len(log) \subseteq Offsets
         /\ committed \in Int /\ -1 <= committed /\ committed <= Len(log)
         /\ \A c \in Consumers :
              /\ position[c] \in Int /\ 0 <= position[c] /\ position[c] <= Len(log)
              /\ current[c] \in 0 .. Len(log)
         /\ \A o \in Offsets : o \in Int /\ attempts[o] \in Nat /\ unrecorded[o] \in Nat
BY ConsumerAssumption DEF ConsumerTypeOK, Offsets, Never

(* What is accounted for stays so when the log and the histories do not    *)
(* lose anything and no handler forgets its event.                         *)
LEMMA AccountsKept ==
  ASSUME NEW o, Accounted(o), log' = log,
         settled \subseteq settled', cut \subseteq cut', dropped \subseteq dropped',
         \A c \in Consumers : current[c] = o => current'[c] = o \/ o \in settled' \cup cut'
  PROVE  Accounted(o)'
BY DEF Accounted, Good

(* When the assignment of c ends, every event it had taken is either       *)
(* committed or unrecorded.                                                *)
LEMMA EndFacts ==
  ASSUME ConsumerInd, NEW c \in Consumers, owner = c, AssignmentEnds(c),
         committed' \in {committed, position[c]}, attempts' = attempts
  PROVE  /\ Attempts'
         /\ unrecorded' \in [Offsets -> Nat]
         /\ owner' = None
         /\ committed' \in {Never} \cup (0 .. Len(log))
         /\ \A o \in 1 .. committed' : Accounted(o)
<1>1. /\ committed \in Int /\ position[c] \in 0 .. Len(log) /\ committed <= position[c]
      /\ c # None /\ assigned[c] /\ Len(log) \in Nat
      /\ committed \in {Never} \cup (0 .. Len(log))
  BY ConsumerFacts, ConsumerAssumption DEF ConsumerInd, ConsumerTypeOK, Flags
<1>2. ASSUME NEW o \in Offsets
      PROVE  /\ o \in Int /\ attempts[o] \in Nat /\ unrecorded[o] \in Nat
             /\ attempts[o] <= unrecorded[o] + (IF o <= position[c] THEN 1 ELSE 0)
             /\ unrecorded'[o] = IF committed' < o /\ o <= position[c]
                                 THEN unrecorded[o] + 1 ELSE unrecorded[o]
  BY <1>1, ConsumerFacts DEF ConsumerInd, Attempts, Recorded, AssignmentEnds
<1>3. unrecorded' \in [Offsets -> Nat]
  BY <1>2 DEF AssignmentEnds
<1>4. owner' = None
  BY DEF AssignmentEnds
<1>5. Attempts'
  <2>. SUFFICES ASSUME NEW o \in Offsets
                PROVE  attempts[o] <= unrecorded'[o] + (IF o <= committed' THEN 1 ELSE 0)
    BY <1>4 DEF Attempts, Recorded
  <2>. QED BY <1>1, <1>2
<1>6. committed' \in {Never} \cup (0 .. Len(log))
  BY <1>1
<1>7. \A o \in 1 .. committed' : Accounted(o)
  BY <1>1 DEF ConsumerInd
<1>. QED BY <1>3, <1>4, <1>5, <1>6, <1>7

(* What a consumer hands over lies behind its position, and the owner's    *)
(* position records it.                                                    *)
LEMMA HandOverFacts ==
  ASSUME ConsumerInd, NEW c \in Consumers, NEW last \in Int, NEW S, HandOver(c, S),
         position[c] < last, S \subseteq position[c] + 1 .. last,
         position' = [position EXCEPT ![c] = last], owner' = owner, committed' = committed
  PROVE  /\ Attempts'
         /\ attempts' \in [Offsets -> Nat] /\ unrecorded' \in [Offsets -> Nat]
<1>1. position[c] \in Int /\ position \in [Consumers -> 0 .. Len(log)] /\ None \notin Consumers
      /\ owner \in Consumers \cup {None}
  BY ConsumerFacts, ConsumerAssumption DEF ConsumerInd, ConsumerTypeOK
<1>2. ASSUME NEW o \in Offsets
      PROVE  /\ o \in Int /\ attempts[o] \in Nat /\ unrecorded[o] \in Nat
             /\ attempts[o] <= unrecorded[o] + (IF Recorded(o) THEN 1 ELSE 0)
             /\ attempts'[o] = IF o \in S THEN attempts[o] + 1 ELSE attempts[o]
             /\ unrecorded'[o] = IF o \in S /\ owner # c
                                 THEN unrecorded[o] + 1 ELSE unrecorded[o]
             /\ o \in S => position[c] < o /\ o <= last
  BY <1>1, ConsumerFacts DEF ConsumerInd, Attempts, HandOver
<1>3. attempts' \in [Offsets -> Nat] /\ unrecorded' \in [Offsets -> Nat]
  BY <1>2 DEF HandOver
<1>4. ASSUME NEW o \in Offsets
      PROVE  attempts'[o] <= unrecorded'[o] + (IF Recorded(o)' THEN 1 ELSE 0)
  <2>1. CASE owner = c
    <3>1. /\ Recorded(o) <=> o <= position[c]
          /\ Recorded(o)' <=> o <= last
      BY <1>1, <2>1 DEF Recorded
    <3>. QED BY <1>1, <1>2, <2>1, <3>1
  <2>2. CASE owner # c
    <3>1. Recorded(o)' <=> Recorded(o)
      BY <1>1, <2>2 DEF Recorded
    <3>. QED BY <1>2, <2>2, <3>1
  <2>. QED BY <2>1, <2>2
<1>. QED BY <1>3, <1>4 DEF Attempts

LEMMA InitEstablishes == Init => ConsumerInd
<1>. SUFFICES ASSUME Init PROVE ConsumerInd
  OBVIOUS
<1>1. log \in Seq({"event", "malformed"}) /\ Len(log) = 0
  BY DEF Init
<1>2. ConsumerTypeOK
  BY <1>1, ConsumerAssumption DEF Init, ConsumerTypeOK
<1>3. Flags
  BY DEF Init, Flags
<1>4. Attempts
  BY ConsumerAssumption DEF Init, Attempts, Recorded, Offsets, Never
<1>. QED BY <1>2, <1>3, <1>4 DEF Init, ConsumerInd, Never

(* Appending to the log keeps what is in it. *)
LEMMA ProduceFacts ==
  ASSUME ConsumerInd, Produce
  PROVE  /\ log' \in Seq({"event", "malformed"}) /\ Len(log') = Len(log) + 1
         /\ Len(log') <= MaxEvents
         /\ Len(log) \in Nat
         /\ \A o \in 1 .. Len(log) : Good(o)' <=> Good(o)
<1>1. PICK m \in {"event", "malformed"} : log' = Append(log, m)
  BY DEF Produce
<1>2. log \in Seq({"event", "malformed"}) /\ Len(log) \in Nat /\ Len(log) < MaxEvents
  BY DEF ConsumerInd, ConsumerTypeOK, Produce
<1>. QED BY <1>1, <1>2, AppendProperties, ConsumerAssumption DEF Good

LEMMA ProduceKeeps == ASSUME ConsumerInd, Produce PROVE ConsumerInd'
<1>0. /\ UNCHANGED <<committed, owner, rebalances, client, assigned, position, lpc, current,
                     attempts, unrecorded, settled, cut, dropped, crashes, starts>>
      /\ 0 .. Len(log) \subseteq 0 .. Len(log') /\ 1 .. Len(log) \subseteq 1 .. Len(log')
  BY ProduceFacts DEF Produce, group, loop, handed, consumed
<1>1. ConsumerTypeOK'
  <2>1. log' \in Seq({"event", "malformed"}) /\ Len(log') <= MaxEvents
    BY ProduceFacts
  <2>2. position' \in [Consumers -> 0 .. Len(log')] /\ current' \in [Consumers -> 0 .. Len(log')]
    BY <1>0 DEF ConsumerInd, ConsumerTypeOK
  <2>3. committed' \in {Never} \cup (0 .. Len(log'))
    BY <1>0 DEF ConsumerInd, ConsumerTypeOK
  <2>4. settled' \subseteq 1 .. Len(log') /\ cut' \subseteq 1 .. Len(log')
        /\ dropped' \subseteq 1 .. Len(log')
    BY <1>0 DEF ConsumerInd, ConsumerTypeOK
  <2>. QED BY <1>0, <2>1, <2>2, <2>3, <2>4 DEF ConsumerInd, ConsumerTypeOK
<1>2. Flags'
  <2>1. ASSUME NEW c \in Consumers, lpc[c] = "handle" PROVE current[c] \in 1 .. Len(log)
    BY <2>1, ConsumerFacts DEF ConsumerInd, Flags
  <2>. QED BY <1>0, <2>1, ProduceFacts DEF ConsumerInd, Flags
<1>3. Attempts'
  BY <1>0 DEF ConsumerInd, Attempts, Recorded
<1>4. \A o \in 1 .. Len(log) : Accounted(o) => Accounted(o)'
  BY <1>0, ProduceFacts DEF Accounted
<1>5. \A o \in 1 .. committed' : Accounted(o)'
  BY <1>0, <1>4, ConsumerFacts DEF ConsumerInd
<1>6. (\A c \in Consumers : assigned[c] => \A o \in 1 .. position[c] : Accounted(o))'
  <2>. SUFFICES ASSUME NEW c \in Consumers, assigned[c], NEW o \in 1 .. position[c]
                PROVE  Accounted(o)'
    BY <1>0
  <2>. QED BY <1>4, ConsumerFacts DEF ConsumerInd
<1>. QED BY <1>1, <1>2, <1>3, <1>5, <1>6 DEF ConsumerInd

LEMMA StartKeeps ==
  ASSUME ConsumerInd, NEW c \in Consumers, Start(c) \/ ConsumeLoop(c)
  PROVE  ConsumerInd'
<1>0. /\ UNCHANGED <<log, committed, owner, rebalances, assigned, position, current,
                     attempts, unrecorded, settled, cut, dropped, crashes>>
      /\ client' \in {client, [client EXCEPT ![c] = "open"]}
      /\ \/ lpc' = lpc
         \/ lpc[c] = "ended" /\ lpc' = [lpc EXCEPT ![c] = "poll"]
      /\ starts' \in 0 .. MaxStarts
  BY ConsumerAssumption DEF Start, ConsumeLoop, group, loop, handed, consumed,
                            ConsumerInd, ConsumerTypeOK
<1>1. ConsumerTypeOK'
  BY <1>0 DEF ConsumerInd, ConsumerTypeOK
<1>2. Flags'
  BY <1>0 DEF ConsumerInd, ConsumerTypeOK, Flags, Good
<1>3. Attempts'
  BY <1>0 DEF ConsumerInd, Attempts, Recorded
<1>4. \A o : Accounted(o) => Accounted(o)'
  BY <1>0 DEF Accounted, Good
<1>. QED BY <1>0, <1>1, <1>2, <1>3, <1>4 DEF ConsumerInd

LEMMA AssignKeeps == ASSUME ConsumerInd, NEW c \in Consumers, Assign(c) PROVE ConsumerInd'
<1>0. /\ UNCHANGED <<log, committed, rebalances, client, lpc, current,
                     attempts, unrecorded, cut, dropped, crashes, starts>>
      /\ owner = None /\ owner' = c /\ c # None /\ client[c] = "open"
      /\ assigned' = [assigned EXCEPT ![c] = TRUE]
      /\ position' = [position EXCEPT ![c] = FirstPosition]
      /\ settled' = IF committed = Never THEN settled \cup 1 .. Len(log) ELSE settled
  BY ConsumerAssumption DEF Assign, group, loop, handed
<1>1. /\ FirstPosition \in 0 .. Len(log) /\ committed <= FirstPosition
      /\ committed \in Int /\ Len(log) \in Nat /\ FirstPosition \in Int
  BY ConsumerFacts DEF ConsumerInd, ConsumerTypeOK, FirstPosition, Never
<1>. HIDE DEF FirstPosition
<1>2. position'[c] = FirstPosition /\ assigned'[c]
      /\ \A d \in Consumers \ {c} : position'[d] = position[d] /\ assigned'[d] = assigned[d]
  BY <1>0 DEF ConsumerInd, ConsumerTypeOK
<1>3. ConsumerTypeOK'
  <2>1. settled' \subseteq 1 .. Len(log)
    BY <1>0 DEF ConsumerInd, ConsumerTypeOK
  <2>2. position' \in [Consumers -> 0 .. Len(log)] /\ assigned' \in [Consumers -> BOOLEAN]
    BY <1>0, <1>1 DEF ConsumerInd, ConsumerTypeOK
  <2>. QED BY <1>0, <2>1, <2>2 DEF ConsumerInd, ConsumerTypeOK
<1>4. Flags'
  BY <1>0, <1>1, <1>2 DEF ConsumerInd, Flags, Good
<1>5. Attempts'
  <2>. SUFFICES ASSUME NEW o \in Offsets
                PROVE  attempts[o] <= unrecorded[o] + (IF o <= FirstPosition THEN 1 ELSE 0)
    BY <1>0, <1>2 DEF Attempts, Recorded
  <2>1. attempts[o] <= unrecorded[o] + (IF o <= committed THEN 1 ELSE 0)
    BY <1>0 DEF ConsumerInd, Attempts, Recorded
  <2>. QED BY <1>1, <2>1, ConsumerFacts DEF ConsumerInd
<1>6. \A o : Accounted(o) => Accounted(o)'
  BY <1>0, AccountsKept
<1>7. \A o \in 1 .. FirstPosition : Accounted(o)'
  <2>1. CASE committed = Never
    BY <1>0, <2>1 DEF FirstPosition, Accounted
  <2>2. CASE committed # Never
    BY <1>6, <2>2 DEF FirstPosition, ConsumerInd
  <2>. QED BY <2>1, <2>2
<1>8. (\A d \in Consumers : assigned[d] => \A o \in 1 .. position[d] : Accounted(o))'
  BY <1>2, <1>6, <1>7 DEF ConsumerInd
<1>. QED BY <1>0, <1>3, <1>4, <1>5, <1>6, <1>8 DEF ConsumerInd

LEMMA AutoCommitKeeps ==
  ASSUME ConsumerInd, NEW c \in Consumers, AutoCommit(c)
  PROVE  ConsumerInd'
<1>0. /\ UNCHANGED <<log, owner, rebalances, client, assigned, position, lpc, current,
                     attempts, unrecorded, settled, cut, dropped, crashes, starts>>
      /\ owner = c /\ c # None /\ committed' = position[c]
      /\ assigned[c] /\ position[c] \in 0 .. Len(log)
  BY ConsumerAssumption DEF AutoCommit, group, loop, handed, consumed,
                            ConsumerInd, ConsumerTypeOK, Flags
<1>1. ConsumerTypeOK'
  BY <1>0 DEF ConsumerInd, ConsumerTypeOK
<1>2. Flags'
  BY <1>0 DEF ConsumerInd, Flags, Good
<1>3. Attempts'
  BY <1>0 DEF ConsumerInd, Attempts, Recorded
<1>4. \A o : Accounted(o) => Accounted(o)'
  BY <1>0, AccountsKept
<1>. QED BY <1>0, <1>1, <1>2, <1>3, <1>4 DEF ConsumerInd

(* Without the partition a consumer's position does not matter. *)
LEMMA LetgoFacts ==
  ASSUME ConsumerInd, NEW c \in Consumers, Letgo(c)
  PROVE  /\ assigned' \in [Consumers -> BOOLEAN] /\ position' \in [Consumers -> 0 .. Len(log)]
         /\ ~assigned'[c]
         /\ \A d \in Consumers \ {c} : position'[d] = position[d] /\ assigned'[d] = assigned[d]
BY ConsumerFacts DEF ConsumerInd, ConsumerTypeOK, Letgo

LEMMA TakenBackKeeps ==
  ASSUME ConsumerInd, NEW c \in Consumers, Revoke(c) \/ Evict(c)
  PROVE  ConsumerInd'
<1>0. /\ UNCHANGED <<log, client, lpc, current, attempts, settled, cut, dropped, crashes, starts>>
      /\ owner = c /\ committed' \in {committed, position[c]} /\ AssignmentEnds(c)
      /\ Letgo(c) \/ UNCHANGED <<assigned, position>>
      /\ rebalances' \in 0 .. MaxRebalances
  BY ConsumerAssumption DEF Revoke, Evict, loop, consumed, ConsumerInd, ConsumerTypeOK
<1>1. /\ Attempts' /\ unrecorded' \in [Offsets -> Nat] /\ owner' = None
      /\ committed' \in {Never} \cup (0 .. Len(log))
      /\ \A o \in 1 .. committed' : Accounted(o)
  BY <1>0, EndFacts
<1>2. /\ assigned' \in [Consumers -> BOOLEAN] /\ position' \in [Consumers -> 0 .. Len(log)]
      /\ \A d \in Consumers : assigned'[d] => assigned[d] /\ position'[d] = position[d]
  BY <1>0, LetgoFacts DEF ConsumerInd, ConsumerTypeOK
<1>3. ConsumerTypeOK'
  BY <1>0, <1>1, <1>2 DEF ConsumerInd, ConsumerTypeOK
<1>4. Flags'
  BY <1>0, <1>1, <1>2 DEF ConsumerInd, Flags, Good
<1>5. \A o : Accounted(o) => Accounted(o)'
  BY <1>0, AccountsKept
<1>6. (\A d \in Consumers : assigned[d] => \A o \in 1 .. position[d] : Accounted(o))'
  BY <1>2, <1>5 DEF ConsumerInd
<1>. QED BY <1>1, <1>3, <1>4, <1>5, <1>6 DEF ConsumerInd

LEMMA LetgoKeeps ==
  ASSUME ConsumerInd, NEW c \in Consumers, Notice(c) \/ Close(c)
  PROVE  ConsumerInd'
<1>0. /\ UNCHANGED <<log, committed, owner, rebalances, lpc, current, attempts, unrecorded,
                     settled, cut, dropped, crashes, starts>>
      /\ client' \in {client, [client EXCEPT ![c] = "closed"]}
      /\ Letgo(c) /\ owner # c
  BY ConsumerAssumption DEF Notice, Close, group, loop, handed, consumed, ConsumerInd, Flags
<1>1. /\ assigned' \in [Consumers -> BOOLEAN] /\ position' \in [Consumers -> 0 .. Len(log)]
      /\ ~assigned'[c]
      /\ \A d \in Consumers \ {c} : position'[d] = position[d] /\ assigned'[d] = assigned[d]
  BY <1>0, LetgoFacts
<1>2. /\ client' \in [Consumers -> {"closed", "open", "closing"}]
      /\ \A d \in Consumers \ {c} : client'[d] = client[d]
  BY <1>0 DEF ConsumerInd, ConsumerTypeOK
<1>3. owner # None => owner \in Consumers \ {c}
  BY <1>0 DEF ConsumerInd, ConsumerTypeOK
<1>4. ConsumerTypeOK'
  BY <1>0, <1>1, <1>2 DEF ConsumerInd, ConsumerTypeOK
<1>5. Flags'
  BY <1>0, <1>1, <1>2, <1>3 DEF ConsumerInd, Flags, Good
<1>6. Attempts'
  BY <1>0, <1>1, <1>3 DEF ConsumerInd, Attempts, Recorded
<1>7. \A o : Accounted(o) => Accounted(o)'
  BY <1>0, AccountsKept
<1>8. (\A d \in Consumers : assigned[d] => \A o \in 1 .. position[d] : Accounted(o))'
  BY <1>1, <1>7 DEF ConsumerInd
<1>. QED BY <1>0, <1>4, <1>5, <1>6, <1>7, <1>8 DEF ConsumerInd

LEMMA StopKeeps == ASSUME ConsumerInd, NEW c \in Consumers, Stop(c) PROVE ConsumerInd'
<1>0. /\ UNCHANGED <<log, rebalances, assigned, position, lpc, current, attempts,
                     settled, cut, dropped, crashes, starts>>
      /\ client' = [client EXCEPT ![c] = "closing"]
  BY DEF Stop, loop, consumed
<1>1. /\ client' \in [Consumers -> {"closed", "open", "closing"}]
      /\ \A d \in Consumers \ {c} : client'[d] = client[d]
      /\ client'[c] = "closing"
  BY <1>0 DEF ConsumerInd, ConsumerTypeOK
<1>2. /\ Attempts' /\ unrecorded' \in [Offsets -> Nat]
      /\ owner' \in {None, owner} /\ owner' # c
      /\ owner' # None => committed' = committed
      /\ committed' \in {Never} \cup (0 .. Len(log))
      /\ \A o \in 1 .. committed' : Accounted(o)
  <2>1. CASE owner = c
    <3>1. committed' \in {committed, position[c]} /\ AssignmentEnds(c)
      BY <2>1 DEF Stop
    <3>. QED BY <1>0, <2>1, <3>1, EndFacts, ConsumerAssumption
  <2>2. CASE owner # c
    <3>1. UNCHANGED <<owner, committed, unrecorded>>
      BY <2>2 DEF Stop
    <3>. QED BY <1>0, <2>2, <3>1 DEF ConsumerInd, ConsumerTypeOK, Attempts, Recorded
  <2>. QED BY <2>1, <2>2
<1>3. ConsumerTypeOK'
  BY <1>0, <1>1, <1>2 DEF ConsumerInd, ConsumerTypeOK
<1>4. Flags'
  <2>1. owner' # None => owner' = owner /\ owner' \in Consumers \ {c}
    BY <1>2 DEF ConsumerInd, ConsumerTypeOK
  <2>. QED BY <1>0, <1>1, <1>2, <2>1 DEF ConsumerInd, Flags, Good
<1>5. \A o : Accounted(o) => Accounted(o)'
  BY <1>0, AccountsKept
<1>. QED BY <1>0, <1>2, <1>3, <1>4, <1>5 DEF ConsumerInd

LEMMA CrashKeeps == ASSUME ConsumerInd, NEW c \in Consumers, Crash(c) PROVE ConsumerInd'
<1>0. /\ UNCHANGED <<log, committed, rebalances, attempts, settled, dropped, starts>>
      /\ client' = [client EXCEPT ![c] = "closed"] /\ Letgo(c)
      /\ lpc' = [lpc EXCEPT ![c] = "ended"] /\ current' = [current EXCEPT ![c] = 0]
      /\ cut' = IF lpc[c] = "handle" THEN cut \cup {current[c]} ELSE cut
      /\ crashes' = crashes + 1
  BY DEF Crash
<1>1. /\ assigned' \in [Consumers -> BOOLEAN] /\ position' \in [Consumers -> 0 .. Len(log)]
      /\ ~assigned'[c]
      /\ \A d \in Consumers \ {c} : position'[d] = position[d] /\ assigned'[d] = assigned[d]
  BY <1>0, LetgoFacts
<1>2. /\ Attempts' /\ unrecorded' \in [Offsets -> Nat]
      /\ owner' \in {None, owner} /\ owner' # c
  <2>1. CASE owner = c
    <3>1. AssignmentEnds(c)
      BY <2>1 DEF Crash
    <3>. QED BY <1>0, <2>1, <3>1, EndFacts, ConsumerAssumption
  <2>2. CASE owner # c
    <3>1. UNCHANGED <<owner, unrecorded>>
      BY <2>2 DEF Crash
    <3>2. owner # None => owner \in Consumers \ {c}
      BY <2>2 DEF ConsumerInd, ConsumerTypeOK
    <3>. QED BY <1>0, <1>1, <2>2, <3>1, <3>2 DEF ConsumerInd, ConsumerTypeOK, Attempts, Recorded
  <2>. QED BY <2>1, <2>2
<1>3. /\ current[c] \in 0 .. Len(log) /\ Len(log) \in Nat
      /\ lpc[c] = "handle" => current[c] \in 1 .. Len(log)
  BY ConsumerFacts DEF ConsumerInd, Flags
<1>4. ConsumerTypeOK'
  <2>1. cut' \subseteq 1 .. Len(log)
    BY <1>0, <1>3 DEF ConsumerInd, ConsumerTypeOK
  <2>2. current' \in [Consumers -> 0 .. Len(log)]
    BY <1>0, <1>3 DEF ConsumerInd, ConsumerTypeOK
  <2>3. client' \in [Consumers -> {"closed", "open", "closing"}]
        /\ lpc' \in [Consumers -> {"ended", "poll", "handle", "backoff"}]
        /\ crashes' \in Nat
        /\ owner' \in Consumers \cup {None}
    BY <1>0, <1>2 DEF ConsumerInd, ConsumerTypeOK
  <2>. QED BY <1>0, <1>1, <1>2, <2>1, <2>2, <2>3 DEF ConsumerInd, ConsumerTypeOK
<1>5. Flags'
  <2>1. owner' # None => owner' = owner /\ owner' \in Consumers \ {c}
    BY <1>2 DEF ConsumerInd, ConsumerTypeOK
  <2>. QED BY <1>0, <1>1, <2>1 DEF ConsumerInd, ConsumerTypeOK, Flags, Good
<1>6. ASSUME NEW o, o # 0, Accounted(o) PROVE Accounted(o)'
  <2>1. ASSUME NEW d \in Consumers, current[d] = o PROVE current'[d] = o \/ o \in cut'
    BY <1>0, <1>6, <2>1 DEF ConsumerInd, ConsumerTypeOK, Flags
  <2>. QED BY <1>0, <1>6, <2>1, AccountsKept
<1>7. \A o \in 1 .. committed' : Accounted(o)'
  BY <1>0, <1>6, ConsumerFacts DEF ConsumerInd
<1>8. (\A d \in Consumers : assigned[d] => \A o \in 1 .. position[d] : Accounted(o))'
  <2>. SUFFICES ASSUME NEW d \in Consumers, assigned'[d], NEW o \in 1 .. position'[d]
                PROVE  Accounted(o)'
    OBVIOUS
  <2>1. assigned[d] /\ position'[d] = position[d] /\ position[d] \in Int
    BY <1>1, ConsumerFacts DEF ConsumerInd
  <2>. QED BY <1>6, <2>1 DEF ConsumerInd
<1>. QED BY <1>2, <1>4, <1>5, <1>7, <1>8 DEF ConsumerInd

LEMMA PollEventKeeps ==
  ASSUME ConsumerInd, NEW c \in Consumers, PollEvent(c)
  PROVE  ConsumerInd'
<1>p. PICK next \in Int : next = position[c] + 1
  BY ConsumerFacts DEF ConsumerInd
<1>0. /\ UNCHANGED <<log, committed, owner, rebalances, client, assigned,
                     settled, cut, dropped, crashes, starts>>
      /\ lpc[c] = "poll" /\ current[c] = 0 /\ assigned[c] /\ Good(next)
      /\ position' = [position EXCEPT ![c] = next]
      /\ current' = [current EXCEPT ![c] = next]
      /\ lpc' = [lpc EXCEPT ![c] = "handle"]
      /\ HandOver(c, {next})
  BY <1>p DEF PollEvent, Receive, group, consumed, ConsumerInd, ConsumerTypeOK, Flags
<1>1. /\ next \in Int /\ position[c] < next /\ next \in 1 .. Len(log)
      /\ next \in 0 .. Len(log) /\ next # 0 /\ position[c] \in Int
  BY <1>p, ConsumerFacts DEF PollEvent, Receive, ConsumerInd
<1>2. Attempts' /\ attempts' \in [Offsets -> Nat] /\ unrecorded' \in [Offsets -> Nat]
  <2>1. {next} \subseteq position[c] + 1 .. next
    BY <1>p, <1>1
  <2>. QED BY <1>0, <1>1, <2>1, HandOverFacts
<1>3. /\ position'[c] = next /\ \A d \in Consumers \ {c} : position'[d] = position[d]
      /\ current'[c] = next /\ \A d \in Consumers \ {c} : current'[d] = current[d]
      /\ lpc'[c] = "handle" /\ \A d \in Consumers \ {c} : lpc'[d] = lpc[d]
  BY <1>0 DEF ConsumerInd, ConsumerTypeOK
<1>4. ConsumerTypeOK'
  <2>1. /\ position' \in [Consumers -> 0 .. Len(log)] /\ current' \in [Consumers -> 0 .. Len(log)]
        /\ lpc' \in [Consumers -> {"ended", "poll", "handle", "backoff"}]
    BY <1>0, <1>1 DEF ConsumerInd, ConsumerTypeOK
  <2>. QED BY <1>0, <1>2, <2>1 DEF ConsumerInd, ConsumerTypeOK
<1>5. Flags'
  <2>1. ASSUME owner # None PROVE committed <= position'[owner]
    <3>1. /\ owner \in Consumers /\ committed \in Int /\ position[owner] \in Int
          /\ committed <= position[owner]
      BY <2>1, ConsumerFacts DEF ConsumerInd, ConsumerTypeOK, Flags
    <3>. QED BY <1>1, <1>3, <3>1
  <2>. QED BY <1>0, <1>1, <1>3, <2>1 DEF ConsumerInd, Flags, Good
<1>6. ASSUME NEW o, o # 0, Accounted(o) PROVE Accounted(o)'
  <2>1. ASSUME NEW d \in Consumers, current[d] = o PROVE current'[d] = o
    BY <1>0, <1>3, <1>6, <2>1
  <2>. QED BY <1>0, <1>6, <2>1, AccountsKept
<1>7. Accounted(next)'
  BY <1>3 DEF Accounted
<1>8. \A o \in 1 .. committed' : Accounted(o)'
  BY <1>0, <1>6, ConsumerFacts DEF ConsumerInd
<1>9. (\A d \in Consumers : assigned[d] => \A o \in 1 .. position[d] : Accounted(o))'
  <2>. SUFFICES ASSUME NEW d \in Consumers, assigned[d], NEW o \in 1 .. position'[d], o # next
                PROVE  Accounted(o)'
    BY <1>0, <1>7
  <2>1. position[d] \in Int /\ position'[d] \in {position[d], next} /\ (d # c => position'[d] = position[d])
    BY <1>3, ConsumerFacts DEF ConsumerInd
  <2>2. o \in 1 .. position[d]
    BY <1>p, <1>1, <1>3, <2>1
  <2>. QED BY <1>6, <2>1, <2>2 DEF ConsumerInd
<1>. QED BY <1>2, <1>4, <1>5, <1>8, <1>9 DEF ConsumerInd

LEMMA PollMalformedKeeps ==
  ASSUME ConsumerInd, NEW c \in Consumers, PollMalformed(c)
  PROVE  ConsumerInd'
<1>p. PICK next \in Int : next = position[c] + 1
  BY ConsumerFacts DEF ConsumerInd
<1>0. /\ UNCHANGED <<log, committed, owner, rebalances, client, assigned, current,
                     attempts, unrecorded, settled, cut, dropped, crashes, starts>>
      /\ lpc[c] = "poll" /\ assigned[c] /\ ~Good(next)
      /\ position' = [position EXCEPT ![c] = next]
      /\ lpc' = [lpc EXCEPT ![c] = "backoff"]
  BY <1>p DEF PollMalformed, Receive, group, handed, consumed, ConsumerInd, ConsumerTypeOK
<1>1. /\ next \in Int /\ position[c] < next /\ next \in 0 .. Len(log) /\ position[c] \in Int
  BY <1>p, ConsumerFacts DEF PollMalformed, Receive, ConsumerInd
<1>2. Attempts'
  <2>1. HandOver(c, {})
    <3>1. /\ attempts = [o \in Offsets |-> attempts[o]]
          /\ unrecorded = [o \in Offsets |-> unrecorded[o]]
      BY DEF ConsumerInd, ConsumerTypeOK
    <3>. QED BY <1>0, <3>1 DEF HandOver
  <2>. QED BY <1>p, <1>0, <1>1, <2>1, HandOverFacts
<1>3. /\ position'[c] = next /\ \A d \in Consumers \ {c} : position'[d] = position[d]
      /\ lpc'[c] = "backoff" /\ \A d \in Consumers \ {c} : lpc'[d] = lpc[d]
  BY <1>0 DEF ConsumerInd, ConsumerTypeOK
<1>4. ConsumerTypeOK'
  <2>1. /\ position' \in [Consumers -> 0 .. Len(log)]
        /\ lpc' \in [Consumers -> {"ended", "poll", "handle", "backoff"}]
    BY <1>0, <1>1 DEF ConsumerInd, ConsumerTypeOK
  <2>. QED BY <1>0, <2>1 DEF ConsumerInd, ConsumerTypeOK
<1>5. Flags'
  <2>1. ASSUME owner # None PROVE committed <= position'[owner]
    <3>1. /\ owner \in Consumers /\ committed \in Int /\ position[owner] \in Int
          /\ committed <= position[owner]
      BY <2>1, ConsumerFacts DEF ConsumerInd, ConsumerTypeOK, Flags
    <3>. QED BY <1>1, <1>3, <3>1
  <2>. QED BY <1>0, <1>3, <2>1 DEF ConsumerInd, Flags, Good
<1>6. \A o : Accounted(o) => Accounted(o)'
  BY <1>0, AccountsKept
<1>7. Accounted(next)'
  BY <1>0 DEF Accounted, Good
<1>8. (\A d \in Consumers : assigned[d] => \A o \in 1 .. position[d] : Accounted(o))'
  <2>. SUFFICES ASSUME NEW d \in Consumers, assigned[d], NEW o \in 1 .. position'[d], o # next
                PROVE  Accounted(o)'
    BY <1>0, <1>7
  <2>1. position[d] \in Int /\ position'[d] \in {position[d], next} /\ (d # c => position'[d] = position[d])
    BY <1>3, ConsumerFacts DEF ConsumerInd
  <2>2. o \in 1 .. position[d]
    BY <1>p, <1>1, <1>3, <2>1
  <2>. QED BY <1>6, <2>1, <2>2 DEF ConsumerInd
<1>. QED BY <1>0, <1>2, <1>4, <1>5, <1>6, <1>8 DEF ConsumerInd

LEMMA HandlerKeeps ==
  ASSUME ConsumerInd, NEW c \in Consumers, HandlerReturns(c) \/ HandlerRaises(c)
  PROVE  ConsumerInd'
<1>0. PICK next \in {"poll", "ended", "backoff"} :
        /\ UNCHANGED <<log, committed, owner, rebalances, client, assigned, position,
                       attempts, unrecorded, cut, dropped, crashes, starts>>
        /\ lpc[c] = "handle"
        /\ settled' = settled \cup {current[c]}
        /\ current' = [current EXCEPT ![c] = 0]
        /\ lpc' = [lpc EXCEPT ![c] = next]
  BY DEF HandlerReturns, HandlerRaises, Again, group, handed
<1>1. current[c] \in 1 .. Len(log) /\ 0 \in 0 .. Len(log)
  BY <1>0, ConsumerFacts DEF ConsumerInd, Flags
<1>2. ConsumerTypeOK'
  <2>1. settled' \subseteq 1 .. Len(log)
    BY <1>0, <1>1 DEF ConsumerInd, ConsumerTypeOK
  <2>2. /\ current' \in [Consumers -> 0 .. Len(log)]
        /\ lpc' \in [Consumers -> {"ended", "poll", "handle", "backoff"}]
    BY <1>0, <1>1 DEF ConsumerInd, ConsumerTypeOK
  <2>. QED BY <1>0, <2>1, <2>2 DEF ConsumerInd, ConsumerTypeOK
<1>3. /\ lpc'[c] # "handle" /\ current'[c] = 0
      /\ \A d \in Consumers \ {c} : lpc'[d] = lpc[d] /\ current'[d] = current[d]
  BY <1>0 DEF ConsumerInd, ConsumerTypeOK
<1>4. Flags'
  BY <1>0, <1>3 DEF ConsumerInd, Flags, Good
<1>5. Attempts'
  BY <1>0 DEF ConsumerInd, Attempts, Recorded
<1>6. \A o : Accounted(o) => Accounted(o)'
  <2>. SUFFICES ASSUME NEW o, Accounted(o) PROVE Accounted(o)'
    OBVIOUS
  <2>1. ASSUME NEW d \in Consumers, current[d] = o PROVE current'[d] = o \/ o \in settled'
    BY <1>0, <1>3, <2>1
  <2>. QED BY <1>0, <2>1, AccountsKept
<1>. QED BY <1>0, <1>2, <1>4, <1>5, <1>6 DEF ConsumerInd

LEMMA LoopKeeps ==
  ASSUME ConsumerInd, NEW c \in Consumers, BackedOff(c) \/ LoopEnds(c)
  PROVE  ConsumerInd'
<1>0. PICK next \in {"poll", "ended"} :
        /\ UNCHANGED <<log, committed, owner, rebalances, client, assigned, position, current,
                       attempts, unrecorded, settled, cut, dropped, crashes, starts>>
        /\ lpc[c] # "handle"
        /\ lpc' = [lpc EXCEPT ![c] = next]
  BY DEF BackedOff, LoopEnds, Again, group, handed, consumed
<1>1. ConsumerTypeOK'
  BY <1>0 DEF ConsumerInd, ConsumerTypeOK
<1>2. Flags'
  BY <1>0 DEF ConsumerInd, ConsumerTypeOK, Flags, Good
<1>3. Attempts'
  BY <1>0 DEF ConsumerInd, Attempts, Recorded
<1>4. \A o : Accounted(o) => Accounted(o)'
  BY <1>0, AccountsKept
<1>. QED BY <1>0, <1>1, <1>2, <1>3, <1>4 DEF ConsumerInd

LEMMA ProcessBatchKeeps ==
  ASSUME ConsumerInd, NEW c \in Consumers, ProcessBatch(c)
  PROVE  ConsumerInd'
<1>p. PICK old \in 0 .. Len(log) : old = position[c]
  BY ConsumerFacts DEF ConsumerInd
<1>0. PICK last \in old + 1 .. old + BatchSize, returned \in SUBSET Int :
        /\ assigned[c] /\ last <= Len(log) /\ returned \subseteq old + 1 .. last
        /\ position' = [position EXCEPT ![c] = last]
        /\ HandOver(c, returned)
        /\ settled' = settled \cup returned
        /\ dropped' = dropped \cup ((old + 1 .. last) \ returned)
        /\ UNCHANGED <<log, committed, owner, rebalances, client, assigned, lpc, current,
                       cut, crashes, starts>>
  <2>1. PICK last \in old + 1 .. old + BatchSize :
          LET returned == {o \in old + 1 .. last : \A p \in old + 1 .. o : Good(p)} IN
          /\ assigned[c] /\ last <= Len(log)
          /\ position' = [position EXCEPT ![c] = last]
          /\ HandOver(c, returned)
          /\ settled' = settled \cup returned
          /\ dropped' = dropped \cup ((old + 1 .. last) \ returned)
          /\ UNCHANGED <<log, group, client, assigned, loop, cut, crashes, starts>>
    BY <1>p DEF ProcessBatch
  <2>. DEFINE returned == {o \in old + 1 .. last : \A p \in old + 1 .. o : Good(p)}
  <2>2. returned \in SUBSET Int /\ returned \subseteq old + 1 .. last
    OBVIOUS
  <2>3. /\ HandOver(c, returned)
        /\ settled' = settled \cup returned
        /\ dropped' = dropped \cup ((old + 1 .. last) \ returned)
    BY <2>1
  <2>. HIDE DEF returned
  <2>. QED BY <2>1, <2>2, <2>3 DEF group, loop
<1>1. /\ old \in Int /\ last \in Int /\ Len(log) \in Nat /\ old < last
      /\ last \in 0 .. Len(log) /\ old + 1 .. last \subseteq 1 .. Len(log)
  BY <1>p, <1>0, ConsumerFacts, ConsumerAssumption DEF ConsumerInd
<1>2. Attempts' /\ attempts' \in [Offsets -> Nat] /\ unrecorded' \in [Offsets -> Nat]
  BY <1>p, <1>0, <1>1, HandOverFacts
<1>3. position'[c] = last /\ \A d \in Consumers \ {c} : position'[d] = position[d]
  BY <1>0 DEF ConsumerInd, ConsumerTypeOK
<1>4. ConsumerTypeOK'
  <2>1. settled' \subseteq 1 .. Len(log) /\ dropped' \subseteq 1 .. Len(log)
    BY <1>0, <1>1 DEF ConsumerInd, ConsumerTypeOK
  <2>2. position' \in [Consumers -> 0 .. Len(log)]
    BY <1>0, <1>1 DEF ConsumerInd, ConsumerTypeOK
  <2>. QED BY <1>0, <1>2, <2>1, <2>2 DEF ConsumerInd, ConsumerTypeOK
<1>5. Flags'
  <2>1. ASSUME owner # None PROVE committed <= position'[owner]
    <3>1. /\ owner \in Consumers /\ committed \in Int /\ position[owner] \in Int
          /\ committed <= position[owner]
      BY <2>1, ConsumerFacts DEF ConsumerInd, ConsumerTypeOK, Flags
    <3>. QED BY <1>p, <1>1, <1>3, <3>1
  <2>. QED BY <1>0, <2>1 DEF ConsumerInd, Flags, Good
<1>6. \A o : Accounted(o) => Accounted(o)'
  BY <1>0, AccountsKept
<1>7. \A o \in old + 1 .. last : Accounted(o)'
  BY <1>0 DEF Accounted
<1>8. (\A d \in Consumers : assigned[d] => \A o \in 1 .. position[d] : Accounted(o))'
  <2>. SUFFICES ASSUME NEW d \in Consumers, assigned[d], NEW o \in 1 .. position'[d]
                PROVE  Accounted(o)'
    BY <1>0
  <2>1. CASE d # c
    BY <1>3, <1>6, <2>1 DEF ConsumerInd
  <2>2. CASE d = c
    <3>1. o \in 1 .. old \/ o \in old + 1 .. last
      BY <1>1, <1>3, <2>2
    <3>. QED BY <1>p, <1>6, <1>7, <2>2, <3>1 DEF ConsumerInd
  <2>. QED BY <2>1, <2>2
<1>. QED BY <1>0, <1>2, <1>4, <1>5, <1>6, <1>8 DEF ConsumerInd

LEMMA StepKeeps == ConsumerInd /\ [Next]_vars => ConsumerInd'
<1>. SUFFICES ASSUME ConsumerInd, [Next]_vars PROVE ConsumerInd'
  OBVIOUS
<1>1. ASSUME UNCHANGED vars PROVE ConsumerInd'
  BY <1>1 DEF vars, group, loop, handed, consumed, ConsumerInd, ConsumerTypeOK, Flags,
              Attempts, Recorded, Accounted, Good
<1>2. ASSUME NEW c \in Consumers, LoopStep(c) PROVE ConsumerInd'
  BY <1>2, PollEventKeeps, PollMalformedKeeps, HandlerKeeps, LoopKeeps DEF LoopStep
<1>3. ASSUME NEW c \in Consumers, GroupStep(c) PROVE ConsumerInd'
  BY <1>3, AssignKeeps, AutoCommitKeeps, TakenBackKeeps, LetgoKeeps DEF GroupStep
<1>. QED BY <1>1, <1>2, <1>3, ProduceKeeps, StartKeeps, ProcessBatchKeeps,
            StopKeeps, LetgoKeeps, CrashKeeps DEF Next, Idle

(* Whatever is produced, however replicas are started, stopped and killed  *)
(* and the group moves the partition between them: an event is recorded by *)
(* the owner's position or the committed offset, or the group forgot it as *)
(* often as it was taken; and every event below the committed offset, and  *)
(* below the position of a consumer, is accounted for.                     *)
THEOREM ConsumerInvariance == Spec => []ConsumerInd
BY InitEstablishes, StepKeeps, PTL DEF Spec

(* Every hand-over of an event beyond the first has a cause of its own: an *)
(* assignment that ended with the event taken and not committed, or a      *)
(* consumer that took it without the partition.                            *)
THEOREM RedeliveryHasACause == Spec => []RedeliveredForCause
<1>1. ConsumerInd => RedeliveredForCause
  <2>. SUFFICES ASSUME ConsumerInd, NEW o \in Offsets
                PROVE  attempts[o] <= unrecorded[o] + 1
    BY DEF RedeliveredForCause
  <2>1. attempts[o] <= unrecorded[o] + (IF Recorded(o) THEN 1 ELSE 0)
    BY DEF ConsumerInd, Attempts
  <2>. QED BY <2>1, ConsumerFacts DEF ConsumerInd
<1>. QED BY <1>1, ConsumerInvariance, PTL

-----------------------------------------------------------------------------
(* A crash takes one event at most, and a batch loses only what follows a  *)
(* malformed message of the batch.                                         *)
CutByCrashes == IsFiniteSet(cut) /\ Cardinality(cut) <= crashes

DroppedBehind ==
  \A o \in dropped : \E p \in 1 .. o : ~Good(p) /\ o - p < BatchSize

LEMMA CutKept == ASSUME ConsumerInd, [Next]_vars, CutByCrashes PROVE CutByCrashes'
<1>1. crashes \in Nat /\ Cardinality(cut) \in Nat
  BY FS_CardinalityType DEF ConsumerInd, ConsumerTypeOK, CutByCrashes
<1>2. ASSUME NEW c \in Consumers, Crash(c) PROVE CutByCrashes'
  <2>1. crashes' = crashes + 1 /\ cut' \in {cut, cut \cup {current[c]}}
    BY <1>2 DEF Crash
  <2>2. /\ IsFiniteSet(cut \cup {current[c]})
        /\ Cardinality(cut \cup {current[c]}) \in {Cardinality(cut), Cardinality(cut) + 1}
    BY <1>1, FS_AddElement DEF CutByCrashes
  <2>3. /\ IsFiniteSet(cut')
        /\ Cardinality(cut') \in {Cardinality(cut), Cardinality(cut) + 1}
    BY <2>1, <2>2 DEF CutByCrashes
  <2>4. Cardinality(cut') <= crashes'
    BY <1>1, <2>1, <2>3 DEF CutByCrashes
  <2>. QED BY <2>3, <2>4 DEF CutByCrashes
<1>3. CASE ~\E c \in Consumers : Crash(c)
  <2>1. UNCHANGED <<cut, crashes>>
    BY <1>3 DEF Next, vars, consumed, Produce, Start, ConsumeLoop, GroupStep, Assign, AutoCommit,
                Revoke, Evict, Notice, LoopStep, PollEvent, PollMalformed, HandlerReturns,
                HandlerRaises, BackedOff, LoopEnds, ProcessBatch, Stop, Close, Idle
  <2>. QED BY <2>1 DEF CutByCrashes
<1>. QED BY <1>2, <1>3

LEMMA DroppedKept == ASSUME ConsumerInd, [Next]_vars, DroppedBehind PROVE DroppedBehind'
<1>1. CASE Produce
  <2>. SUFFICES ASSUME NEW o \in dropped
                PROVE  \E p \in 1 .. o : (~Good(p))' /\ o - p < BatchSize
    BY <1>1 DEF Produce, consumed, DroppedBehind
  <2>1. PICK p \in 1 .. o : ~Good(p) /\ o - p < BatchSize
    BY DEF DroppedBehind
  <2>2. p \in 1 .. Len(log)
    BY <1>1, ProduceFacts DEF ConsumerInd, ConsumerTypeOK
  <2>. QED BY <1>1, <2>1, <2>2, ProduceFacts
<1>2. ASSUME NEW c \in Consumers, ProcessBatch(c) PROVE DroppedBehind'
  <2>0. PICK last \in position[c] + 1 .. position[c] + BatchSize :
        /\ dropped' = dropped \cup ((position[c] + 1 .. last) \
             {o \in position[c] + 1 .. last : \A p \in position[c] + 1 .. o : Good(p)})
        /\ log' = log
    BY <1>2 DEF ProcessBatch
  <2>1. position[c] \in Nat /\ BatchSize \in Nat
    BY ConsumerAssumption DEF ConsumerInd, ConsumerTypeOK
  <2>. SUFFICES ASSUME NEW o \in dropped'
                PROVE  \E p \in 1 .. o : ~Good(p) /\ o - p < BatchSize
    BY <2>0 DEF DroppedBehind, Good
  <2>2. CASE o \in dropped
    BY <2>2 DEF DroppedBehind
  <2>3. CASE o \notin dropped
    <3>1. /\ o \in position[c] + 1 .. last
          /\ \E p \in position[c] + 1 .. o : ~Good(p)
      BY <2>0, <2>3
    <3>2. PICK p \in position[c] + 1 .. o : ~Good(p)
      BY <3>1
    <3>. QED BY <2>1, <3>1, <3>2
  <2>. QED BY <2>2, <2>3
<1>3. CASE ~Produce /\ ~\E c \in Consumers : ProcessBatch(c)
  <2>1. UNCHANGED <<log, dropped>>
    BY <1>3 DEF Next, vars, consumed, Start, ConsumeLoop, GroupStep, Assign, AutoCommit,
                Revoke, Evict, Notice, LoopStep, PollEvent, PollMalformed, HandlerReturns,
                HandlerRaises, BackedOff, LoopEnds, Stop, Close, Crash, Idle
  <2>. QED BY <2>1 DEF DroppedBehind, Good
<1>. QED BY <1>1, <1>2, <1>3

(* What is committed and yet was not handled is explained: refused, cut    *)
(* off by a crash - one event for each -, lost in a batch behind a         *)
(* malformed message, or older than a consumer without an offset.          *)
THEOREM CommittedIsAccounted == Spec => []LossesAreAccounted
<1>1. Init => CutByCrashes /\ DroppedBehind
  BY FS_EmptySet DEF Init, CutByCrashes, DroppedBehind
<1>2. ConsumerInd /\ CutByCrashes /\ DroppedBehind => LossesAreAccounted
  BY DEF ConsumerInd, CutByCrashes, DroppedBehind, LossesAreAccounted
<1>3. ConsumerInd /\ [Next]_vars /\ CutByCrashes /\ DroppedBehind
        => (CutByCrashes /\ DroppedBehind)'
  BY CutKept, DroppedKept
<1>. QED BY <1>1, <1>2, <1>3, ConsumerInvariance, PTL DEF Spec

-----------------------------------------------------------------------------
(* The Postgres client.                                                    *)


-----------------------------------------------------------------------------
(* What the statements do to the tables. *)

LEMMA TableTypes ==
  ASSUME NEW a \in Tables
  PROVE  /\ a.reports \in [Incidents -> Rows]
         /\ a.audit \in [Logs -> Threads \cup {"none"}]
         /\ a = [reports |-> a.reports, audit |-> a.audit]
BY DEF Tables

LEMMA WithinItself == ASSUME NEW a PROVE Within(a, a)
BY DEF Within

LEMMA WithinTransitive ==
  ASSUME NEW a, NEW b, NEW c, Within(a, b), Within(b, c)
  PROVE  Within(a, c)
BY DEF Within

LEMMA SavedGrows ==
  ASSUME NEW a \in Tables, NEW i \in Incidents
  PROVE  /\ Saved(a, i) \in Tables /\ Within(a, Saved(a, i))
         /\ IsIn([op |-> "save", key |-> i],
                 Saved(a, i))
<1>1. CASE a.reports[i] # "none"
  BY <1>1, WithinItself, TableTypes DEF Saved, IsIn
<1>2. CASE a.reports[i] = "none"
  <2>. DEFINE b == Saved(a, i)
  <2>1. /\ b.audit = a.audit
        /\ b.reports = [a.reports EXCEPT ![i] = "stored"]
        /\ b = [reports |-> b.reports, audit |-> b.audit]
    BY <1>2, TableTypes DEF Saved
  <2>2. /\ b.reports[i] = "stored"
        /\ \A j \in Incidents : j # i => b.reports[j] = a.reports[j]
        /\ b.reports \in [Incidents -> Rows]
    BY <2>1, TableTypes DEF Rows
  <2>3. b \in Tables
    BY <2>1, <2>2, TableTypes DEF Tables
  <2>4. Within(a, b)
    BY <1>2, <2>1, <2>2 DEF Within
  <2>5. IsIn([op |-> "save", key |-> i], b)
    BY <2>2 DEF IsIn
  <2>. QED BY <1>2, <2>3, <2>4, <2>5
<1>. QED BY <1>1, <1>2

LEMMA ReviewedGrows ==
  ASSUME NEW a \in Tables, NEW i \in Incidents
  PROVE  /\ Reviewed(a, i) \in Tables /\ Within(a, Reviewed(a, i))
         /\ IsIn([op |-> IF a.reports[i] # "none" THEN "review" ELSE "missed", key |-> i],
                 Reviewed(a, i))
<1>1. CASE a.reports[i] = "none"
  BY <1>1, WithinItself, TableTypes DEF Reviewed, IsIn
<1>2. CASE a.reports[i] # "none"
  <2>. DEFINE b == Reviewed(a, i)
  <2>1. /\ b.audit = a.audit
        /\ b.reports = [a.reports EXCEPT ![i] = "reviewed"]
        /\ b = [reports |-> b.reports, audit |-> b.audit]
    BY <1>2, TableTypes DEF Reviewed
  <2>2. /\ b.reports[i] = "reviewed"
        /\ \A j \in Incidents : j # i => b.reports[j] = a.reports[j]
        /\ b.reports \in [Incidents -> Rows]
    BY <2>1, TableTypes DEF Rows
  <2>3. b \in Tables
    BY <2>1, <2>2, TableTypes DEF Tables
  <2>4. Within(a, b)
    BY <1>2, <2>1, <2>2 DEF Within
  <2>5. IsIn([op |-> "review", key |-> i], b)
    BY <2>2 DEF IsIn
  <2>. QED BY <1>2, <2>3, <2>4, <2>5
<1>. QED BY <1>1, <1>2

LEMMA LoggedGrows ==
  ASSUME NEW a \in Tables, NEW l \in Logs, NEW t \in Threads
  PROVE  /\ Logged(a, l, t) \in Tables /\ Within(a, Logged(a, l, t))
         /\ IsIn([op |-> "audit", key |-> l], Logged(a, l, t))
<1>1. CASE a.audit[l] # "none"
  BY <1>1, WithinItself DEF Logged, IsIn
<1>2. CASE a.audit[l] = "none"
  <2>. DEFINE b == Logged(a, l, t)
  <2>1. /\ b.reports = a.reports
        /\ b.audit = [a.audit EXCEPT ![l] = t]
        /\ b = [reports |-> b.reports, audit |-> b.audit]
    BY <1>2 DEF Logged, Tables
  <2>2. /\ b.audit[l] = t
        /\ \A k \in Logs : k # l => b.audit[k] = a.audit[k]
        /\ b.audit \in [Logs -> Threads \cup {"none"}]
    BY <2>1, TableTypes
  <2>3. b \in Tables
    BY <2>1, <2>2, TableTypes DEF Tables
  <2>4. Within(a, b)
    BY <1>2, <2>1, <2>2 DEF Within
  <2>5. IsIn([op |-> "audit", key |-> l], b)
    BY <2>2, StoreAssumption DEF IsIn
  <2>. QED BY <2>3, <2>4, <2>5
<1>. QED BY <1>1, <1>2

(* A row that is in the tables stays in tables that hold more. *)
LEMMA IsInGrows ==
  ASSUME NEW m \in Methods \cup {NoWork}, NEW a \in Tables, NEW b \in Tables,
         Within(a, b), IsIn(m, a)
  PROVE  IsIn(m, b)
<1>1. CASE m.op = "save" /\ m.key \in Incidents
  BY <1>1 DEF IsIn, Within
<1>2. CASE m.op = "review" /\ m.key \in Incidents
  BY <1>2 DEF IsIn, Within
<1>3. CASE m.op = "audit" /\ m.key \in Logs
  BY <1>3 DEF IsIn, Within
<1>4. CASE m.op \in {"missed", "none"}
  BY <1>4 DEF IsIn
<1>. QED BY <1>1, <1>2, <1>3, <1>4 DEF Methods, NoWork

-----------------------------------------------------------------------------
LEMMA StoreInitEstablishes == StoreInit => StoreInd
<1>. SUFFICES ASSUME StoreInit PROVE StoreInd
  OBVIOUS
<1>1. Empty \in Tables
  BY DEF Empty, Tables, Rows
<1>2. StoreTypeOK
  BY <1>1, StoreAssumption DEF StoreInit, StoreTypeOK
<1>. QED BY <1>2, WithinItself DEF StoreInit, StoreInd, Between

LEMMA ExecuteKeeps ==
  ASSUME StoreInd, NEW t \in Threads, NEW op, NEW key, NEW after \in Tables,
         [op |-> op, key |-> key] \in Methods,
         Within(view, after), IsIn([op |-> op, key |-> key], after),
         Execute(t, op, key, after)
  PROVE  StoreInd'
<1>1. StoreTypeOK'
  BY DEF StoreInd, StoreTypeOK, Execute, history
<1>2. Between' = Between \cup {t} /\ t \notin Between
  BY DEF StoreInd, StoreTypeOK, Execute, Between
<1>3. [op |-> op, key |-> key] # NoWork
  BY DEF Methods, NoWork
<1>4. \A u \in Threads : /\ work'[u] = IF u = t THEN [op |-> op, key |-> key] ELSE work[u]
                         /\ tpc'[u] = IF u = t THEN "executed" ELSE tpc[u]
  BY DEF StoreInd, StoreTypeOK, Execute
<1>5. /\ dirty' \cup undone' \subseteq Between' /\ dirty' \cap undone' = {}
      /\ \A u \in Threads : tpc'[u] = "executed" <=> work'[u] # NoWork
  BY <1>2, <1>3, <1>4 DEF StoreInd, Execute
<1>6. Within(disk, view)'
  BY WithinTransitive DEF StoreInd, Execute
<1>7. \A u \in dirty' : IsIn(work'[u], view')
  <2>. SUFFICES ASSUME NEW u \in dirty' PROVE IsIn(work'[u], after)
    BY DEF Execute
  <2>1. CASE u = t
    BY <1>4, <2>1
  <2>2. CASE u # t
    BY <1>4, <2>2, IsInGrows DEF StoreInd, StoreTypeOK, Execute
  <2>. QED BY <2>1, <2>2
<1>8. \A u \in Between' \ (dirty' \cup undone') : IsIn(work'[u], disk')
  BY <1>2, <1>4 DEF StoreInd, Execute, Between
<1>9. \A m \in acked' : IsIn(m, disk')
  BY DEF StoreInd, Execute, history
<1>10. tx' = "open"
  BY DEF Execute
<1>. QED BY <1>1, <1>5, <1>6, <1>7, <1>8, <1>9, <1>10 DEF StoreInd, IsIn, Within

LEMMA StatementKeeps ==
  ASSUME StoreInd, NEW t \in Threads, Save(t) \/ Log(t) \/ Review(t)
  PROVE  StoreInd'
<1>0. view \in Tables
  BY DEF StoreInd, StoreTypeOK
<1>1. CASE Save(t)
  <2>1. PICK i \in Incidents : Execute(t, "save", i, Saved(view, i))
    BY <1>1 DEF Save
  <2>2. [op |-> "save", key |-> i] \in Methods
    BY DEF Methods
  <2>. QED BY <1>0, <2>1, <2>2, SavedGrows, ExecuteKeeps
<1>2. CASE Log(t)
  <2>1. PICK l \in Logs : Execute(t, "audit", l, Logged(view, l, t))
    BY <1>2 DEF Log
  <2>2. [op |-> "audit", key |-> l] \in Methods
    BY DEF Methods
  <2>. QED BY <1>0, <2>1, <2>2, LoggedGrows, ExecuteKeeps
<1>3. CASE Review(t)
  <2>. DEFINE op(i) == IF view.reports[i] # "none" THEN "review" ELSE "missed"
  <2>1. PICK i \in Incidents : Execute(t, op(i), i, Reviewed(view, i))
    BY <1>3 DEF Review
  <2>2. [op |-> op(i), key |-> i] \in Methods
    BY DEF Methods
  <2>. QED BY <1>0, <2>1, <2>2, ReviewedGrows, ExecuteKeeps
<1>. QED BY <1>1, <1>2, <1>3

LEMMA ReadKeeps == ASSUME StoreInd, Read PROVE StoreInd'
<1>1. StoreTypeOK'
  BY DEF StoreInd, StoreTypeOK, Read, history
<1>. QED BY <1>1 DEF StoreInd, Read, history, Between, IsIn, Within

LEMMA CommitKeeps ==
  ASSUME StoreInd, NEW t \in Threads, Commit(t)
  PROVE  StoreInd' /\ Within(disk, disk')
<1>0. /\ disk \in Tables /\ view \in Tables /\ Within(disk, view)
      /\ t \in Between /\ work[t] \in Methods
      /\ disk' \in {disk, view} /\ view' = disk' /\ tx' = "none" /\ dirty' = {}
      /\ undone' = undone \ {t}
      /\ Between' = Between \ {t}
      /\ dirty # {} => disk' = view
      /\ \A u \in Threads : /\ work'[u] = IF u = t THEN NoWork ELSE work[u]
                           /\ tpc'[u] = IF u = t THEN "idle" ELSE tpc[u]
  BY DEF StoreInd, StoreTypeOK, Commit, Return, Leave, Between
<1>1. Within(disk, disk') /\ disk' \in Tables
  BY <1>0, WithinItself
<1>2. \A u \in Between \ undone : IsIn(work[u], disk')
  <2>. SUFFICES ASSUME NEW u \in Between \ undone PROVE IsIn(work[u], disk')
    OBVIOUS
  <2>1. CASE u \in dirty
    BY <1>0, <2>1 DEF StoreInd
  <2>2. CASE u \notin dirty
    <3>1. IsIn(work[u], disk) /\ work[u] \in Methods \cup {NoWork}
      BY <2>2 DEF StoreInd, StoreTypeOK, Between
    <3>. QED BY <1>0, <1>1, <3>1, IsInGrows
  <2>. QED BY <2>1, <2>2
<1>3. \A m \in acked' : IsIn(m, disk')
  <2>. SUFFICES ASSUME NEW m \in acked' PROVE IsIn(m, disk')
    OBVIOUS
  <2>1. CASE m \in acked
    <3>1. IsIn(m, disk) /\ m \in Methods \cup {NoWork}
      BY <2>1 DEF StoreInd, StoreTypeOK
    <3>. QED BY <1>0, <1>1, <3>1, IsInGrows
  <2>2. CASE m \notin acked
    <3>1. m = work[t] /\ t \notin undone
      BY <2>2 DEF Commit, Return
    <3>. QED BY <1>0, <1>2, <3>1
  <2>. QED BY <2>1, <2>2
<1>4. StoreTypeOK'
  <2>1. acked' \in SUBSET Methods /\ hollow' \in Nat
    BY <1>0 DEF StoreInd, StoreTypeOK, Commit, Return
  <2>2. /\ tpc' \in [Threads -> {"idle", "executed"}]
        /\ work' \in [Threads -> Methods \cup {NoWork}]
    BY DEF StoreInd, StoreTypeOK, Commit, Return, Leave
  <2>. QED BY <1>0, <1>1, <2>1, <2>2 DEF StoreInd, StoreTypeOK, Commit
<1>5. Within(disk', view')
  BY <1>0, WithinItself
<1>6. \A u \in Between' \ (dirty' \cup undone') : IsIn(work'[u], disk')
  <2>. SUFFICES ASSUME NEW u \in Between \ undone, u # t PROVE IsIn(work'[u], disk')
    BY <1>0
  <2>. QED BY <1>0, <1>2 DEF Between
<1>7. \A u \in Threads : tpc'[u] = "executed" <=> work'[u] # NoWork
  BY <1>0 DEF StoreInd
<1>8. dirty' \cup undone' \subseteq Between' /\ dirty' \cap undone' = {}
  BY <1>0 DEF StoreInd
<1>. QED BY <1>0, <1>1, <1>3, <1>4, <1>5, <1>6, <1>7, <1>8 DEF StoreInd, Within, IsIn

LEMMA CommitRaisesKeeps ==
  ASSUME StoreInd, NEW t \in Threads, CommitRaises(t)
  PROVE  StoreInd'
<1>1. /\ undone' = undone \ {t} /\ dirty' = dirty /\ dirty = {}
      /\ Between' = Between \ {t}
      /\ UNCHANGED <<disk, view, tx, acked>>
      /\ \A u \in Threads : /\ work'[u] = IF u = t THEN NoWork ELSE work[u]
                           /\ tpc'[u] = IF u = t THEN "idle" ELSE tpc[u]
  BY DEF StoreInd, StoreTypeOK, CommitRaises, Leave, Between, history
<1>2. StoreTypeOK'
  BY DEF StoreInd, StoreTypeOK, CommitRaises, Leave, history
<1>3. \A u \in Between' \ (dirty' \cup undone') : IsIn(work'[u], disk')
  BY <1>1 DEF StoreInd, Between
<1>4. \A u \in Threads : tpc'[u] = "executed" <=> work'[u] # NoWork
  BY <1>1 DEF StoreInd
<1>5. dirty' \cup undone' \subseteq Between' /\ dirty' \cap undone' = {}
  BY <1>1 DEF StoreInd
<1>. QED BY <1>1, <1>2, <1>3, <1>4, <1>5 DEF StoreInd, Within, IsIn

LEMMA FailKeeps == ASSUME StoreInd, NEW t \in Threads, Fail(t) PROVE StoreInd'
<1>1. /\ undone' = undone \cup dirty /\ dirty' = {} /\ view' = disk /\ tx' = "aborted"
      /\ UNCHANGED <<disk, tpc, work, acked, hollow, losses>>
      /\ Between' = Between
  BY DEF Fail, Undo, Between, history
<1>2. StoreTypeOK'
  <2>1. faults' \in 0 .. MaxFaults
    BY StoreAssumption DEF StoreInd, StoreTypeOK, Fail
  <2>. QED BY <1>1, <2>1 DEF StoreInd, StoreTypeOK
<1>3. Within(disk', view')
  BY <1>1, WithinItself
<1>4. \A u \in Between' \ (dirty' \cup undone') : IsIn(work'[u], disk')
  BY <1>1 DEF StoreInd
<1>. QED BY <1>1, <1>2, <1>3, <1>4 DEF StoreInd, IsIn

LEMMA LoseConnectionKeeps ==
  ASSUME StoreInd, LoseConnection
  PROVE  StoreInd' /\ Within(disk, disk')
<1>1. /\ undone' = undone \cup dirty /\ dirty' = {} /\ view' = disk' /\ tx' = "lost"
      /\ disk' \in {disk, view}
      /\ UNCHANGED <<tpc, work, acked, hollow, faults>>
      /\ Between' = Between
  BY DEF LoseConnection, Undo, Between, history
<1>2. /\ disk \in Tables /\ disk' \in Tables
      /\ Within(disk, disk') /\ Within(disk', view')
  BY <1>1, WithinItself DEF StoreInd, StoreTypeOK
<1>3. StoreTypeOK'
  <2>1. losses' \in 0 .. MaxLosses
    BY StoreAssumption DEF StoreInd, StoreTypeOK, LoseConnection
  <2>. QED BY <1>1, <1>2, <2>1 DEF StoreInd, StoreTypeOK
<1>4. \A u \in Between' \ (dirty' \cup undone') : IsIn(work'[u], disk')
  <2>. SUFFICES ASSUME NEW u \in Between \ (dirty \cup undone) PROVE IsIn(work[u], disk')
    BY <1>1
  <2>1. IsIn(work[u], disk) /\ work[u] \in Methods \cup {NoWork}
    BY DEF StoreInd, StoreTypeOK, Between
  <2>. QED BY <1>2, <2>1, IsInGrows
<1>5. \A m \in acked' : IsIn(m, disk')
  BY <1>1, <1>2, IsInGrows DEF StoreInd, StoreTypeOK
<1>6. dirty' \cup undone' \subseteq Between' /\ dirty' \cap undone' = {}
  BY <1>1 DEF StoreInd
<1>. QED BY <1>1, <1>2, <1>3, <1>4, <1>5, <1>6 DEF StoreInd, IsIn

LEMMA RestartKeeps == ASSUME StoreInd, Restart PROVE StoreInd'
<1>1. /\ undone' = {} /\ dirty' = {} /\ view' = disk /\ tx' = "none"
      /\ UNCHANGED <<disk, acked, hollow, faults>>
      /\ tpc' = [u \in Threads |-> "idle"] /\ work' = [u \in Threads |-> NoWork]
      /\ Between' = {}
  BY DEF Restart, Between, history
<1>2. StoreTypeOK'
  <2>1. losses' \in 0 .. MaxLosses
    BY StoreAssumption DEF StoreInd, StoreTypeOK, Restart
  <2>. QED BY <1>1, <2>1 DEF StoreInd, StoreTypeOK
<1>3. Within(disk', view')
  BY <1>1, WithinItself
<1>. QED BY <1>1, <1>2, <1>3 DEF StoreInd, IsIn

LEMMA StoreStepKeeps == StoreInd /\ [StoreNext]_storeVars => StoreInd' /\ Within(disk, disk')
<1>. SUFFICES ASSUME StoreInd, [StoreNext]_storeVars PROVE StoreInd' /\ Within(disk, disk')
  OBVIOUS
<1>1. CASE UNCHANGED storeVars
  <2>1. StoreInd'
    BY <1>1 DEF storeVars, history, StoreInd, StoreTypeOK, Between, Within, IsIn
  <2>. QED BY <1>1, <2>1, WithinItself DEF storeVars
<1>2. ASSUME NEW t \in Threads, Save(t) \/ Log(t) \/ Review(t)
      PROVE  StoreInd' /\ Within(disk, disk')
  <2>1. disk' = disk
    BY <1>2 DEF Save, Log, Review, Execute
  <2>. QED BY <1>2, <2>1, StatementKeeps, WithinItself
<1>3. ASSUME NEW t \in Threads, CommitRaises(t) \/ Fail(t)
      PROVE  StoreInd' /\ Within(disk, disk')
  <2>1. disk' = disk
    BY <1>3 DEF CommitRaises, Fail
  <2>. QED BY <1>3, <2>1, CommitRaisesKeeps, FailKeeps, WithinItself
<1>4. ASSUME Read \/ Restart
      PROVE  StoreInd' /\ Within(disk, disk')
  <2>1. disk' = disk
    BY <1>4 DEF Read, Restart
  <2>. QED BY <1>4, <2>1, ReadKeeps, RestartKeeps, WithinItself
<1>. QED BY <1>1, <1>2, <1>3, <1>4, CommitKeeps, LoseConnectionKeeps DEF StoreNext, Stuck

(* The connection sees what is committed and what the threads between      *)
(* execute and commit have written, and nothing else.                      *)
THEOREM StoreInvariance == StoreSpec => []StoreInd
BY StoreInitEstablishes, StoreStepKeeps, PTL DEF StoreSpec

(* Reports keep their review and audit entries their writer.               *)
THEOREM HistoryKept == StoreSpec => HistoryIsKept
<1>1. StoreInd /\ [StoreNext]_storeVars => [Within(disk, disk')]_storeVars
  BY StoreStepKeeps
<1>. QED BY <1>1, StoreInvariance, PTL DEF StoreSpec, HistoryIsKept

-----------------------------------------------------------------------------
PoisonStep ==
  Poisoned /\ tx' # "none" => (Poisoned' \/ tx' = "lost") /\ UNCHANGED <<disk, acked>>

(* A connection poisoned by a failed statement stores and acknowledges     *)
(* nothing more, until it is lost or the process starts again.             *)
THEOREM PoisonStays == StoreSpec => PoisonLasts
<1>1. ASSUME StoreInd, [StoreNext]_storeVars PROVE [PoisonStep]_storeVars
  <2>. SUFFICES ASSUME Poisoned, tx' # "none"
                PROVE  (Poisoned' \/ tx' = "lost") /\ UNCHANGED <<disk, acked>>
    BY DEF PoisonStep
  <2>1. ASSUME NEW t \in Threads
        PROVE  ~(Save(t) \/ Log(t) \/ Review(t) \/ Commit(t) \/ CommitRaises(t) \/ Fail(t))
    BY DEF Poisoned, Save, Log, Review, Execute, Usable, Commit, CommitRaises, Fail
  <2>2. CASE LoseConnection
    BY <2>2 DEF LoseConnection, Poisoned, StoreInd, history
  <2>3. CASE UNCHANGED storeVars
    BY <2>3 DEF storeVars, Poisoned, Between
  <2>. QED BY <1>1, <2>1, <2>2, <2>3 DEF StoreNext, Read, Usable, Restart, Stuck, Poisoned
<1>. QED BY <1>1, StoreInvariance, PTL DEF StoreSpec, PoisonLasts, PoisonStep

-----------------------------------------------------------------------------
(* How many threads a failed statement can send home for nothing.          *)
Others == Cardinality(Threads) - 1

HollowBounded ==
  /\ hollow <= faults * Others
  /\ tx # "lost" => hollow + Cardinality(undone) <= faults * Others

LEMMA UndoneIsFinite ==
  ASSUME StoreInd
  PROVE  /\ IsFiniteSet(undone) /\ Cardinality(undone) \in Nat
         /\ Cardinality(Threads) \in Nat /\ hollow \in Nat /\ faults \in Nat
         /\ undone \subseteq Threads
  BY FS_Subset, FS_CardinalityType, StoreAssumption DEF StoreInd, StoreTypeOK

LEMMA HollowKept ==
  ASSUME StoreInd, [StoreNext]_storeVars, HollowBounded
  PROVE  HollowBounded'
<1>. DEFINE others == Others
<1>0. StoreInd'
  BY StoreStepKeeps
<1>1. others \in Int
  BY UndoneIsFinite DEF Others
<1>2. ASSUME UNCHANGED <<hollow, faults>>, tx' # "lost" => undone' \subseteq undone /\ tx # "lost"
      PROVE  HollowBounded'
  <2>1. undone' \subseteq undone => Cardinality(undone') <= Cardinality(undone)
    BY FS_Subset, UndoneIsFinite
  <2>2. Cardinality(undone') \in Nat
    BY <1>0, UndoneIsFinite, FS_CardinalityType, FS_Subset, StoreAssumption DEF StoreInd, StoreTypeOK
  <2>3. faults * others \in Int
    BY <1>1, UndoneIsFinite
  <2>. HIDE DEF others
  <2>4. others = Others
    BY DEF others
  <2>. QED BY <1>2, <2>1, <2>2, <2>3, <2>4, UndoneIsFinite DEF HollowBounded
<1>3. CASE \E t \in Threads : Commit(t)
  <2>1. PICK t \in Threads : Commit(t)
    BY <1>3
  <2>2. /\ undone' = undone \ {t} /\ tx # "lost" /\ tx' = "none" /\ faults' = faults
        /\ hollow' = IF t \in undone THEN hollow + 1 ELSE hollow
    BY <2>1 DEF Commit, Return, Leave
  <2>3. Cardinality(undone') = IF t \in undone THEN Cardinality(undone) - 1
                               ELSE Cardinality(undone)
    BY <2>2, FS_RemoveElement, UndoneIsFinite
  <2>4. faults * others \in Int
    BY <1>1, UndoneIsFinite
  <2>. HIDE DEF others
  <2>5. others = Others
    BY DEF others
  <2>6. Cardinality(undone) \in Nat /\ Cardinality(undone') \in Nat
    BY <1>0, UndoneIsFinite, FS_CardinalityType, FS_Subset, StoreAssumption DEF StoreInd, StoreTypeOK
  <2>. QED BY <2>2, <2>3, <2>4, <2>5, <2>6, UndoneIsFinite DEF HollowBounded
<1>4. CASE \E t \in Threads : Fail(t)
  <2>1. PICK t \in Threads : Fail(t)
    BY <1>4
  <2>2. /\ undone' = undone \cup dirty /\ faults' = faults + 1 /\ hollow' = hollow
        /\ tx' # "lost"
    BY <2>1 DEF Fail, Undo, history
  <2>3. undone' \subseteq Threads \ {t}
    BY <2>1, <2>2 DEF StoreInd, StoreTypeOK, Fail, Between
  <2>4. /\ IsFiniteSet(Threads \ {t}) /\ Cardinality(Threads \ {t}) = others
    BY FS_RemoveElement, StoreAssumption DEF Others
  <2>5. Cardinality(undone') <= others /\ Cardinality(undone') \in Nat
    BY <2>3, <2>4, FS_Subset, FS_CardinalityType
  <2>6. (faults + 1) * others = faults * others + others /\ faults * others \in Int
    BY <1>1, UndoneIsFinite
  <2>. HIDE DEF others
  <2>7. others = Others
    BY DEF others
  <2>. QED BY <1>1, <2>2, <2>5, <2>6, <2>7, UndoneIsFinite DEF HollowBounded
<1>5. CASE Restart
  <2>1. undone' = {} /\ UNCHANGED <<hollow, faults>>
    BY <1>5 DEF Restart, history
  <2>. QED BY <2>1, FS_EmptySet, UndoneIsFinite DEF HollowBounded
<1>6. CASE LoseConnection
  BY <1>2, <1>6 DEF LoseConnection, history
<1>7. CASE \E t \in Threads : Save(t) \/ Log(t) \/ Review(t)
  BY <1>2, <1>7 DEF Save, Log, Review, Execute, Usable, history
<1>8. CASE \E t \in Threads : CommitRaises(t)
  BY <1>2, <1>8 DEF CommitRaises, Leave, history
<1>9. CASE Read \/ UNCHANGED storeVars
  BY <1>2, <1>9 DEF Read, Usable, history, storeVars
<1>. QED BY <1>3, <1>4, <1>5, <1>6, <1>7, <1>8, <1>9 DEF StoreNext, Stuck

(* What a method was told is stored is stored, and the number of methods   *)
(* that return for nothing is bounded by the statements that failed.       *)
THEOREM AcknowledgedStored == StoreSpec => []AcknowledgedIsStored
<1>1. StoreInit => HollowBounded
  BY FS_EmptySet, FS_CardinalityType, StoreAssumption DEF StoreInit, HollowBounded, Others
<1>2. StoreInd /\ HollowBounded => AcknowledgedIsStored
  BY DEF StoreInd, HollowBounded, Others, AcknowledgedIsStored
<1>3. StoreInd /\ [StoreNext]_storeVars /\ HollowBounded => HollowBounded'
  BY HollowKept
<1>. QED BY <1>1, <1>2, <1>3, StoreInvariance, PTL DEF StoreSpec

=============================================================================
