--------------------------- MODULE EventConsumer ----------------------------
(***************************************************************************)
(* KafkaEventConsumer (consumer/kafka_consumer.py): the replicas of the    *)
(* guardrail (infra/k8s/guardrail-deployment.yaml) in one consumer group   *)
(* on one partition.  The group gives the partition to one consumer at a   *)
(* time.  A consumer's position moves when it takes a message; the client  *)
(* library commits it now and then, whatever has become of the messages    *)
(* taken (enable_auto_commit).  A consumer without a committed offset      *)
(* begins at the end of the log ("latest").                                *)
(*                                                                         *)
(* The group and the client library are external: a consumer that the      *)
(* group gave up, because it sent no heartbeat for a session timeout, goes *)
(* on with the partition until it notices, but its commits are refused.    *)
(* Offsets count from 1; a position or a committed offset is the number of *)
(* messages before it.                                                     *)
(***************************************************************************)
EXTENDS Integers, Sequences, FiniteSets

CONSTANTS
  Consumers,     \* the replicas
  None,          \* no replica
  MaxEvents,     \* bound: the messages produced
  MaxStarts,     \* bound: starts of all replicas together
  MaxRebalances, \* bound: assignments taken back from a consumer
  BatchSize      \* max_records of process_batch

ASSUME ConsumerAssumption ==
  /\ MaxEvents \in Nat /\ MaxStarts \in Nat /\ MaxRebalances \in Nat
  /\ BatchSize \in Nat \ {0} /\ None \notin Consumers

VARIABLES
  log,         \* the messages of the partition: events, or malformed
  committed,   \* the committed offset of the group, Never before the first commit
  owner,       \* the consumer to which the group has assigned the partition
  client,      \* the Kafka client; self.running while it is "open"
  assigned,    \* the client believes that the partition is its own
  position,    \* the client's position, 0 without the partition
  lpc,         \* where consume_loop is
  current,     \* the offset the handler is working on
  attempts,    \* history: how often an event was handed to a handler or returned in a batch
  unrecorded,  \* history: how often an event was taken and this was lost to the group
  settled,     \* history: handled or refused, returned in a batch, passed over by "latest"
  cut,         \* history: the events a handler was working on at a crash
  dropped,     \* history: the messages a batch fetched and did not return
  starts,      \* bound: starts
  rebalances,  \* bound: assignments taken back
  crashes      \* history: crashes

group    == <<owner, committed, rebalances>>
loop     == <<lpc, current>>
consumed == <<settled, cut, dropped, crashes>>
handed   == <<attempts, unrecorded>>
vars == <<log, group, client, assigned, position, loop, handed, consumed, starts>>

-----------------------------------------------------------------------------
Never   == -1
Offsets == 1 .. MaxEvents
Good(o) == log[o] = "event"

ConsumerTypeOK ==
  /\ log \in Seq({"event", "malformed"}) /\ Len(log) <= MaxEvents
  /\ committed \in {Never} \cup (0 .. Len(log))
  /\ owner \in Consumers \cup {None}
  /\ client \in [Consumers -> {"closed", "open", "closing"}]
  /\ assigned \in [Consumers -> BOOLEAN]
  /\ position \in [Consumers -> 0 .. Len(log)]
  /\ lpc \in [Consumers -> {"ended", "poll", "handle", "backoff"}]
  /\ current \in [Consumers -> 0 .. Len(log)]
  /\ attempts \in [Offsets -> Nat] /\ unrecorded \in [Offsets -> Nat]
  /\ settled \subseteq 1 .. Len(log)
  /\ cut \subseteq 1 .. Len(log) /\ dropped \subseteq 1 .. Len(log)
  /\ starts \in 0 .. MaxStarts /\ rebalances \in 0 .. MaxRebalances /\ crashes \in Nat

Init ==
  /\ log = <<>> /\ committed = Never /\ owner = None
  /\ client = [c \in Consumers |-> "closed"]
  /\ assigned = [c \in Consumers |-> FALSE]
  /\ position = [c \in Consumers |-> 0]
  /\ lpc = [c \in Consumers |-> "ended"]
  /\ current = [c \in Consumers |-> 0]
  /\ attempts = [o \in Offsets |-> 0] /\ unrecorded = [o \in Offsets |-> 0]
  /\ settled = {} /\ cut = {} /\ dropped = {}
  /\ starts = 0 /\ rebalances = 0 /\ crashes = 0

-----------------------------------------------------------------------------
(* The publishers append. *)
Produce ==
  /\ Len(log) < MaxEvents
  /\ \E m \in {"event", "malformed"} : log' = Append(log, m)
  /\ UNCHANGED <<group, client, assigned, position, loop, handed, consumed, starts>>

(* start(): a client that joins the group.  The service starts one that it *)
(* does not have.                                                          *)
Start(c) ==
  /\ client[c] = "closed" /\ starts < MaxStarts
  /\ starts' = starts + 1
  /\ client' = [client EXCEPT ![c] = "open"]
  /\ UNCHANGED <<log, group, assigned, position, loop, handed, consumed>>

(* consume_loop() is called; without running it returns at once. *)
ConsumeLoop(c) ==
  /\ lpc[c] = "ended" /\ client[c] = "open"
  /\ lpc' = [lpc EXCEPT ![c] = "poll"]
  /\ UNCHANGED <<log, group, client, assigned, position, current, handed, consumed, starts>>

-----------------------------------------------------------------------------
(* The group. *)

(* Mutant: the committed offset is not used. *)
FirstPositionLatest == Len(log)

(* auto_offset_reset *)
FirstPosition == IF committed = Never THEN Len(log) ELSE committed

Assign(c) ==
  /\ client[c] = "open" /\ owner = None /\ ~assigned[c]
  /\ owner' = c
  /\ assigned' = [assigned EXCEPT ![c] = TRUE]
  /\ position' = [position EXCEPT ![c] = FirstPosition]
  /\ settled' = IF committed = Never THEN settled \cup 1 .. Len(log) ELSE settled
  /\ UNCHANGED <<log, committed, rebalances, client, loop, handed, cut, dropped, crashes, starts>>

(* The client commits its position, every few seconds. *)
AutoCommit(c) ==
  /\ owner = c
  /\ committed' = position[c]
  /\ UNCHANGED <<log, owner, rebalances, client, assigned, position, loop, handed, consumed, starts>>

Letgo(c) ==
  /\ assigned' = [assigned EXCEPT ![c] = FALSE]
  /\ position' = [position EXCEPT ![c] = 0]

(* The group takes the partition from c: what c took and did not commit is *)
(* unknown to it.                                                          *)
AssignmentEnds(c) ==
  /\ owner' = None
  /\ unrecorded' = [o \in Offsets |->
       IF committed' < o /\ o <= position[c] THEN unrecorded[o] + 1 ELSE unrecorded[o]]

(* A rebalance: c commits, which may fail, and lets go. *)
Revoke(c) ==
  /\ owner = c /\ rebalances < MaxRebalances
  /\ rebalances' = rebalances + 1
  /\ committed' \in {committed, position[c]}
  /\ AssignmentEnds(c) /\ Letgo(c)
  /\ UNCHANGED <<log, client, loop, attempts, consumed, starts>>

(* The session of c times out, and c does not know. *)
Evict(c) ==
  /\ owner = c /\ rebalances < MaxRebalances
  /\ rebalances' = rebalances + 1
  /\ committed' = committed
  /\ AssignmentEnds(c)
  /\ UNCHANGED <<log, client, assigned, position, loop, attempts, consumed, starts>>

Notice(c) ==
  /\ assigned[c] /\ owner # c /\ client[c] = "open"
  /\ Letgo(c)
  /\ UNCHANGED <<log, group, client, loop, handed, consumed, starts>>

-----------------------------------------------------------------------------
(* Taking messages. *)

Running(c) == client[c] = "open"

(* Consumer c hands over the events of S; the group learns of it by a      *)
(* commit, which only the owner can make.                                  *)
HandOver(c, S) ==
  /\ attempts' = [o \in Offsets |-> IF o \in S THEN attempts[o] + 1 ELSE attempts[o]]
  /\ unrecorded' = [o \in Offsets |->
       IF o \in S /\ owner # c THEN unrecorded[o] + 1 ELSE unrecorded[o]]

(* getone, which may have been waiting since before stop(), has a message. *)
Receive(c) ==
  /\ lpc[c] = "poll" /\ assigned[c] /\ position[c] < Len(log)
  /\ position' = [position EXCEPT ![c] = @ + 1]

(* The event is parsed and handed over with no suspension in between. *)
PollEvent(c) ==
  /\ Receive(c) /\ Good(position[c] + 1)
  /\ current' = [current EXCEPT ![c] = position[c] + 1]
  /\ HandOver(c, {position[c] + 1})
  /\ lpc' = [lpc EXCEPT ![c] = "handle"]
  /\ UNCHANGED <<log, group, client, assigned, consumed, starts>>

(* Mutant: the message is left to be read again. *)
PollMalformedAgain(c) ==
  /\ lpc[c] = "poll" /\ assigned[c] /\ position[c] < Len(log)
  /\ ~Good(position[c] + 1)
  /\ lpc' = [lpc EXCEPT ![c] = "backoff"]
  /\ UNCHANGED <<log, group, client, assigned, position, current, handed, consumed, starts>>

(* The message cannot be parsed. *)
PollMalformed(c) ==
  /\ Receive(c) /\ ~Good(position[c] + 1)
  /\ lpc' = [lpc EXCEPT ![c] = "backoff"]
  /\ UNCHANGED <<log, group, client, assigned, current, handed, consumed, starts>>

(* while self.running *)
Again(c) == lpc' = [lpc EXCEPT ![c] = IF Running(c) THEN "poll" ELSE "ended"]

HandlerReturns(c) ==
  /\ lpc[c] = "handle"
  /\ settled' = settled \cup {current[c]}
  /\ current' = [current EXCEPT ![c] = 0]
  /\ Again(c)
  /\ UNCHANGED <<log, group, client, assigned, position, handed, cut, dropped, crashes, starts>>

(* Mutant: the event is tried again. *)
HandlerRaisesRewind(c) ==
  /\ lpc[c] = "handle"
  /\ settled' = settled \cup {current[c]}
  /\ position' = IF assigned[c] THEN [position EXCEPT ![c] = current[c] - 1] ELSE position
  /\ current' = [current EXCEPT ![c] = 0]
  /\ lpc' = [lpc EXCEPT ![c] = "backoff"]
  /\ UNCHANGED <<log, group, client, assigned, handed, cut, dropped, crashes, starts>>

(* The exception is counted and raised again; the loop logs it and sleeps. *)
HandlerRaises(c) ==
  /\ lpc[c] = "handle"
  /\ settled' = settled \cup {current[c]}
  /\ current' = [current EXCEPT ![c] = 0]
  /\ lpc' = [lpc EXCEPT ![c] = "backoff"]
  /\ UNCHANGED <<log, group, client, assigned, position, handed, cut, dropped, crashes, starts>>

BackedOff(c) ==
  /\ lpc[c] = "backoff" /\ Again(c)
  /\ UNCHANGED <<log, group, client, assigned, position, current, handed, consumed, starts>>

(* The poll timed out, or failed with the client closed, and running was   *)
(* cleared.                                                                *)
LoopEnds(c) ==
  /\ lpc[c] = "poll" /\ ~Running(c)
  /\ lpc' = [lpc EXCEPT ![c] = "ended"]
  /\ UNCHANGED <<log, group, client, assigned, position, current, handed, consumed, starts>>

(* process_batch parses what getmany fetched until a message is malformed; *)
(* the exception is swallowed and the rest of the batch is gone.           *)
ProcessBatch(c) ==
  \E last \in position[c] + 1 .. position[c] + BatchSize :
    LET fetched  == position[c] + 1 .. last
        returned == {o \in fetched : \A p \in position[c] + 1 .. o : Good(p)} IN
    /\ assigned[c] /\ last <= Len(log)
    /\ position' = [position EXCEPT ![c] = last]
    /\ HandOver(c, returned)
    /\ settled' = settled \cup returned
    /\ dropped' = dropped \cup (fetched \ returned)
    /\ UNCHANGED <<log, group, client, assigned, loop, cut, crashes, starts>>

-----------------------------------------------------------------------------
(* stop(): the loop is told to end; the client commits, which may fail,    *)
(* and leaves the group; the handler may still be at work.                 *)
Stop(c) ==
  /\ client[c] = "open"
  /\ client' = [client EXCEPT ![c] = "closing"]
  /\ IF owner = c
     THEN committed' \in {committed, position[c]} /\ AssignmentEnds(c)
     ELSE UNCHANGED <<owner, committed, unrecorded>>
  /\ UNCHANGED <<log, rebalances, assigned, position, loop, attempts, consumed, starts>>

(* The last part of stop(): nothing is delivered any more. *)
Close(c) ==
  /\ client[c] = "closing"
  /\ client' = [client EXCEPT ![c] = "closed"]
  /\ Letgo(c)
  /\ UNCHANGED <<log, group, loop, handed, consumed, starts>>

(* The process is gone, also with a handler that outlives stop(); the      *)
(* group may take its time to notice.                                      *)
Crash(c) ==
  /\ client[c] # "closed" \/ lpc[c] # "ended"
  /\ crashes' = crashes + 1
  /\ client' = [client EXCEPT ![c] = "closed"]
  /\ Letgo(c)
  /\ committed' = committed
  /\ IF owner = c THEN AssignmentEnds(c) ELSE UNCHANGED <<owner, unrecorded>>
  /\ lpc' = [lpc EXCEPT ![c] = "ended"]
  /\ current' = [current EXCEPT ![c] = 0]
  /\ cut' = IF lpc[c] = "handle" THEN cut \cup {current[c]} ELSE cut
  /\ UNCHANGED <<log, rebalances, attempts, settled, dropped, starts>>

(* Nothing left but to wait. *)
Idle == starts = MaxStarts /\ UNCHANGED vars

LoopStep(c) == PollEvent(c) \/ PollMalformed(c) \/ HandlerReturns(c) \/ HandlerRaises(c)
               \/ BackedOff(c) \/ LoopEnds(c)

GroupStep(c) == Assign(c) \/ AutoCommit(c) \/ Revoke(c) \/ Evict(c) \/ Notice(c)

Next ==
  \/ Produce \/ Idle
  \/ \E c \in Consumers : \/ Start(c) \/ ConsumeLoop(c) \/ GroupStep(c) \/ LoopStep(c)
                          \/ ProcessBatch(c) \/ Stop(c) \/ Close(c) \/ Crash(c)

(* The event loop runs consume_loop on, and the handler comes back: the    *)
(* pipeline's calls have timeouts or raise.                                *)
Spec == Init /\ [][Next]_vars /\ \A c \in Consumers : WF_vars(LoopStep(c))

-----------------------------------------------------------------------------
(* The flags and the positions belong together. *)
Flags ==
  /\ owner # None => assigned[owner] /\ client[owner] = "open" /\ committed <= position[owner]
  /\ \A c \in Consumers :
       /\ assigned[c] => client[c] # "closed"
       /\ lpc[c] = "handle" <=> current[c] # 0
       /\ lpc[c] = "handle" => Good(current[c])

(* The group knows that the event was taken: by the position of the owner, *)
(* or by the committed offset.                                             *)
Recorded(o) ==
  IF owner = None THEN o <= committed ELSE o <= position[owner]

(* What the group does not know was taken as often as it forgot it. *)
Attempts ==
  \A o \in Offsets : attempts[o] <= unrecorded[o] + (IF Recorded(o) THEN 1 ELSE 0)

Accounted(o) ==
  Good(o) => \/ o \in settled \cup cut \cup dropped
             \/ \E c \in Consumers : current[c] = o

(* The inductive invariant. *)
ConsumerInd ==
  /\ ConsumerTypeOK
  /\ Flags
  /\ Attempts
  /\ \A o \in 1 .. committed : Accounted(o)
  /\ \A c \in Consumers : assigned[c] => \A o \in 1 .. position[c] : Accounted(o)

(* What is committed is not processed, but it is accounted for: every      *)
(* event below the committed offset was handled, or was refused by the     *)
(* handler, is or was being handled when a process died - one event for a  *)
(* crash - or was in a batch behind a malformed message, or in the log     *)
(* before a consumer without a committed offset came.                      *)
LossesAreAccounted ==
  /\ \A o \in 1 .. committed : Accounted(o)
  /\ Cardinality(cut) <= crashes
  /\ \A o \in dropped : \E p \in 1 .. o : ~Good(p) /\ o - p < BatchSize

(* An event is handed over again only for a cause, and once for each: an   *)
(* assignment ended - by a rebalance, a session timeout, stop() or a crash *)
(* - after the event was taken and before it was committed, or a consumer  *)
(* that no longer has the partition took it.  In particular neither a      *)
(* handler that raises nor a malformed message brings an event back.       *)
RedeliveredForCause == \A o \in Offsets : attempts[o] <= unrecorded[o] + 1

(* Messages that cannot be parsed and events the handler refuses do not    *)
(* stop the loop: again and again it has got past every message of the     *)
(* partition, if its consumer has it, unless it ended; and it ends when it *)
(* is told to, or with the process, and only then.                         *)
CaughtUp(c) == Running(c) /\ (assigned[c] => position[c] = Len(log))

LoopGoesOnOrEnds ==
  /\ \A c \in Consumers : []<>(lpc[c] = "ended" \/ CaughtUp(c))
  /\ [][\A c \in Consumers : lpc[c] # "ended" /\ lpc'[c] = "ended" => ~Running(c)']_vars

=============================================================================
