----------------------------- MODULE Disruptor ------------------------------
(***************************************************************************)
(* The consumer of the ring buffer: BatchProcessor of                      *)
(* src/engine/internal/disruptor, composed with the producers of           *)
(* RingBuffer.                                                             *)
(*                                                                         *)
(* processLoop never looks at the sequence of a slot or at the cursor: Get *)
(* returns an address, which is never nil, so the loop takes a full batch  *)
(* of slots every time.  It adds i + 1 to a sequence that it advances in   *)
(* the same pass, so the i-th slot of a batch is i(i+1)/2 ahead of where   *)
(* the batch began.  Only the slot a number leads to matters, so the       *)
(* consumer's sequence is kept modulo the size of the buffer.              *)
(*                                                                         *)
(* The handler sends the event on a bounded channel, as the one of         *)
(* disruptor_test.go does and as the matching engine does with its trades. *)
(***************************************************************************)
EXTENDS RingBuffer, Sequences

CONSTANTS
  BatchSize,     \* NewBatchProcessor's batchSize
  Room           \* the capacity of the channel that the handler sends to

ASSUME BatchAssumption == BatchSize \in Nat \ {0} /\ Room \in Nat \ {0}

VARIABLES
  position,      \* sequence, modulo Size
  batch,         \* the slots gathered and not handled yet
  running,       \* the goroutine of processLoop exists
  done,          \* the channel done is closed
  received,      \* the events sent by the handler and not received yet
  handled        \* history: the events that the handler was called with

consumerVars == <<position, batch, running, done, received, handled>>
disruptorVars == <<ringVars, consumerVars>>

-----------------------------------------------------------------------------
ConsumerTypeOK ==
  /\ RingTypeOK
  /\ position \in Slots
  /\ batch \in Seq(Slots) /\ Len(batch) <= BatchSize
  /\ running \in BOOLEAN
  /\ done \in BOOLEAN
  /\ received \in Seq(Nat \cup {NoEvent}) /\ Len(received) <= Room
  /\ handled \in SUBSET (Nat \cup {NoEvent})

ConsumerInit ==
  /\ RingInit
  /\ position = 0
  /\ batch = <<>>
  /\ running = TRUE
  /\ done = FALSE
  /\ received = <<>>
  /\ handled = {}

(* Mutant: every slot is two ahead of the one before it. *)
StrideOfTwo(k) == 2 * k

(* How far the k-th slot of a batch is from the place where it began. *)
Stride(k) == (k * (k + 1)) \div 2

(* One pass of the loop gathers the addresses of a batch. *)
Gather ==
  /\ running /\ ~done /\ batch = <<>>
  /\ batch' = [k \in 1 .. BatchSize |-> Slot(position + Stride(k))]
  /\ position' = Slot(position + Stride(BatchSize))
  /\ UNCHANGED <<ringVars, running, done, received, handled>>

(* The handler reads the event where the address points and sends it on;   *)
(* it blocks while the channel is full.                                    *)
Handle ==
  /\ running /\ batch # <<>>
  /\ Len(received) < Room
  /\ received' = Append(received, slotEvent[Head(batch)])
  /\ handled' = handled \cup {slotEvent[Head(batch)]}
  /\ batch' = Tail(batch)
  /\ UNCHANGED <<ringVars, position, running, done>>

(* Mutant: a break leaves the select but not the loop around it. *)
ExitOfSelect ==
  /\ running /\ done /\ batch = <<>>
  /\ UNCHANGED disruptorVars

(* Between two batches the loop sees that done is closed. *)
Exit ==
  /\ running /\ done /\ batch = <<>>
  /\ running' = FALSE
  /\ UNCHANGED <<ringVars, position, batch, done, received, handled>>

(* Stop closes done; it returns when running is FALSE. *)
Stop ==
  /\ ~done
  /\ done' = TRUE
  /\ UNCHANGED <<ringVars, position, batch, running, received, handled>>

(* Whoever reads the handler's channel receives an event. *)
Receive ==
  /\ received # <<>>
  /\ received' = Tail(received)
  /\ UNCHANGED <<ringVars, position, batch, running, done, handled>>

(* The processor was stopped, the producers are done, nothing is left. *)
DisruptorQuiet == ~running /\ received = <<>> /\ RingQuiet /\ UNCHANGED consumerVars

Consume == Gather \/ Handle \/ Exit

DisruptorNext ==
  \/ \E p \in Producers : (LoadCursor(p) \/ Produce(p)) /\ UNCHANGED consumerVars
  \/ Consume
  \/ Stop
  \/ Receive
  \/ DisruptorQuiet

DisruptorSpec == ConsumerInit /\ [][DisruptorNext]_disruptorVars

(* Producers and consumer keep running; nobody need read the channel. *)
DisruptorRunning ==
  /\ DisruptorSpec
  /\ \A p \in Producers : WF_disruptorVars(Produce(p) /\ UNCHANGED consumerVars)
  /\ WF_disruptorVars(Consume)

(* The handler's channel is read as well. *)
DisruptorFairSpec == DisruptorRunning /\ WF_disruptorVars(Receive)

-----------------------------------------------------------------------------
(* Although the consumer skips slots within a batch, overtakes the         *)
(* producers and is overtaken by them, every published event reaches the   *)
(* handler at least once, unless its slot is claimed for a later number    *)
(* first, the processor is stopped, or one producer laps another: the      *)
(* strides lead to every slot (batch_processor.go:42-47).                  *)
EventuallyHandled ==
  \A n \in Numbers :
    n \in published ~> (n \in handled \/ cursor >= n + Size \/ done \/ ~NotLapped)

(* Stop returns when the handler's channel is read                         *)
(* (batch_processor.go:37-40, 62-65), and a batch that was gathered before *)
(* done was closed is handled to its end first.                            *)
StopReturns == done ~> ~running

(* The loop does not look at the sequence of a slot (batch_processor.go:46- *)
(* 53) and may call the handler with the event of an earlier lap, with one *)
(* of a number that is not published yet, or with none.  What it hands on  *)
(* was written by the owner of its number, into the slot of that number.   *)
Written(n) == n \in published \/ \E p \in Producers : pc[p] = "publish" /\ Claim(p) = n

SlotsHoldTheirNumbers ==
  \A s \in Slots : slotEvent[s] # NoEvent => Slot(slotEvent[s]) = s /\ Written(slotEvent[s])

HandledWasWritten == \A n \in handled \ {NoEvent} : Written(n)

DisruptorInd == RingInd /\ ConsumerTypeOK /\ SlotsHoldTheirNumbers /\ HandledWasWritten
=============================================================================
