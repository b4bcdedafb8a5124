----------------------------- MODULE RingBuffer -----------------------------
(***************************************************************************)
(* The ring buffer of src/engine/internal/disruptor and the goroutines     *)
(* that publish on it.  RingBuffer.Next takes a sequence number from the   *)
(* cursor with one compare-and-swap and then takes the slot of that number *)
(* with another; between the two a producer owns a number but no slot.     *)
(* Nothing holds producers back from lapping one another, or the consumer: *)
(* gate is never advanced.                                                 *)
(*                                                                         *)
(* An event is represented by the sequence number it is published under.   *)
(***************************************************************************)
EXTENDS Integers

CONSTANTS
  Producers,   \* the goroutines that publish
  Size,        \* the number of slots, a power of two
  MaxCalls     \* bound: how many times Next is called

ASSUME SizeAssumption  == Size \in Nat \ {0} /\ \E k \in 0 .. Size : Size = 2 ^ k
ASSUME CallsAssumption == MaxCalls \in Nat

VARIABLES
  cursor,      \* the last sequence number claimed
  slotSeq,     \* EventSlot.sequence
  slotEvent,   \* EventSlot.event
  pc,          \* where each producer is
  current,     \* the cursor as the producer loaded it
  seen,        \* the sequence of the slot as the producer loaded it
  calls,       \* bound: how many calls of Next have begun
  published,   \* history: the sequence numbers that were published
  lapped       \* history: a number was claimed before the one a lap behind was published

ringVars == <<cursor, slotSeq, slotEvent, pc, current, seen, calls, published, lapped>>

-----------------------------------------------------------------------------
Slots    == 0 .. Size - 1
NoEvent  == -1                      \* the zero value of an event
Numbers  == 0 .. MaxCalls - 1       \* the sequence numbers that can be claimed

(* Mutant: the mask is that of a buffer of half the size. *)
SlotHalf(n) == n % (Size \div 2)

(* Mutant: a number is skipped. *)
ClaimByTwo(p) == current[p] + 2

Slot(n)  == n % Size                \* n & mask
Claim(p) == current[p] + 1          \* next

(* p owns a sequence number. *)
Holding(p) == pc[p] \in {"probe", "take", "write", "publish"}
(* Next has returned to p, which has not published yet. *)
Writing(p) == pc[p] \in {"write", "publish"}
(* p is in Next. *)
InNext(p)  == pc[p] \in {"claim", "probe", "take"}

RingTypeOK ==
  /\ cursor \in Nat \cup {-1}
  /\ slotSeq \in [Slots -> Nat \cup {-1}]
  /\ slotEvent \in [Slots -> Nat \cup {NoEvent}]
  /\ pc \in [Producers -> {"idle", "claim", "probe", "take", "write", "publish"}]
  /\ current \in [Producers -> Nat \cup {-1}]
  /\ seen \in [Producers -> Nat \cup {-1}]
  /\ calls \in 0 .. MaxCalls
  /\ published \in SUBSET Nat /\ lapped \in BOOLEAN

RingInit ==
  /\ cursor = -1
  /\ slotSeq = [i \in Slots |-> -1]
  /\ slotEvent = [i \in Slots |-> NoEvent]
  /\ pc = [p \in Producers |-> "idle"]
  /\ current = [p \in Producers |-> -1]
  /\ seen = [p \in Producers |-> -1]
  /\ calls = 0
  /\ published = {} /\ lapped = FALSE

-----------------------------------------------------------------------------
(* p calls Next and loads the cursor. *)
LoadCursor(p) ==
  /\ pc[p] = "idle"
  /\ calls < MaxCalls
  /\ calls' = calls + 1
  /\ current' = [current EXCEPT ![p] = cursor]
  /\ pc' = [pc EXCEPT ![p] = "claim"]
  /\ UNCHANGED <<cursor, slotSeq, slotEvent, seen, published, lapped>>

(* p owns the next number, whether or not the owner of a number a lap or   *)
(* more behind has published that one.                                     *)
Advance(p) ==
  /\ cursor' = Claim(p)
  /\ lapped' = (lapped \/ \E q \in Producers : Holding(q) /\ Claim(q) <= Claim(p) - Size)
  /\ pc' = [pc EXCEPT ![p] = "probe"]

(* Mutant: the cursor is stored without the comparison. *)
ClaimCursorBlind(p) ==
  /\ pc[p] = "claim"
  /\ Advance(p)
  /\ UNCHANGED <<slotSeq, slotEvent, current, seen, calls, published>>

(* The compare-and-swap of the cursor; when it fails p loads it again. *)
ClaimCursor(p) ==
  /\ pc[p] = "claim"
  /\ \/ cursor = current[p] /\ Advance(p) /\ UNCHANGED current
     \/ /\ cursor # current[p]
        /\ current' = [current EXCEPT ![p] = cursor]
        /\ UNCHANGED <<cursor, lapped, pc>>
  /\ UNCHANGED <<slotSeq, slotEvent, seen, calls, published>>

(* p loads the sequence of its slot until it is below its own; as long as  *)
(* it is not, p spins.                                                     *)
ProbeSlot(p) ==
  /\ pc[p] = "probe"
  /\ slotSeq[Slot(Claim(p))] < Claim(p)
  /\ seen' = [seen EXCEPT ![p] = slotSeq[Slot(Claim(p))]]
  /\ pc' = [pc EXCEPT ![p] = "take"]
  /\ UNCHANGED <<cursor, slotSeq, slotEvent, current, calls, published, lapped>>

(* Mutant: the slot is expected to hold the number of the previous lap. *)
TakeSlotOfLastLap(p) ==
  /\ pc[p] = "take"
  /\ LET free == slotSeq[Slot(Claim(p))] = Claim(p) - Size IN
       /\ slotSeq' = IF free THEN [slotSeq EXCEPT ![Slot(Claim(p))] = Claim(p)]
                             ELSE slotSeq
       /\ pc' = [pc EXCEPT ![p] = IF free THEN "write" ELSE "probe"]
  /\ UNCHANGED <<cursor, slotEvent, current, seen, calls, published, lapped>>

(* The compare-and-swap of the slot; when it succeeds Next returns. *)
TakeSlot(p) ==
  /\ pc[p] = "take"
  /\ \/ /\ slotSeq[Slot(Claim(p))] = seen[p]
        /\ slotSeq' = [slotSeq EXCEPT ![Slot(Claim(p))] = Claim(p)]
        /\ pc' = [pc EXCEPT ![p] = "write"]
     \/ /\ slotSeq[Slot(Claim(p))] # seen[p]
        /\ pc' = [pc EXCEPT ![p] = "probe"]
        /\ UNCHANGED slotSeq
  /\ UNCHANGED <<cursor, slotEvent, current, seen, calls, published, lapped>>

(* p writes its event into the slot, as every caller of Next does. *)
WriteEvent(p) ==
  /\ pc[p] = "write"
  /\ slotEvent' = [slotEvent EXCEPT ![Slot(Claim(p))] = Claim(p)]
  /\ pc' = [pc EXCEPT ![p] = "publish"]
  /\ UNCHANGED <<cursor, slotSeq, current, seen, calls, published, lapped>>

(* Publish stores the sequence, whatever the slot holds by now. *)
Publish(p) ==
  /\ pc[p] = "publish"
  /\ slotSeq' = [slotSeq EXCEPT ![Slot(Claim(p))] = Claim(p)]
  /\ published' = published \cup {Claim(p)}
  /\ pc' = [pc EXCEPT ![p] = "idle"]
  /\ UNCHANGED <<cursor, slotEvent, current, seen, calls, lapped>>

Produce(p) ==
  \/ ClaimCursor(p) \/ ProbeSlot(p) \/ TakeSlot(p) \/ WriteEvent(p) \/ Publish(p)

(* The bound on the calls is reached and every one of them has returned. *)
RingQuiet ==
  /\ calls = MaxCalls /\ \A p \in Producers : pc[p] = "idle"
  /\ UNCHANGED ringVars

RingNext == (\E p \in Producers : LoadCursor(p) \/ Produce(p)) \/ RingQuiet

RingSpec == RingInit /\ [][RingNext]_ringVars

(* A producer that is in Next, or has returned from it, keeps running. *)
RingFairSpec == RingSpec /\ \A p \in Producers : WF_ringVars(Produce(p))

-----------------------------------------------------------------------------
(* No sequence number is given out twice: two producers never own the same *)
(* one, nor one that was published before (ring_buffer.go:37-40).          *)
UniqueClaims ==
  \A p \in Producers : Holding(p) =>
    /\ Claim(p) \notin published
    /\ \A q \in Producers : q # p /\ Holding(q) => Claim(q) # Claim(p)

(* No producer has lapped another: whenever a number was claimed, the one  *)
(* that had the slot before was published.                                 *)
NotLapped == ~lapped

(* Until its slot is claimed for a later number, Get returns the event     *)
(* that was published, although Next changes the slot's sequence before    *)
(* the event is written (ring_buffer.go:47, 59-68).                        *)
PublishedIsReadable ==
  NotLapped => \A n \in published : n > cursor - Size =>
    slotEvent[Slot(n)] = n /\ slotSeq[Slot(n)] = n

(* Nothing has skipped a number: each one up to the cursor is published or *)
(* owned by a producer that has yet to publish it.                         *)
NoNumberLost ==
  \A n \in 0 .. cursor :
    n \in published \/ \E p \in Producers : Holding(p) /\ Claim(p) = n

(* The inductive invariant: numbers owned or published are behind the      *)
(* cursor, and while the producers do not lap each other the slot of an    *)
(* owned number is its owner's once Next has returned.                     *)
ClaimsBehindCursor ==
  /\ \A n \in published : n <= cursor
  /\ \A p \in Producers :
       /\ pc[p] = "claim" => current[p] <= cursor
       /\ Holding(p) => Claim(p) <= cursor
       /\ NotLapped /\ Holding(p) => Claim(p) > cursor - Size

OwnersHaveTheirSlots ==
  NotLapped => \A p \in Producers :
    /\ Writing(p) => slotSeq[Slot(Claim(p))] = Claim(p)
    /\ pc[p] = "publish" => slotEvent[Slot(Claim(p))] = Claim(p)

RingInd ==
  /\ RingTypeOK
  /\ ClaimsBehindCursor
  /\ UniqueClaims
  /\ NoNumberLost
  /\ OwnersHaveTheirSlots
  /\ PublishedIsReadable

(* Unless one producer laps another, every call of Next returns ("Lock-free *)
(* producer operations", ADR-001-ring-buffer.md:37), however often its two *)
(* compare-and-swaps lose against those of others and however often the    *)
(* buffer wraps.  A producer whose slot was taken for a later number spins *)
(* for ever (ring_buffer.go:44-53).                                        *)
NextReturnsUnlessLapped == \A p \in Producers : InNext(p) ~> (~InNext(p) \/ ~NotLapped)
=============================================================================
