------------------------- MODULE RingAndLedgerProofs -------------------------
(***************************************************************************)
(* Two components of the engine, for any number of clients: the sequencer  *)
(* and ring buffer with its producers and consumers, and the ledger with   *)
(* its balances, journal and settlement.                                   *)
(***************************************************************************)
EXTENDS Disruptor, Ledger, SequenceTheorems, Sums, TLAPS

-----------------------------------------------------------------------------
(* The ring buffer.                                                        *)

-----------------------------------------------------------------------------
(* Two numbers less than Size apart have different slots. *)
LEMMA SlotsDiffer ==
  ASSUME NEW a \in Int, NEW b \in Int, a # b, a - b < Size, b - a < Size
  PROVE  Slot(a) # Slot(b)
<1> USE SizeAssumption
<1>1. /\ a = Size * (a \div Size) + Slot(a)
      /\ b = Size * (b \div Size) + Slot(b)
      /\ a \div Size \in Int /\ b \div Size \in Int
      /\ Slot(a) \in Int /\ Slot(b) \in Int
  BY DEF Slot
<1>2. SUFFICES ASSUME Slot(a) = Slot(b) PROVE FALSE
  OBVIOUS
<1> DEFINE d == (a \div Size) - (b \div Size)
<1>3. d \in Int /\ a - b = Size * d
  <2>1. PICK x \in Int, y \in Int, r \in Int :
          /\ x = a \div Size /\ y = b \div Size
          /\ a = Size * x + r /\ b = Size * y + r
    BY <1>1, <1>2
  <2>2. Size * x - Size * y = Size * (x - y)
    <3>1. \A s, u, v \in Int : s * u - s * v = s * (u - v)  OBVIOUS
    <3> QED BY <3>1
  <2>3. Size * x \in Int /\ Size * y \in Int  OBVIOUS
  <2>4. a - b = Size * x - Size * y  BY <2>1, <2>3
  <2> QED BY <2>1, <2>2, <2>4
<1> HIDE DEF d
<1>4. CASE d = 0
  BY <1>3, <1>4
<1>5. CASE d >= 1
  <2>1. Size * d >= Size  BY <1>3, <1>5
  <2> QED BY <1>3, <2>1
<1>6. CASE d <= -1
  <2>1. Size * d <= -Size  BY <1>3, <1>6
  <2> QED BY <1>3, <2>1
<1> QED BY <1>3, <1>4, <1>5, <1>6

LEMMA SlotInSlots ==
  ASSUME NEW a \in Int
  PROVE  Slot(a) \in Slots
BY SizeAssumption DEF Slot, Slots

-----------------------------------------------------------------------------
(* The inductive invariant. *)
LEMMA RingInitInd == RingInit => RingInd
<1> SUFFICES ASSUME RingInit PROVE RingInd
  OBVIOUS
<1>1. RingTypeOK
  <2>1. 0 \in 0 .. MaxCalls  BY CallsAssumption
  <2>2. published \in SUBSET Nat /\ lapped \in BOOLEAN  BY DEF RingInit
  <2> QED BY <2>1, <2>2 DEF RingInit, RingTypeOK, NoEvent
<1>2. ClaimsBehindCursor /\ UniqueClaims /\ OwnersHaveTheirSlots /\ PublishedIsReadable
  <2>1. published = {} /\ \A p \in Producers : pc[p] = "idle" /\ ~Holding(p) /\ ~Writing(p)
    BY DEF RingInit, Holding, Writing
  <2> QED
    BY <2>1 DEF ClaimsBehindCursor, UniqueClaims, OwnersHaveTheirSlots, PublishedIsReadable
<1>3. NoNumberLost
  BY DEF RingInit, NoNumberLost
<1> QED BY <1>1, <1>2, <1>3 DEF RingInd

(* What the invariant says of one producer and of two. *)
LEMMA Owner ==
  ASSUME RingInd, NEW p \in Producers, Holding(p)
  PROVE  /\ Claim(p) \in Nat /\ Claim(p) <= cursor /\ cursor \in Nat
         /\ Claim(p) \notin published
         /\ Slot(Claim(p)) \in Slots
         /\ NotLapped => Claim(p) > cursor - Size
<1>1. current[p] \in Nat \cup {-1} /\ cursor \in Nat \cup {-1}
  BY DEF RingInd, RingTypeOK
<1>2. Claim(p) \in Nat /\ Claim(p) <= cursor /\ cursor \in Nat
  BY <1>1 DEF RingInd, ClaimsBehindCursor, Claim
<1>3. NotLapped => Claim(p) > cursor - Size
  <2>1. ClaimsBehindCursor  BY DEF RingInd
  <2> QED BY <2>1 DEF ClaimsBehindCursor
<1> QED BY <1>2, <1>3, SlotInSlots DEF RingInd, UniqueClaims

(* While nobody is lapped, a number that is published and not overwritten, *)
(* or owned by another producer, is in another slot.                       *)
LEMMA OtherSlots ==
  ASSUME RingInd, NotLapped, NEW p \in Producers, Holding(p)
  PROVE  /\ \A n \in published : n > cursor - Size => Slot(n) # Slot(Claim(p))
         /\ \A q \in Producers : q # p /\ Holding(q) => Slot(Claim(q)) # Slot(Claim(p))
<1>1. Claim(p) \in Nat /\ Claim(p) <= cursor /\ cursor \in Nat /\ Claim(p) > cursor - Size
  BY Owner
<1>2. ASSUME NEW n \in Nat, n <= cursor, n > cursor - Size, n # Claim(p)
      PROVE  Slot(n) # Slot(Claim(p))
  <2>1. n - Claim(p) < Size /\ Claim(p) - n < Size
    BY <1>1, <1>2, SizeAssumption
  <2> HIDE DEF Slot
  <2> QED BY <1>1, <1>2, <2>1, SlotsDiffer
<1>3. \A n \in published : n \in Nat /\ n <= cursor /\ n # Claim(p)
  BY Owner DEF RingInd, RingTypeOK, ClaimsBehindCursor
<1>4. \A q \in Producers : q # p /\ Holding(q) =>
        Claim(q) \in Nat /\ Claim(q) <= cursor /\ Claim(q) > cursor - Size
          /\ Claim(q) # Claim(p)
  BY Owner DEF RingInd, UniqueClaims
<1> QED BY <1>2, <1>3, <1>4

LEMMA LoadCursorKeepsInd ==
  ASSUME RingInd, NEW p \in Producers, LoadCursor(p)
  PROVE  RingInd'
<1>0. /\ pc[p] = "idle" /\ pc' = [pc EXCEPT ![p] = "claim"]
      /\ current' = [current EXCEPT ![p] = cursor] /\ calls < MaxCalls
      /\ calls' = calls + 1
      /\ UNCHANGED <<cursor, slotSeq, slotEvent, seen, published, lapped>>
  BY DEF LoadCursor
<1>1. RingTypeOK'
  <2>1. calls' \in 0 .. MaxCalls
    BY <1>0, CallsAssumption DEF RingInd, RingTypeOK
  <2> QED BY <1>0, <2>1 DEF RingInd, RingTypeOK
<1>2. ~Holding(p) /\ ~Holding(p)' /\ ~Writing(p)' /\ pc'[p] = "claim" /\ current'[p] = cursor
  BY <1>0 DEF RingInd, RingTypeOK, Holding, Writing
<1>3. \A q \in Producers : q # p =>
        /\ pc'[q] = pc[q] /\ current'[q] = current[q]
        /\ Holding(q)' = Holding(q) /\ Writing(q)' = Writing(q) /\ Claim(q)' = Claim(q)
  BY <1>0 DEF RingInd, RingTypeOK, Holding, Writing, Claim
<1>4. ClaimsBehindCursor'
  <2>1. cursor <= cursor  BY DEF RingInd, RingTypeOK
  <2> QED BY <1>0, <1>2, <1>3, <2>1 DEF RingInd, ClaimsBehindCursor, NotLapped
<1>5. UniqueClaims'
  BY <1>0, <1>2, <1>3 DEF RingInd, UniqueClaims
<1>6. NoNumberLost'
  BY <1>0, <1>2, <1>3 DEF RingInd, NoNumberLost
<1>7. OwnersHaveTheirSlots' /\ PublishedIsReadable'
  BY <1>0, <1>2, <1>3 DEF RingInd, OwnersHaveTheirSlots, PublishedIsReadable, NotLapped
<1> QED BY <1>1, <1>4, <1>5, <1>6, <1>7 DEF RingInd

LEMMA ClaimCursorKeepsInd ==
  ASSUME RingInd, NEW p \in Producers, ClaimCursor(p)
  PROVE  RingInd'
<1>0. /\ pc[p] = "claim" /\ ~Holding(p) /\ ~Writing(p)
      /\ UNCHANGED <<slotSeq, slotEvent, seen, calls, published>>
      /\ cursor \in Nat \cup {-1} /\ current[p] \in Nat \cup {-1}
  BY DEF ClaimCursor, Holding, Writing, RingInd, RingTypeOK
<1>1. CASE cursor = current[p] /\ Advance(p) /\ UNCHANGED current
  <2>0. cursor' = Claim(p) /\ pc' = [pc EXCEPT ![p] = "probe"] /\ lapped' \in BOOLEAN
    BY <1>1 DEF Advance, RingInd, RingTypeOK
  <2>1. /\ cursor' = cursor + 1 /\ cursor' \in Nat /\ Claim(p)' = cursor'
        /\ pc'[p] = "probe" /\ Holding(p)' /\ ~Writing(p)'
    BY <1>0, <1>1, <2>0 DEF Claim, Holding, Writing, RingInd, RingTypeOK
  <2>2. \A q \in Producers : q # p =>
          /\ pc'[q] = pc[q] /\ current'[q] = current[q]
          /\ Holding(q)' = Holding(q) /\ Writing(q)' = Writing(q) /\ Claim(q)' = Claim(q)
    BY <1>1, <2>0 DEF RingInd, RingTypeOK, Holding, Writing, Claim
  <2>3. RingTypeOK'
    BY <1>0, <1>1, <2>0, <2>1 DEF RingInd, RingTypeOK
  <2>8. NotLapped' => NotLapped /\ \A q \in Producers : Holding(q) => Claim(q) > cursor' - Size
    <3> SUFFICES ASSUME NotLapped' PROVE  NotLapped /\ \A q \in Producers : Holding(q) => Claim(q) > cursor' - Size
      OBVIOUS
    <3>1. NotLapped /\ \A q \in Producers : Holding(q) => ~(Claim(q) <= cursor' - Size)
      BY <1>1, <2>0 DEF NotLapped, Advance
    <3>2. \A q \in Producers : Holding(q) => Claim(q) \in Nat  BY Owner
    <3> QED BY <2>1, <3>1, <3>2, SizeAssumption
  <2>4. \A q \in Producers : Holding(q) => Claim(q) <= cursor /\ Claim(q) \in Nat
    BY Owner
  <2>5. ClaimsBehindCursor'
    <3>1. \A n \in published : n \in Nat /\ n <= cursor
      BY DEF RingInd, RingTypeOK, ClaimsBehindCursor
    <3>2. \A q \in Producers : current[q] \in Int  BY DEF RingInd, RingTypeOK
    <3>3. \A q \in Producers : q # p /\ pc[q] = "claim" => current[q] <= cursor
      BY DEF RingInd, ClaimsBehindCursor
    <3>4. \A n \in published : n <= cursor'  BY <1>0, <2>1, <3>1
    <3>5. \A q \in Producers : pc'[q] = "claim" => current'[q] <= cursor'
      BY <1>0, <2>1, <2>2, <3>2, <3>3
    <3>6. \A q \in Producers : Holding(q)' => Claim(q)' <= cursor'
      BY <1>0, <2>1, <2>2, <2>4
    <3>7. \A q \in Producers : NotLapped' /\ Holding(q)' => Claim(q)' > cursor' - Size
      BY <2>1, <2>2, <2>8, SizeAssumption
    <3> QED BY <1>0, <3>4, <3>5, <3>6, <3>7 DEF ClaimsBehindCursor
  <2>6. UniqueClaims'
    <3>1. cursor' \notin published
      BY <1>0, <2>1 DEF RingInd, ClaimsBehindCursor
    <3>2. \A q \in Producers : q # p /\ Holding(q) => Claim(q) # cursor'
      BY <1>0, <2>1, <2>4
    <3> QED BY <1>0, <2>1, <2>2, <3>1, <3>2 DEF RingInd, UniqueClaims
  <2>7. NoNumberLost'
    <3> SUFFICES ASSUME NEW n \in 0 .. cursor'
                 PROVE  n \in published \/ \E q \in Producers : Holding(q)' /\ Claim(q)' = n
      BY <1>0 DEF NoNumberLost
    <3>1. CASE n = cursor'  BY <3>1, <2>1
    <3>2. CASE n # cursor'
      <4>1. n \in 0 .. cursor  BY <3>2, <1>0, <2>1
      <4>2. CASE n \in published  BY <4>2
      <4>3. CASE n \notin published
        <5>1. PICK q \in Producers : Holding(q) /\ Claim(q) = n
          BY <4>1, <4>3 DEF RingInd, NoNumberLost
        <5>2. q # p  BY <5>1, <1>0
        <5> QED BY <5>1, <5>2, <2>2
      <4> QED BY <4>2, <4>3
    <3> QED BY <3>1, <3>2
  <2>9. OwnersHaveTheirSlots'
    BY <1>0, <2>0, <2>1, <2>2, <2>8 DEF RingInd, OwnersHaveTheirSlots, Writing
  <2>10. PublishedIsReadable'
    <3>1. \A n \in published : n \in Nat /\ (n > cursor' - Size => n > cursor - Size)
      BY <1>0, <2>1, SizeAssumption DEF RingInd, RingTypeOK
    <3> QED BY <1>0, <2>8, <3>1 DEF RingInd, PublishedIsReadable
  <2> QED BY <2>3, <2>5, <2>6, <2>7, <2>9, <2>10 DEF RingInd
<1>2. CASE current' = [current EXCEPT ![p] = cursor] /\ UNCHANGED <<cursor, lapped, pc>>
  <2>1. ~Holding(p)' /\ ~Writing(p)' /\ pc'[p] = "claim" /\ current'[p] = cursor
    BY <1>0, <1>2 DEF RingInd, RingTypeOK, Holding, Writing
  <2>2. \A q \in Producers : q # p =>
          /\ pc'[q] = pc[q] /\ current'[q] = current[q]
          /\ Holding(q)' = Holding(q) /\ Writing(q)' = Writing(q) /\ Claim(q)' = Claim(q)
    BY <1>2 DEF RingInd, RingTypeOK, Holding, Writing, Claim
  <2>3. RingTypeOK'
    BY <1>0, <1>2 DEF RingInd, RingTypeOK
  <2>4. ClaimsBehindCursor'
    <3>1. cursor <= cursor  BY <1>0
    <3> QED BY <1>0, <1>2, <2>1, <2>2, <3>1 DEF RingInd, ClaimsBehindCursor, NotLapped
  <2>5. UniqueClaims'
    BY <1>0, <2>1, <2>2 DEF RingInd, UniqueClaims
  <2>6. NoNumberLost'
    BY <1>0, <1>2, <2>1, <2>2 DEF RingInd, NoNumberLost
  <2>7. OwnersHaveTheirSlots' /\ PublishedIsReadable'
    BY <1>0, <1>2, <2>1, <2>2
       DEF RingInd, OwnersHaveTheirSlots, PublishedIsReadable, NotLapped, Writing
  <2> QED BY <2>3, <2>4, <2>5, <2>6, <2>7 DEF RingInd
<1> QED BY <1>1, <1>2 DEF ClaimCursor

(* The steps that change no slot and no claim. *)
LEMMA QuietStepKeepsInd ==
  ASSUME RingInd, NEW p \in Producers, Holding(p), ~Writing(p),
         UNCHANGED <<cursor, slotSeq, slotEvent, current, calls, published, lapped>>,
         seen' \in [Producers -> Nat \cup {-1}],
         pc' = [pc EXCEPT ![p] = "take"] \/ pc' = [pc EXCEPT ![p] = "probe"]
  PROVE  RingInd'
<1>1. RingTypeOK'
  BY DEF RingInd, RingTypeOK
<1>2. \A q \in Producers :
        /\ Holding(q)' = Holding(q) /\ Writing(q)' = Writing(q) /\ Claim(q)' = Claim(q)
        /\ (pc'[q] = "claim" => pc[q] = "claim")
        /\ (pc'[q] = "publish" => pc[q] = "publish")
  BY DEF RingInd, RingTypeOK, Holding, Writing, Claim
<1>3. ClaimsBehindCursor' /\ UniqueClaims' /\ NoNumberLost'
  BY <1>2 DEF RingInd, ClaimsBehindCursor, UniqueClaims, NoNumberLost, NotLapped
<1>4. OwnersHaveTheirSlots' /\ PublishedIsReadable'
  BY <1>2 DEF RingInd, OwnersHaveTheirSlots, PublishedIsReadable, NotLapped
<1> QED BY <1>1, <1>3, <1>4 DEF RingInd

LEMMA ProbeSlotKeepsInd ==
  ASSUME RingInd, NEW p \in Producers, ProbeSlot(p)
  PROVE  RingInd'
<1>1. Holding(p) /\ ~Writing(p)
  BY DEF ProbeSlot, Holding, Writing
<1>2. slotSeq[Slot(Claim(p))] \in Nat \cup {-1}
  BY <1>1, Owner DEF RingInd, RingTypeOK
<1>3. seen' \in [Producers -> Nat \cup {-1}]
  BY <1>2 DEF ProbeSlot, RingInd, RingTypeOK
<1> QED BY <1>1, <1>3, QuietStepKeepsInd DEF ProbeSlot

LEMMA TakeSlotKeepsInd ==
  ASSUME RingInd, NEW p \in Producers, TakeSlot(p)
  PROVE  RingInd'
<1>0. /\ Holding(p) /\ ~Writing(p) /\ pc[p] = "take"
      /\ UNCHANGED <<cursor, slotEvent, current, seen, calls, published, lapped>>
  BY DEF TakeSlot, Holding, Writing
<1>1. CASE slotSeq' = [slotSeq EXCEPT ![Slot(Claim(p))] = Claim(p)]
           /\ pc' = [pc EXCEPT ![p] = "write"]
  <2>1. Claim(p) \in Nat /\ Slot(Claim(p)) \in Slots
    BY <1>0, Owner
  <2>2. RingTypeOK'
    BY <1>0, <1>1, <2>1 DEF RingInd, RingTypeOK
  <2>3. Holding(p)' /\ Writing(p)' /\ pc'[p] = "write" /\ Claim(p)' = Claim(p)
    BY <1>0, <1>1 DEF RingInd, RingTypeOK, Holding, Writing, Claim
  <2>4. \A q \in Producers : q # p =>
          /\ pc'[q] = pc[q]
          /\ Holding(q)' = Holding(q) /\ Writing(q)' = Writing(q) /\ Claim(q)' = Claim(q)
    BY <1>0, <1>1 DEF RingInd, RingTypeOK, Holding, Writing, Claim
  <2>5. ClaimsBehindCursor' /\ UniqueClaims' /\ NoNumberLost'
    BY <1>0, <2>3, <2>4 DEF RingInd, ClaimsBehindCursor, UniqueClaims, NoNumberLost, NotLapped
  <2>6. NotLapped' = NotLapped  BY <1>0 DEF NotLapped
  <2>7. \A i \in Slots : slotSeq'[i] = IF i = Slot(Claim(p)) THEN Claim(p) ELSE slotSeq[i]
    BY <1>1 DEF RingInd, RingTypeOK
  <2>8. OwnersHaveTheirSlots'
    <3> SUFFICES ASSUME NotLapped, NEW q \in Producers
                 PROVE  /\ Writing(q)' => slotSeq'[Slot(Claim(q))] = Claim(q)
                        /\ pc'[q] = "publish" => slotEvent[Slot(Claim(q))] = Claim(q)
      BY <1>0, <2>3, <2>4, <2>6 DEF OwnersHaveTheirSlots
    <3>1. CASE q = p  BY <3>1, <2>1, <2>3, <2>7
    <3>2. CASE q # p
      <4>1. Writing(q) => Holding(q)  BY DEF Writing, Holding
      <4>2. Writing(q) => Slot(Claim(q)) # Slot(Claim(p)) /\ Slot(Claim(q)) \in Slots
        BY <3>2, <4>1, <1>0, OtherSlots, Owner
      <4> QED BY <3>2, <4>2, <2>4, <2>7 DEF RingInd, OwnersHaveTheirSlots
    <3> QED BY <3>1, <3>2
  <2>9. PublishedIsReadable'
    <3> SUFFICES ASSUME NotLapped, NEW n \in published, n > cursor - Size
                 PROVE  slotEvent[Slot(n)] = n /\ slotSeq'[Slot(n)] = n
      BY <1>0, <2>6 DEF PublishedIsReadable
    <3>1. n \in Nat  BY DEF RingInd, RingTypeOK
    <3>2. Slot(n) # Slot(Claim(p)) /\ Slot(n) \in Slots
      BY <3>1, <1>0, OtherSlots, SlotInSlots
    <3> QED BY <3>2, <2>7 DEF RingInd, PublishedIsReadable
  <2> QED BY <2>2, <2>5, <2>8, <2>9 DEF RingInd
<1>2. CASE pc' = [pc EXCEPT ![p] = "probe"] /\ UNCHANGED slotSeq
  <2>1. seen' \in [Producers -> Nat \cup {-1}]  BY <1>0 DEF RingInd, RingTypeOK
  <2> QED BY <1>0, <1>2, <2>1, QuietStepKeepsInd
<1> QED BY <1>1, <1>2 DEF TakeSlot

LEMMA WriteEventKeepsInd ==
  ASSUME RingInd, NEW p \in Producers, WriteEvent(p)
  PROVE  RingInd'
<1>0. /\ Holding(p) /\ Writing(p) /\ pc[p] = "write"
      /\ slotEvent' = [slotEvent EXCEPT ![Slot(Claim(p))] = Claim(p)]
      /\ pc' = [pc EXCEPT ![p] = "publish"]
      /\ UNCHANGED <<cursor, slotSeq, current, seen, calls, published, lapped>>
  BY DEF WriteEvent, Holding, Writing
<1>1. Claim(p) \in Nat /\ Slot(Claim(p)) \in Slots
  BY <1>0, Owner
<1>2. RingTypeOK'
  BY <1>0, <1>1 DEF RingInd, RingTypeOK
<1>3. Holding(p)' /\ Writing(p)' /\ pc'[p] = "publish" /\ Claim(p)' = Claim(p)
  BY <1>0 DEF RingInd, RingTypeOK, Holding, Writing, Claim
<1>4. \A q \in Producers : q # p =>
        /\ pc'[q] = pc[q]
        /\ Holding(q)' = Holding(q) /\ Writing(q)' = Writing(q) /\ Claim(q)' = Claim(q)
  BY <1>0 DEF RingInd, RingTypeOK, Holding, Writing, Claim
<1>5. ClaimsBehindCursor' /\ UniqueClaims' /\ NoNumberLost'
  BY <1>0, <1>3, <1>4 DEF RingInd, ClaimsBehindCursor, UniqueClaims, NoNumberLost, NotLapped
<1>6. NotLapped' = NotLapped  BY <1>0 DEF NotLapped
<1>7. \A i \in Slots :
        slotEvent'[i] = IF i = Slot(Claim(p)) THEN Claim(p) ELSE slotEvent[i]
  BY <1>0 DEF RingInd, RingTypeOK
<1>8. OwnersHaveTheirSlots'
  <2> SUFFICES ASSUME NotLapped, NEW q \in Producers
               PROVE  /\ Writing(q)' => slotSeq[Slot(Claim(q))] = Claim(q)
                      /\ pc'[q] = "publish" => slotEvent'[Slot(Claim(q))] = Claim(q)
    BY <1>0, <1>3, <1>4, <1>6 DEF OwnersHaveTheirSlots
  <2>1. CASE q = p
    BY <2>1, <1>0, <1>1, <1>7 DEF RingInd, OwnersHaveTheirSlots
  <2>2. CASE q # p
    <3>1. pc[q] = "publish" => Holding(q)  BY DEF Holding
    <3>2. pc[q] = "publish" =>
            Slot(Claim(q)) # Slot(Claim(p)) /\ Slot(Claim(q)) \in Slots
      BY <2>2, <3>1, <1>0, OtherSlots, Owner
    <3> QED BY <2>2, <3>2, <1>4, <1>7 DEF RingInd, OwnersHaveTheirSlots
  <2> QED BY <2>1, <2>2
<1>9. PublishedIsReadable'
  <2> SUFFICES ASSUME NotLapped, NEW n \in published, n > cursor - Size
               PROVE  slotEvent'[Slot(n)] = n /\ slotSeq[Slot(n)] = n
    BY <1>0, <1>6 DEF PublishedIsReadable
  <2>1. n \in Nat  BY DEF RingInd, RingTypeOK
  <2>2. Slot(n) # Slot(Claim(p)) /\ Slot(n) \in Slots
    BY <2>1, <1>0, OtherSlots, SlotInSlots
  <2> QED BY <2>2, <1>7 DEF RingInd, PublishedIsReadable
<1> QED BY <1>2, <1>5, <1>8, <1>9 DEF RingInd

LEMMA PublishKeepsInd ==
  ASSUME RingInd, NEW p \in Producers, Publish(p)
  PROVE  RingInd'
<1>0. /\ Holding(p) /\ Writing(p) /\ pc[p] = "publish"
      /\ slotSeq' = [slotSeq EXCEPT ![Slot(Claim(p))] = Claim(p)]
      /\ published' = published \cup {Claim(p)}
      /\ pc' = [pc EXCEPT ![p] = "idle"]
      /\ UNCHANGED <<cursor, slotEvent, current, seen, calls, lapped>>
  BY DEF Publish, Holding, Writing
<1>1. Claim(p) \in Nat /\ Claim(p) <= cursor /\ Slot(Claim(p)) \in Slots
  BY <1>0, Owner
<1>2. RingTypeOK'
  BY <1>0, <1>1 DEF RingInd, RingTypeOK
<1>3. ~Holding(p)' /\ ~Writing(p)' /\ pc'[p] = "idle"
  BY <1>0 DEF RingInd, RingTypeOK, Holding, Writing
<1>4. \A q \in Producers : q # p =>
        /\ pc'[q] = pc[q]
        /\ Holding(q)' = Holding(q) /\ Writing(q)' = Writing(q) /\ Claim(q)' = Claim(q)
  BY <1>0 DEF RingInd, RingTypeOK, Holding, Writing, Claim
<1>5. ClaimsBehindCursor'
  BY <1>0, <1>1, <1>3, <1>4 DEF RingInd, ClaimsBehindCursor, NotLapped
<1>6. UniqueClaims'
  BY <1>0, <1>3, <1>4 DEF RingInd, UniqueClaims
<1>7. NoNumberLost'
  BY <1>0, <1>3, <1>4 DEF RingInd, NoNumberLost
<1>8. NotLapped' = NotLapped  BY <1>0 DEF NotLapped
<1>9. NotLapped => slotSeq' = slotSeq /\ slotEvent[Slot(Claim(p))] = Claim(p)
                   /\ slotSeq[Slot(Claim(p))] = Claim(p)
  BY <1>0, <1>1 DEF RingInd, OwnersHaveTheirSlots, RingTypeOK
<1>10. OwnersHaveTheirSlots'
  BY <1>0, <1>3, <1>4, <1>8, <1>9 DEF RingInd, OwnersHaveTheirSlots
<1>11. PublishedIsReadable'
  BY <1>0, <1>8, <1>9 DEF RingInd, PublishedIsReadable
<1> QED BY <1>2, <1>5, <1>6, <1>7, <1>10, <1>11 DEF RingInd

LEMMA RingNextKeepsInd == RingInd /\ [RingNext]_ringVars => RingInd'
<1> SUFFICES ASSUME RingInd, [RingNext]_ringVars PROVE RingInd'
  OBVIOUS
<1>1. ASSUME NEW p \in Producers, LoadCursor(p) \/ Produce(p) PROVE RingInd'
  BY <1>1, LoadCursorKeepsInd, ClaimCursorKeepsInd, ProbeSlotKeepsInd, TakeSlotKeepsInd,
     WriteEventKeepsInd, PublishKeepsInd DEF Produce
<1>2. CASE UNCHANGED ringVars
  BY <1>2 DEF ringVars, RingInd, RingTypeOK, ClaimsBehindCursor, UniqueClaims, NoNumberLost,
     OwnersHaveTheirSlots, PublishedIsReadable, NotLapped, Holding, Writing, Claim
<1> QED BY <1>1, <1>2 DEF RingNext, RingQuiet

-----------------------------------------------------------------------------
(* The theorems. *)

(* The inductive invariant holds of every state. *)
THEOREM RingInvariance == RingSpec => []RingInd
<1> QED BY RingInitInd, RingNextKeepsInd, PTL DEF RingSpec

(* Every variable keeps its type. *)
THEOREM RingTypeCorrectness == RingSpec => []RingTypeOK
<1>1. RingInd => RingTypeOK  BY DEF RingInd
<1> QED BY <1>1, RingInvariance, PTL

(* Next never gives out a sequence number twice. *)
THEOREM ClaimsAreUnique == RingSpec => []UniqueClaims
<1>1. RingInd => UniqueClaims  BY DEF RingInd
<1> QED BY <1>1, RingInvariance, PTL

(* No sequence number up to the cursor is skipped. *)
THEOREM NumbersAreContiguous == RingSpec => []NoNumberLost
<1>1. RingInd => NoNumberLost  BY DEF RingInd
<1> QED BY <1>1, RingInvariance, PTL

(* While the producers do not lap each other, Get of a published number    *)
(* that was not overwritten returns its event.                             *)
THEOREM PublishedEventsAreReadable == RingSpec => []PublishedIsReadable
<1>1. RingInd => PublishedIsReadable  BY DEF RingInd
<1> QED BY <1>1, RingInvariance, PTL

-----------------------------------------------------------------------------
(* The consumer of the ring.                                               *)

LEMMA ConsumerInitInd == ConsumerInit => DisruptorInd
<1>. SUFFICES ASSUME ConsumerInit PROVE DisruptorInd
  OBVIOUS
<1>1. RingInd  BY RingInitInd DEF ConsumerInit
<1>2. ConsumerTypeOK
  <2>1. 0 \in Slots  BY SizeAssumption DEF Slots
  <2>2. \A R : <<>> \in Seq(R)  BY EmptySeq
  <2>3. Len(<<>>) = 0 /\ 0 <= BatchSize /\ 0 <= Room  BY BatchAssumption
  <2>. QED BY <1>1, <2>1, <2>2, <2>3 DEF ConsumerInit, ConsumerTypeOK, RingInd
<1>3. SlotsHoldTheirNumbers
  BY DEF ConsumerInit, RingInit, SlotsHoldTheirNumbers
<1>4. HandledWasWritten  BY DEF ConsumerInit, HandledWasWritten
<1>. QED BY <1>1, <1>2, <1>3, <1>4 DEF DisruptorInd

(* What was written stays written: it is published next.                   *)
LEMMA WrittenStays ==
  ASSUME RingTypeOK, NEW p \in Producers, LoadCursor(p) \/ Produce(p), NEW n, Written(n)
  PROVE  Written(n)'
<1>1. CASE n \in published
  <2>1. published \subseteq published'
    BY DEF LoadCursor, Produce, ClaimCursor, ProbeSlot, TakeSlot, WriteEvent, Publish
  <2>. QED BY <1>1, <2>1 DEF Written
<1>2. ASSUME NEW q \in Producers, pc[q] = "publish", Claim(q) = n
      PROVE  Written(n)'
  <2>1. CASE q = p
    <3>1. Publish(p)
      BY <1>2, <2>1
      DEF LoadCursor, Produce, ClaimCursor, ProbeSlot, TakeSlot, WriteEvent, Publish
    <3>. QED BY <1>2, <2>1, <3>1 DEF Publish, Written
  <2>2. CASE q # p
    <3>1. pc'[q] = pc[q] /\ current'[q] = current[q]
      BY <2>2
      DEF RingTypeOK, LoadCursor, Produce, ClaimCursor, Advance, ProbeSlot, TakeSlot, WriteEvent, Publish
    <3>. QED BY <1>2, <3>1 DEF Written, Claim
  <2>. QED BY <2>1, <2>2
<1>. QED BY <1>1, <1>2 DEF Written

LEMMA ProducersKeepConsumer ==
  ASSUME DisruptorInd, NEW p \in Producers, LoadCursor(p) \/ Produce(p), UNCHANGED consumerVars
  PROVE  DisruptorInd'
<1>0. RingInd /\ ConsumerTypeOK /\ RingTypeOK  BY DEF DisruptorInd, RingInd
<1>1. RingInd'
  BY <1>0, RingNextKeepsInd DEF RingNext
<1>2. ConsumerTypeOK'
  BY <1>0, <1>1 DEF ConsumerTypeOK, RingInd, consumerVars
<1>3. \A n : Written(n) => Written(n)'  BY <1>0, WrittenStays
<1>4. SlotsHoldTheirNumbers'
  <2>. SUFFICES ASSUME NEW s \in Slots, NEW n, n = slotEvent'[s], n # NoEvent
                PROVE  Slot(n) = s /\ Written(n)'
    BY DEF SlotsHoldTheirNumbers, Slot, Written, Claim
  <2>1. CASE n = slotEvent[s]
    BY <1>3, <2>1 DEF DisruptorInd, SlotsHoldTheirNumbers
  <2>2. CASE n # slotEvent[s]
    <3>1. WriteEvent(p)
      BY <2>2 DEF LoadCursor, Produce, ClaimCursor, Advance, ProbeSlot, TakeSlot, Publish
    <3>2. s = Slot(Claim(p)) /\ n = Claim(p)
      BY <1>0, <2>2, <3>1 DEF WriteEvent, RingTypeOK
    <3>3. pc'[p] = "publish" /\ current'[p] = current[p]
      BY <1>0, <3>1 DEF WriteEvent, RingTypeOK
    <3>4. Written(n)'  BY <3>2, <3>3 DEF Written, Claim
    <3>. QED BY <3>2, <3>4
  <2>. QED BY <2>1, <2>2
<1>5. HandledWasWritten'
  BY <1>3 DEF DisruptorInd, HandledWasWritten, consumerVars
<1>. QED BY <1>1, <1>2, <1>4, <1>5 DEF DisruptorInd

LEMMA ConsumerKeepsRing ==
  ASSUME RingInd /\ SlotsHoldTheirNumbers, UNCHANGED ringVars
  PROVE  /\ RingInd' /\ SlotsHoldTheirNumbers'
         /\ \A n : Written(n)' <=> Written(n)
<1>1. RingInd'  BY RingNextKeepsInd
<1>. QED BY <1>1 DEF ringVars, SlotsHoldTheirNumbers, Written, Claim, Slot

LEMMA ConsumerStepKeeps ==
  ASSUME DisruptorInd, Consume \/ Stop \/ Receive \/ UNCHANGED disruptorVars
  PROVE  DisruptorInd'
<1>0. RingInd /\ ConsumerTypeOK /\ SlotsHoldTheirNumbers /\ HandledWasWritten
  BY DEF DisruptorInd
<1>1. UNCHANGED ringVars
  BY DEF Consume, Gather, Handle, Exit, Stop, Receive, disruptorVars
<1>2. RingInd' /\ RingTypeOK' /\ SlotsHoldTheirNumbers' /\ \A n : Written(n)' <=> Written(n)
  BY <1>0, <1>1, ConsumerKeepsRing DEF RingInd
<1>3. slotEvent \in [Slots -> Nat \cup {NoEvent}]  BY <1>0 DEF RingInd, RingTypeOK
<1>4. ConsumerTypeOK' /\ HandledWasWritten'
  <2>1. CASE Gather
    <3>. DEFINE gathered == [k \in 1 .. BatchSize |-> Slot(position + Stride(k))]
    <3>1. \A k \in 0 .. BatchSize : Slot(position + Stride(k)) \in Slots
      <4>1. ASSUME NEW k \in 0 .. BatchSize PROVE Slot(position + Stride(k)) \in Slots
        <5>1. position \in Int /\ k \in Nat
          BY <1>0, BatchAssumption, SizeAssumption DEF ConsumerTypeOK, Slots
        <5>2. Stride(k) \in Int  BY <5>1 DEF Stride
        <5>. DEFINE n == position + Stride(k)
        <5>3. n \in Int  BY <5>1, <5>2
        <5>. HIDE DEF n
        <5>4. Slot(n) \in Slots  BY <5>3, SlotInSlots
        <5>. QED BY <5>4 DEF n
      <4>. QED BY <4>1
    <3>2. gathered \in Seq(Slots) /\ Len(gathered) = BatchSize
      BY <3>1, BatchAssumption, IsASeq
    <3>3. batch' = gathered /\ position' = Slot(position + Stride(BatchSize))
          /\ UNCHANGED <<running, done, received, handled>>
      BY <2>1 DEF Gather
    <3>4. position' \in Slots  BY <3>1, <3>3, BatchAssumption
    <3>5. BatchSize \in Nat  BY BatchAssumption
    <3>. HIDE DEF gathered
    <3>6. batch' \in Seq(Slots) /\ Len(batch') <= BatchSize  BY <3>2, <3>3, <3>5
    <3>7. ConsumerTypeOK'  BY <1>0, <1>2, <3>3, <3>4, <3>6 DEF ConsumerTypeOK
    <3>. QED BY <1>0, <1>2, <3>3, <3>7 DEF HandledWasWritten
  <2>2. CASE Handle
    <3>. DEFINE s == Head(batch)
                n == slotEvent[s]
    <3>1. /\ batch \in Seq(Slots) /\ batch # <<>> /\ Len(batch) <= BatchSize /\ BatchSize \in Nat
          /\ received \in Seq(Nat \cup {NoEvent}) /\ Len(received) < Room /\ Room \in Nat
      BY <1>0, <2>2, BatchAssumption DEF ConsumerTypeOK, Handle
    <3>2. /\ s \in Slots /\ Tail(batch) \in Seq(Slots)
          /\ Len(Tail(batch)) = Len(batch) - 1 /\ Len(batch) \in Nat
      BY <3>1, HeadTailProperties, LenProperties
    <3>3. n \in Nat \cup {NoEvent} /\ (n # NoEvent => Written(n))
      BY <1>0, <1>3, <3>2 DEF SlotsHoldTheirNumbers
    <3>4. /\ received' = Append(received, n) /\ handled' = handled \cup {n}
          /\ batch' = Tail(batch) /\ UNCHANGED <<position, running, done>>
      BY <2>2 DEF Handle
    <3>. HIDE DEF s, n
    <3>5. /\ Append(received, n) \in Seq(Nat \cup {NoEvent})
          /\ Len(Append(received, n)) = Len(received) + 1 /\ Len(received) \in Nat
      BY <3>1, <3>3, AppendProperties, LenProperties
    <3>6. /\ batch' \in Seq(Slots) /\ Len(batch') <= BatchSize
          /\ received' \in Seq(Nat \cup {NoEvent}) /\ Len(received') <= Room
      BY <3>1, <3>2, <3>4, <3>5
    <3>7. handled' \in SUBSET (Nat \cup {NoEvent})  BY <1>0, <3>3, <3>4 DEF ConsumerTypeOK
    <3>8. ConsumerTypeOK'  BY <1>0, <1>2, <3>4, <3>6, <3>7 DEF ConsumerTypeOK
    <3>9. HandledWasWritten'  BY <1>0, <1>2, <3>3, <3>4 DEF HandledWasWritten
    <3>. QED BY <3>8, <3>9
  <2>3. CASE Exit \/ Stop
    BY <1>0, <1>2, <2>3 DEF ConsumerTypeOK, HandledWasWritten, Exit, Stop
  <2>4. CASE Receive
    <3>1. /\ received \in Seq(Nat \cup {NoEvent}) /\ received # <<>> /\ Len(received) <= Room
          /\ Room \in Nat
      BY <1>0, <2>4, BatchAssumption DEF ConsumerTypeOK, Receive
    <3>2. /\ Tail(received) \in Seq(Nat \cup {NoEvent})
          /\ Len(Tail(received)) = Len(received) - 1 /\ Len(received) \in Nat
      BY <3>1, HeadTailProperties, LenProperties
    <3>3. received' = Tail(received) /\ UNCHANGED <<position, batch, running, done, handled>>
      BY <2>4 DEF Receive
    <3>4. received' \in Seq(Nat \cup {NoEvent}) /\ Len(received') <= Room
      BY <3>1, <3>2, <3>3
    <3>. QED BY <1>0, <1>2, <3>3, <3>4 DEF ConsumerTypeOK, HandledWasWritten
  <2>5. CASE UNCHANGED disruptorVars
    BY <1>0, <1>2, <2>5 DEF ConsumerTypeOK, HandledWasWritten, disruptorVars, consumerVars
  <2>. QED BY <2>1, <2>2, <2>3, <2>4, <2>5 DEF Consume
<1>. QED BY <1>2, <1>4 DEF DisruptorInd

(* The consumer does not disturb the producers: with it, the ring still    *)
(* behaves as RingSpec says, so that all of the above holds.               *)
THEOREM ConsumerOnlyReads == DisruptorSpec => RingSpec
<1>1. ConsumerInit => RingInit  BY DEF ConsumerInit
<1>2. [DisruptorNext]_disruptorVars => [RingNext]_ringVars
  <2>. SUFFICES ASSUME [DisruptorNext]_disruptorVars PROVE RingNext \/ UNCHANGED ringVars
    OBVIOUS
  <2>1. CASE \E p \in Producers : LoadCursor(p) \/ Produce(p)  BY <2>1 DEF RingNext
  <2>2. CASE Consume \/ Stop \/ Receive \/ DisruptorQuiet
    BY <2>2 DEF Consume, Gather, Handle, Exit, Stop, Receive, DisruptorQuiet, RingQuiet
  <2>3. CASE UNCHANGED disruptorVars  BY <2>3 DEF disruptorVars
  <2>. QED BY <2>1, <2>2, <2>3 DEF DisruptorNext
<1>. QED BY <1>1, <1>2, PTL DEF DisruptorSpec, RingSpec

(* The inductive invariant of the ring with its consumer.                  *)
THEOREM DisruptorInvariance == DisruptorSpec => []DisruptorInd
<1>1. DisruptorInd /\ [DisruptorNext]_disruptorVars => DisruptorInd'
  <2>. SUFFICES ASSUME DisruptorInd, [DisruptorNext]_disruptorVars PROVE DisruptorInd'
    OBVIOUS
  <2>1. CASE DisruptorQuiet
    <3>1. UNCHANGED disruptorVars
      BY <2>1 DEF DisruptorQuiet, RingQuiet, disruptorVars
    <3>. QED BY <3>1, ConsumerStepKeeps
  <2>. QED BY <2>1, ProducersKeepConsumer, ConsumerStepKeeps DEF DisruptorNext
<1>. QED BY <1>1, ConsumerInitInd, PTL DEF DisruptorSpec

(* The handler is never called with an event that nobody wrote, although   *)
(* the loop looks at no sequence and runs ahead of the producers.          *)
THEOREM HandlerSeesWrittenEvents == DisruptorSpec => []HandledWasWritten
BY DisruptorInvariance, PTL DEF DisruptorInd

-----------------------------------------------------------------------------
(* The ledger.                                                             *)

(* What Wrap returns is a quantity. *)
LEMMA WrapIsWord ==
  ASSUME NEW n \in Int
  PROVE  Wrap(n) \in Word
<1>1. Half \in Nat \ {0}  BY WordAssumption
<1>2. 2 * Half \in Nat /\ 2 * Half > 0  BY <1>1
<1>3. DEFINE m == (n + Half) % (2 * Half)
<1>4. m \in 0 .. 2 * Half - 1  BY <1>1, <1>2
<1>5. m - Half \in -Half .. Half - 1
  <2>. HIDE DEF m
  <2>. QED BY <1>1, <1>4
<1>. QED BY <1>5 DEF Wrap, Word

(* Every amount a caller passes is a quantity. *)
LEMMA AmountIsWord ==
  ASSUME NEW x \in Amounts
  PROVE  x \in Word /\ x \in Int /\ Wrap(-x) \in Word
<1>1. x \in Word  BY AmountsAssumption DEF Word
<1>2. x \in Int /\ -x \in Int  BY <1>1, WordAssumption DEF Word
<1>. QED BY <1>1, <1>2, WrapIsWord

(* Wrap takes away a multiple of the number of words. *)
Laps(n) == (n + Half) \div (2 * Half)

LEMMA WrapIsCongruent ==
  ASSUME NEW n \in Int
  PROVE  Laps(n) \in Int /\ Wrap(n) = n - Laps(n) * (2 * Half)
<1>. DEFINE M == 2 * Half
<1>1. Half \in Nat \ {0} /\ M \in Nat /\ M > 0  BY WordAssumption
<1>. HIDE DEF M
<1>2. \A z \in Int : z = M * (z \div M) + (z % M) /\ (z \div M) \in Int /\ (z % M) \in Int
  BY <1>1
<1>3. n + Half \in Int  BY <1>1
<1>4. n + Half = M * Laps(n) + ((n + Half) % M) /\ Laps(n) \in Int
  BY <1>2, <1>3 DEF Laps, M
<1>5. (n + Half) % M = n + Half - Laps(n) * M  BY <1>1, <1>2, <1>3, <1>4
<1>6. Wrap(n) = n - Laps(n) * M  BY <1>1, <1>4, <1>5 DEF Wrap, M
<1>. QED BY <1>4, <1>6 DEF M

(* Two words that differ by a multiple of the number of words are equal. *)
LEMMA CongruentWords ==
  ASSUME NEW v \in Word, NEW w \in Word, NEW k \in Int, v = w + k * (2 * Half)
  PROVE  v = w
<1>1. Half \in Nat \ {0} /\ v \in Int /\ w \in Int /\ v - w < 2 * Half /\ w - v < 2 * Half
  BY WordAssumption DEF Word
<1>. DEFINE M == 2 * Half
<1>2. M \in Nat /\ M > 0 /\ v = w + k * M /\ v - w < M /\ w - v < M  BY <1>1
<1>. HIDE DEF M
<1>3. k >= 1 => k * M >= M  BY <1>2
<1>4. k <= -1 => k * M <= -M  BY <1>2
<1>5. k = 0  BY <1>1, <1>2, <1>3, <1>4
<1>. QED BY <1>1, <1>2, <1>5

(* A word is what it wraps to. *)
LEMMA WrapOfWord ==
  ASSUME NEW w \in Word
  PROVE  Wrap(w) = w
<1>1. w \in Int /\ Half \in Nat  BY WordAssumption DEF Word
<1>2. Laps(w) \in Int /\ Wrap(w) = w - Laps(w) * (2 * Half)  BY <1>1, WrapIsCongruent
<1>3. Wrap(w) = w + (-Laps(w)) * (2 * Half) /\ -Laps(w) \in Int  BY <1>1, <1>2
<1>. QED BY <1>1, <1>3, WrapIsWord, CongruentWords

(* Wrapping a summand first does not change where a sum wraps to. *)
LEMMA WrapOfSum ==
  ASSUME NEW m \in Int, NEW n \in Int
  PROVE  Wrap(Wrap(m) + n) = Wrap(m + n)
<1>1. Half \in Nat /\ \A w \in Word : w \in Int  BY WordAssumption DEF Word
<1>2. Wrap(m) \in Int  BY <1>1, WrapIsWord
<1>. DEFINE M == 2 * Half
            x == Wrap(m) + n
            y == m + n
            k == Laps(m)
            p == Laps(x)
            q == Laps(y)
<1>3. M \in Int /\ x \in Int /\ y \in Int  BY <1>1, <1>2
<1>4. x - y = Wrap(m) - m  BY <1>2
<1>. HIDE DEF x, y
<1>5. k \in Int /\ Wrap(m) = m - k * M  BY WrapIsCongruent
<1>6. p \in Int /\ Wrap(x) = x - p * M  BY <1>3, WrapIsCongruent
<1>7. q \in Int /\ Wrap(y) = y - q * M  BY <1>3, WrapIsCongruent
<1>. HIDE DEF k, p, q, M
<1>8. (q - k - p) * M = q * M - k * M - p * M  BY <1>3, <1>5, <1>6, <1>7
<1>9. k * M \in Int /\ p * M \in Int /\ q * M \in Int  BY <1>3, <1>5, <1>6, <1>7
<1>10. Wrap(x) = Wrap(y) + (q - k - p) * M
  BY <1>2, <1>3, <1>4, <1>5, <1>6, <1>7, <1>8, <1>9
<1>11. q - k - p \in Int  BY <1>5, <1>6, <1>7
<1>12. Wrap(x) = Wrap(y)  BY <1>3, <1>10, <1>11, WrapIsWord, CongruentWords DEF M
<1>. QED BY <1>12 DEF x, y

(* A call that fails changes nothing but the result. *)
LEMMA FailKeeps ==
  ASSUME EntriesInd, NEW e, Fail(e),
         e \in {"ErrAccountExists", "ErrAccountNotFound", "ErrInsufficientFunds"}
  PROVE  EntriesInd'
BY DEF EntriesInd, LedgerTypeOK, EntriesOfKnownAccounts, LatestEntryIsBalance, IsLatest, Fail

(* An operation on existing accounts keeps the invariant, if it appends    *)
(* one entry for the one account whose balance it changes.                 *)
LEMMA OneEntryKeeps ==
  ASSUME EntriesInd,
         NEW a \in accounts, NEW x \in Word, NEW b \in Word,
         NEW t \in {"deposit", "withdrawal", "transfer"},
         balance' = [balance EXCEPT ![a] = b],
         journal' = Append(journal, Entry(t, a, x)),
         result' = "ok",
         UNCHANGED <<accounts, opening>>
  PROVE  EntriesInd'
<1>. USE DEF EntriesInd
<1>0. a \in AccountIDs /\ balance' \in [AccountIDs -> Word] /\ balance'[a] = b
  BY DEF LedgerTypeOK
<1>1. journal \in Seq(Transaction) /\ Entry(t, a, x) \in Transaction
  BY <1>0 DEF LedgerTypeOK, Transaction, Entry
<1>2. /\ journal' \in Seq(Transaction)
      /\ Len(journal') = Len(journal) + 1
      /\ DOMAIN journal = 1 .. Len(journal) /\ DOMAIN journal' = 1 .. Len(journal) + 1
      /\ \A i \in 1 .. Len(journal) : journal'[i] = journal[i]
      /\ journal'[Len(journal) + 1] = Entry(t, a, x)
      /\ Len(journal) \in Nat
  BY <1>1, AppendProperties
<1>3. LedgerTypeOK'  BY <1>0, <1>2 DEF LedgerTypeOK
<1>4. EntriesOfKnownAccounts'
  BY <1>2 DEF EntriesOfKnownAccounts, Entry
<1>5. ASSUME NEW i \in DOMAIN journal', IsLatest(i)'
      PROVE  journal'[i].balance = balance'[journal'[i].account]
  <2>1. CASE i = Len(journal) + 1
    BY <2>1, <1>2, <1>0 DEF Entry
  <2>2. CASE i # Len(journal) + 1
    <3>1. i \in DOMAIN journal /\ journal'[i] = journal[i]  BY <2>2, <1>2
    <3>2. journal[i].account # a  BY <2>2, <1>2, <1>5, <3>1 DEF IsLatest, Entry
    <3>3. IsLatest(i)  BY <1>2, <1>5, <3>1 DEF IsLatest
    <3>4. journal[i] \in Transaction  BY <3>1, <1>1, <1>2, ElementOfSeq
    <3>5. journal[i].account \in AccountIDs  BY <3>4 DEF Transaction
    <3>. QED BY <3>1, <3>2, <3>3, <3>5 DEF LatestEntryIsBalance, LedgerTypeOK
  <2>. QED BY <2>1, <2>2
<1>6. ASSUME NEW c \in accounts', \A i \in DOMAIN journal' : journal'[i].account # c
      PROVE  balance'[c] = opening'[c]
  <2>1. c # a  BY <1>2, <1>6 DEF Entry
  <2>2. \A i \in DOMAIN journal : journal[i].account # c  BY <1>2, <1>6
  <2>. QED BY <2>1, <2>2 DEF LatestEntryIsBalance, LedgerTypeOK
<1>. QED BY <1>3, <1>4, <1>5, <1>6 DEF LatestEntryIsBalance

(* The same of the two entries of a transfer, also when both are for one   *)
(* account.                                                                *)
LEMMA TwoEntriesKeep ==
  ASSUME EntriesInd, NEW from \in accounts, NEW to \in accounts, NEW x \in Amounts,
         Move(from, to, x)
  PROVE  EntriesInd'
<1>. USE DEF EntriesInd
<1>. DEFINE e == Entry("transfer", from, Wrap(-x))
            f == Entry("transfer", to, x)
            n == Len(journal)
<1>0. /\ from \in AccountIDs /\ to \in AccountIDs
      /\ balance' \in [AccountIDs -> Word]
      /\ \A c \in AccountIDs : c # from /\ c # to => balance'[c] = balance[c]
  <2>1. from \in AccountIDs /\ to \in AccountIDs /\ balance \in [AccountIDs -> Word]
    BY DEF LedgerTypeOK
  <2>. DEFINE debited == [balance EXCEPT ![from] = Wrap(@ - x)]
  <2>2. x \in Int /\ \A c \in Word : c \in Int  BY AmountIsWord, WordAssumption DEF Word
  <2>3. Wrap(balance[from] - x) \in Word  BY <2>1, <2>2, WrapIsWord
  <2>4. debited \in [AccountIDs -> Word]  BY <2>1, <2>3
  <2>5. Wrap(debited[to] + x) \in Word
    <3>. HIDE DEF debited
    <3>. QED BY <2>1, <2>2, <2>4, WrapIsWord
  <2>6. balance' = [debited EXCEPT ![to] = Wrap(@ + x)]  BY DEF Move
  <2>. QED BY <2>1, <2>3, <2>5, <2>6
<1>1. journal \in Seq(Transaction) /\ e \in Transaction /\ f \in Transaction
  BY <1>0, AmountIsWord DEF LedgerTypeOK, Transaction, Entry
<1>2. /\ e.account = from /\ e.balance = balance'[from]
      /\ f.account = to /\ f.balance = balance'[to]
  BY DEF Entry
<1>3. journal' = journal \o <<e, f>>  BY DEF Move
<1>. HIDE DEF e, f
<1>4. /\ journal' \in Seq(Transaction)
      /\ n \in Nat
      /\ DOMAIN journal = 1 .. n /\ DOMAIN journal' = 1 .. n + 2
      /\ \A i \in 1 .. n : journal'[i] = journal[i]
      /\ journal'[n + 1] = e /\ journal'[n + 2] = f
  BY <1>1, <1>3
<1>. HIDE DEF n
<1>5. LedgerTypeOK'  BY <1>0, <1>4 DEF LedgerTypeOK, Move
<1>6. EntriesOfKnownAccounts'
  BY <1>2, <1>4 DEF EntriesOfKnownAccounts, Move
<1>7. ASSUME NEW i \in DOMAIN journal', IsLatest(i)'
      PROVE  journal'[i].balance = balance'[journal'[i].account]
  <2>1. CASE i = n + 1 \/ i = n + 2
    BY <2>1, <1>2, <1>4
  <2>2. CASE i \in 1 .. n
    <3>1. journal'[i] = journal[i] /\ i \in DOMAIN journal  BY <2>2, <1>4
    <3>2. journal[i].account # from /\ journal[i].account # to
      BY <2>2, <3>1, <1>2, <1>4, <1>7 DEF IsLatest
    <3>3. IsLatest(i)  BY <1>4, <1>7, <3>1 DEF IsLatest
    <3>4. journal[i] \in Transaction  BY <2>2, <1>1, <1>4
    <3>5. journal[i].account \in AccountIDs  BY <3>4 DEF Transaction
    <3>. QED BY <3>1, <3>2, <3>3, <3>5, <1>0 DEF LatestEntryIsBalance
  <2>. QED BY <2>1, <2>2, <1>4
<1>8. ASSUME NEW c \in accounts', \A i \in DOMAIN journal' : journal'[i].account # c
      PROVE  balance'[c] = opening'[c]
  <2>1. c # from /\ c # to  BY <1>2, <1>4, <1>8
  <2>2. \A i \in DOMAIN journal : journal[i].account # c  BY <1>4, <1>8
  <2>3. c \in accounts /\ c \in AccountIDs /\ opening' = opening
    BY <1>8 DEF Move, LedgerTypeOK
  <2>. QED BY <2>1, <2>2, <2>3, <1>0 DEF LatestEntryIsBalance
<1>. QED BY <1>5, <1>6, <1>7, <1>8 DEF LatestEntryIsBalance

(* Every operation keeps the first part of the invariant. *)
LEMMA CallKeepsEntries == EntriesInd /\ [Call]_ledgerVars => EntriesInd'
<1>. SUFFICES ASSUME EntriesInd, [Call]_ledgerVars PROVE EntriesInd'  OBVIOUS
<1>. USE DEF EntriesInd
<1>0. \A c \in Word : c \in Int  BY WordAssumption DEF Word
<1>1. ASSUME NEW a \in AccountIDs, NEW b \in Amounts, CreateAccount(a, b)
      PROVE  EntriesInd'
  <2>1. CASE a \in accounts
    BY <2>1, <1>1, FailKeeps DEF CreateAccount
  <2>2. CASE a \notin accounts
    <3>1. /\ accounts' = accounts \cup {a} /\ journal' = journal /\ result' = "ok"
          /\ balance' = [balance EXCEPT ![a] = b]
          /\ opening' = [opening EXCEPT ![a] = b]
      BY <2>2, <1>1 DEF CreateAccount
    <3>2. b \in Word  BY AmountIsWord
    <3>3. LedgerTypeOK'  BY <3>1, <3>2 DEF LedgerTypeOK
    <3>4. EntriesOfKnownAccounts'  BY <3>1 DEF EntriesOfKnownAccounts
    <3>5. ASSUME NEW i \in DOMAIN journal', IsLatest(i)'
          PROVE  journal'[i].balance = balance'[journal'[i].account]
      <4>1. journal[i].account # a  BY <2>2, <3>1 DEF EntriesOfKnownAccounts
      <4>2. IsLatest(i)  BY <3>1, <3>5 DEF IsLatest
      <4>3. journal[i].account \in AccountIDs
        BY <3>1 DEF EntriesOfKnownAccounts, LedgerTypeOK
      <4>. QED BY <3>1, <4>1, <4>2, <4>3 DEF LatestEntryIsBalance, LedgerTypeOK
    <3>6. ASSUME NEW c \in accounts', \A i \in DOMAIN journal' : journal'[i].account # c
          PROVE  balance'[c] = opening'[c]
      BY <3>1, <3>6 DEF LatestEntryIsBalance, LedgerTypeOK
    <3>. QED BY <3>3, <3>4, <3>5, <3>6 DEF LatestEntryIsBalance
  <2>. QED BY <2>1, <2>2
<1>2. ASSUME NEW a \in AccountIDs, NEW x \in Amounts, Deposit(a, x)
      PROVE  EntriesInd'
  <2>1. CASE a \notin accounts
    BY <2>1, <1>2, FailKeeps DEF Deposit
  <2>2. CASE a \in accounts
    <3>1. Wrap(balance[a] + x) \in Word
      BY <1>0, AmountIsWord, WrapIsWord DEF LedgerTypeOK
    <3>2. x \in Word  BY AmountIsWord
    <3>. QED BY <2>2, <1>2, <3>1, <3>2, OneEntryKeeps DEF Deposit
  <2>. QED BY <2>1, <2>2
<1>3. ASSUME NEW a \in AccountIDs, NEW x \in Amounts, Withdraw(a, x)
      PROVE  EntriesInd'
  <2>1. CASE a \notin accounts
    BY <2>1, <1>3, FailKeeps DEF Withdraw
  <2>2. CASE a \in accounts /\ ~Covers(a, x)
    BY <2>2, <1>3, FailKeeps DEF Withdraw
  <2>3. CASE a \in accounts /\ Covers(a, x)
    <3>1. Wrap(balance[a] - x) \in Word
      BY <1>0, AmountIsWord, WrapIsWord DEF LedgerTypeOK
    <3>2. x \in Word  BY AmountIsWord
    <3>. QED BY <2>3, <1>3, <3>1, <3>2, OneEntryKeeps DEF Withdraw
  <2>. QED BY <2>1, <2>2, <2>3
<1>4. ASSUME NEW from \in AccountIDs, NEW to \in AccountIDs, NEW x \in Amounts,
             Transfer(from, to, x)
      PROVE  EntriesInd'
  <2>1. CASE ~({from, to} \subseteq accounts)
    BY <2>1, <1>4, FailKeeps DEF Transfer
  <2>2. CASE {from, to} \subseteq accounts /\ ~Covers(from, x)
    BY <2>2, <1>4, FailKeeps DEF Transfer
  <2>3. CASE {from, to} \subseteq accounts /\ Covers(from, x)
    BY <2>3, <1>4, TwoEntriesKeep DEF Transfer
  <2>. QED BY <2>1, <2>2, <2>3
<1>5. CASE UNCHANGED ledgerVars
  BY <1>5 DEF ledgerVars, LedgerTypeOK, EntriesOfKnownAccounts, LatestEntryIsBalance, IsLatest
<1>. QED BY <1>1, <1>2, <1>3, <1>4, <1>5 DEF Call

(* What the invariant sums and counts, of any journal. *)
Explained(j, a)   == SumFunctionOnSet([i \in DOMAIN j |-> Effect(j[i])],
                                      {i \in DOMAIN j : j[i].account = a})
Deposited(j)      == SumFunctionOnSet([i \in DOMAIN j |-> j[i].amount],
                                      {i \in DOMAIN j : j[i].type = "deposit"})
TransfersOf(j, i) == {k \in 1 .. i : j[k].type = "transfer"}
Carries(j, i)     == j[i].type # "transfer" \/ Cardinality(TransfersOf(j, i)) % 2 = 0

(* The amount of an entry and its effect are numbers. *)
LEMMA TransactionIsTyped ==
  ASSUME NEW t \in Transaction
  PROVE  t.amount \in Int /\ t.amount \in Word /\ Effect(t) \in Int
BY WordAssumption DEF Transaction, Word, Effect

(* So is the sum of the deposits. *)
LEMMA DepositedIsInt ==
  ASSUME NEW j \in Seq(Transaction)
  PROVE  Deposited(j) \in Int
<1>. DEFINE v == [i \in DOMAIN j |-> j[i].amount]
            P == {i \in DOMAIN j : j[i].type = "deposit"}
            n == Len(j)
<1>1. \A i \in P : v[i] \in Int  BY ElementOfSeq, TransactionIsTyped
<1>2. IsFiniteSet(P)
  <2>1. P \in SUBSET (1 .. n) /\ n \in Nat  OBVIOUS
  <2>. HIDE DEF n, P
  <2>2. IsFiniteSet(1 .. n)  BY <2>1, FS_Interval
  <2>. QED BY <2>1, <2>2, FS_Subset
<1>. HIDE DEF v, P
<1>3. SumFunctionOnSet(v, P) \in Int  BY <1>1, <1>2, SumIsInt
<1>. QED BY <1>3 DEF Deposited, v, P

(* What an appended entry adds to each. *)
LEMMA AppendAdds ==
  ASSUME NEW j \in Seq(Transaction), NEW e \in Transaction
  PROVE  LET k == Append(j, e) IN
         /\ \A a : /\ Explained(j, a) \in Int
                   /\ Explained(k, a) = Explained(j, a) + (IF e.account = a THEN Effect(e) ELSE 0)
         /\ Deposited(j) \in Int
         /\ Deposited(k) = Deposited(j) + (IF e.type = "deposit" THEN e.amount ELSE 0)
<1>. DEFINE k == Append(j, e)  n == Len(j)  z == n + 1
<1>1. /\ n \in Nat /\ z \notin 1 .. n /\ DOMAIN j = 1 .. n /\ DOMAIN k = (1 .. n) \cup {z}
      /\ \A i \in 1 .. n : k[i] = j[i] /\ j[i] \in Transaction
      /\ k[z] = e
  BY AppendProperties, ElementOfSeq
<1>. HIDE DEF k, n, z
<1>2. ASSUME NEW a
      PROVE  /\ Explained(j, a) \in Int
             /\ Explained(k, a) = Explained(j, a) + (IF e.account = a THEN Effect(e) ELSE 0)
  <2>. DEFINE v == [i \in DOMAIN j |-> Effect(j[i])]
              w == [i \in DOMAIN k |-> Effect(k[i])]
              P == {i \in DOMAIN j : j[i].account = a}
              Q == {i \in DOMAIN k : k[i].account = a}
  <2>1. IsFiniteSet(P) /\ z \notin P /\ \A i \in P : i \in 1 .. n
    <3>1. P \in SUBSET (1 .. n) /\ z \notin 1 .. n  BY <1>1
    <3>2. IsFiniteSet(1 .. n)  BY <1>1, FS_Interval
    <3>. QED BY <3>1, <3>2, FS_Subset
  <2>2. \A x \in P : v[x] \in Int /\ w[x] = v[x]  BY <1>1, <2>1, TransactionIsTyped
  <2>3. w[z] = Effect(e) /\ w[z] \in Int  BY <1>1, TransactionIsTyped
  <2>4. Q = IF e.account = a THEN P \cup {z} ELSE P  BY <1>1
  <2>. HIDE DEF v, w, P, Q
  <2>5. /\ SumFunctionOnSet(v, P) \in Int
        /\ SumFunctionOnSet(w, P) = SumFunctionOnSet(v, P)
        /\ SumFunctionOnSet(w, P \cup {z}) = w[z] + SumFunctionOnSet(w, P)
    <3>1. SumFunctionOnSet(v, P) \in Int  BY <2>1, <2>2, SumIsInt
    <3>2. SumFunctionOnSet(w, P) = SumFunctionOnSet(v, P)  BY <2>1, <2>2, SumSame
    <3>3. SumFunctionOnSet(w, P \cup {z}) = w[z] + SumFunctionOnSet(w, P)
      BY <2>1, <2>2, <2>3, SumAdds
    <3>. QED BY <3>1, <3>2, <3>3
  <2>6. SumFunctionOnSet(w, Q) = SumFunctionOnSet(v, P) + (IF e.account = a THEN w[z] ELSE 0)
    BY <2>3, <2>4, <2>5
  <2>. QED BY <2>3, <2>5, <2>6 DEF Explained, v, w, P, Q
<1>3. /\ Deposited(j) \in Int
      /\ Deposited(k) = Deposited(j) + (IF e.type = "deposit" THEN e.amount ELSE 0)
  <2>. DEFINE v == [i \in DOMAIN j |-> j[i].amount]
              w == [i \in DOMAIN k |-> k[i].amount]
              P == {i \in DOMAIN j : j[i].type = "deposit"}
              Q == {i \in DOMAIN k : k[i].type = "deposit"}
  <2>1. IsFiniteSet(P) /\ z \notin P /\ \A i \in P : i \in 1 .. n
    <3>1. P \in SUBSET (1 .. n) /\ z \notin 1 .. n  BY <1>1
    <3>2. IsFiniteSet(1 .. n)  BY <1>1, FS_Interval
    <3>. QED BY <3>1, <3>2, FS_Subset
  <2>2. \A x \in P : v[x] \in Int /\ w[x] = v[x]  BY <1>1, <2>1, TransactionIsTyped
  <2>3. w[z] = e.amount /\ w[z] \in Int  BY <1>1, TransactionIsTyped
  <2>4. Q = IF e.type = "deposit" THEN P \cup {z} ELSE P  BY <1>1
  <2>. HIDE DEF v, w, P, Q
  <2>5. /\ SumFunctionOnSet(v, P) \in Int
        /\ SumFunctionOnSet(w, P) = SumFunctionOnSet(v, P)
        /\ SumFunctionOnSet(w, P \cup {z}) = w[z] + SumFunctionOnSet(w, P)
    <3>1. SumFunctionOnSet(v, P) \in Int  BY <2>1, <2>2, SumIsInt
    <3>2. SumFunctionOnSet(w, P) = SumFunctionOnSet(v, P)  BY <2>1, <2>2, SumSame
    <3>3. SumFunctionOnSet(w, P \cup {z}) = w[z] + SumFunctionOnSet(w, P)
      BY <2>1, <2>2, <2>3, SumAdds
    <3>. QED BY <3>1, <3>2, <3>3
  <2>6. SumFunctionOnSet(w, Q) = SumFunctionOnSet(v, P) + (IF e.type = "deposit" THEN w[z] ELSE 0)
    BY <2>3, <2>4, <2>5
  <2>. QED BY <2>3, <2>5, <2>6 DEF Deposited, v, w, P, Q
<1>. QED BY <1>2, <1>3 DEF k

(* An appended entry leaves the earlier ones what they were, and counts if *)
(* it is that of a transfer.                                               *)
LEMMA AppendCounts ==
  ASSUME NEW j \in Seq(Transaction), NEW e \in Transaction
  PROVE  LET k == Append(j, e)  n == Len(j) IN
         /\ Cardinality(TransfersOf(j, n)) \in Nat
         /\ Cardinality(TransfersOf(k, n + 1)) =
              Cardinality(TransfersOf(j, n)) + (IF e.type = "transfer" THEN 1 ELSE 0)
         /\ \A i \in 1 .. n : Carries(k, i) <=> Carries(j, i)
<1>. DEFINE k == Append(j, e)  n == Len(j)
<1>1. /\ n \in Nat
      /\ \A i \in 1 .. n : k[i] = j[i]
      /\ k[n + 1] = e
  BY AppendProperties, ElementOfSeq
<1>. HIDE DEF k, n
<1>2. \A i \in 0 .. n : TransfersOf(k, i) = TransfersOf(j, i)  BY <1>1 DEF TransfersOf
<1>3. \A i \in 1 .. n : Carries(k, i) <=> Carries(j, i)  BY <1>1, <1>2 DEF Carries
<1>4. IsFiniteSet(TransfersOf(j, n)) /\ Cardinality(TransfersOf(j, n)) \in Nat
  <2>1. TransfersOf(j, n) \in SUBSET (1 .. n)  BY DEF TransfersOf
  <2>2. IsFiniteSet(TransfersOf(j, n))  BY <1>1, <2>1, FS_Interval, FS_Subset
  <2>. QED BY <2>2, FS_CardinalityType
<1>5. TransfersOf(k, n + 1) =
        IF e.type = "transfer" THEN TransfersOf(j, n) \cup {n + 1} ELSE TransfersOf(j, n)
  BY <1>1 DEF TransfersOf
<1>6. n + 1 \notin TransfersOf(j, n)  BY <1>1 DEF TransfersOf
<1>7. Cardinality(TransfersOf(k, n + 1)) =
        Cardinality(TransfersOf(j, n)) + (IF e.type = "transfer" THEN 1 ELSE 0)
  <2>1. CASE e.type = "transfer"
    BY <2>1, <1>4, <1>5, <1>6, FS_AddElement
  <2>2. CASE e.type # "transfer"
    BY <2>2, <1>4, <1>5
  <2>. QED BY <2>1, <2>2
<1>. QED BY <1>3, <1>4, <1>7 DEF k, n

NonNegative(j) == \A i \in 1 .. Len(j) : Carries(j, i) => j[i].amount >= 0
PairsIn(j)     == Cardinality(TransfersOf(j, Len(j))) % 2 = 0

(* The conjuncts of the invariant in these terms. *)
LEMMA Restated ==
  ASSUME journal \in Seq(Transaction)
  PROVE  /\ JournalExplainsBalances <=>
              \A a \in accounts : balance[a] = Wrap(opening[a] + Explained(journal, a))
         /\ PaidIn = SumFunctionOnSet(opening, accounts) + Deposited(journal)
         /\ NoNegativeAmounts <=> (\A a \in accounts : opening[a] >= 0) /\ NonNegative(journal)
         /\ TransfersInPairs <=> PairsIn(journal)
<1>1. DOMAIN journal = 1 .. Len(journal)  OBVIOUS
<1>2. JournalExplainsBalances <=>
        \A a \in accounts : balance[a] = Wrap(opening[a] + Explained(journal, a))
  BY DEF JournalExplainsBalances, Explained, Effects, GetTransactions
<1>3. PaidIn = SumFunctionOnSet(opening, accounts) + Deposited(journal)
  BY DEF PaidIn, Deposited, Credits, Deposits
<1>4. NoNegativeAmounts <=> (\A a \in accounts : opening[a] >= 0) /\ NonNegative(journal)
  BY <1>1 DEF NoNegativeAmounts, NonNegative, Carries, Transfers, TransfersOf
<1>5. TransfersInPairs <=> PairsIn(journal)
  BY DEF TransfersInPairs, PairsIn, Transfers, TransfersOf
<1>. QED BY <1>2, <1>3, <1>4, <1>5

(* The same after a step. *)
LEMMA RestatedNext ==
  ASSUME journal' \in Seq(Transaction)
  PROVE  /\ JournalExplainsBalances' <=>
              \A a \in accounts' : balance'[a] = Wrap(opening'[a] + Explained(journal', a))
         /\ PaidIn' = SumFunctionOnSet(opening', accounts') + Deposited(journal')
         /\ NoNegativeAmounts' <=> (\A a \in accounts' : opening'[a] >= 0) /\ NonNegative(journal')
         /\ TransfersInPairs' <=> PairsIn(journal')
<1>1. DOMAIN journal' = 1 .. Len(journal')  OBVIOUS
<1>2. JournalExplainsBalances' <=>
        \A a \in accounts' : balance'[a] = Wrap(opening'[a] + Explained(journal', a))
  BY DEF JournalExplainsBalances, Explained, Effects, GetTransactions
<1>3. PaidIn' = SumFunctionOnSet(opening', accounts') + Deposited(journal')
  BY DEF PaidIn, Deposited, Credits, Deposits
<1>4. NoNegativeAmounts' <=> (\A a \in accounts' : opening'[a] >= 0) /\ NonNegative(journal')
  BY <1>1 DEF NoNegativeAmounts, NonNegative, Carries, Transfers, TransfersOf
<1>5. TransfersInPairs' <=> PairsIn(journal')
  BY DEF TransfersInPairs, PairsIn, Transfers, TransfersOf
<1>. QED BY <1>2, <1>3, <1>4, <1>5

(* The prefix of a journal without negative amounts has none either; the   *)
(* last entry has none if it is not the debit of a transfer.               *)
LEMMA NonNegativePrefix ==
  ASSUME NEW j \in Seq(Transaction), NEW e \in Transaction, NonNegative(Append(j, e))
  PROVE  /\ NonNegative(j)
         /\ e.type # "transfer" \/ PairsIn(Append(j, e)) => e.amount >= 0
<1>. DEFINE k == Append(j, e)  n == Len(j)
<1>1. /\ n \in Nat /\ Len(k) = n + 1
      /\ \A i \in 1 .. n : k[i] = j[i]
      /\ k[n + 1] = e
  BY AppendProperties
<1>2. \A i \in 1 .. n : Carries(k, i) <=> Carries(j, i)  BY AppendCounts
<1>. HIDE DEF k, n
<1>3. \A i \in 1 .. n + 1 : Carries(k, i) => k[i].amount >= 0
  BY <1>1 DEF NonNegative, k
<1>4. NonNegative(j)  BY <1>1, <1>2, <1>3 DEF NonNegative, n
<1>5. e.type # "transfer" \/ PairsIn(k) => Carries(k, n + 1)
  BY <1>1 DEF PairsIn, Carries
<1>. QED BY <1>1, <1>3, <1>4, <1>5 DEF k

(* The balances of the accounts are summable; as long as none is negative  *)
(* none exceeds their sum.                                                 *)
LEMMA BalancesAreSummable ==
  ASSUME LedgerTypeOK, IsFiniteSet(accounts)
  PROVE  /\ \A c \in accounts : c \in AccountIDs /\ balance[c] \in Int /\ opening[c] \in Int
         /\ SumFunctionOnSet(balance, accounts) \in Int
         /\ SumFunctionOnSet(opening, accounts) \in Int
         /\ (\A c \in accounts : balance[c] >= 0) =>
              \A c \in accounts : balance[c] <= SumFunctionOnSet(balance, accounts)
<1>1. \A w \in Word : w \in Int  BY WordAssumption DEF Word
<1>2. \A c \in accounts : c \in AccountIDs /\ balance[c] \in Int /\ opening[c] \in Int
  BY <1>1 DEF LedgerTypeOK
<1>3. SumFunctionOnSet(balance, accounts) \in Int  BY <1>2, SumIsInt
<1>4. SumFunctionOnSet(opening, accounts) \in Int  BY <1>2, SumIsInt
<1>5. ASSUME \A c \in accounts : balance[c] >= 0
      PROVE  \A c \in accounts : balance[c] <= SumFunctionOnSet(balance, accounts)
  <2>1. \A c \in accounts : balance[c] \in Nat  BY <1>2, <1>5
  <2>. QED BY <2>1, SumOfNaturals
<1>. QED BY <1>2, <1>3, <1>4, <1>5

(* A deposit or a withdrawal: d is what it adds to the balance. *)
Moves(t, a, x, d) ==
  /\ balance' = [balance EXCEPT ![a] = Wrap(@ + d)]
  /\ journal' = Append(journal, Entry(t, a, x))
  /\ UNCHANGED <<accounts, opening>>

LEMMA OneEntryKeepsMoney ==
  ASSUME LedgerInd, LedgerTypeOK',
         NEW a \in accounts, NEW x \in Amounts, NEW t \in {"deposit", "withdrawal"}, NEW d \in Int,
         d = IF t = "deposit" THEN x ELSE -x,
         t = "withdrawal" => balance[a] >= x, Moves(t, a, x, d)
  PROVE  MoneyInd'
<1>. USE DEF LedgerInd, EntriesInd, MoneyInd
<1>. DEFINE e == Entry(t, a, x)
<1>1. /\ journal \in Seq(Transaction) /\ journal' \in Seq(Transaction)
      /\ UNCHANGED <<accounts, opening>>
  BY DEF LedgerTypeOK, Moves
<1>2. /\ x \in Int /\ x \in Word
      /\ a \in AccountIDs /\ balance[a] \in Word /\ balance[a] \in Int
      /\ balance'[a] = Wrap(balance[a] + d) /\ balance'[a] \in Word
      /\ \A c \in AccountIDs : c # a => balance'[c] = balance[c]
  BY AmountIsWord, WordAssumption DEF LedgerTypeOK, Word, Moves
<1>3. e \in Transaction /\ e.type = t /\ e.account = a /\ e.amount = x /\ Effect(e) = d
  BY <1>2 DEF Entry, Transaction, Effect
<1>. HIDE DEF e
<1>4. journal' = Append(journal, e)  BY DEF e, Moves
<1>5. /\ \A c : /\ Explained(journal, c) \in Int
                /\ Explained(journal', c) = Explained(journal, c) + (IF a = c THEN d ELSE 0)
      /\ Deposited(journal) \in Int
      /\ Deposited(journal') = Deposited(journal) + (IF t = "deposit" THEN x ELSE 0)
  BY <1>1, <1>3, <1>4, AppendAdds
<1>6. PairsIn(journal')
  <2>1. Len(journal') = Len(journal) + 1  BY <1>1, <1>4, <1>3, AppendProperties
  <2>2. Cardinality(TransfersOf(journal', Len(journal) + 1)) = Cardinality(TransfersOf(journal, Len(journal)))
    BY <1>1, <1>3, <1>4, AppendCounts
  <2>. QED BY <1>1, <2>1, <2>2, Restated DEF PairsIn
<1>7. JournalExplainsBalances'
  <2>1. ASSUME NEW c \in accounts PROVE balance'[c] = Wrap(opening'[c] + Explained(journal', c))
    <3>1. balance[c] = Wrap(opening[c] + Explained(journal, c)) /\ c \in AccountIDs
      BY <1>1, Restated DEF LedgerTypeOK
    <3>2. CASE c # a  BY <3>1, <3>2, <1>1, <1>2, <1>5
    <3>3. CASE c = a
      <4>1. opening[a] \in Int /\ Explained(journal, a) \in Int
        BY <1>5, BalancesAreSummable
      <4>2. opening[a] + Explained(journal, a) \in Int
            /\ opening[a] + Explained(journal', a) = (opening[a] + Explained(journal, a)) + d
        BY <4>1, <1>5
      <4>. QED BY <3>1, <3>3, <4>2, <1>1, <1>2, WrapOfSum
    <3>. QED BY <3>2, <3>3
  <2>. QED BY <1>1, <2>1, RestatedNext
<1>8. ASSUME NoNegativeAmounts', PaidIn' < Half
      PROVE  /\ \A c \in accounts : balance'[c] >= 0
             /\ SumFunctionOnSet(balance', accounts) <= PaidIn'
  <2>. DEFINE paid == PaidIn  total == SumFunctionOnSet(balance, accounts)
  <2>1. NonNegative(journal) /\ x >= 0
    BY <1>1, <1>3, <1>4, <1>8, NonNegativePrefix, RestatedNext
  <2>2. NoNegativeAmounts  BY <2>1, <1>1, <1>8, Restated, RestatedNext
  <2>3. paid \in Int /\ PaidIn' = paid + (IF t = "deposit" THEN x ELSE 0)
    BY <1>1, <1>2, <1>5, BalancesAreSummable, Restated, RestatedNext
  <2>4. paid < Half  BY <1>2, <1>8, <2>1, <2>3, WordAssumption
  <2>5. (\A c \in accounts : balance[c] >= 0) /\ total <= paid
    BY <2>2, <2>4 DEF Solvent, MoneyIsConserved
  <2>6. total \in Int /\ balance[a] <= total  BY <2>5, BalancesAreSummable
  <2>. HIDE DEF paid, total
  <2>7. 0 <= balance[a] + d /\ balance[a] + d < Half
    BY <1>2, <1>8, <2>1, <2>3, <2>4, <2>5, <2>6, WordAssumption
  <2>8. balance[a] + d \in Word  BY <2>7, <1>2, WordAssumption DEF Word
  <2>9. balance'[a] = balance[a] + d  BY <2>8, <1>2, WrapOfWord
  <2>10. SumFunctionOnSet(balance', accounts) = total + balance'[a] - balance[a]
    <3>1. \A c \in accounts : balance[c] \in Int /\ balance'[c] \in Int
      BY <1>2, <2>9, BalancesAreSummable
    <3>2. \A c \in accounts : c # a => balance'[c] = balance[c]
      BY <1>2, BalancesAreSummable
    <3>3. SumFunctionOnSet(balance', accounts) =
            SumFunctionOnSet(balance, accounts) + balance'[a] - balance[a]
      BY <3>1, <3>2, SumUpdates
    <3>. QED BY <3>3 DEF total
  <2>11. SumFunctionOnSet(balance', accounts) <= PaidIn'
    <3>1. SumFunctionOnSet(balance', accounts) = total + d  BY <1>2, <2>6, <2>9, <2>10
    <3>2. CASE t = "deposit"  BY <3>1, <3>2, <1>2, <2>3, <2>5, <2>6
    <3>3. CASE t = "withdrawal"
      <4>1. d = -x  BY <3>3
      <4>2. PaidIn' = paid  BY <3>3, <2>3
      <4>. QED BY <3>1, <4>1, <4>2, <1>2, <2>1, <2>3, <2>5, <2>6
    <3>. QED BY <3>2, <3>3
  <2>12. \A c \in accounts : balance'[c] >= 0
    BY <1>2, <2>5, <2>7, <2>9, BalancesAreSummable
  <2>. QED BY <2>11, <2>12
<1>. QED BY <1>1, <1>6, <1>7, <1>8, RestatedNext DEF Solvent, MoneyIsConserved

(* A transfer moves money. *)
LEMMA TransferKeepsMoney ==
  ASSUME LedgerInd, LedgerTypeOK',
         NEW from \in accounts, NEW to \in accounts, NEW x \in Amounts,
         Covers(from, x), Move(from, to, x)
  PROVE  MoneyInd'
<1>. USE DEF LedgerInd, EntriesInd, MoneyInd
<1>. DEFINE e == Entry("transfer", from, Wrap(-x))
            f == Entry("transfer", to, x)
            j == Append(journal, e)
            mid == [balance EXCEPT ![from] = Wrap(@ - x)]
<1>1. /\ journal \in Seq(Transaction) /\ journal' \in Seq(Transaction)
      /\ UNCHANGED <<accounts, opening>>
      /\ balance' = [mid EXCEPT ![to] = Wrap(@ + x)]
      /\ journal' = journal \o <<e, f>>
  BY DEF LedgerTypeOK, Move
<1>2. /\ x \in Int /\ x \in Word /\ Wrap(-x) \in Word /\ Wrap(-x) \in Int
      /\ from \in AccountIDs /\ to \in AccountIDs
      /\ \A c \in AccountIDs : balance[c] \in Word /\ balance'[c] \in Word /\ balance[c] \in Int
      /\ balance[from] >= x
  BY AmountIsWord, WordAssumption DEF LedgerTypeOK, Word, Covers
<1>3. /\ mid[from] = Wrap(balance[from] - x) /\ mid[from] \in Word /\ mid[from] \in Int
      /\ \A c \in AccountIDs : c # from => mid[c] = balance[c]
      /\ balance'[to] = Wrap(mid[to] + x)
      /\ \A c \in AccountIDs : c # to => balance'[c] = mid[c]
  <2>1. balance[from] - x \in Int  BY <1>2
  <2>2. Wrap(balance[from] - x) \in Word  BY <2>1, WrapIsWord
  <2>3. balance \in [AccountIDs -> Word] /\ \A w \in Word : w \in Int
    BY WordAssumption DEF LedgerTypeOK, Word
  <2>. QED BY <1>1, <1>2, <2>2, <2>3
<1>4. /\ e \in Transaction /\ e.type = "transfer" /\ e.account = from /\ Effect(e) = Wrap(-x)
      /\ f \in Transaction /\ f.type = "transfer" /\ f.account = to /\ f.amount = x /\ Effect(f) = x
  BY <1>2 DEF Entry, Transaction, Effect
<1>. HIDE DEF e, f, mid
<1>5. j \in Seq(Transaction) /\ journal' = Append(j, f) /\ Len(j) = Len(journal) + 1
      /\ Len(journal') = Len(journal) + 2 /\ Len(journal) \in Nat
  BY <1>1, <1>4
<1>6. /\ \A c : /\ Explained(journal, c) \in Int
                /\ Explained(j, c) = Explained(journal, c) + (IF from = c THEN Wrap(-x) ELSE 0)
      /\ Deposited(journal) \in Int
      /\ Deposited(j) = Deposited(journal)
  BY <1>1, <1>4, AppendAdds
<1>. HIDE DEF j
<1>7. /\ \A c : Explained(journal', c) = Explained(j, c) + (IF to = c THEN x ELSE 0)
      /\ Deposited(journal') = Deposited(j)
  <2>1. /\ \A c : Explained(journal', c) = Explained(j, c) + (IF to = c THEN x ELSE 0)
        /\ Deposited(journal') = Deposited(j) + 0
    BY <1>4, <1>5, AppendAdds
  <2>. QED BY <2>1, <1>6
<1>8. PairsIn(journal')
  <2>1. /\ Cardinality(TransfersOf(journal, Len(journal))) \in Nat
        /\ Cardinality(TransfersOf(j, Len(j))) = Cardinality(TransfersOf(journal, Len(journal))) + 1
    BY <1>1, <1>4, <1>5, AppendCounts DEF j
  <2>2. Cardinality(TransfersOf(journal', Len(journal'))) = Cardinality(TransfersOf(j, Len(j))) + 1
    <3>1. Len(journal') = Len(j) + 1  BY <1>5
    <3>. QED BY <3>1, <1>4, <1>5, AppendCounts
  <2>3. Cardinality(TransfersOf(journal, Len(journal))) % 2 = 0
    BY <1>1, Restated DEF PairsIn
  <2>. QED BY <2>1, <2>2, <2>3 DEF PairsIn
<1>9. JournalExplainsBalances'
  <2>1. ASSUME NEW c \in accounts PROVE balance'[c] = Wrap(opening'[c] + Explained(journal', c))
    <3>. DEFINE o == opening[c] + Explained(journal, c)
    <3>1. balance[c] = Wrap(o) /\ c \in AccountIDs /\ o \in Int
      BY <1>1, <1>6, BalancesAreSummable, Restated DEF LedgerTypeOK
    <3>. DEFINE y == IF from = c THEN Wrap(-x) ELSE 0
                z == IF to = c THEN x ELSE 0
    <3>2. opening'[c] + Explained(journal', c) = o + y + z
      <4>1. Explained(journal', c) = Explained(journal, c) + y + z  BY <1>6, <1>7
      <4>2. opening[c] \in Int /\ Explained(journal, c) \in Int /\ y \in Int /\ z \in Int
        BY <1>2, <1>6, BalancesAreSummable
      <4>. HIDE DEF y, z
      <4>. QED BY <4>1, <4>2, <1>1
    <3>3. mid[c] = Wrap(o + y) /\ mid[c] \in Int
      <4>1. CASE from # c  BY <3>1, <4>1, <1>2, <1>3
      <4>2. CASE from = c
        <5>. DEFINE m == -x
        <5>1. m \in Int /\ Wrap(m) \in Int /\ Wrap(o) \in Int /\ Wrap(o) - x = Wrap(o) + m
          BY <1>2, <3>1, <4>2
        <5>2. mid[c] = Wrap(Wrap(o) + m)  BY <3>1, <4>2, <5>1, <1>3
        <5>. HIDE DEF m, o
        <5>3. Wrap(Wrap(o) + m) = Wrap(o + m)  BY <3>1, <5>1, WrapOfSum
        <5>4. Wrap(Wrap(m) + o) = Wrap(m + o)  BY <3>1, <5>1, WrapOfSum
        <5>5. Wrap(m) + o = o + Wrap(m) /\ m + o = o + m  BY <3>1, <5>1
        <5>6. mid[c] = Wrap(o + Wrap(m))  BY <5>2, <5>3, <5>4, <5>5
        <5>. QED BY <4>2, <5>6, <1>3 DEF m
      <4>. QED BY <4>1, <4>2
    <3>. DEFINE p == o + y
    <3>4. p \in Int  BY <3>1, <1>2
    <3>5. mid[c] = Wrap(p) /\ opening'[c] + Explained(journal', c) = p + z
      BY <3>2, <3>3
    <3>. HIDE DEF o, p
    <3>6. CASE to # c  BY <3>1, <3>4, <3>5, <3>6, <1>3
    <3>7. CASE to = c  BY <3>1, <3>4, <3>5, <3>7, <1>2, <1>3, WrapOfSum
    <3>. QED BY <3>6, <3>7
  <2>. QED BY <1>1, <2>1, RestatedNext
<1>10. ASSUME NoNegativeAmounts', PaidIn' < Half
       PROVE  /\ \A c \in accounts : balance'[c] >= 0
              /\ SumFunctionOnSet(balance', accounts) <= PaidIn'
  <2>. DEFINE paid == PaidIn  total == SumFunctionOnSet(balance, accounts)
  <2>1. NonNegative(journal) /\ x >= 0
    <3>1. NonNegative(journal')  BY <1>1, <1>10, RestatedNext
    <3>2. NonNegative(j) /\ x >= 0  BY <3>1, <1>4, <1>5, <1>8, NonNegativePrefix
    <3>. QED BY <3>2, <1>1, <1>4, NonNegativePrefix DEF j
  <2>2. NoNegativeAmounts  BY <2>1, <1>1, <1>10, Restated, RestatedNext
  <2>3. paid \in Int /\ PaidIn' = paid /\ paid < Half
    BY <1>1, <1>6, <1>7, <1>10, BalancesAreSummable, Restated, RestatedNext
  <2>4. (\A c \in accounts : balance[c] >= 0) /\ total <= paid
    BY <2>2, <2>3 DEF Solvent, MoneyIsConserved
  <2>5. total \in Int /\ (\A c \in accounts : balance[c] <= total)
    BY <2>4, BalancesAreSummable
  <2>. HIDE DEF paid, total
  <2>6. mid[from] = balance[from] - x
    <3>1. balance[from] - x \in Word
      BY <1>2, <2>1, <2>3, <2>4, <2>5, WordAssumption DEF Word
    <3>. QED BY <3>1, <1>3, WrapOfWord
  <2>7. (\A c \in accounts : mid[c] \in Int /\ mid[c] >= 0) /\ SumFunctionOnSet(mid, accounts) = total - x
    <3>1. \A c \in accounts : balance[c] \in Int /\ mid[c] \in Int
      BY <1>2, <1>3, BalancesAreSummable
    <3>2. \A c \in accounts : c # from => mid[c] = balance[c]
      BY <1>3, BalancesAreSummable
    <3>3. SumFunctionOnSet(mid, accounts) = SumFunctionOnSet(balance, accounts) + mid[from] - balance[from]
      BY <3>1, <3>2, SumUpdates
    <3>4. \A c \in accounts : mid[c] >= 0  BY <1>2, <2>4, <2>6, <3>1, <3>2
    <3>5. SumFunctionOnSet(mid, accounts) = total - x
      BY <3>3, <1>2, <2>5, <2>6 DEF total
    <3>. QED BY <3>1, <3>4, <3>5
  <2>8. balance'[to] = mid[to] + x
    <3>1. \A c \in accounts : mid[c] \in Nat  BY <2>7
    <3>2. mid[to] <= total - x  BY <2>7, <3>1, SumOfNaturals
    <3>3. mid[to] + x \in Word
      BY <1>2, <2>1, <2>3, <2>4, <2>5, <2>7, <3>2, WordAssumption DEF Word
    <3>. QED BY <3>3, <1>3, WrapOfWord
  <2>9. SumFunctionOnSet(balance', accounts) = total
    <3>1. \A c \in accounts : mid[c] \in Int /\ balance'[c] \in Int
      BY <1>2, <1>3, <2>7, <2>8, BalancesAreSummable
    <3>2. \A c \in accounts : c # to => balance'[c] = mid[c]
      BY <1>3, BalancesAreSummable
    <3>3. SumFunctionOnSet(balance', accounts) = SumFunctionOnSet(mid, accounts) + balance'[to] - mid[to]
      BY <3>1, <3>2, SumUpdates
    <3>. QED BY <3>1, <3>3, <1>2, <2>5, <2>7, <2>8
  <2>10. \A c \in accounts : balance'[c] >= 0
    BY <1>2, <1>3, <2>1, <2>7, <2>8, BalancesAreSummable
  <2>. QED BY <2>3, <2>4, <2>9, <2>10
<1>. QED BY <1>1, <1>8, <1>9, <1>10, RestatedNext DEF Solvent, MoneyIsConserved

(* A new account brings its opening balance. *)
LEMMA CreationKeepsMoney ==
  ASSUME LedgerInd, LedgerTypeOK',
         NEW a \in AccountIDs, NEW b \in Amounts, a \notin accounts, CreateAccount(a, b)
  PROVE  MoneyInd'
<1>. USE DEF LedgerInd, EntriesInd, MoneyInd
<1>1. /\ accounts' = accounts \cup {a} /\ journal' = journal
      /\ balance' = [balance EXCEPT ![a] = b] /\ opening' = [opening EXCEPT ![a] = b]
      /\ journal \in Seq(Transaction) /\ journal' \in Seq(Transaction)
      /\ IsFiniteSet(accounts')
  BY FS_AddElement DEF CreateAccount, LedgerTypeOK
<1>2. /\ b \in Word /\ b \in Int
      /\ balance'[a] = b /\ opening'[a] = b
      /\ \A c \in accounts : balance'[c] = balance[c] /\ opening'[c] = opening[c]
      /\ \A c \in accounts : balance[c] \in Int /\ opening[c] \in Int
      /\ \A c \in accounts' : balance'[c] \in Int /\ opening'[c] \in Int
  BY <1>1, AmountIsWord, BalancesAreSummable DEF LedgerTypeOK
<1>3. Explained(journal, a) = 0
  <2>1. {i \in DOMAIN journal : journal[i].account = a} = {}
    BY DEF EntriesOfKnownAccounts
  <2>. QED BY <2>1, SumOfNone DEF Explained
<1>4. JournalExplainsBalances'
  <2>1. ASSUME NEW c \in accounts' PROVE balance'[c] = Wrap(opening'[c] + Explained(journal', c))
    <3>1. CASE c = a
      <4>1. b + Explained(journal, a) = b  BY <1>2, <1>3
      <4>. QED BY <3>1, <4>1, <1>1, <1>2, WrapOfWord
    <3>2. CASE c \in accounts
      BY <3>2, <1>1, <1>2, Restated
    <3>. QED BY <3>1, <3>2, <1>1
  <2>. QED BY <1>1, <2>1, RestatedNext
<1>5. TransfersInPairs'  BY <1>1, Restated, RestatedNext
<1>6. /\ SumFunctionOnSet(opening', accounts') = b + SumFunctionOnSet(opening, accounts)
      /\ SumFunctionOnSet(balance', accounts') = b + SumFunctionOnSet(balance, accounts)
  <2>1. SumFunctionOnSet(opening', accounts) = SumFunctionOnSet(opening, accounts)
    BY <1>2, SumSame
  <2>2. SumFunctionOnSet(balance', accounts) = SumFunctionOnSet(balance, accounts)
    BY <1>2, SumSame
  <2>3. \A c \in accounts \cup {a} : balance'[c] \in Int  BY <1>1, <1>2
  <2>4. \A c \in accounts \cup {a} : opening'[c] \in Int  BY <1>1, <1>2
  <2>5. SumFunctionOnSet(opening', accounts') = opening'[a] + SumFunctionOnSet(opening', accounts)
    BY <1>1, <2>4, SumAdds
  <2>6. SumFunctionOnSet(balance', accounts') = balance'[a] + SumFunctionOnSet(balance', accounts)
    BY <1>1, <2>3, SumAdds
  <2>. QED BY <1>2, <2>1, <2>2, <2>5, <2>6
<1>7. ASSUME NoNegativeAmounts', PaidIn' < Half
      PROVE  /\ \A c \in accounts' : balance'[c] >= 0
             /\ SumFunctionOnSet(balance', accounts') <= PaidIn'
  <2>. DEFINE paid == PaidIn  total == SumFunctionOnSet(balance, accounts)
  <2>1. b >= 0 /\ NoNegativeAmounts
    BY <1>1, <1>2, <1>7, Restated, RestatedNext
  <2>2. paid \in Int /\ PaidIn' = b + paid
    <3>1. Deposited(journal) \in Int
      BY <1>1, DepositedIsInt
    <3>2. SumFunctionOnSet(opening, accounts) \in Int  BY BalancesAreSummable
    <3>. QED BY <3>1, <3>2, <1>1, <1>2, <1>6, Restated, RestatedNext
  <2>3. paid < Half  BY <1>2, <1>7, <2>1, <2>2, WordAssumption
  <2>4. (\A c \in accounts : balance[c] >= 0) /\ total <= paid
    BY <2>1, <2>3 DEF Solvent, MoneyIsConserved
  <2>5. total \in Int  BY BalancesAreSummable
  <2>6. \A c \in accounts' : balance'[c] >= 0  BY <1>1, <1>2, <2>1, <2>4
  <2>7. SumFunctionOnSet(balance', accounts') <= PaidIn'
    <3>. HIDE DEF paid, total
    <3>1. SumFunctionOnSet(balance', accounts') = b + total  BY <1>6 DEF total
    <3>. QED BY <3>1, <1>2, <2>2, <2>4, <2>5
  <2>. QED BY <2>6, <2>7
<1>. QED BY <1>1, <1>4, <1>5, <1>7 DEF Solvent, MoneyIsConserved

(* Every operation keeps the second part. *)
LEMMA CallKeepsMoney == LedgerInd /\ LedgerTypeOK' /\ [Call]_ledgerVars => MoneyInd'
<1>. SUFFICES ASSUME LedgerInd, LedgerTypeOK', [Call]_ledgerVars PROVE MoneyInd'  OBVIOUS
<1>1. ASSUME UNCHANGED <<accounts, balance, journal, opening>> PROVE MoneyInd'
  <2>1. MoneyInd  BY DEF LedgerInd
  <2>. QED BY <1>1, <2>1
         DEF MoneyInd, JournalExplainsBalances, Effects, GetTransactions, TransfersInPairs,
             Transfers, Solvent, MoneyIsConserved, NoNegativeAmounts, PaidIn, Credits, Deposits
<1>2. ASSUME NEW error, Fail(error) PROVE MoneyInd'
  BY <1>1, <1>2 DEF Fail
<1>3. ASSUME NEW a \in AccountIDs, NEW b \in Amounts, CreateAccount(a, b) PROVE MoneyInd'
  <2>1. CASE a \in accounts  BY <2>1, <1>2, <1>3 DEF CreateAccount
  <2>2. CASE a \notin accounts  BY <2>2, <1>3, CreationKeepsMoney
  <2>. QED BY <2>1, <2>2
<1>4. ASSUME NEW a \in AccountIDs, NEW x \in Amounts, Deposit(a, x) PROVE MoneyInd'
  <2>1. CASE a \notin accounts  BY <2>1, <1>2, <1>4 DEF Deposit
  <2>2. CASE a \in accounts
    <3>1. x \in Int  BY AmountIsWord
    <3>2. Moves("deposit", a, x, x)  BY <2>2, <1>4 DEF Deposit, Moves
    <3>. QED BY <2>2, <3>1, <3>2, OneEntryKeepsMoney
  <2>. QED BY <2>1, <2>2
<1>5. ASSUME NEW a \in AccountIDs, NEW x \in Amounts, Withdraw(a, x) PROVE MoneyInd'
  <2>1. CASE a \notin accounts  BY <2>1, <1>2, <1>5 DEF Withdraw
  <2>2. CASE a \in accounts /\ ~Covers(a, x)  BY <2>2, <1>2, <1>5 DEF Withdraw
  <2>3. CASE a \in accounts /\ Covers(a, x)
    <3>1. x \in Int /\ balance[a] \in Int
      BY <2>3, AmountIsWord, BalancesAreSummable DEF LedgerInd, EntriesInd, MoneyInd
    <3>. DEFINE d == -x
    <3>2. d \in Int /\ balance[a] - x = balance[a] + d  BY <3>1
    <3>3. Moves("withdrawal", a, x, d)
      <4>. HIDE DEF d
      <4>. QED BY <2>3, <3>2, <1>5 DEF Withdraw, Moves
    <3>4. balance[a] >= x  BY <2>3, <3>1 DEF Covers
    <3>5. d = IF "withdrawal" = "deposit" THEN x ELSE -x  OBVIOUS
    <3>. HIDE DEF d
    <3>. QED BY <2>3, <3>2, <3>3, <3>4, <3>5, OneEntryKeepsMoney
  <2>. QED BY <2>1, <2>2, <2>3
<1>6. ASSUME NEW from \in AccountIDs, NEW to \in AccountIDs, NEW x \in Amounts,
             Transfer(from, to, x)
      PROVE  MoneyInd'
  <2>1. CASE ~({from, to} \subseteq accounts)  BY <2>1, <1>2, <1>6 DEF Transfer
  <2>2. CASE {from, to} \subseteq accounts /\ ~Covers(from, x)
    BY <2>2, <1>2, <1>6 DEF Transfer
  <2>3. CASE {from, to} \subseteq accounts /\ Covers(from, x)
    <3>1. Move(from, to, x)  BY <2>3, <1>6 DEF Transfer
    <3>. QED BY <2>3, <3>1, TransferKeepsMoney
  <2>. QED BY <2>1, <2>2, <2>3
<1>. QED BY <1>1, <1>3, <1>4, <1>5, <1>6 DEF Call, ledgerVars

(* The invariant holds initially and every call keeps it. *)
THEOREM LedgerInvariance == LedgerSpec => []LedgerInd
<1>1. LedgerInit => LedgerInd
  <2>. SUFFICES ASSUME LedgerInit PROVE LedgerInd  OBVIOUS
  <2>1. EntriesInd
    BY WordAssumption DEF LedgerInit, EntriesInd, LedgerTypeOK, EntriesOfKnownAccounts,
                          LatestEntryIsBalance, Word
  <2>2. IsFiniteSet(accounts) /\ JournalExplainsBalances /\ Solvent
    BY FS_EmptySet DEF LedgerInit, JournalExplainsBalances, Solvent
  <2>3. TransfersInPairs
    <3>1. Transfers(Len(journal)) = {}  BY DEF LedgerInit, Transfers
    <3>. QED BY <3>1, FS_EmptySet DEF TransfersInPairs
  <2>4. MoneyIsConserved
    <3>1. accounts = {} /\ Deposits = {}  BY DEF LedgerInit, Deposits
    <3>. QED BY <3>1, SumOfNone DEF MoneyIsConserved, PaidIn
  <2>. QED BY <2>1, <2>2, <2>3, <2>4 DEF LedgerInd, MoneyInd
<1>2. LedgerInd /\ [Call]_ledgerVars => LedgerInd'
  <2>1. LedgerInd /\ [Call]_ledgerVars => EntriesInd'  BY CallKeepsEntries DEF LedgerInd
  <2>2. EntriesInd' => LedgerTypeOK'  BY DEF EntriesInd
  <2>. QED BY <2>1, <2>2, CallKeepsMoney DEF LedgerInd
<1>. QED BY <1>1, <1>2, PTL DEF LedgerSpec

(* Every balance and every entry stays within the width of a quantity.     *)
THEOREM LedgerTypeCorrectness == LedgerSpec => []LedgerTypeOK
<1>1. LedgerInd => LedgerTypeOK  BY DEF LedgerInd, EntriesInd
<1>. QED BY <1>1, LedgerInvariance, PTL

(* The latest entry of an account carries its balance (ledger.go:90, 111,  *)
(* 139-140).                                                               *)
THEOREM JournalIsCurrent == LedgerSpec => []LatestEntryIsBalance
<1>1. LedgerInd => LatestEntryIsBalance  BY DEF LedgerInd, EntriesInd
<1>. QED BY <1>1, LedgerInvariance, PTL

(* A balance is the opening balance, which no entry records, plus the      *)
(* credits and minus the debits of the entries GetTransactions returns,    *)
(* modulo the width of a quantity (ledger.go:49-63, 87, 110, 136-137).     *)
THEOREM JournalAddsUp == LedgerSpec => []JournalExplainsBalances
<1>1. LedgerInd => JournalExplainsBalances  BY DEF LedgerInd, MoneyInd
<1>. QED BY <1>1, LedgerInvariance, PTL

(* As long as what was paid in fits in a quantity and no amount is         *)
(* negative, no account is overdrawn and no credit wraps (ledger.go:87,    *)
(* 106, 132, 137).                                                         *)
THEOREM NoOverdraft == LedgerSpec => []Solvent
<1>1. LedgerInd => Solvent  BY DEF LedgerInd, MoneyInd
<1>. QED BY <1>1, LedgerInvariance, PTL
=============================================================================
