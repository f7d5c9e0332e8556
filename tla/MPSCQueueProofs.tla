---- MODULE MPSCQueueProofs ----
(***************************************************************************)
(* MPSCQueue keeps its invariants and implements FifoQueue, for every set  *)
(* of producers, every ring size and every mix of requested batch sizes.   *)
(***************************************************************************)
EXTENDS MPSCQueue, SequenceTheorems, TLAPS

\* The prover of the leaves that name none, and its time limit.
USE ZenonT(30)

\* No producer's copy of the consumer's sequence is ahead of the consumer.
CopiesOld ==
    /\ last_consumer_sequence <= sequence
    /\ \A p \in Producers : seen[p] <= sequence

\* The consumer's batch lies within what is published.
BatchPublished ==
    /\ sequence <= cursor
    /\ InBatch \/ next_sequence = sequence + 1
    /\ wanted > 0 => next_sequence + wanted - 1 <= available_sequence

\* What a producer has written stays in its slot until it is published.
Written ==
    \A p \in Producers :
        /\ pc[p] \in Sending => sent[p] < MaxSent
        /\ pc[p] \in {"sync", "publish"} => ring[Index(idx[p])] = <<p, sent[p] + 1>>
        /\ pc[p] = "publish" => cursor = idx[p] - 1

\* Every published, unreleased slot holds a message.
OccupiedByMessages ==
    \A s \in sequence + 1..cursor : ring[Index(s)] \in Messages

QueueInv == /\ TypeOK /\ ClaimsDense /\ SlotReleased
            /\ CopiesOld /\ BatchPublished /\ Written /\ OccupiedByMessages

-----------------------------------------------------------------------------
(* The ring: sequences less than BufferSize apart have different slots. *)

\* A product with a positive number is not smaller.
LEMMA TimesPositive ==
  ASSUME NEW n \in Nat, NEW d \in Int, d >= 1
  PROVE  n * d >= n
  BY SMT

\* A product with a number that is not positive is not positive.
LEMMA TimesNotPositive ==
  ASSUME NEW n \in Nat, NEW d \in Int, d <= 0
  PROVE  n * d <= 0
  BY SMT

\* Division with remainder.
LEMMA QuotientRemainder ==
  ASSUME NEW n \in Nat \ {0}, NEW a \in Int
  PROVE  /\ a = n * (a \div n) + (a % n)
         /\ a \div n \in Int
         /\ a % n \in 0..n - 1
  BY SMT

\* Numbers less than a lap apart have different slots.
LEMMA SlotsDiffer ==
  ASSUME NEW a \in Int, NEW b \in Int, a < b, b < a + BufferSize
  PROVE  Index(a) # Index(b)
<1> DEFINE qa == a \div BufferSize
           qb == b \div BufferSize
           r == a % BufferSize
<1> SUFFICES ASSUME r = b % BufferSize PROVE FALSE
  BY DEF Index
<1>1. a = BufferSize * qa + r /\ qa \in Int /\ r \in Int
  BY QuotientRemainder, SizeAssumption, SMTT(30)
<1>2. b = BufferSize * qb + r /\ qb \in Int
  BY QuotientRemainder, SizeAssumption
<1> HIDE DEF qa, qb, r
<1>3. BufferSize * qb - BufferSize * qa = BufferSize * (qb - qa)
  BY <1>1, <1>2, SizeAssumption, SMTT(30)
<1>4. b - a = BufferSize * (qb - qa)
  BY <1>1, <1>2, <1>3, SizeAssumption, SMTT(30)
<1>5. CASE qb - qa >= 1
  BY <1>1, <1>2, <1>4, <1>5, TimesPositive, SizeAssumption, SMTT(30)
<1>6. CASE qb - qa <= 0
  BY <1>1, <1>2, <1>4, <1>6, TimesNotPositive, SizeAssumption, SMTT(30)
<1> QED
  BY <1>1, <1>2, <1>5, <1>6, SMTT(30)

\* So have two numbers of one lap.
LEMMA SlotsApart ==
  ASSUME NEW c \in Int, NEW a \in Int, NEW b \in Int, a # b,
         c < a, a <= c + BufferSize, c < b, b <= c + BufferSize
  PROVE  Index(a) # Index(b)
<1>1. a < b + BufferSize /\ b < a + BufferSize
  BY SizeAssumption, SMTT(30)
<1>2. CASE a < b
  BY <1>1, <1>2, SlotsDiffer
<1>3. CASE b < a
  <2>1. Index(b) # Index(a)
    BY <1>1, <1>3, SlotsDiffer
  <2> QED
    BY <2>1
<1> QED
  BY <1>2, <1>3, SMTT(30)

\* A slot is in the ring.
LEMMA SlotInRing ==
  ASSUME NEW s \in Int
  PROVE  Index(s) \in 0..BufferSize - 1
  BY QuotientRemainder, SizeAssumption DEF Index

-----------------------------------------------------------------------------
(* The invariant is inductive. *)

\* The invariant holds at first.
LEMMA InitInv == Init => QueueInv
<1> SUFFICES ASSUME Init PROVE QueueInv
  OBVIOUS
<1> USE SizeAssumption, BoundAssumption DEF Init, kInitialCursorValue, kNotReadySignal
<1>1. TypeOK
  BY SMTT(30) DEF TypeOK, Sending, Writing, Messages
<1>2. ClaimsDense /\ SlotReleased /\ CopiesOld
  BY SMTT(30) DEF ClaimsDense, SlotReleased, CopiesOld, Sending, Writing
<1>3. BatchPublished /\ Written /\ OccupiedByMessages
  BY SMTT(30) DEF BatchPublished, Written, OccupiedByMessages, InBatch, Sending, Writing
<1> QED
  BY <1>1, <1>2, <1>3 DEF QueueInv


\* Claiming the next number keeps the invariant.
LEMMA ClaimInv == ASSUME QueueInv, NEW p \in Producers, Claim(p) PROVE QueueInv'
<1> USE SizeAssumption, BoundAssumption DEF QueueInv, Claim, consumerVars, kInitialCursorValue, kNotReadySignal
<1>1. TypeOK'
  BY SMTT(30) DEF TypeOK, Sending, Writing
<1>2. ClaimsDense'
  <2>1. \A q \in Producers : pc'[q] \in Sending => idx'[q] \in cursor' + 1..last_claimed_sequence'
    BY SMTT(30) DEF TypeOK, ClaimsDense, Sending, Writing
  <2>2. ASSUME NEW s \in cursor' + 1..last_claimed_sequence'
        PROVE  \E q \in Producers : /\ pc'[q] \in Sending /\ idx'[q] = s
                             /\ \A r \in Producers \ {q} :
                                   pc'[r] \in Sending => idx'[r] # s
    <3>1. CASE s = last_claimed_sequence + 1
      <4>1. \A r \in Producers \ {p} : pc'[r] \in Sending => idx'[r] # s
        BY <3>1, SMTT(30) DEF TypeOK, ClaimsDense, Sending, Writing
      <4>2. pc'[p] \in Sending /\ idx'[p] = s
        BY <3>1 DEF TypeOK, Sending, Writing
      <4> QED
        BY <4>1, <4>2
    <3>2. CASE s \in cursor + 1..last_claimed_sequence
      <4>1. PICK q \in Producers : /\ pc[q] \in Sending /\ idx[q] = s
                             /\ \A r \in Producers \ {q} :
                                   pc[r] \in Sending => idx[r] # s
        BY <3>2 DEF ClaimsDense
      <4>2. q # p
        BY <4>1 DEF Sending, Writing
      <4>3. pc'[q] \in Sending /\ idx'[q] = s
        BY <4>1, <4>2 DEF TypeOK
      <4>4. \A r \in Producers \ {q} : pc'[r] \in Sending => idx'[r] # s
        BY <4>1, <4>2, <3>2, SMTT(30) DEF TypeOK
      <4> QED
        BY <4>3, <4>4
    <3> QED
      BY <3>1, <3>2, SMTT(30) DEF TypeOK
  <2> QED
    BY <2>1, <2>2 DEF ClaimsDense
<1>3. SlotReleased' /\ CopiesOld'
  BY DEF TypeOK, SlotReleased, CopiesOld, Writing, WrapPoint
<1>4. BatchPublished' /\ OccupiedByMessages'
  BY DEF TypeOK, BatchPublished, OccupiedByMessages, InBatch, Index, Messages
<1>5. Written'
  BY DEF TypeOK, Written, Sending, Writing
<1> QED
  BY <1>1, <1>2, <1>3, <1>4, <1>5

\* A producer goes from one step of send to the next, with its sequence.
LEMMA AdvanceInv ==
  ASSUME QueueInv, NEW p \in Producers, pc[p] \in Sending,
         NEW step \in Sending, pc' = [pc EXCEPT ![p] = step],
         UNCHANGED <<last_claimed_sequence, last_consumer_sequence, cursor,
                     idx, seen, sent, consumerVars>>,
         ring' \in [0..BufferSize - 1 -> Messages \cup {NoMessage}]
  PROVE  TypeOK' /\ ClaimsDense' /\ CopiesOld' /\ BatchPublished'
<1> USE DEF QueueInv, consumerVars
<1>1. TypeOK'
  BY DEF TypeOK
<1>2. \A q \in Producers : pc'[q] \in Sending <=> pc[q] \in Sending
  BY DEF TypeOK
<1>3. ClaimsDense'
  BY <1>2 DEF ClaimsDense
<1>4. CopiesOld' /\ BatchPublished'
  BY DEF CopiesOld, BatchPublished, InBatch
<1> QED
  BY <1>1, <1>3, <1>4

\* The one look at the copy of the consumer's sequence keeps the invariant.
LEMMA CheckConsumerInv ==
  ASSUME QueueInv, NEW p \in Producers, CheckConsumer(p) PROVE QueueInv'
<1> USE SizeAssumption DEF QueueInv, CheckConsumer, consumerVars
<1>1. TypeOK' /\ ClaimsDense' /\ CopiesOld' /\ BatchPublished'
  BY AdvanceInv DEF TypeOK, Sending, Writing
<1>2. SlotReleased'
  <2>1. last_consumer_sequence \in Int /\ sequence \in Int /\ idx[p] \in Int
    BY SMTT(30) DEF TypeOK, kInitialCursorValue
  <2>2. pc'[p] \in Writing => idx[p] - BufferSize <= sequence
    BY <2>1, SMTT(30) DEF TypeOK, CopiesOld, Writing, WrapPoint
  <2>3. \A q \in Producers \ {p} : pc'[q] = pc[q]
    BY DEF TypeOK
  <2> QED
    BY <2>2, <2>3 DEF SlotReleased
<1>3. Written'
  BY DEF TypeOK, Written, Sending, Writing
<1>4. OccupiedByMessages'
  BY DEF OccupiedByMessages
<1> QED
  BY <1>1, <1>2, <1>3, <1>4

\* The end of the busy wait for a slot keeps the invariant.
LEMMA WaitForSlotInv ==
  ASSUME QueueInv, NEW p \in Producers, WaitForSlot(p) PROVE QueueInv'
<1> USE SizeAssumption DEF QueueInv, WaitForSlot, consumerVars
<1>1. TypeOK' /\ ClaimsDense' /\ CopiesOld' /\ BatchPublished'
  BY AdvanceInv DEF TypeOK, Sending, Writing
<1>2. SlotReleased'
  BY DEF TypeOK, SlotReleased, Writing, WrapPoint
<1>3. Written'
  BY DEF TypeOK, Written, Sending, Writing
<1>4. OccupiedByMessages'
  BY DEF OccupiedByMessages
<1> QED
  BY <1>1, <1>2, <1>3, <1>4

\* Waiting for the number before keeps the invariant.
LEMMA SynchronizePublishingInv ==
  ASSUME QueueInv, NEW p \in Producers, SynchronizePublishing(p) PROVE QueueInv'
<1> USE SizeAssumption DEF QueueInv, SynchronizePublishing, consumerVars
<1>1. TypeOK' /\ ClaimsDense' /\ CopiesOld' /\ BatchPublished'
  BY AdvanceInv DEF TypeOK, Sending, Writing
<1>2. SlotReleased'
  BY DEF TypeOK, SlotReleased, Writing, WrapPoint
<1>3. cursor = idx[p] - 1
  BY SMTT(30) DEF TypeOK, ClaimsDense, Sending, Writing, kInitialCursorValue
<1>4. Written'
  BY <1>3 DEF TypeOK, Written, Sending, Writing
<1>5. OccupiedByMessages'
  BY DEF OccupiedByMessages
<1> QED
  BY <1>1, <1>2, <1>4, <1>5

\* A claimed number is not published yet.
LEMMA ClaimBounds ==
  ASSUME TypeOK, ClaimsDense, NEW p \in Producers, pc[p] \in Sending
  PROVE  /\ idx[p] \in Int /\ cursor \in Int /\ last_claimed_sequence \in Int
         /\ cursor < idx[p] /\ idx[p] <= last_claimed_sequence
<1>1. idx[p] \in cursor + 1..last_claimed_sequence
  BY DEF ClaimsDense
<1> QED
  BY <1>1, SMTT(30) DEF TypeOK, kInitialCursorValue

\* A producer that may write is within a lap of the consumer.
LEMMA WriterBounds ==
  ASSUME QueueInv, NEW p \in Producers, pc[p] \in Writing
  PROVE  /\ pc[p] \in Sending
         /\ idx[p] \in Int /\ cursor \in Int /\ sequence \in Int
         /\ cursor < idx[p] /\ idx[p] <= sequence + BufferSize
         /\ sequence <= cursor
<1>1. pc[p] \in Sending
  BY DEF Sending
<1>2. TypeOK /\ ClaimsDense /\ idx[p] - BufferSize <= sequence /\ sequence <= cursor
  BY DEF QueueInv, SlotReleased, BatchPublished
<1>3. sequence \in Int
  BY <1>2, SMTT(30) DEF TypeOK, kInitialCursorValue
<1>4. idx[p] \in Int /\ cursor \in Int /\ cursor < idx[p]
  BY <1>1, <1>2, ClaimBounds
<1> QED
  BY <1>1, <1>2, <1>3, <1>4, SizeAssumption, SMTT(30)

\* What a producer is about to send is a message.
LEMMA NextIsMessage ==
  ASSUME QueueInv, NEW p \in Producers, pc[p] \in Sending
  PROVE  <<p, sent[p] + 1>> \in Messages
  BY BoundAssumption, SMTT(30) DEF QueueInv, TypeOK, Written, Messages

\* No two producers claim the same number.
LEMMA ClaimsUnique ==
  ASSUME TypeOK, ClaimsDense,
         NEW p \in Producers, NEW q \in Producers, p # q,
         pc[p] \in Sending, pc[q] \in Sending
  PROVE  idx[p] # idx[q]
<1>1. PICK r \in Producers : \A t \in Producers \ {r} : pc[t] \in Sending => idx[t] # idx[p]
  BY DEF ClaimsDense
<1> QED
  BY <1>1

\* Writing a slot disturbs no message that is still to be read.
LEMMA WriteSlotInv ==
  ASSUME QueueInv, NEW p \in Producers, WriteSlot(p) PROVE QueueInv'
<1> USE SizeAssumption, BoundAssumption DEF QueueInv, WriteSlot, consumerVars
<1>0. /\ pc[p] \in Sending /\ pc[p] \in Writing
      /\ idx[p] \in Int /\ cursor \in Int /\ sequence \in Int
      /\ cursor < idx[p] /\ idx[p] <= sequence + BufferSize
      /\ sequence <= cursor
  <2>1. pc[p] \in Writing
    BY DEF Writing
  <2> HIDE DEF QueueInv, WriteSlot
  <2> QED
    BY <2>1, WriterBounds
<1>1. <<p, sent[p] + 1>> \in Messages
  BY <1>0, NextIsMessage
<1>2. ring' \in [0..BufferSize - 1 -> Messages \cup {NoMessage}]
  BY <1>1 DEF TypeOK
<1>3. TypeOK' /\ ClaimsDense' /\ CopiesOld' /\ BatchPublished'
  BY <1>0, <1>2, AdvanceInv DEF Sending, Writing
<1>4. SlotReleased'
  BY DEF TypeOK, SlotReleased, Writing, WrapPoint
<1>5. ASSUME NEW s \in Int, sequence < s, s <= sequence + BufferSize, s # idx[p]
      PROVE  ring'[Index(s)] = ring[Index(s)]
  <2> HIDE SizeAssumption, BoundAssumption DEF QueueInv, WriteSlot, consumerVars
  <2>1. sequence < idx[p]
    BY <1>0, SMTT(30)
  <2>2. Index(s) # Index(idx[p])
    BY <1>0, <1>5, <2>1, SlotsApart
  <2> USE SizeAssumption, BoundAssumption DEF QueueInv, WriteSlot, consumerVars
  <2> QED
    BY <1>0, <2>2, SlotInRing DEF TypeOK
<1>6. ring'[Index(idx[p])] = <<p, sent[p] + 1>>
  BY <1>0, SlotInRing DEF TypeOK
<1>7. Written'
  <2> SUFFICES ASSUME NEW q \in Producers, q # p
               PROVE  /\ pc'[q] \in Sending => sent'[q] < MaxSent
                      /\ pc'[q] \in {"sync", "publish"} =>
                            ring'[Index(idx'[q])] = <<q, sent'[q] + 1>>
                      /\ pc'[q] = "publish" => cursor' = idx'[q] - 1
    BY <1>6, <1>0 DEF TypeOK, Written, Index
  <2>1. ASSUME pc[q] \in {"sync", "publish"}
        PROVE  ring'[Index(idx[q])] = ring[Index(idx[q])]
    <3>1. pc[q] \in Sending /\ pc[q] \in Writing
      BY <2>1 DEF Sending, Writing
    <3>2. idx[q] # idx[p]
      BY <1>0, <3>1, ClaimsUnique
    <3>3. idx[q] \in Int /\ sequence < idx[q] /\ idx[q] <= sequence + BufferSize
      <4>1. idx[q] - BufferSize <= sequence
        BY <3>1 DEF SlotReleased, WrapPoint
      <4> QED
        BY <1>0, <3>1, <4>1, ClaimBounds, SMTT(30)
    <3> QED
      BY <1>5, <3>2, <3>3
  <2> QED
    BY <2>1 DEF TypeOK, Written, Index
<1>8. OccupiedByMessages'
  <2> SUFFICES ASSUME NEW s \in sequence + 1..cursor
               PROVE  ring'[Index(s)] \in Messages
    BY DEF OccupiedByMessages, Index, Messages
  <2>1. ring'[Index(s)] = ring[Index(s)]
    BY <1>0, <1>5, SMTT(30)
  <2> QED
    BY <2>1 DEF OccupiedByMessages
<1> QED
  BY <1>3, <1>4, <1>7, <1>8

\* Publishing keeps the invariant.
LEMMA PublishInv ==
  ASSUME QueueInv, NEW p \in Producers, Publish(p) PROVE QueueInv'
<1> USE SizeAssumption, BoundAssumption DEF QueueInv, Publish, consumerVars, kInitialCursorValue
<1>0. /\ pc[p] \in Sending
      /\ cursor = idx[p] - 1 /\ sent[p] < MaxSent
      /\ ring[Index(idx[p])] = <<p, sent[p] + 1>>
      /\ idx[p] \in Int /\ cursor \in Int /\ cursor + 1 <= last_claimed_sequence
  BY SMTT(30) DEF TypeOK, ClaimsDense, Written, Sending, Writing
<1>1. TypeOK'
  <2>1. /\ cursor' \in Nat \cup {-1} /\ cursor' <= last_claimed_sequence
        /\ available_sequence <= cursor'
    <3>1. cursor' = cursor + 1
      OBVIOUS
    <3>2. /\ cursor \in Nat \cup {-1} /\ last_claimed_sequence \in Nat \cup {-1}
          /\ available_sequence \in Int /\ available_sequence <= cursor
      BY SMTT(30) DEF TypeOK, kNotReadySignal
    <3> HIDE DEF QueueInv, Publish
    <3> QED
      BY <1>0, <3>1, <3>2, SMTT(30)
  <2>2. pc' \in [Producers -> Sending \cup {"idle", "probe", "probed"}]
    BY DEF TypeOK
  <2>3. idx' \in [Producers -> Nat \cup {-1}]
    BY DEF TypeOK
  <2>4. sent' \in [Producers -> 0..MaxSent]
    <3>1. sent \in [Producers -> 0..MaxSent] /\ sent' = [sent EXCEPT ![p] = @ + 1]
      BY DEF TypeOK
    <3>2. sent[p] + 1 \in 0..MaxSent
      BY <1>0, <3>1, SMTT(30)
    <3> HIDE DEF QueueInv, Publish
    <3> QED
      BY <3>1, <3>2
  <2> QED
    BY <2>1, <2>2, <2>3, <2>4 DEF TypeOK
<1>2. \A q \in Producers \ {p} : pc'[q] = pc[q] /\ idx'[q] = idx[q] /\ sent'[q] = sent[q]
  BY DEF TypeOK
<1>3. pc'[p] = "idle" /\ "idle" \notin Sending /\ "idle" \notin Writing
  BY DEF TypeOK, Sending, Writing
<1>4. \A q \in Producers \ {p} : pc[q] \in Sending => idx[q] # idx[p]
  BY <1>0, ClaimsUnique
<1>5. ClaimsDense'
  <2>1. \A q \in Producers : pc'[q] \in Sending => idx'[q] \in cursor' + 1..last_claimed_sequence'
    <3> SUFFICES ASSUME NEW q \in Producers \ {p}, pc[q] \in Sending
                 PROVE  idx[q] \in cursor + 2..last_claimed_sequence
      BY <1>0, <1>2, <1>3, SMTT(30)
    <3> QED
      BY <1>0, <1>4, ClaimBounds, SMTT(30)
  <2>2. ASSUME NEW s \in cursor' + 1..last_claimed_sequence'
        PROVE  \E q \in Producers : /\ pc'[q] \in Sending /\ idx'[q] = s
                             /\ \A r \in Producers \ {q} :
                                   pc'[r] \in Sending => idx'[r] # s
    <3>1. s \in cursor + 1..last_claimed_sequence /\ s # idx[p]
      BY <1>0, ClaimBounds, SMTT(30)
    <3>2. PICK q \in Producers : /\ pc[q] \in Sending /\ idx[q] = s
                             /\ \A r \in Producers \ {q} :
                                   pc[r] \in Sending => idx[r] # s
      BY <3>1 DEF ClaimsDense
    <3>3. q # p
      BY <3>1, <3>2
    <3> QED
      BY <1>2, <1>3, <3>2, <3>3, SMTT(30)
  <2> QED
    BY <2>1, <2>2 DEF ClaimsDense
<1>6. SlotReleased' /\ CopiesOld'
  BY <1>2, <1>3 DEF SlotReleased, CopiesOld, WrapPoint
<1>7. BatchPublished'
  BY <1>0, SMTT(30) DEF TypeOK, BatchPublished, InBatch
<1>8. Written'
  <2> SUFFICES ASSUME NEW q \in Producers \ {p}
               PROVE  /\ pc[q] \in Sending => sent[q] < MaxSent
                      /\ pc[q] \in {"sync", "publish"} =>
                            ring[Index(idx[q])] = <<q, sent[q] + 1>>
                      /\ pc[q] # "publish"
    <3>1. pc'[p] \notin Sending /\ pc'[p] \notin {"sync", "publish"}
      BY <1>3
    <3>2. ring' = ring
      OBVIOUS
    <3> HIDE DEF QueueInv, Publish
    <3> QED
      BY <1>2, <3>1, <3>2 DEF Written, Index
  <2>1. ASSUME pc[q] = "publish" PROVE FALSE
    <3>1. cursor = idx[q] - 1 /\ pc[q] \in Sending
      BY <2>1 DEF Written, Sending, Writing
    <3> QED
      BY <1>0, <1>4, <3>1, ClaimBounds, SMTT(30)
  <2> QED
    BY <2>1 DEF Written
<1>9. OccupiedByMessages'
  <2> SUFFICES ASSUME NEW s \in sequence + 1..cursor + 1
               PROVE  ring[Index(s)] \in Messages
    BY DEF OccupiedByMessages, Index, Messages
  <2>1. CASE s = idx[p]
    BY <1>0, <2>1, NextIsMessage
  <2>2. CASE s \in sequence + 1..cursor
    BY <2>2 DEF OccupiedByMessages
  <2> QED
    BY <1>0, <2>1, <2>2, SMTT(30) DEF TypeOK
<1> QED
  BY <1>1, <1>5, <1>6, <1>7, <1>8, <1>9

\* Each step of HasAvailableCapacity keeps the invariant.
LEMMA ProbeInv ==
  ASSUME QueueInv, NEW p \in Producers, Probe(p) PROVE QueueInv'
<1> USE SizeAssumption, BoundAssumption DEF QueueInv, consumerVars
<1>0. /\ pc[p] \in {"idle", "probe", "probed"}
      /\ pc' \in [Producers -> Sending \cup {"idle", "probe", "probed"}]
      /\ pc'[p] \in {"idle", "probe", "probed"}
      /\ \A q \in Producers \ {p} : pc'[q] = pc[q]
      /\ seen' \in [Producers -> Nat \cup {kInitialCursorValue}]
      /\ last_consumer_sequence' \in Nat \cup {kInitialCursorValue}
      /\ UNCHANGED <<last_claimed_sequence, cursor, ring, idx, sent, consumerVars>>
  <2> USE DEF TypeOK, kInitialCursorValue
  <2>1. CASE HasAvailableCapacity(p)
    BY <2>1 DEF HasAvailableCapacity
  <2>2. CASE ReadConsumer(p)
    BY <2>2 DEF ReadConsumer
  <2>3. CASE StoreConsumer(p)
    BY <2>3 DEF StoreConsumer
  <2> QED
    BY <2>1, <2>2, <2>3 DEF Probe
<1>1. TypeOK'
  BY <1>0 DEF TypeOK
<1>2. \A q \in Producers : pc'[q] \in Sending \/ pc[q] \in Sending => pc'[q] = pc[q]
  BY <1>0 DEF Sending, Writing
<1>3. ClaimsDense'
  BY <1>0, <1>2, SMTT(30) DEF ClaimsDense
<1>4. SlotReleased'
  BY <1>0, <1>2 DEF SlotReleased, WrapPoint, Sending
<1>5. CopiesOld'
  <2>0. CASE HasAvailableCapacity(p)
    BY <2>0 DEF CopiesOld, HasAvailableCapacity
  <2>1. CASE ReadConsumer(p)
    <3>1. sequence <= sequence
      BY SMTT(30) DEF TypeOK, kInitialCursorValue
    <3> QED
      BY <2>1, <3>1 DEF TypeOK, CopiesOld, ReadConsumer
  <2>2. CASE StoreConsumer(p)
    <3>1. last_consumer_sequence' <= sequence'
      BY <2>2 DEF CopiesOld, StoreConsumer
    <3>2. -1 <= sequence
      BY SMTT(30) DEF TypeOK, kInitialCursorValue
    <3>3. \A q \in Producers : seen'[q] <= sequence'
      BY <2>2, <3>2 DEF TypeOK, CopiesOld, StoreConsumer, kInitialCursorValue
    <3> QED
      BY <3>1, <3>3 DEF CopiesOld
  <2> QED
    BY <2>0, <2>1, <2>2 DEF Probe
<1>6. BatchPublished' /\ OccupiedByMessages'
  BY <1>0 DEF BatchPublished, OccupiedByMessages, InBatch, Index, Messages
<1>7. Written'
  BY <1>0, <1>2 DEF Written, Index, Sending, Writing
<1> QED
  BY <1>1, <1>3, <1>4, <1>5, <1>6, <1>7

\* Starting a batch keeps the invariant.
LEMMA GetInv ==
  ASSUME QueueInv, NEW n \in Requests, Get(n) PROVE QueueInv'
<1> USE SizeAssumption, BoundAssumption
    DEF QueueInv, Get, producerVars, kInitialCursorValue, kNotReadySignal
<1>1. /\ next_sequence' \in Nat /\ sequence < next_sequence'
      /\ available_sequence' \in Nat \cup {kInitialCursorValue, kNotReadySignal}
      /\ available_sequence' <= cursor
      /\ next_sequence' <= available_sequence' \/ next_sequence' = sequence + 1
  BY SMTT(30) DEF TypeOK, BatchPublished, InBatch, WaitFor
<1>2. /\ wanted' \in Nat
      /\ wanted' > 0 => next_sequence' + wanted' - 1 <= available_sequence'
  BY <1>1, SMTT(30)
<1>3. TypeOK'
  BY <1>1, <1>2, SMTT(30) DEF TypeOK
<1>4. BatchPublished'
  BY <1>1, <1>2 DEF BatchPublished, InBatch
<1>5. ClaimsDense' /\ SlotReleased' /\ CopiesOld'
  BY DEF ClaimsDense, SlotReleased, CopiesOld, WrapPoint
<1>6. Written' /\ OccupiedByMessages'
  BY DEF Written, OccupiedByMessages, Index, Messages
<1> QED
  BY <1>3, <1>4, <1>5, <1>6

\* The message handed out next is published and not released.
LEMMA HandedPublished ==
  ASSUME QueueInv, handed < wanted
  PROVE  next_sequence + handed \in sequence + 1..cursor
  BY SMTT(30) DEF QueueInv, TypeOK, BatchPublished, kInitialCursorValue, kNotReadySignal

\* Handing a message to the consumer keeps the invariant.
LEMMA HandEventInv == ASSUME QueueInv, HandEvent PROVE QueueInv'
<1> USE DEF QueueInv, HandEvent, producerVars
<1>1. ring[Index(next_sequence + handed)] \in Messages
  BY HandedPublished DEF OccupiedByMessages
<1>2. received' \in Seq(Messages)
  BY <1>1, SMTT(30) DEF TypeOK
<1>3. handed' \in 0..wanted
  BY SMTT(30) DEF TypeOK
<1>4. TypeOK'
  BY <1>2, <1>3 DEF TypeOK
<1>5. ClaimsDense' /\ SlotReleased' /\ CopiesOld'
  BY DEF ClaimsDense, SlotReleased, CopiesOld, WrapPoint
<1>6. Written' /\ OccupiedByMessages' /\ BatchPublished'
  BY DEF Written, OccupiedByMessages, BatchPublished, InBatch, Index, Messages
<1> QED
  BY <1>4, <1>5, <1>6

\* Ending a batch keeps the invariant.
LEMMA CommitInv == ASSUME QueueInv, Commit PROVE QueueInv'
<1> USE SizeAssumption
    DEF QueueInv, Commit, producerVars, kInitialCursorValue, kNotReadySignal
<1>1. /\ next_sequence' \in Nat
      /\ sequence' \in Nat \cup {-1} /\ sequence \in Nat \cup {-1} /\ cursor \in Nat \cup {-1}
      /\ sequence <= sequence' /\ sequence' < next_sequence'
      /\ sequence' <= cursor
  BY SMTT(30) DEF TypeOK, BatchPublished
<1>2. TypeOK'
  BY <1>1, SMTT(30) DEF TypeOK
<1>3. ClaimsDense'
  BY DEF ClaimsDense
<1>4. SlotReleased'
  <2> SUFFICES ASSUME NEW p \in Producers, pc[p] \in Writing
               PROVE  idx[p] - BufferSize <= sequence'
    BY DEF SlotReleased, WrapPoint
  <2>1. idx[p] - BufferSize <= sequence /\ idx[p] \in Int
    BY SMTT(30) DEF SlotReleased, TypeOK
  <2> QED
    BY <1>1, <2>1, SMTT(30) DEF WrapPoint
<1>5. CopiesOld'
  <2>1. last_consumer_sequence <= sequence'
    BY <1>1, SMTT(30) DEF CopiesOld, TypeOK
  <2>2. ASSUME NEW p \in Producers PROVE seen[p] <= sequence'
    <3>1. seen[p] <= sequence /\ seen[p] \in Int
      BY SMTT(30) DEF CopiesOld, TypeOK
    <3> QED
      BY <1>1, <3>1, SMTT(30)
  <2> QED
    BY <2>1, <2>2 DEF CopiesOld
<1>6. BatchPublished'
  BY <1>1, SMTT(30) DEF TypeOK, BatchPublished, InBatch
<1>7. Written'
  BY DEF Written, Index
<1>8. OccupiedByMessages'
  <2> SUFFICES ASSUME NEW s \in sequence' + 1..cursor
               PROVE  ring[Index(s)] \in Messages
    BY DEF OccupiedByMessages, Index, Messages
  <2>1. s \in sequence + 1..cursor
    BY <1>1, SMTT(30)
  <2> QED
    BY <2>1 DEF OccupiedByMessages
<1> QED
  BY <1>2, <1>3, <1>4, <1>5, <1>6, <1>7, <1>8

\* Every step keeps the invariant.
LEMMA StepInv == QueueInv /\ [Next]_vars => QueueInv'
<1> SUFFICES ASSUME QueueInv, [Next]_vars PROVE QueueInv'
  OBVIOUS
<1>1. CASE UNCHANGED vars
  <2> USE <1>1 DEF vars, producerVars, consumerVars
  <2>1. TypeOK' /\ ClaimsDense' /\ SlotReleased'
    BY DEF QueueInv, TypeOK, ClaimsDense, SlotReleased
  <2>2. CopiesOld' /\ BatchPublished'
    BY DEF QueueInv, CopiesOld, BatchPublished, InBatch
  <2>3. Written' /\ OccupiedByMessages'
    BY DEF QueueInv, Written, OccupiedByMessages, Index
  <2> QED
    BY <2>1, <2>2, <2>3 DEF QueueInv
<1>2. ASSUME NEW p \in Producers, Claim(p) \/ FinishSend(p) \/ Probe(p)
      PROVE  QueueInv'
  BY <1>2, ClaimInv, CheckConsumerInv, WaitForSlotInv, WriteSlotInv,
     SynchronizePublishingInv, PublishInv, ProbeInv DEF FinishSend
<1>3. CASE Consume
  BY <1>3, GetInv, HandEventInv, CommitInv DEF Consume
<1> QED
  BY <1>1, <1>2, <1>3 DEF Next

THEOREM Invariance == Spec => []QueueInv
<1>1. Init => QueueInv
  BY InitInv
<1>2. QueueInv /\ [Next]_vars => QueueInv'
  BY StepInv
<1> QED
  BY <1>1, <1>2, PTL DEF Spec

\* The sequences stay in order: released, handed out, available to the batch,
\* published, claimed (MultiThreadedStrategy, BatchEventProcessor).
THEOREM TypesCorrect == Spec => []TypeOK
<1>1. QueueInv => TypeOK
  BY DEF QueueInv
<1> QED
  BY <1>1, Invariance, PTL

\* Whatever the producers interleave, the claimed and unpublished sequences are
\* those of the sends in progress, each of exactly one (IncrementAndGet,
\* SynchronizePublishing).
THEOREM ClaimsStayDense == Spec => []ClaimsDense
<1>1. QueueInv => ClaimsDense
  BY DEF QueueInv
<1> QED
  BY <1>1, Invariance, PTL

\* send never writes a slot whose message the consumer has not released,
\* although last_consumer_sequence_ may be set from an old reading
\* (IncrementAndGet, HasAvailableCapacity).
THEOREM SlotsReleased == Spec => []SlotReleased
<1>1. QueueInv => SlotReleased
  BY DEF QueueInv
<1> QED
  BY <1>1, Invariance, PTL

-----------------------------------------------------------------------------
(* The queue implements the abstract one. *)

Taken == next_sequence + handed - (sequence + 1)
fifo == <<Occupied, Taken, sent, received>>

\* The published messages, as a sequence.
LEMMA OccupiedShape ==
  ASSUME QueueInv
  PROVE  /\ cursor - sequence \in Nat
         /\ Occupied \in Seq(Messages)
         /\ Len(Occupied) = cursor - sequence
         /\ \A i \in 1..cursor - sequence : Occupied[i] = ring[Index(sequence + i)]
<1>1. cursor - sequence \in Nat
  BY SMTT(30) DEF QueueInv, TypeOK, BatchPublished, kInitialCursorValue
<1>2. \A i \in 1..cursor - sequence : ring[Index(sequence + i)] \in Messages
  <2> TAKE i \in 1..cursor - sequence
  <2>1. sequence + i \in sequence + 1..cursor
    BY <1>1, SMTT(30) DEF QueueInv, TypeOK, kInitialCursorValue
  <2> QED
    BY <2>1 DEF QueueInv, OccupiedByMessages
<1> QED
  BY <1>1, <1>2, SMTT(30) DEF Occupied

\* The same sequence after a step.
LEMMA PrimedOccupied ==
  ASSUME NEW c, NEW s, NEW r, cursor' = c, sequence' = s, ring' = r
  PROVE  Occupied' = [i \in 1..c - s |-> r[Index(s + i)]]
  BY DEF Occupied, Index

\* Append, written as a function.
LEMMA AppendShape ==
  ASSUME NEW S, NEW q \in Seq(S), NEW m \in S,
         NEW t, t = [i \in 1..Len(q) + 1 |-> IF i = Len(q) + 1 THEN m ELSE q[i]]
  PROVE  t = Append(q, m)
<1>1. t \in Seq(S) /\ Len(t) = Len(q) + 1
  BY SMTT(30)
<1>2. Append(q, m) \in Seq(S) /\ Len(Append(q, m)) = Len(q) + 1
  BY AppendProperties
<1>3. \A i \in 1..Len(q) + 1 : t[i] = Append(q, m)[i]
  BY AppendProperties, SMTT(30)
<1> QED
  BY <1>1, <1>2, <1>3, SeqEqual

\* The queue starts as an empty FIFO queue.
LEMMA InitRefines == Init => Fifo!FifoInit
<1> SUFFICES ASSUME Init PROVE Fifo!FifoInit
  OBVIOUS
<1>1. Occupied = <<>>
  BY SMTT(30) DEF Init, Occupied, kInitialCursorValue
<1> QED
  BY <1>1, SMTT(30) DEF Init, Fifo!FifoInit, kInitialCursorValue

\* Writing a slot is not seen by the FIFO queue.
LEMMA WriteRefines ==
  ASSUME QueueInv, NEW p \in Producers, WriteSlot(p) PROVE UNCHANGED fifo
<1>1. /\ pc[p] \in Sending /\ pc[p] \in Writing
      /\ idx[p] \in Int /\ cursor \in Int /\ sequence \in Int
      /\ cursor < idx[p] /\ idx[p] <= sequence + BufferSize
  <2>1. pc[p] \in Writing
    BY DEF WriteSlot, Writing
  <2> QED
    BY <2>1, WriterBounds
<1>2. ASSUME NEW i \in 1..cursor - sequence
      PROVE  ring'[Index(sequence + i)] = ring[Index(sequence + i)]
  <2>1. sequence + i \in Int /\ sequence + i < idx[p] /\ idx[p] < (sequence + i) + BufferSize
    BY <1>1, SizeAssumption, SMTT(30)
  <2>2. Index(sequence + i) # Index(idx[p])
    BY <1>1, <2>1, SlotsDiffer
  <2> QED
    BY <2>2, SMTT(30) DEF QueueInv, TypeOK, WriteSlot
<1>3. Occupied' = Occupied
  BY <1>2 DEF Occupied, WriteSlot, consumerVars, Index
<1> QED
  BY <1>3 DEF fifo, Taken, WriteSlot, consumerVars

\* Publishing is Enqueue.
LEMMA PublishRefines ==
  ASSUME QueueInv, NEW p \in Producers, Publish(p) PROVE Fifo!Enqueue(p)
<1>0. pc[p] \in Sending /\ pc[p] \in Writing
  BY DEF Publish, Sending, Writing
<1>1. /\ cursor = idx[p] - 1 /\ sent[p] < MaxSent
      /\ ring[Index(idx[p])] = <<p, sent[p] + 1>>
  BY <1>0 DEF QueueInv, Written, Publish
<1>2. idx[p] - BufferSize <= sequence
  BY <1>0 DEF QueueInv, SlotReleased, WrapPoint
<1>3. idx[p] \in Int /\ cursor \in Int /\ sequence \in Int
  BY SMTT(30) DEF QueueInv, TypeOK, kInitialCursorValue
<1>4. Len(Occupied) < BufferSize
  <2>1. Len(Occupied) = cursor - sequence
    BY OccupiedShape
  <2>2. cursor - sequence < BufferSize
    BY <1>1, <1>2, <1>3, SizeAssumption, SMTT(30)
  <2> QED
    BY <2>1, <2>2
<1>5. Occupied' = [i \in 1..(cursor + 1) - sequence |-> ring[Index(sequence + i)]]
  <2>1. cursor' = cursor + 1 /\ ring' = ring /\ sequence' = sequence
    BY DEF Publish, consumerVars
  <2> QED
    BY <2>1, PrimedOccupied
<1>6. ring[Index(sequence + ((cursor + 1) - sequence))] = <<p, sent[p] + 1>>
  <2>1. sequence + ((cursor + 1) - sequence) = idx[p]
    BY <1>1, <1>3, SMTT(30)
  <2> QED
    BY <1>1, <2>1
<1>7. Occupied' = Append(Occupied, <<p, sent[p] + 1>>)
  <2>1. cursor - sequence \in Nat /\ (cursor + 1) - sequence = (cursor - sequence) + 1
    BY <1>3, OccupiedShape, SMTT(30)
  <2>2. Occupied' = [i \in 1..Len(Occupied) + 1 |->
                        IF i = Len(Occupied) + 1 THEN <<p, sent[p] + 1>> ELSE Occupied[i]]
    BY <1>5, <1>6, <2>1, OccupiedShape, SMTT(30)
  <2> QED
    BY <1>0, <2>2, OccupiedShape, AppendShape, NextIsMessage
<1> QED
  BY <1>1, <1>4, <1>7 DEF Fifo!Enqueue, Publish, consumerVars

\* Handing a message to the consumer is Receive.
LEMMA HandRefines == ASSUME QueueInv, HandEvent PROVE Fifo!Receive
<1>1. /\ handed < wanted /\ handed' = handed + 1
      /\ received' = Append(received, ring[Index(next_sequence + handed)])
      /\ UNCHANGED <<sequence, next_sequence, cursor, ring, sent>>
  BY DEF HandEvent, producerVars
<1>2. /\ next_sequence \in Int /\ handed \in Int /\ sequence \in Int /\ cursor \in Int
      /\ sequence < next_sequence /\ handed >= 0
  BY SMTT(30) DEF QueueInv, TypeOK, kInitialCursorValue
<1>3. next_sequence + handed \in sequence + 1..cursor
  BY <1>1, HandedPublished
<1>4. Taken + 1 \in 1..cursor - sequence /\ sequence + (Taken + 1) = next_sequence + handed
  BY <1>2, <1>3, SMTT(30) DEF Taken
<1>5. Occupied[Taken + 1] = ring[Index(next_sequence + handed)]
  BY <1>4, OccupiedShape
<1>6. Taken < Len(Occupied)
  BY <1>2, <1>4, OccupiedShape, SMTT(30) DEF Taken
<1>7. Taken' = Taken + 1
  BY <1>1, <1>2, SMTT(30) DEF Taken
<1>8. Occupied' = Occupied
  BY <1>1 DEF Occupied, Index
<1> QED
  BY <1>1, <1>5, <1>6, <1>7, <1>8 DEF Fifo!Receive, Taken

\* Ending a batch is Release, if it releases anything.
LEMMA CommitRefines ==
  ASSUME QueueInv, Commit PROVE Fifo!Release \/ UNCHANGED fifo
<1>1. /\ wanted > 0 /\ handed = wanted
      /\ next_sequence' = next_sequence + wanted
      /\ sequence' = IF next_sequence' <= available_sequence THEN sequence
                     ELSE next_sequence' - 1
      /\ handed' = 0
      /\ UNCHANGED <<received, cursor, ring, sent>>
  BY DEF Commit, producerVars
<1>2. /\ next_sequence \in Int /\ wanted \in Int /\ sequence \in Int /\ cursor \in Int
      /\ available_sequence \in Int /\ sequence < next_sequence
      /\ available_sequence <= cursor
      /\ next_sequence + wanted - 1 <= available_sequence
  BY <1>1, SMTT(30)
     DEF QueueInv, TypeOK, BatchPublished, kInitialCursorValue, kNotReadySignal
<1>3. CASE next_sequence' <= available_sequence
  <2>1. Taken' = Taken
    BY <1>1, <1>2, <1>3, SMTT(30) DEF Taken
  <2>2. Occupied' = Occupied
    BY <1>1, <1>3 DEF Occupied, Index
  <2> QED
    BY <1>1, <2>1, <2>2 DEF fifo
<1>4. CASE next_sequence' > available_sequence
  <2>1. Taken' = 0 /\ sequence' = sequence + Taken /\ Taken \in Nat /\ sequence' <= cursor
    BY <1>1, <1>2, <1>4, SMTT(30) DEF Taken
  <2>2. Len(Occupied) = cursor - sequence /\ Occupied \in Seq(Messages)
    BY OccupiedShape
  <2>3. Occupied' = SubSeq(Occupied, Taken + 1, Len(Occupied))
    <3>1. /\ Occupied' \in Seq(Messages)
          /\ Len(Occupied') = cursor - sequence'
          /\ \A i \in 1..cursor - sequence' : Occupied'[i] = ring[Index(sequence' + i)]
      <4>1. Occupied' = [i \in 1..cursor - sequence' |-> ring[Index(sequence' + i)]]
        BY <1>1, PrimedOccupied, SMTT(30)
      <4>2. cursor - sequence' \in Nat /\ sequence' \in Int
        BY <1>2, <2>1, SMTT(30)
      <4>3. \A i \in 1..cursor - sequence' : ring[Index(sequence' + i)] \in Messages
        <5> TAKE i \in 1..cursor - sequence'
        <5>1. sequence' + i \in sequence + 1..cursor
          BY <1>2, <2>1, SMTT(30)
        <5> QED
          BY <5>1 DEF QueueInv, OccupiedByMessages
      <4> QED
        BY <4>1, <4>2, <4>3, SMTT(30)
    <3>2. /\ SubSeq(Occupied, Taken + 1, Len(Occupied)) \in Seq(Messages)
          /\ Len(SubSeq(Occupied, Taken + 1, Len(Occupied))) = cursor - sequence'
          /\ \A i \in 1..cursor - sequence' :
                SubSeq(Occupied, Taken + 1, Len(Occupied))[i] = Occupied[Taken + i]
      BY <1>2, <2>1, <2>2, SMTT(30)
    <3>3. \A i \in 1..cursor - sequence' : Occupied[Taken + i] = ring[Index(sequence' + i)]
      <4> TAKE i \in 1..cursor - sequence'
      <4>1. Taken + i \in 1..cursor - sequence /\ sequence + (Taken + i) = sequence' + i
        BY <1>2, <2>1, SMTT(30)
      <4> QED
        BY <4>1, OccupiedShape
    <3> QED
      BY <3>1, <3>2, <3>3, SeqEqual
  <2> QED
    BY <1>1, <2>1, <2>3 DEF Fifo!Release, Taken
<1> QED
  BY <1>1, <1>2, <1>3, <1>4, SMTT(30)

\* Starting a batch is not seen by the FIFO queue.
LEMMA GetRefines == ASSUME QueueInv, NEW n \in Requests, Get(n) PROVE UNCHANGED fifo
<1>1. next_sequence' = next_sequence
  BY DEF Get, QueueInv, BatchPublished
<1>2. UNCHANGED <<sequence, handed, received, cursor, ring, sent>>
  BY DEF Get, producerVars
<1> QED
  BY <1>1, <1>2 DEF fifo, Taken, Occupied, Index

\* Every step is a step of the FIFO queue or is not seen by it.
LEMMA StepRefines ==
  QueueInv /\ [Next]_vars => [Fifo!FifoNext]_fifo
<1> SUFFICES ASSUME QueueInv, [Next]_vars PROVE [Fifo!FifoNext]_fifo
  OBVIOUS
<1>1. ASSUME UNCHANGED <<cursor, ring, sent, consumerVars>> PROVE UNCHANGED fifo
  BY <1>1 DEF fifo, Occupied, Taken, Index, consumerVars
<1>2. ASSUME NEW p \in Producers, Claim(p) \/ FinishSend(p) \/ Probe(p)
      PROVE  [Fifo!FifoNext]_fifo
  <2>1. CASE WriteSlot(p)
    BY <2>1, WriteRefines
  <2>2. CASE Publish(p)
    BY <2>2, PublishRefines DEF Fifo!FifoNext
  <2>3. ASSUME \/ Claim(p) \/ CheckConsumer(p) \/ WaitForSlot(p)
               \/ SynchronizePublishing(p) \/ Probe(p)
        PROVE  UNCHANGED <<cursor, ring, sent, consumerVars>>
    BY <2>3 DEF Claim, CheckConsumer, WaitForSlot, SynchronizePublishing, Probe,
       HasAvailableCapacity, ReadConsumer, StoreConsumer
  <2> QED
    BY <1>1, <1>2, <2>1, <2>2, <2>3 DEF FinishSend
<1>3. CASE Consume
  BY <1>3, GetRefines, HandRefines, CommitRefines DEF Consume, Fifo!FifoNext
<1>4. CASE UNCHANGED vars
  BY <1>1, <1>4 DEF vars, producerVars
<1> QED
  BY <1>2, <1>3, <1>4 DEF Next

\* MPSCQueue is a bounded FIFO queue: send enters a message once, in order and
\* only when there is room, and the receiver is handed what was entered, in
\* order, for every number of producers and every ring size.
THEOREM QueueImplementsFifo == Spec => ImplementsFifo
<1>1. Init => Fifo!FifoInit
  BY InitRefines
<1>2. QueueInv /\ [Next]_vars => [Fifo!FifoNext]_(Fifo!fifoVars)
  BY StepRefines DEF fifo, Taken, Fifo!fifoVars
<1> QED
  BY <1>1, <1>2, Invariance, PTL DEF Spec, ImplementsFifo, Fifo!FifoSpec

-----------------------------------------------------------------------------
(* The order of each producer's messages. *)

\* The message published under number n: handed to the consumer, or in its slot.
Message(n) == IF n < Len(received) THEN received[n + 1] ELSE ring[Index(n)]

\* Published so far, each producer's messages are numbered without a gap, in order.
Ordered ==
    /\ \A n \in 0..cursor : /\ Message(n) \in Messages
                            /\ Message(n)[2] <= sent[Message(n)[1]]
    /\ \A m, n \in 0..cursor :
          m < n /\ Message(m)[1] = Message(n)[1] => Message(m)[2] < Message(n)[2]
    /\ \A n \in 0..cursor : Message(n)[2] > 1 =>
          \E m \in 0..n - 1 : Message(m) = <<Message(n)[1], Message(n)[2] - 1>>
    /\ \A p \in Producers : sent[p] > 0 =>
          \E n \in 0..cursor : Message(n) = <<p, sent[p]>>
OrderInv == Len(received) = next_sequence + handed /\ Ordered

\* The consumer has received no more than what is published.
LEMMA HandedBelowCursor ==
  ASSUME QueueInv, OrderInv
  PROVE  /\ Len(received) \in Nat /\ cursor \in Int /\ sequence \in Int
         /\ sequence < Len(received) /\ Len(received) <= cursor + 1
<1>1. /\ next_sequence \in Nat /\ handed \in Nat /\ wanted \in Nat /\ handed <= wanted
      /\ cursor \in Int /\ sequence \in Int /\ available_sequence \in Int
      /\ sequence < next_sequence /\ available_sequence <= cursor
  BY SMTT(30) DEF QueueInv, TypeOK, kInitialCursorValue, kNotReadySignal
<1>2. next_sequence + handed <= cursor + 1
  <2>1. CASE wanted > 0
    BY <1>1, <2>1, SMTT(30) DEF QueueInv, BatchPublished
  <2>2. CASE wanted = 0
    BY <1>1, <2>2, SMTT(30) DEF QueueInv, BatchPublished, InBatch
  <2> QED
    BY <1>1, <2>1, <2>2, SMTT(30)
<1> QED
  BY <1>1, <1>2, SMTT(30) DEF OrderInv

\* A step that leaves the published messages alone keeps their order.
LEMMA SameOrder ==
  ASSUME Ordered, cursor \in Int, cursor' = cursor, sent' = sent,
         \A n \in 0..cursor : Message(n)' = Message(n)
  PROVE  Ordered'
<1> DEFINE New(n) == Message(n)'
<1>1. \A n \in 0..cursor : New(n) = Message(n)
  OBVIOUS
<1> HIDE DEF New
<1>2. /\ \A n \in 0..cursor : New(n) \in Messages /\ New(n)[2] <= sent[New(n)[1]]
      /\ \A m, n \in 0..cursor :
            m < n /\ New(m)[1] = New(n)[1] => New(m)[2] < New(n)[2]
      /\ \A p \in Producers : sent[p] > 0 => \E n \in 0..cursor : New(n) = <<p, sent[p]>>
  BY <1>1 DEF Ordered
<1>3. ASSUME NEW n \in 0..cursor, New(n)[2] > 1
      PROVE  \E m \in 0..n - 1 : New(m) = <<New(n)[1], New(n)[2] - 1>>
  <2>1. PICK m \in 0..n - 1 : Message(m) = <<Message(n)[1], Message(n)[2] - 1>>
    BY <1>1, <1>3 DEF Ordered
  <2>2. m \in 0..cursor
    BY SMTT(30)
  <2> QED
    BY <1>1, <2>1, <2>2
<1> QED
  BY <1>2, <1>3 DEF Ordered, New, Messages

\* Writing a slot leaves the published messages alone.
LEMMA WriteOrder ==
  ASSUME QueueInv, OrderInv, NEW p \in Producers, WriteSlot(p) PROVE OrderInv'
<1>1. /\ idx[p] \in Int /\ cursor \in Int /\ sequence \in Int
      /\ cursor < idx[p] /\ idx[p] <= sequence + BufferSize /\ sequence <= cursor
  <2>1. pc[p] \in Writing
    BY DEF WriteSlot, Writing
  <2> QED
    BY <2>1, WriterBounds
<1>2. UNCHANGED <<cursor, sent, received, next_sequence, handed>>
  BY DEF WriteSlot, consumerVars
<1>3. ASSUME NEW n \in 0..cursor PROVE Message(n)' = Message(n)
  <2>1. CASE n < Len(received)
    BY <1>2, <2>1 DEF Message
  <2>2. CASE ~(n < Len(received))
    <3>1. /\ n \in Int /\ sequence < n /\ n <= sequence + BufferSize /\ n # idx[p]
          /\ sequence < idx[p]
      <4>1. Len(received) \in Nat /\ sequence < Len(received)
        BY HandedBelowCursor
      <4> QED
        BY <1>1, <2>2, <4>1, SizeAssumption, SMTT(30)
    <3>2. Index(n) # Index(idx[p])
      BY <1>1, <3>1, SlotsApart
    <3>3. ring'[Index(n)] = ring[Index(n)]
      BY <3>1, <3>2, SlotInRing DEF QueueInv, TypeOK, WriteSlot
    <3> QED
      BY <1>2, <2>2, <3>3 DEF Message, Index
  <2> QED
    BY <2>1, <2>2
<1> QED
  BY <1>1, <1>2, <1>3, SameOrder DEF OrderInv

\* Handing a message out leaves it where it is in the order.
LEMMA HandOrder == ASSUME QueueInv, OrderInv, HandEvent PROVE OrderInv'
<1>1. /\ handed' = handed + 1 /\ handed < wanted
      /\ received' = Append(received, ring[Index(next_sequence + handed)])
      /\ UNCHANGED <<cursor, sent, ring, next_sequence>>
  BY DEF HandEvent, producerVars
<1>2. next_sequence + handed \in sequence + 1..cursor
  BY <1>1, HandedPublished
<1>3. /\ next_sequence \in Nat /\ handed \in Nat /\ sequence \in Int /\ cursor \in Int
      /\ received \in Seq(Messages)
  BY SMTT(30) DEF QueueInv, TypeOK, kInitialCursorValue
<1>4. ring[Index(next_sequence + handed)] \in Messages
  BY <1>2 DEF QueueInv, OccupiedByMessages
<1>5. /\ Len(received') = Len(received) + 1
      /\ received'[Len(received) + 1] = ring[Index(next_sequence + handed)]
      /\ \A i \in 1..Len(received) : received'[i] = received[i]
  BY <1>1, <1>3, <1>4, SMTT(30)
<1>6. ASSUME NEW n \in 0..cursor PROVE Message(n)' = Message(n)
  <2>1. CASE n < Len(received)
    BY <1>3, <1>5, <2>1, SMTT(30) DEF Message
  <2>2. CASE n = Len(received)
    BY <1>3, <1>5, <2>2, SMTT(30) DEF Message, OrderInv
  <2>3. CASE n > Len(received)
    BY <1>1, <1>3, <1>5, <2>3, SMTT(30) DEF Message, Index
  <2> QED
    BY <1>3, <2>1, <2>2, <2>3, SMTT(30)
<1> QED
  BY <1>1, <1>3, <1>5, <1>6, SameOrder, SMTT(30) DEF OrderInv

\* Publishing adds the producer's next message at the end.
LEMMA PublishOrder ==
  ASSUME QueueInv, OrderInv, NEW p \in Producers, Publish(p) PROVE OrderInv'
<1>1. /\ cursor' = cursor + 1 /\ sent' = [sent EXCEPT ![p] = @ + 1]
      /\ UNCHANGED <<ring, received, next_sequence, handed>>
  BY DEF Publish, consumerVars
<1>2. pc[p] \in Sending
  BY DEF Publish, Sending, Writing
<1>3. cursor = idx[p] - 1 /\ ring[Index(idx[p])] = <<p, sent[p] + 1>>
  BY DEF Publish, QueueInv, Written
<1>4. /\ cursor \in Nat \cup {-1} /\ idx[p] \in Int
      /\ sent \in [Producers -> Nat] /\ Len(received) \in Nat /\ Len(received) <= cursor + 1
  BY HandedBelowCursor, SMTT(30) DEF QueueInv, TypeOK, kInitialCursorValue
<1> DEFINE New(n) == Message(n)'
<1>0. PICK last \in 0..cursor + 1 : last = cursor + 1
  BY <1>4, SMTT(30)
<1>5. /\ \A n \in 0..cursor : New(n) = Message(n)
      /\ New(last) = <<p, sent[p] + 1>>
  <2>1. last = idx[p] /\ ~(last < Len(received))
    BY <1>0, <1>3, <1>4, SMTT(30)
  <2>2. New(last) = <<p, sent[p] + 1>>
    BY <1>1, <1>3, <2>1 DEF Message, Index
  <2> QED
    BY <1>1, <2>2 DEF Message, Index
<1>6. <<p, sent[p] + 1>> \in Messages
  BY <1>2, NextIsMessage
<1>7. /\ sent'[p] = sent[p] + 1 /\ \A q \in Producers \ {p} : sent'[q] = sent[q]
      /\ \A q \in Producers : sent'[q] \in Nat
  BY <1>1, <1>4, SMTT(30)
<1>8. \A n \in 0..last : n = last \/ n \in 0..cursor
  BY <1>0, <1>4, SMTT(30)
<1> HIDE DEF New
<1>9. \A n \in 0..last : New(n) \in Messages /\ New(n)[2] <= sent'[New(n)[1]]
  <2> SUFFICES ASSUME NEW n \in 0..last
               PROVE  New(n) \in Messages /\ New(n)[2] <= sent'[New(n)[1]]
    OBVIOUS
  <2>1. CASE n \in 0..cursor
    <3>1. /\ Message(n) \in Messages /\ Message(n)[2] <= sent[Message(n)[1]]
          /\ New(n) = Message(n)
      BY <1>5, <2>1 DEF Ordered, OrderInv
    <3>2. Message(n)[1] \in Producers /\ Message(n)[2] \in Nat
      BY <3>1, SMTT(30) DEF Messages
    <3> QED
      BY <1>0, <1>4, <1>7, <3>1, <3>2, SMTT(30)
  <2>2. CASE n = last
    BY <1>0, <1>4, <1>6, <1>7, <1>5, <2>2, SMTT(30)
  <2> QED
    BY <1>8, <2>1, <2>2
<1>10. \A m, n \in 0..last :
          m < n /\ New(m)[1] = New(n)[1] => New(m)[2] < New(n)[2]
  <2> SUFFICES ASSUME NEW m \in 0..last, NEW n \in 0..last,
                      m < n, New(m)[1] = New(n)[1]
               PROVE  New(m)[2] < New(n)[2]
    OBVIOUS
  <2>1. m \in 0..cursor
    BY <1>0, <1>4, SMTT(30)
  <2>2. CASE n \in 0..cursor
    BY <1>5, <2>1, <2>2 DEF Ordered, OrderInv
  <2>3. CASE n = last
    <3>1. Message(m)[1] = p /\ Message(m)[2] <= sent[p] /\ Message(m) \in Messages
      BY <1>5, <2>1, <2>3, SMTT(30) DEF Ordered, OrderInv
    <3> QED
      BY <1>0, <1>4, <1>5, <2>1, <2>3, <3>1, SMTT(30) DEF Messages
  <2> QED
    BY <1>8, <2>2, <2>3
<1>11. \A n \in 0..last : New(n)[2] > 1 =>
          \E m \in 0..n - 1 : New(m) = <<New(n)[1], New(n)[2] - 1>>
  <2> SUFFICES ASSUME NEW n \in 0..last, New(n)[2] > 1
               PROVE  \E m \in 0..n - 1 : New(m) = <<New(n)[1], New(n)[2] - 1>>
    OBVIOUS
  <2>1. CASE n \in 0..cursor
    <3>1. PICK m \in 0..n - 1 : Message(m) = <<Message(n)[1], Message(n)[2] - 1>>
      BY <1>5, <2>1 DEF Ordered, OrderInv
    <3>2. m \in 0..cursor
      BY <1>0, <1>4, <2>1, SMTT(30)
    <3> QED
      BY <1>5, <2>1, <3>1, <3>2
  <2>2. CASE n = last
    <3>1. sent[p] > 0
      BY <1>0, <1>4, <1>5, <2>2, SMTT(30)
    <3>2. PICK m \in 0..cursor : Message(m) = <<p, sent[p]>>
      BY <3>1 DEF Ordered, OrderInv
    <3>3. m \in 0..n - 1 /\ (sent[p] + 1) - 1 = sent[p]
      BY <1>0, <1>4, <2>2, SMTT(30)
    <3> QED
      BY <1>5, <2>2, <3>2, <3>3, SMTT(30)
  <2> QED
    BY <1>8, <2>1, <2>2
<1>12. \A q \in Producers : sent'[q] > 0 => \E n \in 0..last : New(n) = <<q, sent'[q]>>
  <2> SUFFICES ASSUME NEW q \in Producers, sent'[q] > 0
               PROVE  \E n \in 0..last : New(n) = <<q, sent'[q]>>
    OBVIOUS
  <2>1. CASE q = p
    BY <1>0, <1>4, <1>7, <1>5, <2>1
  <2>2. CASE q # p
    <3>1. PICK n \in 0..cursor : Message(n) = <<q, sent[q]>>
      BY <1>7, <2>2 DEF Ordered, OrderInv
    <3> QED
      BY <1>0, <1>4, <1>7, <1>5, <2>2, <3>1, SMTT(30)
  <2> QED
    BY <2>1, <2>2
<1>13. Ordered'
  BY <1>0, <1>1, <1>9, <1>10, <1>11, <1>12 DEF Ordered, New, Messages
<1> QED
  BY <1>1, <1>13 DEF OrderInv

\* Every step keeps the order.
LEMMA StepOrder == QueueInv /\ OrderInv /\ [Next]_vars => OrderInv'
<1> SUFFICES ASSUME QueueInv, OrderInv, [Next]_vars PROVE OrderInv'
  OBVIOUS
<1>1. ASSUME UNCHANGED <<cursor, ring, sent, received>>,
             next_sequence' + handed' = next_sequence + handed
      PROVE  OrderInv'
  <2>1. cursor \in Int
    BY HandedBelowCursor
  <2> QED
    BY <1>1, <2>1, SameOrder DEF Message, Index, OrderInv
<1>2. ASSUME NEW p \in Producers, Claim(p) \/ FinishSend(p) \/ Probe(p)
      PROVE  OrderInv'
  <2>1. ASSUME \/ Claim(p) \/ CheckConsumer(p) \/ WaitForSlot(p)
               \/ SynchronizePublishing(p) \/ Probe(p)
        PROVE  UNCHANGED <<cursor, ring, sent, consumerVars>>
    BY <2>1 DEF Claim, CheckConsumer, WaitForSlot, SynchronizePublishing, Probe,
       HasAvailableCapacity, ReadConsumer, StoreConsumer
  <2> QED
    BY <1>1, <1>2, <2>1, WriteOrder, PublishOrder DEF FinishSend, consumerVars
<1>3. ASSUME NEW n \in Requests, Get(n) PROVE OrderInv'
  <2>1. next_sequence' = next_sequence /\ UNCHANGED <<handed, received, cursor, ring, sent>>
    BY <1>3 DEF Get, QueueInv, BatchPublished, producerVars
  <2> QED
    BY <1>1, <2>1
<1>4. ASSUME Commit PROVE OrderInv'
  <2>1. /\ handed = wanted /\ next_sequence' = next_sequence + wanted /\ handed' = 0
        /\ UNCHANGED <<received, cursor, ring, sent>>
    BY <1>4 DEF Commit, producerVars
  <2>2. next_sequence \in Nat /\ wanted \in Nat
    BY DEF QueueInv, TypeOK
  <2>3. next_sequence' + handed' = next_sequence + handed
    BY <2>1, <2>2, SMTT(30)
  <2> QED
    BY <1>1, <2>1, <2>3
<1>5. CASE UNCHANGED vars
  BY <1>1, <1>5 DEF vars, producerVars, consumerVars
<1> QED
  BY <1>2, <1>3, <1>4, <1>5, HandOrder DEF Next, Consume

\* The consumer is handed each producer's messages in the order of its sends,
\* none left out and none repeated, however producers interleave and batches are
\* cut: claims are published in order and a slot keeps its message until then.
THEOREM ProducerOrderKept == Spec => []PerProducerOrder
<1>1. Init => OrderInv
  BY SMTT(30) DEF Init, OrderInv, Ordered, kInitialCursorValue
<1>2. QueueInv /\ OrderInv => PerProducerOrder
  <2> SUFFICES ASSUME QueueInv, OrderInv, NEW i \in 1..Len(received)
               PROVE  LET m == received[i] IN
                      /\ \A j \in 1..i - 1 : received[j][1] = m[1] => received[j][2] < m[2]
                      /\ m[2] > 1 => \E j \in 1..i - 1 : received[j] = <<m[1], m[2] - 1>>
    BY DEF PerProducerOrder
  <2>1. Len(received) \in Nat /\ cursor \in Int /\ Len(received) <= cursor + 1
    BY HandedBelowCursor
  <2>2. \A j \in 1..Len(received) : j - 1 \in 0..cursor /\ Message(j - 1) = received[j]
    BY <2>1, SMTT(30) DEF Message
  <2>3. \A j \in 1..i - 1 : received[j][1] = received[i][1] => received[j][2] < received[i][2]
    <3> TAKE j \in 1..i - 1
    <3>1. j \in 1..Len(received) /\ j - 1 < i - 1
      BY <2>1, SMTT(30)
    <3> QED
      BY <2>2, <3>1 DEF OrderInv, Ordered
  <2>4. ASSUME received[i][2] > 1
        PROVE  \E j \in 1..i - 1 : received[j] = <<received[i][1], received[i][2] - 1>>
    <3>1. PICK n \in 0..(i - 1) - 1 : Message(n) = <<received[i][1], received[i][2] - 1>>
      BY <2>2, <2>4 DEF OrderInv, Ordered
    <3>2. n + 1 \in 1..i - 1 /\ n + 1 \in 1..Len(received) /\ (n + 1) - 1 = n
      BY <2>1, SMTT(30)
    <3> QED
      BY <2>2, <3>1, <3>2
  <2> QED
    BY <2>3, <2>4
<1> QED
  BY <1>1, <1>2, StepOrder, Invariance, PTL DEF Spec

====
