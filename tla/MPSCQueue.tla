---- MODULE MPSCQueue ----
(***************************************************************************)
(* The multi-producer, single-consumer queue of the reactors               *)
(* (reactor/mpsc_queue.hpp) over the disruptor it is made of: the          *)
(* sequencer with MultiThreadedStrategy, the ring buffer, and the          *)
(* BatchEventProcessor with DontWaitStrategy.                              *)
(*                                                                         *)
(* Every atomic operation on a Sequence that another thread can observe is *)
(* a step of its own, so producers interleave between the claim of a       *)
(* sequence number, the wait for its slot, the write and the publication.  *)
(***************************************************************************)
EXTENDS Integers, Sequences
CONSTANTS Producers,     \* the threads that send
          BufferSize,    \* the template parameter N, a power of two
          MaxSent,       \* bound: messages each producer sends
          Requests,      \* requested sizes of get(n, fn); BufferSize is get_all
          NoMessage      \* the value of a slot never written
VARIABLES last_claimed_sequence,    \* of the claim strategy
          last_consumer_sequence,   \* of the claim strategy
          cursor,                   \* of the sequencer: last published
          ring,                     \* the events of the ring buffer
          sequence,                 \* of the event processor: last released
          next_sequence,            \* next event of the current batch
          available_sequence,       \* last event of the current batch
          wanted, handed,           \* the receive call in progress: events it
                                    \* hands to fn, and those handed so far
          pc, idx, seen,            \* of each producer: its step, its claimed
                                    \* sequence, the minimum it has read
                                    \* (-1 outside of the call)
          sent, received            \* histories
producerVars == <<last_claimed_sequence, last_consumer_sequence, cursor, ring,
                  pc, idx, seen, sent>>
consumerVars == <<sequence, next_sequence, available_sequence, wanted, handed,
                  received>>
vars == <<producerVars, consumerVars>>

ASSUME SizeAssumption == BufferSize \in Nat \ {0}
ASSUME BoundAssumption == MaxSent \in Nat /\ Requests \subseteq Nat \ {0}

kInitialCursorValue == -1
kNotReadySignal == -4
Messages == Producers \X (1..MaxSent)

\* RingBuffer::operator[]: sequence & (N - 1), N being a power of two.
Index(s) == s % BufferSize

Init ==
    /\ last_claimed_sequence = kInitialCursorValue
    /\ last_consumer_sequence = kInitialCursorValue
    /\ cursor = kInitialCursorValue
    /\ ring = [i \in 0..BufferSize - 1 |-> NoMessage]
    /\ sequence = kInitialCursorValue
    /\ next_sequence = 0
    /\ available_sequence = kInitialCursorValue
    /\ wanted = 0
    /\ handed = 0
    /\ pc = [p \in Producers |-> "idle"]
    /\ idx = [p \in Producers |-> kInitialCursorValue]
    /\ seen = [p \in Producers |-> kInitialCursorValue]
    /\ sent = [p \in Producers |-> 0]
    /\ received = <<>>

(***************************************************************************)
(* A producer                                                              *)
(***************************************************************************)

\* send(value) begins: IncrementAndGet adds 1 to last_claimed_sequence_.
Claim(p) ==
    /\ pc[p] = "idle" /\ sent[p] < MaxSent
    /\ last_claimed_sequence' = last_claimed_sequence + 1
    /\ idx' = [idx EXCEPT ![p] = last_claimed_sequence + 1]
    /\ pc' = [pc EXCEPT ![p] = "gate"]
    /\ UNCHANGED <<last_consumer_sequence, cursor, ring, seen, sent, consumerVars>>

WrapPoint(s) == s - BufferSize

\* Mutant: the shortcut is off by one.
MutCheckConsumer(p) ==
    /\ pc[p] = "gate"
    /\ pc' = [pc EXCEPT ![p] =
                IF last_consumer_sequence + 1 < WrapPoint(idx[p]) THEN "spin" ELSE "write"]
    /\ UNCHANGED <<last_claimed_sequence, last_consumer_sequence, cursor, ring,
                   idx, seen, sent, consumerVars>>

\* The one look at last_consumer_sequence_ that may avoid the wait.
CheckConsumer(p) ==
    /\ pc[p] = "gate"
    /\ pc' = [pc EXCEPT ![p] =
                IF last_consumer_sequence < WrapPoint(idx[p]) THEN "spin" ELSE "write"]
    /\ UNCHANGED <<last_claimed_sequence, last_consumer_sequence, cursor, ring,
                   idx, seen, sent, consumerVars>>

\* Mutant: waits until the slot's message is handed out, not released.
MutWaitForSlot(p) ==
    /\ pc[p] = "spin"
    /\ next_sequence - 1 >= WrapPoint(idx[p])
    /\ pc' = [pc EXCEPT ![p] = "write"]
    /\ UNCHANGED <<last_claimed_sequence, last_consumer_sequence, cursor, ring,
                   idx, seen, sent, consumerVars>>

\* The busy wait ends when the consumer has released the slot's last message.
WaitForSlot(p) ==
    /\ pc[p] = "spin"
    /\ sequence >= WrapPoint(idx[p])
    /\ pc' = [pc EXCEPT ![p] = "write"]
    /\ UNCHANGED <<last_claimed_sequence, last_consumer_sequence, cursor, ring,
                   idx, seen, sent, consumerVars>>

\* sequencer_[idx] = value
WriteSlot(p) ==
    /\ pc[p] = "write"
    /\ ring' = [ring EXCEPT ![Index(idx[p])] = <<p, sent[p] + 1>>]
    /\ pc' = [pc EXCEPT ![p] = "sync"]
    /\ UNCHANGED <<last_claimed_sequence, last_consumer_sequence, cursor, idx,
                   seen, sent, consumerVars>>

\* Mutant: publishes without waiting for the earlier sequences.
MutSynchronizePublishing(p) ==
    /\ pc[p] = "sync"
    /\ pc' = [pc EXCEPT ![p] = "publish"]
    /\ UNCHANGED <<last_claimed_sequence, last_consumer_sequence, cursor, ring,
                   idx, seen, sent, consumerVars>>

\* Mutant: forgets delta, and waits for its own sequence.
MutSynchronizeOnSelf(p) ==
    /\ pc[p] = "sync"
    /\ cursor >= idx[p]
    /\ pc' = [pc EXCEPT ![p] = "publish"]
    /\ UNCHANGED <<last_claimed_sequence, last_consumer_sequence, cursor, ring,
                   idx, seen, sent, consumerVars>>

\* Publish: wait until every earlier sequence is published ...
SynchronizePublishing(p) ==
    /\ pc[p] = "sync"
    /\ cursor >= idx[p] - 1
    /\ pc' = [pc EXCEPT ![p] = "publish"]
    /\ UNCHANGED <<last_claimed_sequence, last_consumer_sequence, cursor, ring,
                   idx, seen, sent, consumerVars>>

\* ... then add 1 to the cursor.
Publish(p) ==
    /\ pc[p] = "publish"
    /\ cursor' = cursor + 1
    /\ sent' = [sent EXCEPT ![p] = @ + 1]
    /\ pc' = [pc EXCEPT ![p] = "idle"]
    /\ idx' = [idx EXCEPT ![p] = kInitialCursorValue]
    /\ UNCHANGED <<last_claimed_sequence, last_consumer_sequence, ring, seen,
                   consumerVars>>

\* HasAvailableCapacity, when the shortcut does not answer, reads the consumer's
\* sequence and then stores what it read, by then possibly old, in
\* last_consumer_sequence_.
HasAvailableCapacity(p) ==
    /\ pc[p] = "idle"
    /\ WrapPoint(last_claimed_sequence + 1) > last_consumer_sequence
    /\ pc' = [pc EXCEPT ![p] = "probe"]
    /\ UNCHANGED <<last_claimed_sequence, last_consumer_sequence, cursor, ring,
                   idx, seen, sent, consumerVars>>

ReadConsumer(p) ==
    /\ pc[p] = "probe"
    /\ seen' = [seen EXCEPT ![p] = sequence]
    /\ pc' = [pc EXCEPT ![p] = "probed"]
    /\ UNCHANGED <<last_claimed_sequence, last_consumer_sequence, cursor, ring,
                   idx, sent, consumerVars>>

StoreConsumer(p) ==
    /\ pc[p] = "probed"
    /\ last_consumer_sequence' = seen[p]
    /\ pc' = [pc EXCEPT ![p] = "idle"]
    /\ seen' = [seen EXCEPT ![p] = kInitialCursorValue]
    /\ UNCHANGED <<last_claimed_sequence, cursor, ring, idx, sent, consumerVars>>

(***************************************************************************)
(* The consumer                                                            *)
(***************************************************************************)

InBatch == next_sequence <= available_sequence

\* DontWaitStrategy::WaitFor on a barrier without dependents.
WaitFor(s) == IF cursor < s THEN kNotReadySignal ELSE cursor

\* Mutant: begins a new batch although one is in progress.
MutGet(n) ==
    /\ wanted = 0
    /\ next_sequence' = sequence + 1
    /\ available_sequence' = WaitFor(sequence + 1)
    /\ wanted' = IF next_sequence' <= available_sequence'
                 THEN IF available_sequence' - next_sequence' + 1 < n
                      THEN available_sequence' - next_sequence' + 1
                      ELSE n
                 ELSE 0
    /\ UNCHANGED <<sequence, handed, received, producerVars>>

\* get(n, fn) and get_all(fn) begin with has_events: go on with the current
\* batch or, when it is finished, begin one with what is published now.
Get(n) ==
    /\ wanted = 0
    /\ next_sequence' = IF InBatch THEN next_sequence ELSE sequence + 1
    /\ available_sequence' = IF InBatch THEN available_sequence ELSE WaitFor(sequence + 1)
    /\ wanted' = IF next_sequence' <= available_sequence'
                 THEN IF available_sequence' - next_sequence' + 1 < n
                      THEN available_sequence' - next_sequence' + 1
                      ELSE n
                 ELSE 0
    /\ UNCHANGED <<sequence, handed, received, producerVars>>

\* fn(event_processor_.get_event(c))
HandEvent ==
    /\ handed < wanted
    /\ received' = Append(received, ring[Index(next_sequence + handed)])
    /\ handed' = handed + 1
    /\ UNCHANGED <<sequence, next_sequence, available_sequence, wanted,
                   producerVars>>

\* Mutant: finish_batch releases one event too many.
MutCommit ==
    /\ wanted > 0 /\ handed = wanted
    /\ next_sequence' = next_sequence + wanted
    /\ sequence' = IF next_sequence' <= available_sequence THEN sequence
                   ELSE next_sequence'
    /\ wanted' = 0
    /\ handed' = 0
    /\ UNCHANGED <<available_sequence, received, producerVars>>

\* commit(len), with finish_batch when the batch is used up.
Commit ==
    /\ wanted > 0 /\ handed = wanted
    /\ next_sequence' = next_sequence + wanted
    /\ sequence' = IF next_sequence' <= available_sequence THEN sequence
                   ELSE next_sequence' - 1
    /\ wanted' = 0
    /\ handed' = 0
    /\ UNCHANGED <<available_sequence, received, producerVars>>

FinishSend(p) == \/ CheckConsumer(p) \/ WaitForSlot(p) \/ WriteSlot(p)
                 \/ SynchronizePublishing(p) \/ Publish(p)
Probe(p) == HasAvailableCapacity(p) \/ ReadConsumer(p) \/ StoreConsumer(p)
Consume == (\E n \in Requests : Get(n)) \/ HandEvent \/ Commit

Next == (\E p \in Producers : Claim(p) \/ FinishSend(p) \/ Probe(p)) \/ Consume

Spec == Init /\ [][Next]_vars

\* A thread inside send keeps running, the operating system schedules it, and
\* the reactor's event loop receives on every turn.  No producer has to send.
FairSpec ==
    /\ Spec
    /\ \A p \in Producers : WF_vars(FinishSend(p))
    /\ WF_vars(Consume)

(***************************************************************************)
(* Properties                                                              *)
(***************************************************************************)

Writing == {"write", "sync", "publish"}
Sending == {"gate", "spin"} \cup Writing

\* The variables keep their types, and the sequences are ordered: released,
\* handed out, available, published, claimed.
TypeOK ==
    /\ last_claimed_sequence \in Nat \cup {kInitialCursorValue}
    /\ last_consumer_sequence \in Nat \cup {kInitialCursorValue}
    /\ cursor \in Nat \cup {kInitialCursorValue}
    /\ sequence \in Nat \cup {kInitialCursorValue}
    /\ ring \in [0..BufferSize - 1 -> Messages \cup {NoMessage}]
    /\ next_sequence \in Nat
    /\ available_sequence \in Nat \cup {kInitialCursorValue, kNotReadySignal}
    /\ wanted \in Nat /\ handed \in 0..wanted
    /\ pc \in [Producers -> Sending \cup {"idle", "probe", "probed"}]
    /\ idx \in [Producers -> Nat \cup {kInitialCursorValue}]
    /\ seen \in [Producers -> Nat \cup {kInitialCursorValue}]
    /\ sent \in [Producers -> 0..MaxSent]
    /\ received \in Seq(Messages)
    /\ available_sequence <= cursor /\ cursor <= last_claimed_sequence
    /\ sequence < next_sequence

\* Between the published and the last claimed sequence every number is being
\* sent by exactly one producer, whatever the interleaving of the fetch_add in
\* IncrementAndGet with the other producers' waits: none is lost, none is
\* claimed twice, so publication in claim order cannot get stuck on a gap.
ClaimsDense ==
    /\ \A p \in Producers : pc[p] \in Sending =>
          idx[p] \in cursor + 1..last_claimed_sequence
    /\ \A s \in cursor + 1..last_claimed_sequence :
          \E p \in Producers : /\ pc[p] \in Sending /\ idx[p] = s
                             /\ \A q \in Producers \ {p} :
                                   pc[q] \in Sending => idx[q] # s

\* A producer that writes a slot has waited until the consumer released the
\* slot's previous message: also when it took the shortcut through
\* last_consumer_sequence_, which another producer's HasAvailableCapacity may
\* have set from an old reading.
SlotReleased ==
    \A p \in Producers : pc[p] \in Writing => idx[p] - BufferSize <= sequence

\* The consumer is handed the messages of each producer in the order they were
\* sent, without a gap or a repetition, through any number of turns of the ring
\* and any mix of full and partial batches.
PerProducerOrder ==
    \A i \in 1..Len(received) :
        LET m == received[i] IN
        /\ \A j \in 1..i - 1 : received[j][1] = m[1] => received[j][2] < m[2]
        /\ m[2] > 1 => \E j \in 1..i - 1 : received[j] = <<m[1], m[2] - 1>>

\* The queue implements the abstract bounded FIFO queue: a message enters with
\* the increment of the cursor, and its slot is freed with its batch.
Occupied == [i \in 1..cursor - sequence |-> ring[Index(sequence + i)]]
Fifo == INSTANCE FifoQueue WITH
            queue <- Occupied,
            taken <- next_sequence + handed - (sequence + 1),
            Capacity <- BufferSize
ImplementsFifo == Fifo!FifoSpec

\* Every send that has claimed a sequence number returns, and its message is
\* handed to the consumer, although senders block while the ring is full and
\* publish only in claim order.
EverySendReceived ==
    \A p \in Producers : \A k \in 1..MaxSent :
        (pc[p] \in Sending /\ sent[p] = k - 1) ~>
            (\E i \in 1..Len(received) : received[i] = <<p, k>>)

====
