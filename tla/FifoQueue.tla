---- MODULE FifoQueue ----
(***************************************************************************)
(* What a reactor's inbox promises to the code that uses it: a bounded     *)
(* queue with several senders and one receiver.  A message enters the      *)
(* queue at most once and leaves it in the order of entry; the receiver is *)
(* handed messages one by one, and the places of the messages it was       *)
(* handed become free together, when it has finished a batch.              *)
(* MPSCQueue implements this specification.                                *)
(***************************************************************************)
EXTENDS Naturals, Sequences
CONSTANTS Producers, Capacity, MaxSent
VARIABLES queue,      \* the messages that occupy a place, oldest first
          taken,      \* how many of them were handed to the receiver
          sent,       \* the number of messages each producer has entered
          received    \* every message handed to the receiver, in order
fifoVars == <<queue, taken, sent, received>>

FifoInit ==
    /\ queue = <<>>
    /\ taken = 0
    /\ sent = [p \in Producers |-> 0]
    /\ received = <<>>

Enqueue(p) ==
    /\ sent[p] < MaxSent
    /\ Len(queue) < Capacity
    /\ queue' = Append(queue, <<p, sent[p] + 1>>)
    /\ sent' = [sent EXCEPT ![p] = @ + 1]
    /\ UNCHANGED <<taken, received>>

Receive ==
    /\ taken < Len(queue)
    /\ received' = Append(received, queue[taken + 1])
    /\ taken' = taken + 1
    /\ UNCHANGED <<queue, sent>>

Release ==
    /\ queue' = SubSeq(queue, taken + 1, Len(queue))
    /\ taken' = 0
    /\ UNCHANGED <<sent, received>>

FifoNext == (\E p \in Producers : Enqueue(p)) \/ Receive \/ Release

FifoSpec == FifoInit /\ [][FifoNext]_fifoVars

====
