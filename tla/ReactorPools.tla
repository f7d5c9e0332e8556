---- MODULE ReactorPools ----
(***************************************************************************)
(* The steps of workers and thread pools keep IInv.                        *)
(***************************************************************************)
EXTENDS ReactorQueues

\* The prover of the leaves that name none, and its time limit.
USE ZenonT(30)

-----------------------------------------------------------------------------
(* The worker threads *)

\* The types of the pools and workers.
LEMMA PoolFacts ==
  ASSUME IInv
  PROVE  /\ free \in [Reactors -> Seq(Workers)] /\ busy \in [Reactors -> SUBSET Workers]
         /\ joining \in [Reactors -> Workers \cup {NoWorker}]
         /\ wpc \in [Workers -> {"none", "idle", "submit", "clear", "finished"}]
         /\ task \in [Workers -> Messages \cup {NoMessage}]
         /\ wready \in [Workers -> BOOLEAN] /\ wstop \in [Workers -> BOOLEAN]
         /\ \A r \in Reactors : Range(free[r]) \subseteq Workers /\ busy[r] \subseteq Workers
<1>1. PoolTypes
  BY DEF IInv, PoolInv
<1>2. \A r \in Reactors : Range(free[r]) \subseteq Workers
  BY <1>1, SeqFacts DEF PoolTypes
<1> QED
  BY <1>1, <1>2 DEF PoolTypes

\* What the invariant says of workers, their owners and their tasks.
LEMMA WorkerFacts ==
  ASSUME IInv
  PROVE  /\ \A w \in Workers : WorkerOK(w)
         /\ \A r \in Reactors, w \in Workers : OwnerOK(r, w)
         /\ \A m \in Messages : HandedOver(m) => HandOK(m)
  BY DEF IInv, PoolInv, WorkersOK, OwnersOK, HandedOK

\* A message that was handed over has a worker of its own.
LEMMA HandedFacts ==
  ASSUME IInv, NEW m \in Messages, HandedOver(m)
  PROVE  /\ msg[m].data \in Workers /\ msg[m].cpu \in Reactors /\ HandOK(m)
         /\ \A n \in Messages : HandedOver(n) /\ msg[n].data = msg[m].data => n = m
<1>1. msg[m].data \in Workers /\ msg[m].cpu \in Reactors
  BY DataType DEF HandedOver
<1> QED
  BY <1>1 DEF IInv, PoolInv, HandedOK, HandedOnce

\* A worker that is free or joined has no message, one that is busy no other owner.
LEMMA OwnedApart ==
  ASSUME IInv, NEW r \in Reactors, NEW q \in Reactors, NEW w \in Workers
  PROVE  /\ w \in busy[r] => w \notin Range(free[q]) /\ joining[q] # w
         /\ w \in busy[r] /\ w \in busy[q] => r = q
         /\ w \in Owned(r) /\ w \in Owned(q) => r = q
  BY Zeros DEF IInv, PoolInv, OwnedOnce, Owned

\* A step of, or about, the worker w leaves the other workers alone.
OnlyWorker(w) ==
    /\ \A v \in Workers \ {w} : /\ wpc'[v] = wpc[v] /\ task'[v] = task[v]
                                /\ wready'[v] = wready[v] /\ wstop'[v] = wstop[v]
    /\ \A q \in Reactors :
          /\ Range(free'[q]) \subseteq Range(free[q]) \cup {w}
          /\ busy'[q] \subseteq busy[q] \cup {w} /\ busy[q] \subseteq busy'[q] \cup {w}
          /\ joining'[q] = joining[q] \/ (joining[q] \in {NoWorker, w} /\ joining'[q] \in {NoWorker, w})

\* A step of one worker leaves the owners of the others as they are ...
LEMMA OtherOwners ==
  ASSUME IInv, NEW w \in Workers, OnlyWorker(w), \A q \in Reactors : OwnerOK(q, w)'
  PROVE  OwnersOK'
<1> SUFFICES ASSUME NEW q \in Reactors, NEW v \in Workers \ {w} PROVE OwnerOK(q, v)'
  BY DEF OwnersOK
<1>1. OwnerOK(q, v) /\ v # NoWorker
  BY WorkerFacts, Zeros
<1>2. /\ wpc'[v] = wpc[v] /\ wready'[v] = wready[v] /\ wstop'[v] = wstop[v]
      /\ v \in Range(free'[q]) => v \in Range(free[q])
      /\ v \in busy'[q] => v \in busy[q]
      /\ joining'[q] = v <=> joining[q] = v
  BY <1>1 DEF OnlyWorker
<1>3. v \in Owned(q)' => v \in Owned(q)
  BY <1>1, <1>2 DEF Owned
<1> QED
  BY <1>1, <1>2, <1>3 DEF OwnerOK

\* ... and their tasks ...
LEMMA OtherTasks ==
  ASSUME IInv, NEW w \in Workers, OnlyWorker(w), WorkerOK(w)',
         \A m \in Messages : msg[m].kind \in PoolKinds /\ msg[m].data # w /\ msg[m].data # NoWorker =>
            /\ msg'[m].kind = msg[m].kind /\ msg'[m].data = msg[m].data
            /\ msg'[m].is_return = msg[m].is_return /\ msg'[m].freed = msg[m].freed
  PROVE  WorkersOK'
<1> SUFFICES ASSUME NEW v \in Workers \ {w} PROVE WorkerOK(v)'
  BY DEF WorkersOK
<1>1. WorkerOK(v) /\ v # NoWorker
  BY WorkerFacts, Zeros
<1>2. /\ wpc'[v] = wpc[v] /\ wready'[v] = wready[v] /\ wstop'[v] = wstop[v]
      /\ task'[v] = task[v]
  BY DEF OnlyWorker
<1>3. HasTask(v) => /\ HasTask(v)' /\ msg'[task[v]].is_return = msg[task[v]].is_return
                    /\ msg'[task[v]].freed = msg[task[v]].freed
  BY <1>1, <1>2 DEF HasTask
<1> QED
  BY <1>1, <1>2, <1>3 DEF WorkerOK

\* ... and the messages handed to them.
LEMMA OtherHanded ==
  ASSUME IInv, NEW w \in Workers, OnlyWorker(w),
         \A n \in Messages : HandedOver(n)' /\ msg'[n].data # w =>
            /\ HandedOver(n) /\ msg'[n].data = msg[n].data
            /\ msg'[n].cpu = msg[n].cpu /\ msg'[n].is_return = msg[n].is_return,
         NEW m, \A n \in Messages : HandedOver(n)' /\ msg'[n].data = w => n = m /\ HandOK(n)'
  PROVE  HandedOnce' /\ HandedOK'
<1>1. HandedOnce'
  <2> SUFFICES ASSUME NEW k \in Messages, NEW n \in Messages, HandedOver(k)', HandedOver(n)',
                      msg'[k].data = msg'[n].data
               PROVE  k = n
    BY DEF HandedOnce
  <2>1. CASE msg'[k].data = w
    BY <2>1
  <2>2. CASE msg'[k].data # w
    BY <2>2, HandedFacts
  <2> QED
    BY <2>1, <2>2
<1>2. HandedOK'
  <2> SUFFICES ASSUME NEW n \in Messages, HandedOver(n)', msg'[n].data # w PROVE HandOK(n)'
    BY DEF HandedOK
  <2>1. /\ HandedOver(n) /\ msg'[n].data = msg[n].data
        /\ msg'[n].cpu = msg[n].cpu /\ msg'[n].is_return = msg[n].is_return
    OBVIOUS
  <2>2. HandOK(n) /\ msg[n].data \in Workers \ {w} /\ msg[n].cpu \in Reactors
    BY <2>1, HandedFacts
  <2>3. LET v == msg[n].data IN
        /\ wpc'[v] = wpc[v] /\ task'[v] = task[v] /\ wready'[v] = wready[v]
        /\ wstop'[v] = wstop[v] /\ (v \in busy[msg[n].cpu] => v \in busy'[msg[n].cpu])
    BY <2>2 DEF OnlyWorker
  <2> QED
    BY <2>1, <2>2, <2>3 DEF HandOK
<1> QED
  BY <1>1, <1>2

\* A step of the thread of w itself.
LEMMA ThreadOwners ==
  ASSUME IInv, UNCHANGED <<free, busy, joining>>
  PROVE  OwnedOnce' /\ \A q \in Reactors : Owned(q)' = Owned(q)
  BY DEF IInv, PoolInv, OwnedOnce, Owned

\* Clearing task_ after the answer is sent keeps the invariant.
LEMMA ClearTaskInv == ASSUME IInv, NEW w \in Workers, ClearTask(w) PROVE IInv'
<1>1. /\ wpc[w] = "clear" /\ task' = [task EXCEPT ![w] = NoMessage]
      /\ wpc' = [wpc EXCEPT ![w] = "idle"]
      /\ UNCHANGED <<wready, wstop, msg, step, dest, call, yielded, inboxVars, schedVars, poolVars>>
  BY DEF ClearTask, fiberVars
<1>2. ~wstop[w] /\ ~wready[w]
  BY <1>1, WorkerFacts DEF WorkerOK
<1>3. /\ wpc'[w] = "idle" /\ OnlyWorker(w) /\ UNCHANGED <<free, busy, joining>>
      /\ PoolTypes'
  BY <1>1, PoolFacts DEF PoolTypes, poolVars, OnlyWorker
<1>4. NoNewAnswer
  BY <1>3 DEF NoNewAnswer, OnlyWorker
<1>5. InboxInv' /\ \A q \in Reactors : Pending(q)' = Pending(q)
  BY <1>1, SamePending DEF IInv
<1>6. FiberInv' /\ PendingOK' /\ QueueInv'
  BY <1>1, <1>4, <1>5, FiberFacts, SameFibers, FewerPending, SameQueue, ToSame
<1>7. OwnedOnce' /\ \A q \in Reactors : Owned(q)' = Owned(q)
  BY <1>3, ThreadOwners
<1>8. OwnersOK'
  <2>1. ASSUME NEW q \in Reactors PROVE OwnerOK(q, w)'
    BY <1>1, <1>2, <1>3, <1>7, WorkerFacts DEF OwnerOK
  <2> QED
    BY <1>3, <2>1, OtherOwners
<1>9. WorkersOK'
  <2>1. WorkerOK(w)'
    BY <1>1, <1>2, <1>3 DEF WorkerOK
  <2> QED
    BY <1>1, <1>3, <2>1, OtherTasks
<1>10. HandedOnce' /\ HandedOK'
  <2>1. ASSUME NEW n \in Messages, HandedOver(n), msg[n].data = w PROVE HandOK(n)'
    BY <1>1, <1>2, <1>3, <2>1, HandedFacts DEF HandOK
  <2>2. \A n \in Messages : HandedOver(n)' <=> HandedOver(n)
    BY <1>1 DEF HandedOver
  <2>3. PICK m : \A n \in Messages : HandedOver(n) /\ msg[n].data = w => n = m
    BY HandedFacts
  <2> QED
    BY <1>1, <1>3, <2>1, <2>2, <2>3, OtherHanded
<1> QED
  BY <1>3, <1>5, <1>6, <1>7, <1>8, <1>9, <1>10 DEF IInv, PoolInv

\* The worker that sends its answer keeps the invariant.
LEMMA SubmitTaskInv == ASSUME IInv, NEW w \in Workers, SubmitTask(w) PROVE IInv'
<1> DEFINE m == task[w]
<1>1. /\ wpc[w] = "submit" /\ submit_to(msg[m].cpu, m)
      /\ wpc' = [wpc EXCEPT ![w] = "clear"]
      /\ UNCHANGED <<task, wready, wstop, msg, step, dest, call, yielded, schedVars, poolVars>>
  BY DEF SubmitTask, ReplyTo, fiberVars
<1>2. /\ ~wstop[w] /\ ~wready[w] /\ m \in Messages /\ msg[m].kind \in PoolKinds
      /\ msg[m].data = w /\ msg[m].is_return /\ ~msg[m].freed
  BY <1>1, WorkerFacts DEF WorkerOK, HasTask
<1>3. /\ wpc'[w] = "clear" /\ OnlyWorker(w) /\ UNCHANGED <<free, busy, joining>>
      /\ PoolTypes'
  BY <1>1, PoolFacts DEF PoolTypes, poolVars, OnlyWorker
<1>4. NoNewAnswer
  BY <1>3 DEF NoNewAnswer, OnlyWorker
<1>5. \A q \in Reactors : m \notin Pending(q)
  BY <1>1, <1>2, PendingFacts, SMTT(30) DEF AnswerOK
<1>6. msg[m].cpu \in Reactors
  BY <1>2, DataType
<1>7. /\ InboxInv'
      /\ \A q \in Reactors : Pending(q)' \subseteq Pending(q) \cup {m}
      /\ \A q \in Reactors \ {msg[m].cpu} : Pending(q)' = Pending(q)
  BY <1>1, <1>2, <1>5, <1>6, AppendPending, SMTT(30) DEF IInv
<1>8. FiberInv' /\ QueueInv'
  BY <1>1, <1>4, FiberFacts, SameFibers, SameQueue, ToSame
<1>9. PendingOK'
  <2> SUFFICES ASSUME NEW q \in Reactors, NEW n \in Pending(q)'
               PROVE  /\ ~msg[n].freed
                      /\ IF msg[n].is_return THEN AnswerOK(q, n)' ELSE NewOK(q, n)'
    BY <1>1 DEF PendingOK
  <2>1. CASE n = m
    <3>1. q = msg[m].cpu
      BY <1>5, <1>7, <2>1
    <3>2. ASSUME msg[m].kind \in CallKinds
          PROVE  step[msg[m].caller] \in {"suspend", "suspended"}
      <4>1. /\ msg[m].caller \in Messages /\ call[msg[m].caller] = m
            /\ step[msg[m].caller] \in InCall
        BY <1>2, <3>2, CallerFacts
      <4>2. CallOK(msg[m].caller) /\ msg[m].kind = "pool" /\ w # NoWorker
        BY <1>2, <3>2, <4>1, FiberFacts, Zeros DEF CallKinds, PoolKinds
      <4> QED
        BY <1>1, <1>2, <4>1, <4>2 DEF CallOK, InCall, FiberKinds
    <3>3. AnswerOK(q, n)'
      BY <1>1, <1>2, <1>3, <2>1, <3>1, <3>2 DEF AnswerOK, PoolKinds
    <3> QED
      BY <1>2, <2>1, <3>3
  <2>2. CASE n # m
    <3>1. n \in Pending(q)
      BY <1>7, <2>2
    <3>2. /\ n \in Messages /\ ~msg[n].freed
          /\ msg[n].is_return => AnswerOK(q, n)
          /\ ~msg[n].is_return => NewOK(q, n)
      BY <3>1, PendingFacts
    <3>3. NewOK(q, n) => NewOK(q, n)'
      BY <1>1 DEF NewOK
    <3>4. msg[n].is_return /\ AnswerOK(q, n) => AnswerOK(q, n)'
      BY <1>1, <1>4, <3>2, AnswerWorker DEF AnswerOK, NoNewAnswer
    <3> QED
      BY <3>2, <3>3, <3>4
  <2> QED
    BY <2>1, <2>2
<1> HIDE DEF m
<1>10. OwnedOnce' /\ \A q \in Reactors : Owned(q)' = Owned(q)
  BY <1>3, ThreadOwners
<1>11. OwnersOK'
  <2>1. ASSUME NEW q \in Reactors PROVE OwnerOK(q, w)'
    BY <1>1, <1>2, <1>3, <1>10, WorkerFacts DEF OwnerOK
  <2> QED
    BY <1>3, <2>1, OtherOwners
<1>12. WorkersOK'
  <2>1. WorkerOK(w)'
    BY <1>1, <1>2, <1>3 DEF WorkerOK
  <2> QED
    BY <1>1, <1>3, <2>1, OtherTasks
<1>13. HandedOnce' /\ HandedOK'
  <2>1. ASSUME NEW n \in Messages, HandedOver(n), msg[n].data = w PROVE HandOK(n)'
    BY <1>1, <1>2, <1>3, <2>1, HandedFacts DEF HandOK
  <2>2. \A n \in Messages : HandedOver(n)' <=> HandedOver(n)
    BY <1>1 DEF HandedOver
  <2>3. PICK k : \A n \in Messages : HandedOver(n) /\ msg[n].data = w => n = k
    BY HandedFacts
  <2> QED
    BY <1>1, <1>3, <2>1, <2>2, <2>3, OtherHanded
<1> QED
  BY <1>3, <1>7, <1>8, <1>9, <1>10, <1>11, <1>12, <1>13 DEF IInv, PoolInv

\* A stopped worker's thread ends.
LEMMA EndWorkerInv == ASSUME IInv, NEW w \in Workers, ProcessTask(w), wstop[w] PROVE IInv'
<1>1. /\ wpc[w] = "idle" /\ wready[w] /\ wready' = [wready EXCEPT ![w] = FALSE]
      /\ wpc' = [wpc EXCEPT ![w] = "finished"]
      /\ UNCHANGED <<msg, step, dest, call, yielded, task, wstop, inboxVars, schedVars, poolVars>>
  BY DEF ProcessTask
<1>2. /\ wpc'[w] = "finished" /\ ~wready'[w] /\ OnlyWorker(w) /\ UNCHANGED <<free, busy, joining>>
      /\ PoolTypes'
  BY <1>1, PoolFacts DEF PoolTypes, poolVars, OnlyWorker
<1>3. NoNewAnswer
  BY <1>2 DEF NoNewAnswer, OnlyWorker
<1>4. InboxInv' /\ \A q \in Reactors : Pending(q)' = Pending(q)
  BY <1>1, SamePending DEF IInv
<1>5. FiberInv' /\ PendingOK' /\ QueueInv'
  BY <1>1, <1>3, <1>4, FiberFacts, SameFibers, FewerPending, SameQueue, ToSame
<1>6. OwnedOnce' /\ \A q \in Reactors : Owned(q)' = Owned(q)
  BY <1>2, ThreadOwners
<1>7. OwnersOK'
  <2>1. ASSUME NEW q \in Reactors PROVE OwnerOK(q, w)'
    BY <1>1, <1>2, <1>6 DEF OwnerOK
  <2> QED
    BY <1>2, <2>1, OtherOwners
<1>8. WorkersOK'
  <2>1. WorkerOK(w)'
    BY <1>1, <1>2 DEF WorkerOK
  <2> QED
    BY <1>1, <1>2, <2>1, OtherTasks
<1>9. HandedOnce' /\ HandedOK'
  <2>1. ASSUME NEW n \in Messages, HandedOver(n), msg[n].data = w PROVE HandOK(n)'
    BY <1>1, <1>2, <2>1, HandedFacts DEF HandOK
  <2>2. \A n \in Messages : HandedOver(n)' <=> HandedOver(n)
    BY <1>1 DEF HandedOver
  <2>3. PICK m : \A n \in Messages : HandedOver(n) /\ msg[n].data = w => n = m
    BY HandedFacts
  <2> QED
    BY <1>1, <1>2, <2>1, <2>2, <2>3, OtherHanded
<1> QED
  BY <1>2, <1>4, <1>5, <1>6, <1>7, <1>8, <1>9 DEF IInv, PoolInv

\* The worker that wakes and runs its task keeps the invariant.
LEMMA RunTaskInv == ASSUME IInv, NEW w \in Workers, ProcessTask(w), ~wstop[w] PROVE IInv'
<1> DEFINE m == task[w]
<1>1. /\ wpc[w] = "idle" /\ wready[w] /\ wready' = [wready EXCEPT ![w] = FALSE]
      /\ wpc' = [wpc EXCEPT ![w] = "submit"]
      /\ msg' = [msg EXCEPT ![m].is_return = TRUE, ![m].runs = @ + 1]
      /\ UNCHANGED <<step, dest, call, yielded, task, wstop, inboxVars, schedVars, poolVars>>
  BY DEF ProcessTask, Processed
<1>2. m \in Messages /\ msg[m].kind \in PoolKinds /\ msg[m].data = w /\ ~msg[m].is_return
  BY <1>1, WorkerFacts DEF WorkerOK, HasTask
<1>3. ~msg[m].freed /\ msg[m].runs = 0 /\ step[m] = "none" /\ w # NoWorker
  BY <1>2, FiberFacts, Zeros DEF MessageOK, FiberKinds, PoolKinds
<1>4. HandedOver(m) /\ \A n \in Messages : HandedOver(n) /\ msg[n].data = w => n = m
  BY <1>2, <1>3, HandedFacts DEF HandedOver
<1> HIDE DEF m
<1>5. /\ \A n \in Messages \ {m} : msg'[n] = msg[n]
      /\ msg'[m].kind = msg[m].kind /\ msg'[m].to = msg[m].to /\ msg'[m].cpu = msg[m].cpu
      /\ msg'[m].caller = msg[m].caller /\ msg'[m].is_return
      /\ msg'[m].data = msg[m].data /\ msg'[m].runs = msg[m].runs + 1
      /\ msg'[m].freed = msg[m].freed
      /\ msg' \in [Messages -> MessageRecord]
  BY <1>1, <1>2, FiberFacts, DataType, SMTT(30) DEF MessageRecord
<1>6. /\ wpc'[w] = "submit" /\ ~wready'[w] /\ OnlyWorker(w) /\ UNCHANGED <<free, busy, joining>>
      /\ PoolTypes'
  BY <1>1, PoolFacts DEF PoolTypes, poolVars, OnlyWorker
<1>7. InboxInv' /\ \A q \in Reactors : Pending(q)' = Pending(q)
  BY <1>1, SamePending DEF IInv
<1>8. QueueInv'
  BY <1>1, <1>5, SameQueue DEF ToKept
<1>9. FiberTypes'
  BY <1>1, <1>5, FiberFacts DEF FiberTypes
<1>10. MessagesOK'
  <2> SUFFICES ASSUME NEW n \in Messages PROVE MessageOK(n)'
    BY DEF MessagesOK
  <2>1. CASE n = m
    <3>1. /\ msg'[n].runs = 1 /\ msg'[n].is_return /\ step'[n] = "none"
          /\ msg'[n].data # NoWorker /\ msg'[n].kind \in PoolKinds
      BY <1>1, <1>2, <1>3, <1>5, <2>1, SMTT(30)
    <3>2. msg'[n].kind \notin FiberKinds
      BY <3>1 DEF FiberKinds, PoolKinds
    <3> QED
      BY <3>1, <3>2 DEF MessageOK
  <2>2. CASE n # m
    BY <1>1, <1>5, <2>2, FiberFacts DEF MessageOK
  <2> QED
    BY <2>1, <2>2
<1>11. CallsOK'
  <2> SUFFICES ASSUME NEW g \in Messages PROVE CallOK(g)'
    BY DEF CallsOK
  <2>1. CallOK(g)
    BY FiberFacts
  <2>2. CASE step[g] \notin InCall
    BY <1>1, <2>2 DEF CallOK, InCall
  <2>3. CASE step[g] \in InCall
    <3>1. /\ call[g] \in Messages /\ msg'[call[g]].kind = msg[call[g]].kind
          /\ msg'[call[g]].caller = msg[call[g]].caller /\ msg'[call[g]].freed = msg[call[g]].freed
          /\ msg'[call[g]].cpu = msg[call[g]].cpu /\ msg'[call[g]].to = msg[call[g]].to
          /\ msg'[call[g]].data = msg[call[g]].data /\ msg'[g].to = msg[g].to
      BY <1>5, <2>1, <2>3 DEF CallOK
    <3>2. ASSUME step[g] = "resumed"
          PROVE  /\ msg'[call[g]].is_return
                 /\ msg[call[g]].kind = "pool" => wpc'[msg[call[g]].data] # "submit"
      <4>1. msg[call[g]].is_return /\ call[g] # m /\ ~msg[call[g]].freed
        BY <1>2, <2>1, <2>3, <3>2 DEF CallOK
      <4>2. ASSUME msg[call[g]].kind = "pool" PROVE msg[call[g]].data \in Workers \ {w}
        BY <1>4, <3>1, <4>1, <4>2, AnswerWorker, Zeros DEF HandedOver, PoolKinds
      <4> QED
        BY <1>5, <1>6, <2>1, <3>1, <3>2, <4>1, <4>2 DEF CallOK, OnlyWorker
    <3>3. step' = step /\ call' = call /\ dest' = dest
      BY <1>1
    <3> QED
      BY <2>1, <2>3, <3>1, <3>2, <3>3 DEF CallOK
  <2> QED
    BY <2>2, <2>3
<1>12. CallersWait'
  <2> SUFFICES ASSUME NEW n \in Messages, msg'[n].kind \in CallKinds, ~msg'[n].freed
               PROVE  LET g == msg'[n].caller IN
                      g \in Messages /\ call[g] = n /\ step[g] \in InCall
    BY <1>1 DEF CallersWait
  <2> QED
    BY <1>5, CallerFacts, SMTT(30)
<1>13. PendingOK'
  <2> SUFFICES ASSUME NEW q \in Reactors, NEW n \in Pending(q)
               PROVE  /\ ~msg'[n].freed
                      /\ IF msg'[n].is_return THEN AnswerOK(q, n)' ELSE NewOK(q, n)'
    BY <1>7 DEF PendingOK
  <2>1. /\ n \in Messages /\ ~msg[n].freed
        /\ msg[n].is_return => AnswerOK(q, n)
        /\ ~msg[n].is_return => NewOK(q, n)
    BY PendingFacts
  <2>2. n # m
    BY <1>2, <2>1 DEF NewOK, FiberKinds, PoolKinds
  <2>3. msg'[n] = msg[n]
    BY <1>5, <2>1, <2>2
  <2>4. ASSUME NewOK(q, n) PROVE NewOK(q, n)'
    BY <1>1, <2>3, <2>4 DEF NewOK
  <2>5. ASSUME msg[n].is_return, AnswerOK(q, n) PROVE AnswerOK(q, n)'
    <3>1. ASSUME msg[n].kind \in PoolKinds PROVE msg[n].data \in Workers \ {w}
      BY <1>4, <2>1, <2>2, <2>5, <3>1, AnswerWorker, Zeros DEF HandedOver
    <3> QED
      BY <1>1, <1>6, <2>3, <2>5, <3>1, SMTT(30) DEF AnswerOK, OnlyWorker
  <2> QED
    BY <2>1, <2>3, <2>4, <2>5
<1>14. OwnedOnce' /\ \A q \in Reactors : Owned(q)' = Owned(q)
  BY <1>6, ThreadOwners
<1>15. OwnersOK'
  <2>1. ASSUME NEW q \in Reactors PROVE OwnerOK(q, w)'
    BY <1>1, <1>6, <1>14, WorkerFacts DEF OwnerOK
  <2> QED
    BY <1>6, <2>1, OtherOwners
<1>16. WorkersOK'
  <2>1. WorkerOK(w)'
    BY <1>1, <1>2, <1>3, <1>5, <1>6 DEF WorkerOK, HasTask, m
  <2> QED
    BY <1>2, <1>5, <1>6, <2>1, OtherTasks
<1>17. HandedOnce' /\ HandedOK'
  <2>1. \A n \in Messages : HandedOver(n)' <=> HandedOver(n)
    BY <1>2, <1>5 DEF HandedOver
  <2>2. ASSUME NEW n \in Messages, n = m PROVE HandOK(n)'
    <3>1. /\ msg'[n].data = w /\ msg'[n].cpu = msg[m].cpu /\ msg'[n].is_return
          /\ w \in busy[msg[m].cpu]
      BY <1>2, <1>4, <1>5, <2>2, HandedFacts DEF HandOK
    <3> QED
      BY <1>1, <1>6, <3>1 DEF HandOK
  <2>3. \A n \in Messages : HandedOver(n)' /\ msg'[n].data = w => n = m
    BY <1>4, <1>5, <2>1
  <2>4. \A n \in Messages : HandedOver(n)' /\ msg'[n].data # w =>
            /\ HandedOver(n) /\ msg'[n].data = msg[n].data
            /\ msg'[n].cpu = msg[n].cpu /\ msg'[n].is_return = msg[n].is_return
    BY <1>2, <1>5, <2>1
  <2> QED
    BY <1>6, <2>2, <2>3, <2>4, OtherHanded
<1> QED
  BY <1>6, <1>7, <1>8, <1>9, <1>10, <1>11, <1>12, <1>13, <1>14, <1>15, <1>16, <1>17
     DEF IInv, FiberInv, PoolInv

-----------------------------------------------------------------------------
(* The thread pools *)

\* Nothing changes but the pool: the fibers and the inboxes follow.
LEMMA PoolStep ==
  ASSUME IInv, PoolInv', NoNewAnswer,
         UNCHANGED <<msg, step, dest, call, yielded, inboxVars, schedVars>>
  PROVE  IInv'
<1>1. InboxInv' /\ \A q \in Reactors : Pending(q)' = Pending(q)
  BY SamePending DEF IInv
<1> QED
  BY <1>1, FiberFacts, SameFibers, FewerPending, SameQueue, ToSame DEF IInv

\* The pools stay apart when only the worker being joined changes.
LEMMA JoiningApart ==
  ASSUME IInv, UNCHANGED <<free, busy>>,
         \A q \in Reactors : Owned(q)' \subseteq Owned(q) /\ joining'[q] \notin busy[q]
  PROVE  OwnedOnce'
<1>1. /\ \A p, q \in Reactors : p # q => Owned(p) \cap Owned(q) = {}
      /\ \A q \in Reactors : busy[q] \cap (Range(free[q]) \cup {joining[q]}) = {}
      /\ \A q \in Reactors : Cardinality(busy[q]) <= max_size /\ Len(free[q]) <= min_size
  BY DEF IInv, PoolInv, OwnedOnce
<1>2. \A p, q \in Reactors : p # q => Owned(p)' \cap Owned(q)' = {}
  BY <1>1
<1>3. \A q \in Reactors : busy'[q] \cap (Range(free'[q]) \cup {joining'[q]}) = {}
  BY <1>1, SMTT(30)
<1>4. \A q \in Reactors : Cardinality(busy'[q]) <= max_size /\ Len(free'[q]) <= min_size
  BY <1>1
<1> QED
  BY <1>2, <1>3, <1>4 DEF OwnedOnce

\* A step of stopping the free workers of a pool keeps the invariant.
LEMMA StopWorkersInv == ASSUME SetFacts, IInv, NEW r \in Reactors, stop_workers(r) PROVE IInv'
<1> DEFINE left == {i \in 1..Len(free[r]) : ~wstop[free[r][i]]}
<1>1. /\ joining[r] = NoWorker
      /\ UNCHANGED <<msg, step, dest, call, yielded, inboxVars, schedVars, free, busy>>
  BY DEF stop_workers, LoopRuns, fiberVars
<1>2. CASE left = {}
  <2>1. UNCHANGED <<joining, workerVars>>
    BY <1>2 DEF stop_workers
  <2>2. UNCHANGED <<wpc, task, wready, wstop>>
    BY <2>1 DEF workerVars
  <2>3. OwnedOnce' /\ \A q \in Reactors : Owned(q)' = Owned(q)
    BY <1>1, <2>1, ThreadOwners
  <2>4. PoolInv'
    <3>1. PoolInv
      BY DEF IInv
    <3>2. UNCHANGED <<free, busy, joining, msg, step, call>>
      BY <1>1, <2>1
    <3>3. PoolTypes'
      BY <2>2, <3>1, <3>2 DEF PoolInv, PoolTypes
    <3>4. OwnersOK'
      BY <2>2, <2>3, <3>1, <3>2 DEF PoolInv, OwnersOK, OwnerOK
    <3>5. WorkersOK'
      BY <2>2, <3>1, <3>2 DEF PoolInv, WorkersOK, WorkerOK, HasTask
    <3>6. HandedOnce' /\ HandedOK'
      BY <2>2, <3>1, <3>2 DEF PoolInv, HandedOnce, HandedOver, HandedOK, HandOK
    <3> QED
      BY <2>3, <3>3, <3>4, <3>5, <3>6 DEF PoolInv
  <2> QED
    BY <1>1, <2>2, <2>4, PoolStep DEF NoNewAnswer
<1>3. CASE left # {}
  <2>1. /\ StopWorker(r, free[r][Min(left)]) /\ free[r][Min(left)] \in Range(free[r])
        /\ ~wstop[free[r][Min(left)]]
    <3>1. free[r] \in Seq(Workers) /\ Len(free[r]) \in Nat /\ DOMAIN free[r] = 1..Len(free[r])
      BY PoolFacts, SeqFacts
    <3>2. left \subseteq Nat
      BY <3>1, SMTT(30)
    <3>3. Min(left) \in left
      BY <1>3, <3>2, MinIsLeast
    <3>4. free[r][Min(left)] \in Range(free[r]) /\ ~wstop[free[r][Min(left)]]
      BY <3>1, <3>3 DEF Range
    <3> QED
      BY <1>3, <3>4 DEF stop_workers
  <2>2. PICK w \in Workers : StopWorker(r, w) /\ w \in Range(free[r]) /\ ~wstop[w] /\ w # NoWorker
    BY <2>1, PoolFacts, Zeros
  <2>3. /\ MutexFree(w) /\ wstop' = [wstop EXCEPT ![w] = TRUE]
        /\ wready' = [wready EXCEPT ![w] = TRUE] /\ task' = [task EXCEPT ![w] = NoMessage]
        /\ joining' = [joining EXCEPT ![r] = w] /\ wpc' = wpc
    BY <2>2 DEF StopWorker
  <2>4. wpc[w] = "idle"
    BY <2>2, <2>3, WorkerFacts DEF OwnerOK, MutexFree
  <2>5. /\ wstop'[w] /\ wready'[w] /\ joining'[r] = w
        /\ \A q \in Reactors \ {r} : joining'[q] = joining[q]
        /\ PoolTypes'
    BY <1>1, <2>2, <2>3, PoolFacts DEF PoolTypes
  <2>6. OnlyWorker(w)
    BY <1>1, <2>2, <2>3, <2>5, PoolFacts DEF OnlyWorker
  <2>7. \A q \in Reactors : Owned(q)' = Owned(q)
    BY <1>1, <2>2, <2>5 DEF Owned
  <2>8. OwnedOnce'
    <3>1. w \notin busy[r] /\ \A q \in Reactors : joining[q] \notin busy[q]
      BY <2>2, OwnedApart DEF IInv, PoolInv, OwnedOnce
    <3>2. \A q \in Reactors : joining'[q] \notin busy[q]
      BY <2>5, <3>1
    <3> QED
      BY <1>1, <2>7, <3>2, JoiningApart
  <2>9. OwnersOK'
    <3>1. ASSUME NEW q \in Reactors PROVE OwnerOK(q, w)'
      <4>1. w \in Owned(r)
        BY <2>2 DEF Owned
      <4>2. w \in Range(free[q]) => q = r
        BY <2>2, <4>1, OwnedApart DEF Owned
      <4>3. w \notin busy[q]
        BY <2>2, OwnedApart
      <4> QED
        BY <1>1, <2>3, <2>4, <2>5, <4>2, <4>3 DEF OwnerOK
    <3> QED
      BY <2>2, <2>6, <3>1, OtherOwners
  <2>10. WorkersOK'
    <3>1. WorkerOK(w)'
      BY <2>3, <2>4, <2>5 DEF WorkerOK
    <3> QED
      BY <1>1, <2>2, <2>6, <3>1, OtherTasks
  <2>11. HandedOnce' /\ HandedOK'
    <3>1. \A n \in Messages : HandedOver(n) => msg[n].data # w
      <4> SUFFICES ASSUME NEW n \in Messages, HandedOver(n), msg[n].data = w PROVE FALSE
        OBVIOUS
      <4> QED
        BY <2>2, HandedFacts, OwnedApart DEF HandOK
    <3>2. \A n \in Messages : HandedOver(n)' <=> HandedOver(n)
      BY <1>1 DEF HandedOver
    <3> QED
      BY <1>1, <2>2, <2>6, <3>1, <3>2, OtherHanded
  <2>12. NoNewAnswer
    BY <2>3 DEF NoNewAnswer
  <2> QED
    BY <1>1, <2>5, <2>8, <2>9, <2>10, <2>11, <2>12, PoolStep DEF PoolInv
<1> QED
  BY <1>2, <1>3

\* Joining a stopped worker keeps the invariant.
LEMMA JoinWorkerInv == ASSUME IInv, NEW r \in Reactors, JoinWorker(r) PROVE IInv'
<1> DEFINE w == joining[r]
<1>1. /\ w # NoWorker /\ wpc[w] = "finished" /\ joining' = [joining EXCEPT ![r] = NoWorker]
      /\ UNCHANGED <<msg, step, dest, call, yielded, inboxVars, schedVars, free, busy>>
  BY DEF JoinWorker, fiberVars
<1>2. w \in Workers /\ wstop[w] /\ ~wready[w]
  BY <1>1, PoolFacts, WorkerFacts DEF WorkerOK
<1>3. /\ free[r] \in Seq(Workers)
      /\ (\E i \in 1..Len(free[r]) : free[r][i] = w) <=> w \in Range(free[r])
  BY PoolFacts, SeqFacts, SMTT(30) DEF Range
<1>4. \/ w \in Range(free[r]) /\ UNCHANGED <<wpc, task, wready, wstop>>
      \/ /\ w \notin Range(free[r]) /\ wpc' = [wpc EXCEPT ![w] = "none"]
         /\ wstop' = [wstop EXCEPT ![w] = FALSE] /\ UNCHANGED <<task, wready>>
  BY <1>3 DEF JoinWorker, workerVars
<1>5. /\ joining'[r] = NoWorker /\ \A q \in Reactors \ {r} : joining'[q] = joining[q]
      /\ joining' \in [Reactors -> Workers \cup {NoWorker}]
  BY <1>1, PoolFacts
<1>6. PoolTypes'
  <2>1. /\ task' \in [Workers -> Messages \cup {NoMessage}] /\ wready' \in [Workers -> BOOLEAN]
        /\ wstop' \in [Workers -> BOOLEAN]
    BY <1>2, <1>4, PoolFacts
  <2> QED
    BY <1>1, <1>2, <1>4, <1>5, <2>1, SMTT(30) DEF IInv, PoolInv, PoolTypes
<1>7. \A q \in Reactors : w \notin busy[q] /\ (q # r => w \notin Owned(q)) /\ w \in Owned(r)
  BY <1>1, <1>2, OwnedApart DEF Owned
<1>8. PICK v \in Workers : v = w
  BY <1>2
<1>9. OnlyWorker(v)
  BY <1>1, <1>2, <1>4, <1>5, <1>8, PoolFacts DEF OnlyWorker
<1>10. \A q \in Reactors : Owned(q)' \subseteq Owned(q)
  BY <1>1, <1>5 DEF Owned
<1>11. OwnedOnce'
  <2>1. \A q \in Reactors : NoWorker \notin busy[q]
    BY PoolFacts, Zeros
  <2>2. \A q \in Reactors : joining[q] \notin busy[q]
    BY DEF IInv, PoolInv, OwnedOnce
  <2>3. \A q \in Reactors : joining'[q] \notin busy[q]
    BY <1>5, <2>1, <2>2
  <2> QED
    BY <1>1, <1>10, <2>3, JoiningApart
<1>12. OwnersOK'
  <2>1. ASSUME NEW q \in Reactors PROVE OwnerOK(q, v)'
    <3>1. CASE q = r /\ w \in Range(free[r])
      BY <1>1, <1>2, <1>4, <1>5, <1>7, <1>8, <3>1 DEF OwnerOK, Owned
    <3>2. CASE q = r /\ w \notin Range(free[r])
      BY <1>1, <1>2, <1>5, <1>7, <1>8, <3>2 DEF OwnerOK, Owned
    <3>3. CASE q # r
      BY <1>1, <1>2, <1>5, <1>7, <1>8, <1>10, <3>3, SMTT(30) DEF OwnerOK, Owned
    <3> QED
      BY <3>1, <3>2, <3>3
  <2> QED
    BY <1>9, <2>1, OtherOwners
<1>13. WorkersOK'
  <2>1. WorkerOK(v)'
    BY <1>1, <1>2, <1>4, <1>8, PoolFacts DEF WorkerOK
  <2> QED
    BY <1>1, <1>9, <2>1, OtherTasks
<1>14. HandedOnce' /\ HandedOK'
  <2>1. \A n \in Messages : HandedOver(n) => msg[n].data # v
    <3> SUFFICES ASSUME NEW n \in Messages, HandedOver(n), msg[n].data = v PROVE FALSE
      OBVIOUS
    <3> QED
      BY <1>7, <1>8, HandedFacts, SMTT(30) DEF HandOK
  <2>2. \A n \in Messages : HandedOver(n)' <=> HandedOver(n)
    BY <1>1 DEF HandedOver
  <2> QED
    BY <1>1, <1>9, <2>1, <2>2, OtherHanded
<1>15. NoNewAnswer
  BY <1>2, <1>4, PoolFacts DEF NoNewAnswer
<1> QED
  BY <1>1, <1>6, <1>11, <1>12, <1>13, <1>14, <1>15, PoolStep DEF PoolInv

\* The busy workers of a pool can be counted.
LEMMA BusyCount ==
  ASSUME SetFacts, IInv, NEW r \in Reactors
  PROVE  /\ Cardinality(busy[r]) \in Nat
         /\ \A w \in Workers \ busy[r] : Cardinality(busy[r] \cup {w}) = Cardinality(busy[r]) + 1
         /\ \A w \in busy[r] : Cardinality(busy[r] \ {w}) = Cardinality(busy[r]) - 1
<1>1. busy[r] \in SUBSET Workers
  BY PoolFacts
<1> QED
  BY <1>1 DEF SetFacts

\* Destroying a message changes nothing else.
LEMMA FreedFacts ==
  ASSUME IInv, NEW m \in Messages, msg' = [msg EXCEPT ![m].freed = TRUE]
  PROVE  /\ msg' \in [Messages -> MessageRecord] /\ msg'[m].freed
         /\ \A n \in Messages \ {m} : msg'[n] = msg[n]
         /\ \A n \in Messages :
               /\ msg'[n].kind = msg[n].kind /\ msg'[n].to = msg[n].to /\ msg'[n].cpu = msg[n].cpu
               /\ msg'[n].caller = msg[n].caller /\ msg'[n].is_return = msg[n].is_return
               /\ msg'[n].data = msg[n].data /\ msg'[n].runs = msg[n].runs
         /\ ToKept
<1>1. msg \in [Messages -> MessageRecord]
  BY FiberFacts
<1>2. msg'[m] = [msg[m] EXCEPT !.freed = TRUE] /\ \A n \in Messages \ {m} : msg'[n] = msg[n]
  BY <1>1
<1>3. /\ msg'[m] \in MessageRecord /\ msg'[m].freed
      /\ msg'[m].kind = msg[m].kind /\ msg'[m].to = msg[m].to /\ msg'[m].cpu = msg[m].cpu
      /\ msg'[m].caller = msg[m].caller /\ msg'[m].is_return = msg[m].is_return
      /\ msg'[m].data = msg[m].data /\ msg'[m].runs = msg[m].runs
  <2> DEFINE old == msg[m]  new == [old EXCEPT !.freed = TRUE]
  <2>1. old \in MessageRecord
    BY <1>1
  <2> HIDE DEF old
  <2>2. new \in MessageRecord
    BY <2>1 DEF MessageRecord
  <2>3. new.freed /\ new.kind = old.kind /\ new.to = old.to /\ new.cpu = old.cpu
    BY <2>1, SMTT(30) DEF MessageRecord
  <2>4. /\ new.caller = old.caller /\ new.is_return = old.is_return
        /\ new.data = old.data /\ new.runs = old.runs
    BY <2>1, SMTT(30) DEF MessageRecord
  <2> QED
    BY <1>2, <2>2, <2>3, <2>4 DEF old
<1>4. msg' \in [Messages -> MessageRecord]
  BY <1>1, <1>3
<1> QED
  BY <1>2, <1>3, <1>4 DEF ToKept

\* The pool takes back the worker of a message that is destroyed.
LEMMA ReleaseWorker ==
  ASSUME SetFacts, IInv, NEW r \in Reactors, NEW m \in Messages, HandedOver(m), msg[m].is_return,
         msg[m].cpu = r, wpc[msg[m].data] # "submit", joining[r] = NoWorker,
         release(r, msg[m].data), msg' = [msg EXCEPT ![m].freed = TRUE]
  PROVE  PoolInv' /\ NoNewAnswer
<1>1. PICK w \in Workers : w = msg[m].data
  BY HandedFacts
<1>2. /\ w # NoWorker /\ w \in busy[r] /\ ~wstop[w] /\ ~wready[w] /\ wpc[w] \in {"idle", "clear"}
      /\ \A n \in Messages : HandedOver(n) /\ msg[n].data = w => n = m
  BY <1>1, HandedFacts, Zeros DEF HandOK
<1>3. \A q \in Reactors : w \notin Range(free[q]) /\ joining[q] # w /\ (q # r => w \notin Owned(q))
  BY <1>2, OwnedApart, SMTT(30) DEF Owned
<1>4. /\ busy' = [busy EXCEPT ![r] = @ \ {w}]
      /\ \/ /\ Len(free[r]) < min_size /\ free' = [free EXCEPT ![r] = Append(@, w)]
            /\ UNCHANGED <<joining, wpc, task, wready, wstop>>
         \/ StopWorker(r, w) /\ UNCHANGED free
  BY <1>1 DEF release, workerVars
<1>5. /\ busy'[r] = busy[r] \ {w} /\ \A q \in Reactors \ {r} : busy'[q] = busy[q]
      /\ busy' \in [Reactors -> SUBSET Workers]
      /\ Cardinality(busy'[r]) <= max_size
  <2>1. busy'[r] = busy[r] \ {w} /\ \A q \in Reactors \ {r} : busy'[q] = busy[q]
    BY <1>4, PoolFacts
  <2>2. Cardinality(busy[r]) <= max_size
    BY DEF IInv, PoolInv, OwnedOnce
  <2>3. /\ max_size \in Nat /\ Cardinality(busy[r]) \in Nat
        /\ Cardinality(busy[r] \ {w}) = Cardinality(busy[r]) - 1
    BY <1>2, BusyCount, ReactorAssumption
  <2>4. Cardinality(busy[r] \ {w}) <= max_size
    BY <2>2, <2>3, SMTT(30)
  <2> QED
    BY <1>4, <2>1, <2>4, PoolFacts
<1>6. \A n \in Messages : HandedOver(n)' => n # m /\ HandedOver(n) /\ msg[n].data # w
  BY <1>1, <1>2, FreedFacts DEF HandedOver
<1>7. \A n \in Messages : msg[n].data # w =>
         /\ msg'[n].kind = msg[n].kind /\ msg'[n].data = msg[n].data /\ msg'[n].cpu = msg[n].cpu
         /\ msg'[n].is_return = msg[n].is_return /\ msg'[n].freed = msg[n].freed
  BY <1>1, FreedFacts
<1>8. CASE /\ Len(free[r]) < min_size /\ free' = [free EXCEPT ![r] = Append(@, w)]
           /\ UNCHANGED <<joining, wpc, task, wready, wstop>>
  <2>1. /\ Append(free[r], w) \in Seq(Workers) /\ Len(Append(free[r], w)) = Len(free[r]) + 1
        /\ Range(Append(free[r], w)) = Range(free[r]) \cup {w} /\ Len(free[r]) \in Nat
    BY PoolFacts, AppendFacts, AppendOnce, SeqFacts, SMTT(30)
  <2>2. /\ Range(free'[r]) = Range(free[r]) \cup {w} /\ Len(free'[r]) <= min_size
        /\ \A q \in Reactors \ {r} : free'[q] = free[q]
        /\ free' \in [Reactors -> Seq(Workers)]
    BY <1>8, <2>1, PoolFacts, SMTT(30) DEF min_size
  <2>3. PoolTypes'
    BY <1>5, <1>8, <2>2 DEF IInv, PoolInv, PoolTypes
  <2>4. OnlyWorker(w)
    <3> SUFFICES ASSUME NEW q \in Reactors
                 PROVE  /\ Range(free'[q]) \subseteq Range(free[q]) \cup {w}
                        /\ busy'[q] \subseteq busy[q] \cup {w} /\ busy[q] \subseteq busy'[q] \cup {w}
      BY <1>8 DEF OnlyWorker
    <3> QED
      BY <1>5, <2>2
  <2>5. Owned(r)' = Owned(r) /\ \A q \in Reactors \ {r} : Owned(q)' = Owned(q)
    BY <1>2, <1>5, <1>8, <2>2, SMTT(30) DEF Owned
  <2>6. OwnedOnce'
    <3>1. \A q \in Reactors : busy'[q] \cap (Range(free'[q]) \cup {joining'[q]}) = {}
      BY <1>3, <1>5, <1>8, <2>2 DEF IInv, PoolInv, OwnedOnce
    <3>2. \A q \in Reactors : Cardinality(busy'[q]) <= max_size /\ Len(free'[q]) <= min_size
      BY <1>5, <2>2 DEF IInv, PoolInv, OwnedOnce
    <3> QED
      BY <2>5, <3>1, <3>2 DEF IInv, PoolInv, OwnedOnce
  <2>7. OwnersOK'
    <3>1. ASSUME NEW q \in Reactors PROVE OwnerOK(q, w)'
      <4>1. w \notin busy'[q] /\ (q # r => w \notin Range(free'[q]))
        BY <1>2, <1>3, <1>5, <2>2, OwnedApart
      <4>2. w \in Owned(q)' => wpc'[w] # "none"
        BY <1>2, <1>8
      <4> QED
        BY <1>2, <1>3, <1>8, <4>1, <4>2 DEF OwnerOK
    <3> QED
      BY <2>4, <3>1, OtherOwners
  <2>8. WorkersOK'
    <3>1. WorkerOK(w)'
      BY <1>2, <1>8 DEF WorkerOK
    <3> QED
      BY <1>7, <2>4, <3>1, OtherTasks
  <2>9. HandedOnce' /\ HandedOK'
    BY <1>6, <1>7, <2>4, OtherHanded, SMTT(30)
  <2> QED
    BY <1>8, <2>3, <2>6, <2>7, <2>8, <2>9 DEF PoolInv, NoNewAnswer
<1>9. CASE StopWorker(r, w) /\ UNCHANGED free
  <2>1. /\ wpc[w] = "idle" /\ wstop' = [wstop EXCEPT ![w] = TRUE]
        /\ wready' = [wready EXCEPT ![w] = TRUE] /\ task' = [task EXCEPT ![w] = NoMessage]
        /\ joining' = [joining EXCEPT ![r] = w] /\ wpc' = wpc /\ free' = free
    BY <1>2, <1>9 DEF StopWorker, MutexFree
  <2>2. /\ wstop'[w] /\ wready'[w] /\ joining'[r] = w
        /\ \A q \in Reactors \ {r} : joining'[q] = joining[q]
    BY <2>1, PoolFacts
  <2>3. PoolTypes'
    BY <1>5, <2>1, PoolFacts DEF PoolTypes
  <2>4. OnlyWorker(w)
    <3>1. ASSUME NEW q \in Reactors
          PROVE  /\ busy'[q] \subseteq busy[q] \cup {w} /\ busy[q] \subseteq busy'[q] \cup {w}
                 /\ joining'[q] = joining[q] \/ (joining[q] \in {NoWorker, w} /\ joining'[q] \in {NoWorker, w})
      BY <1>5, <2>2
    <3>2. \A v \in Workers \ {w} : /\ wpc'[v] = wpc[v] /\ task'[v] = task[v]
                                   /\ wready'[v] = wready[v] /\ wstop'[v] = wstop[v]
      BY <2>1, PoolFacts
    <3> QED
      BY <2>1, <3>1, <3>2 DEF OnlyWorker
  <2>5. Owned(r)' = Owned(r) /\ \A q \in Reactors \ {r} : Owned(q)' = Owned(q)
    BY <1>2, <1>5, <2>1, <2>2, SMTT(30) DEF Owned
  <2>6. OwnedOnce'
    <3>1. \A q \in Reactors : busy'[q] \cap (Range(free'[q]) \cup {joining'[q]}) = {}
      BY <1>5, <2>1, <2>2, SMTT(30) DEF IInv, PoolInv, OwnedOnce
    <3>2. \A q \in Reactors : Cardinality(busy'[q]) <= max_size /\ Len(free'[q]) <= min_size
      BY <1>5, <2>1 DEF IInv, PoolInv, OwnedOnce
    <3> QED
      BY <2>5, <3>1, <3>2 DEF IInv, PoolInv, OwnedOnce
  <2>7. OwnersOK'
    <3>1. ASSUME NEW q \in Reactors PROVE OwnerOK(q, w)'
      <4>1. w \notin busy'[q] /\ w \notin Range(free'[q])
        BY <1>2, <1>3, <1>5, <2>1, OwnedApart
      <4> QED
        BY <2>1, <2>2, <4>1 DEF OwnerOK
    <3> QED
      BY <2>4, <3>1, OtherOwners
  <2>8. WorkersOK'
    <3>1. WorkerOK(w)'
      BY <2>1, <2>2 DEF WorkerOK
    <3> QED
      BY <1>7, <2>4, <3>1, OtherTasks
  <2>9. HandedOnce' /\ HandedOK'
    BY <1>6, <1>7, <2>4, OtherHanded, SMTT(30)
  <2> QED
    BY <2>1, <2>3, <2>6, <2>7, <2>8, <2>9 DEF PoolInv, NoNewAnswer
<1> QED
  BY <1>4, <1>8, <1>9

-----------------------------------------------------------------------------
(* The end of a call *)

\* A call that returns destroys its message and keeps the invariant.
LEMMA ReturnInv == ASSUME SetFacts, IInv, NEW r \in Reactors, NEW f, Return(r, f) PROVE IInv'
<1>1. /\ f \in Messages /\ active[r] = f /\ step[f] = "resumed" /\ joining[r] = NoWorker
      /\ CallOK(f) /\ msg[f].to = r
  BY RunsFacts, SMTT(30) DEF Return
<1>2. PICK m \in Messages : m = call[f]
  BY <1>1 DEF CallOK, InCall
<1>3. /\ msg[m].caller = f /\ ~msg[m].freed /\ msg[m].cpu = r /\ msg[m].kind \in CallKinds
      /\ msg[m].is_return /\ (msg[m].kind = "fiber" => step[m] = "done")
      /\ (msg[m].kind = "pool" => wpc[msg[m].data] # "submit")
  BY <1>1, <1>2 DEF CallOK, InCall
<1>4. /\ step' = [step EXCEPT ![f] = "run"] /\ msg' = [msg EXCEPT ![m].freed = TRUE]
      /\ call' = [call EXCEPT ![f] = NoMessage] /\ dest' = [dest EXCEPT ![f] = 0]
      /\ IF msg[m].kind = "pool" THEN release(r, msg[m].data)
         ELSE UNCHANGED <<poolVars, workerVars>>
      /\ UNCHANGED <<yielded, inboxVars, schedVars>>
  BY <1>2 DEF Return
<1>5. step[m] \in {"none", "done"} /\ m # f
  BY <1>1, <1>3, FiberFacts DEF MessageOK, CallKinds, FiberKinds
<1>6. PoolInv' /\ NoNewAnswer
  <2>1. CASE msg[m].kind = "pool"
    <3>1. HandedOver(m)
      BY <1>3, <2>1, FiberFacts DEF HandedOver, MessageOK, PoolKinds
    <3> QED
      BY <1>1, <1>3, <1>4, <2>1, <3>1, ReleaseWorker
  <2>2. CASE msg[m].kind # "pool"
    <3>1. msg[m].kind \notin PoolKinds
      BY <1>3, <2>2 DEF CallKinds, PoolKinds
    <3>2. PoolKept
      BY <1>4, <3>1, FreedFacts DEF PoolKept
    <3> QED
      BY <1>4, <2>2, <3>2, SamePool DEF NoNewAnswer, workerVars
  <2> QED
    BY <2>1, <2>2
<1>7. /\ step'[f] = "run" /\ \A g \in Messages \ {f} : step'[g] = step[g]
      /\ \A g \in Messages \ {f} : call'[g] = call[g] /\ dest'[g] = dest[g]
      /\ step' \in [Messages -> FiberSteps] /\ dest' \in [Messages -> Reactors]
      /\ call'[f] = NoMessage /\ call' \in [Messages -> Messages \cup {NoMessage}]
  <2>1. 0 \in Reactors
    BY ReactorAssumption, SMTT(30) DEF Reactors
  <2> QED
    BY <1>1, <1>4, <2>1, FiberFacts DEF FiberSteps
<1>8. QueueInv'
  BY <1>1, <1>4, FreedFacts, KeepQueue DEF Runnable
<1>9. InboxInv' /\ \A q \in Reactors : Pending(q)' = Pending(q)
  BY <1>4, SamePending DEF IInv
<1>10. FiberTypes'
  BY <1>4, <1>7, FiberFacts, FreedFacts DEF FiberTypes
<1>11. MessagesOK'
  <2> SUFFICES ASSUME NEW n \in Messages PROVE MessageOK(n)'
    BY DEF MessagesOK
  <2>1. /\ MessageOK(n)
        /\ n # m => msg'[n] = msg[n]
        /\ n # f => step'[n] = step[n]
    BY <1>4, <1>7, FiberFacts, FreedFacts
  <2>2. CASE n = m
    <3>1. /\ msg'[n].kind = msg[n].kind /\ msg'[n].is_return = msg[n].is_return
          /\ msg'[n].runs = msg[n].runs /\ msg'[n].data = msg[n].data
      BY <1>4, FreedFacts
    <3> QED
      BY <1>3, <1>5, <2>1, <2>2, <3>1 DEF MessageOK
  <2>3. CASE n = f
    BY <1>1, <1>5, <1>7, <2>1, <2>3 DEF MessageOK
  <2>4. CASE n # m /\ n # f
    BY <2>1, <2>4 DEF MessageOK
  <2> QED
    BY <2>2, <2>3, <2>4
<1>12. CallsOK'
  <2> SUFFICES ASSUME NEW g \in Messages PROVE CallOK(g)'
    BY DEF CallsOK
  <2>1. CASE g = f
    BY <1>7, <2>1 DEF CallOK, InCall
  <2>2. CASE g # f
    <3>1. CallOK(g) /\ call'[g] = call[g] /\ step'[g] = step[g] /\ dest'[g] = dest[g]
      BY <1>7, <2>2, FiberFacts
    <3>2. CASE step[g] \in InCall
      <4>1. call[g] \in Messages /\ call[g] # m
        BY <1>3, <2>2, <3>1, <3>2 DEF CallOK
      <4>2. msg'[call[g]] = msg[call[g]] /\ msg'[g].to = msg[g].to
        BY <1>4, <4>1, FreedFacts
      <4>3. step[call[g]] \in {"none", "done"} => step'[call[g]] = step[call[g]]
        BY <1>1, <1>7, <4>1
      <4>4. ASSUME step[g] = "resumed", msg[call[g]].kind = "pool" PROVE msg[call[g]].data \in Workers
        BY <3>1, <4>1, <4>4, AnswerWorker DEF CallOK, PoolKinds
      <4> QED
        BY <1>6, <3>1, <4>1, <4>2, <4>3, <4>4 DEF CallOK, NoNewAnswer
    <3>3. CASE step[g] \notin InCall
      BY <3>1, <3>3 DEF CallOK, InCall
    <3> QED
      BY <3>2, <3>3
  <2> QED
    BY <2>1, <2>2
<1>13. CallersWait'
  <2> SUFFICES ASSUME NEW n \in Messages, msg'[n].kind \in CallKinds, ~msg'[n].freed
               PROVE  LET g == msg'[n].caller IN
                      g \in Messages /\ call'[g] = n /\ step'[g] \in InCall
    BY DEF CallersWait
  <2>1. n # m /\ msg'[n] = msg[n]
    BY <1>4, FreedFacts
  <2>2. /\ msg[n].caller \in Messages /\ call[msg[n].caller] = n
        /\ step[msg[n].caller] \in InCall
    BY <2>1, CallerFacts
  <2> QED
    BY <1>2, <1>7, <2>1, <2>2
<1>14. PendingOK'
  <2> SUFFICES ASSUME NEW q \in Reactors, NEW n \in Pending(q)
               PROVE  /\ ~msg'[n].freed
                      /\ IF msg'[n].is_return THEN AnswerOK(q, n)' ELSE NewOK(q, n)'
    BY <1>9 DEF PendingOK
  <2>1. /\ n \in Messages /\ ~msg[n].freed
        /\ msg[n].is_return => AnswerOK(q, n)
        /\ ~msg[n].is_return => NewOK(q, n)
    BY PendingFacts
  <2>2. n # m
    BY <1>1, <1>3, <2>1 DEF AnswerOK
  <2>3. msg'[n] = msg[n]
    BY <1>4, <2>1, <2>2, FreedFacts
  <2>4. ASSUME NewOK(q, n) PROVE NewOK(q, n)'
    BY <1>1, <1>7, <2>1, <2>3, <2>4 DEF NewOK
  <2>5. ASSUME AnswerOK(q, n), msg[n].is_return PROVE AnswerOK(q, n)'
    <3>1. msg[n].kind \in CallKinds => msg[n].caller \in Messages /\ msg[n].caller # f
      BY <1>1, <2>1, <2>5, CallerFacts DEF AnswerOK
    <3>2. msg[n].kind \in PoolKinds => msg[n].data \in Workers
      BY <2>1, <2>5, AnswerWorker
    <3>3. msg[n].kind = "fiber" => step'[n] = "done"
      BY <1>1, <1>7, <2>1, <2>5 DEF AnswerOK
    <3> QED
      BY <1>6, <1>7, <2>3, <2>5, <3>1, <3>2, <3>3, SMTT(30) DEF AnswerOK, NoNewAnswer
  <2> QED
    BY <2>1, <2>3, <2>4, <2>5
<1> QED
  BY <1>6, <1>8, <1>9, <1>10, <1>11, <1>12, <1>13, <1>14 DEF IInv, FiberInv

\* finish() of a special message.
LEMMA FinishSpecialInv ==
  ASSUME SetFacts, IInv, NEW r \in Reactors, finish(r), msg[Received(r)].kind = "special"
  PROVE  IInv'
<1>1. /\ taken[r] < batch[r] /\ Take(r) /\ Received(r) # Stop /\ msg[Received(r)].is_return
      /\ msg' = [msg EXCEPT ![Received(r)].freed = TRUE] /\ release(r, msg[Received(r)].data)
      /\ joining[r] = NoWorker
      /\ UNCHANGED <<step, schedVars, dest, call, yielded>>
  BY DEF finish, Receives, LoopRuns
<1>2. PICK m \in Messages : m = Received(r)
  BY <1>1, TakePending DEF IInv
<1>3. /\ InboxInv' /\ m \in Pending(r)
      /\ \A q \in Reactors : Pending(q)' \subseteq Pending(q) /\ m \notin Pending(q)'
  BY <1>1, <1>2, TakePending DEF IInv
<1>4. /\ msg' = [msg EXCEPT ![m].freed = TRUE] /\ release(r, msg[m].data)
      /\ msg[m].is_return /\ msg[m].kind = "special" /\ msg[m].kind \in PoolKinds
      /\ msg[m].kind \notin FiberKinds /\ msg[m].kind \notin CallKinds
  BY <1>1, <1>2 DEF PoolKinds, FiberKinds, CallKinds
<1>5. ~msg[m].freed /\ msg[m].cpu = r /\ wpc[msg[m].data] # "submit"
  BY <1>3, <1>4, PendingFacts, SMTT(30) DEF AnswerOK
<1>6. step[m] = "none" /\ msg[m].data # NoWorker
  BY <1>4, FiberFacts DEF MessageOK
<1>7. PoolInv' /\ NoNewAnswer
  <2>1. HandedOver(m)
    BY <1>4, <1>5, <1>6 DEF HandedOver
  <2> QED
    BY <1>1, <1>4, <1>5, <2>1, ReleaseWorker
<1>8. QueueInv'
  BY <1>1, <1>4, FreedFacts, SameQueue
<1>9. FiberTypes'
  BY <1>1, <1>4, FiberFacts, FreedFacts DEF FiberTypes
<1>10. MessagesOK'
  <2> SUFFICES ASSUME NEW n \in Messages PROVE MessageOK(n)'
    BY DEF MessagesOK
  <2>1. MessageOK(n) /\ (n # m => msg'[n] = msg[n])
    BY <1>4, FiberFacts, FreedFacts
  <2>2. CASE n = m
    <3>1. /\ msg'[n].kind = msg[n].kind /\ msg'[n].is_return = msg[n].is_return
          /\ msg'[n].runs = msg[n].runs /\ msg'[n].data = msg[n].data
      BY <1>4, FreedFacts
    <3> QED
      BY <1>1, <1>4, <1>6, <2>1, <2>2, <3>1 DEF MessageOK
  <2>3. CASE n # m
    BY <1>1, <2>1, <2>3 DEF MessageOK
  <2> QED
    BY <2>2, <2>3
<1>11. CallsOK'
  <2> SUFFICES ASSUME NEW g \in Messages PROVE CallOK(g)'
    BY DEF CallsOK
  <2>1. CallOK(g)
    BY FiberFacts
  <2>2. CASE step[g] \in InCall
    <3>1. call[g] \in Messages /\ call[g] # m
      BY <1>4, <1>6, <2>1, <2>2 DEF CallOK, InCall
    <3>2. msg'[call[g]] = msg[call[g]] /\ msg'[g].to = msg[g].to
      BY <1>4, <3>1, FreedFacts
    <3>3. ASSUME step[g] = "resumed", msg[call[g]].kind = "pool" PROVE msg[call[g]].data \in Workers
      BY <2>1, <3>1, <3>3, AnswerWorker DEF CallOK, PoolKinds
    <3>4. step' = step /\ call' = call /\ dest' = dest
      BY <1>1
    <3> QED
      BY <1>7, <2>1, <3>1, <3>2, <3>3, <3>4 DEF CallOK, NoNewAnswer
  <2>3. CASE step[g] \notin InCall
    BY <1>1, <2>3 DEF CallOK, InCall
  <2> QED
    BY <2>2, <2>3
<1>12. CallersWait'
  <2> SUFFICES ASSUME NEW n \in Messages, msg'[n].kind \in CallKinds, ~msg'[n].freed
               PROVE  LET g == msg'[n].caller IN
                      g \in Messages /\ call[g] = n /\ step[g] \in InCall
    BY <1>1 DEF CallersWait
  <2>1. n # m /\ msg'[n] = msg[n]
    BY <1>4, FreedFacts
  <2> QED
    BY <2>1, CallerFacts
<1>13. PendingOK'
  <2> SUFFICES ASSUME NEW q \in Reactors, NEW n \in Pending(q)'
               PROVE  /\ ~msg'[n].freed
                      /\ IF msg'[n].is_return THEN AnswerOK(q, n)' ELSE NewOK(q, n)'
    BY DEF PendingOK
  <2>1. /\ n \in Messages /\ ~msg[n].freed /\ n # m
        /\ msg[n].is_return => AnswerOK(q, n)
        /\ ~msg[n].is_return => NewOK(q, n)
    BY <1>3, PendingFacts
  <2>2. msg'[n] = msg[n]
    BY <1>4, <2>1, FreedFacts
  <2>3. ASSUME NewOK(q, n) PROVE NewOK(q, n)'
    BY <1>1, <2>2, <2>3 DEF NewOK
  <2>4. ASSUME AnswerOK(q, n), msg[n].is_return PROVE AnswerOK(q, n)'
    <3>1. msg[n].kind \in PoolKinds => msg[n].data \in Workers
      BY <2>1, <2>4, AnswerWorker
    <3> QED
      BY <1>1, <1>7, <2>2, <2>4, <3>1 DEF AnswerOK, NoNewAnswer
  <2> QED
    BY <2>1, <2>2, <2>3, <2>4
<1> QED
  BY <1>3, <1>7, <1>8, <1>9, <1>10, <1>11, <1>12, <1>13 DEF IInv, FiberInv

-----------------------------------------------------------------------------
(* A task for the pool *)

\* All but the last element of a sequence of at most one.
LEMMA SubSeqNone ==
  ASSUME NEW S, NEW s \in Seq(S), Len(s) <= 1
  PROVE  SubSeq(s, 1, Len(s) - 1) = <<>>
  BY SMTT(30)

\* The worker that try_run takes waits for a task, has stopped or is new.
LEMMA AcquireFacts ==
  ASSUME SetFacts, IInv, NEW r \in Reactors, joining[r] = NoWorker, MutexFree(Acquire(r)),
         free[r] # <<>> \/ \E w \in Workers : wpc[w] = "none"
  PROVE  LET w == Acquire(r) IN
         /\ w \in Workers /\ SubSeq(free[r], 1, Len(free[r]) - 1) = <<>>
         /\ \A q \in Reactors : w \notin busy[q] /\ joining[q] # w /\ (w \in Owned(q) => q = r)
         /\ wstop[w] => wpc[w] = "finished"
         /\ ~wstop[w] => wpc[w] \in {"none", "idle"} /\ ~wready[w]
<1>1. SubSeq(free[r], 1, Len(free[r]) - 1) = <<>>
  <2>1. Len(free[r]) \in Nat /\ Len(free[r]) <= 1
    BY PoolFacts, SeqFacts DEF IInv, PoolInv, OwnedOnce, min_size
  <2> QED
    BY <2>1, PoolFacts, SubSeqNone
<1>2. CASE free[r] # <<>>
  <2>1. free[r] \in Seq(Workers) /\ Len(free[r]) \in Nat /\ Len(free[r]) # 0
        /\ DOMAIN free[r] = 1..Len(free[r])
    BY <1>2, PoolFacts, SeqFacts, SMTT(30)
  <2>2. PICK w \in Workers : w = Acquire(r) /\ w \in Range(free[r])
    <3>1. Len(free[r]) \in 1..Len(free[r]) /\ Acquire(r) = free[r][Len(free[r])]
      BY <1>2, <2>1, SMTT(30) DEF Acquire
    <3> QED
      BY <2>1, <3>1, PoolFacts DEF Range
  <2>3. w \in Owned(r) /\ w # NoWorker
    BY <2>2, Zeros DEF Owned
  <2>4. \A q \in Reactors : w \notin busy[q] /\ (w \in Owned(q) => q = r)
    BY <2>2, <2>3, OwnedApart
  <2>5. \A q \in Reactors : joining[q] # w
    BY <2>3, <2>4 DEF Owned
  <2>6. OwnerOK(r, w) /\ MutexFree(w)
    BY <2>2, WorkerFacts
  <2> QED
    BY <1>1, <2>2, <2>4, <2>5, <2>6 DEF OwnerOK, MutexFree
<1>3. CASE free[r] = <<>>
  <2>1. {w \in Workers : wpc[w] = "none"} # {} /\ {w \in Workers : wpc[w] = "none"} \subseteq Nat
    BY <1>3, SMTT(30) DEF Workers
  <2>2. PICK w \in Workers : w = Acquire(r) /\ wpc[w] = "none"
    BY <1>3, <2>1, MinIsLeast DEF Acquire
  <2>3. \A q \in Reactors : w \notin Owned(q)
    BY <2>2, WorkerFacts DEF OwnerOK
  <2>4. \A q \in Reactors : w \notin busy[q] /\ joining[q] # w
    BY <2>3, Zeros DEF Owned
  <2>5. ~wstop[w] /\ ~wready[w]
    BY <2>2, WorkerFacts DEF WorkerOK
  <2> QED
    BY <1>1, <2>2, <2>3, <2>4, <2>5
<1> QED
  BY <1>2, <1>3

\* The message of the call goes to the worker w.
LEMMA HandOverPool ==
  ASSUME SetFacts, IInv, NEW r \in Reactors, NEW m \in Messages, NEW w \in Workers, joining[r] = NoWorker,
         msg[m].kind \in PoolKinds, ~msg[m].freed, ~msg[m].is_return, msg[m].cpu = r,
         msg[m].data = NoWorker,
         HasRoom(r), w = Acquire(r), MutexFree(w),
         free[r] # <<>> \/ \E v \in Workers : wpc[v] = "none",
         busy' = [busy EXCEPT ![r] = @ \cup {w}],
         free' = [free EXCEPT ![r] = SubSeq(@, 1, Len(@) - 1)],
         msg' = HandOver(m, w), UNCHANGED joining,
         IF wstop[w] THEN UNCHANGED workerVars
         ELSE /\ task' = [task EXCEPT ![w] = m]
              /\ wready' = [wready EXCEPT ![w] = TRUE]
              /\ wpc' = [wpc EXCEPT ![w] = IF @ = "none" THEN "idle" ELSE @]
              /\ UNCHANGED wstop
  PROVE  PoolInv' /\ NoNewAnswer
<1>1. /\ \A q \in Reactors : w \notin busy[q] /\ joining[q] # w /\ (w \in Owned(q) => q = r)
      /\ wstop[w] => wpc[w] = "finished"
      /\ ~wstop[w] => wpc[w] \in {"none", "idle"} /\ ~wready[w]
      /\ SubSeq(free[r], 1, Len(free[r]) - 1) = <<>>
  BY AcquireFacts
<1>2. /\ free'[r] = <<>> /\ \A q \in Reactors \ {r} : free'[q] = free[q]
      /\ free' \in [Reactors -> Seq(Workers)] /\ Len(free'[r]) <= min_size
      /\ Range(free'[r]) = {}
  <2>1. <<>> \in Seq(Workers) /\ Len(<<>>) <= min_size /\ Range(<<>>) = {}
    BY SMTT(30) DEF min_size, Range
  <2> QED
    BY <1>1, <2>1, PoolFacts
<1>3. /\ busy'[r] = busy[r] \cup {w} /\ \A q \in Reactors \ {r} : busy'[q] = busy[q]
      /\ busy' \in [Reactors -> SUBSET Workers]
      /\ Cardinality(busy'[r]) <= max_size
  <2>1. Cardinality(busy[r] \cup {w}) = Cardinality(busy[r]) + 1
    BY <1>1, BusyCount
  <2>2. Cardinality(busy[r] \cup {w}) <= max_size
    BY <2>1, BusyCount, ReactorAssumption, SMTT(30) DEF HasRoom
  <2> QED
    BY <2>2, PoolFacts, SMTT(30)
<1>4. /\ msg'[m].data = w /\ msg'[m].kind = msg[m].kind /\ msg'[m].cpu = r
      /\ ~msg'[m].freed /\ ~msg'[m].is_return
      /\ \A n \in Messages \ {m} : msg'[n] = msg[n]
  BY FiberFacts, SMTT(30) DEF HandOver, MessageRecord
<1>5. /\ wstop'[w] = wstop[w] /\ wstop' = wstop
      /\ wstop[w] => wpc'[w] = "finished"
      /\ ~wstop[w] => wpc'[w] = "idle" /\ wready'[w] /\ task'[w] = m
      /\ \A v \in Workers \ {w} : wpc'[v] = wpc[v] /\ task'[v] = task[v] /\ wready'[v] = wready[v]
  BY <1>1, PoolFacts, SMTT(30) DEF workerVars
<1>6. PoolTypes'
  <2>1. CASE wstop[w]
    BY <1>2, <1>3, <2>1 DEF IInv, PoolInv, PoolTypes, workerVars
  <2>2. CASE ~wstop[w]
    <3>1. task' \in [Workers -> Messages \cup {NoMessage}] /\ wready' \in [Workers -> BOOLEAN]
      <4>1. task' = [task EXCEPT ![w] = m] /\ wready' = [wready EXCEPT ![w] = TRUE]
        BY <2>2
      <4> QED
        BY <4>1, PoolFacts
    <3>2. wpc' = [wpc EXCEPT ![w] = "idle"]
      BY <1>1, <2>2
    <3>3. wpc' \in [Workers -> {"none", "idle", "submit", "clear", "finished"}]
      BY <3>2, PoolFacts
    <3> QED
      BY <1>2, <1>3, <1>5, <3>1, <3>3 DEF IInv, PoolInv, PoolTypes
  <2> QED
    BY <2>1, <2>2
<1>7. OnlyWorker(w)
  <2>1. ASSUME NEW q \in Reactors
        PROVE  /\ Range(free'[q]) \subseteq Range(free[q]) \cup {w}
               /\ busy'[q] \subseteq busy[q] \cup {w} /\ busy[q] \subseteq busy'[q] \cup {w}
    BY <1>2, <1>3
  <2> QED
    BY <1>5, <2>1 DEF OnlyWorker
<1>8. Owned(r)' \subseteq Owned(r) \cup {w} /\ \A q \in Reactors \ {r} : Owned(q)' = Owned(q)
  BY <1>2, <1>3 DEF Owned
<1>9. OwnedOnce'
  <2>1. \A q \in Reactors : busy'[q] \cap (Range(free'[q]) \cup {joining'[q]}) = {}
    BY <1>1, <1>2, <1>3, SMTT(30) DEF IInv, PoolInv, OwnedOnce
  <2>2. \A q \in Reactors : Cardinality(busy'[q]) <= max_size /\ Len(free'[q]) <= min_size
    BY <1>2, <1>3 DEF IInv, PoolInv, OwnedOnce
  <2>3. ASSUME NEW p \in Reactors, NEW q \in Reactors, p # q PROVE Owned(p)' \cap Owned(q)' = {}
    <3>1. Owned(p) \cap Owned(q) = {}
      BY <2>3 DEF IInv, PoolInv, OwnedOnce
    <3> QED
      BY <1>1, <1>8, <2>3, <3>1, SMTT(30)
  <2> QED
    BY <2>1, <2>2, <2>3 DEF OwnedOnce
<1>10. OwnersOK'
  <2>1. ASSUME NEW q \in Reactors PROVE OwnerOK(q, w)'
    <3>1. w \notin Range(free'[q])
      BY <1>1, <1>2 DEF Owned
    <3>2. joining'[q] # w /\ wpc'[w] # "none"
      BY <1>1, <1>5
    <3> QED
      BY <1>5, <3>1, <3>2 DEF OwnerOK
  <2> QED
    BY <1>7, <2>1, OtherOwners
<1>11. WorkersOK'
  <2>1. ~wstop[w] => HasTask(w)' /\ ~msg'[task'[w]].is_return
    BY <1>4, <1>5 DEF HasTask
  <2>2. wstop[w] => ~wready'[w]
    BY <1>1, WorkerFacts DEF WorkerOK, workerVars
  <2>3. WorkerOK(w)'
    BY <1>5, <2>1, <2>2 DEF WorkerOK
  <2> QED
    BY <1>4, <1>7, <2>3, OtherTasks
<1>12. HandedOnce' /\ HandedOK'
  <2>1. ASSUME NEW n \in Messages \ {m}, HandedOver(n)' PROVE HandedOver(n) /\ msg[n].data # w
    <3>1. HandedOver(n)
      BY <1>4, <2>1 DEF HandedOver
    <3> QED
      BY <1>1, <3>1, HandedFacts, SMTT(30) DEF HandOK
  <2>2. HandOK(m)'
    BY <1>3, <1>4, <1>5 DEF HandOK
  <2> QED
    BY <1>4, <1>7, <2>1, <2>2, OtherHanded, SMTT(30)
<1>13. NoNewAnswer
  BY <1>5 DEF NoNewAnswer
<1> QED
  BY <1>6, <1>9, <1>10, <1>11, <1>12, <1>13 DEF PoolInv

\* Handing a task to a worker keeps the invariant.
LEMMA TryRunInv == ASSUME SetFacts, IInv, NEW r \in Reactors, NEW f, try_run(r, f) PROVE IInv'
<1>1. /\ f \in Messages /\ active[r] = f /\ step[f] = "try_run" /\ joining[r] = NoWorker
      /\ CallOK(f) /\ msg[f].to = r
  BY RunsFacts, SMTT(30) DEF try_run
<1>2. PICK m \in Messages : m = call[f]
  BY <1>1 DEF CallOK, InCall
<1>3. /\ msg[m].caller = f /\ ~msg[m].freed /\ msg[m].cpu = r /\ msg[m].kind \in PoolKinds
      /\ msg[m].data = NoWorker
  BY <1>1, <1>2 DEF CallOK, InCall
<1>4. step[m] = "none" /\ m # f /\ ~msg[m].is_return
  BY <1>1, <1>3, FiberFacts DEF MessageOK, PoolKinds, FiberKinds
<1>5. /\ HasRoom(r) /\ MutexFree(Acquire(r))
      /\ free[r] # <<>> \/ \E v \in Workers : wpc[v] = "none"
      /\ UNCHANGED <<dest, call, yielded, inboxVars, schedVars, joining>>
  BY DEF try_run
<1>6. PICK w \in Workers : w = Acquire(r)
  BY <1>1, <1>5, AcquireFacts
<1>7. /\ busy' = [busy EXCEPT ![r] = @ \cup {w}]
      /\ free' = [free EXCEPT ![r] = SubSeq(@, 1, Len(@) - 1)]
      /\ msg' = HandOver(m, w)
      /\ IF wstop[w] THEN UNCHANGED workerVars
         ELSE /\ task' = [task EXCEPT ![w] = m]
              /\ wready' = [wready EXCEPT ![w] = TRUE]
              /\ wpc' = [wpc EXCEPT ![w] = IF @ = "none" THEN "idle" ELSE @]
              /\ UNCHANGED wstop
  BY <1>2, <1>6 DEF try_run
<1>8. PoolInv' /\ NoNewAnswer
  BY <1>1, <1>3, <1>4, <1>5, <1>6, <1>7, HandOverPool
<1>9. PICK s \in {"run", "suspend"} :
         /\ step' = [step EXCEPT ![f] = s]
         /\ s = "run" <=> msg[m].kind = "special"
  BY <1>2 DEF try_run
<1>10. /\ step'[f] = s /\ \A g \in Messages \ {f} : step'[g] = step[g]
       /\ step' \in [Messages -> FiberSteps] /\ s \in Runnable
       /\ dest' = dest /\ call' = call /\ yielded' = yielded
  BY <1>1, <1>5, <1>9, FiberFacts DEF FiberSteps, Runnable
<1>11. /\ msg' \in [Messages -> MessageRecord]
       /\ \A n \in Messages \ {m} : msg'[n] = msg[n]
       /\ msg'[m].data = w /\ msg'[m].kind = msg[m].kind /\ msg'[m].to = msg[m].to
       /\ msg'[m].cpu = msg[m].cpu /\ msg'[m].caller = msg[m].caller /\ msg'[m].runs = msg[m].runs
       /\ ~msg'[m].freed /\ ~msg'[m].is_return
  <2>1. msg'[m] = [msg[m] EXCEPT !.data = w] /\ \A n \in Messages \ {m} : msg'[n] = msg[n]
    BY <1>7, FiberFacts DEF HandOver
  <2>2. /\ msg'[m] \in MessageRecord
        /\ msg'[m].data = w /\ msg'[m].kind = msg[m].kind /\ msg'[m].to = msg[m].to
        /\ msg'[m].cpu = msg[m].cpu /\ msg'[m].caller = msg[m].caller /\ msg'[m].runs = msg[m].runs
        /\ ~msg'[m].freed /\ ~msg'[m].is_return
    BY <1>3, <1>4, <2>1, FiberFacts, SMTT(30) DEF MessageRecord
  <2>3. msg' \in [Messages -> MessageRecord]
    BY <1>7, <2>1, <2>2, FiberFacts DEF HandOver
  <2> QED
    BY <2>1, <2>2, <2>3
<1>12. ToKept
  BY <1>11 DEF ToKept
<1>13. QueueInv'
  BY <1>1, <1>5, <1>9, <1>10, <1>12, KeepQueue
<1>14. InboxInv' /\ \A q \in Reactors : Pending(q)' = Pending(q)
  BY <1>5, SamePending DEF IInv
<1>15. FiberTypes'
  BY <1>10, <1>11, FiberFacts DEF FiberTypes
<1>16. MessagesOK'
  <2> SUFFICES ASSUME NEW n \in Messages PROVE MessageOK(n)'
    BY DEF MessagesOK
  <2>1. MessageOK(n)
    BY FiberFacts
  <2>2. CASE n = m
    BY <1>4, <1>10, <1>11, <2>1, <2>2 DEF MessageOK
  <2>3. CASE n = f
    BY <1>1, <1>4, <1>10, <1>11, <2>1, <2>3 DEF MessageOK
  <2>4. CASE n # m /\ n # f
    BY <1>10, <1>11, <2>1, <2>4 DEF MessageOK
  <2> QED
    BY <2>2, <2>3, <2>4
<1>17. CallsOK'
  <2> SUFFICES ASSUME NEW g \in Messages PROVE CallOK(g)'
    BY DEF CallsOK
  <2>1. CASE g = f
    <3>1. s = "suspend" => msg[m].kind \in CallKinds
      BY <1>3, <1>9 DEF PoolKinds, CallKinds
    <3>2. msg'[f].to = r
      BY <1>1, <1>4, <1>11
    <3> QED
      BY <1>2, <1>3, <1>9, <1>10, <1>11, <2>1, <3>1, <3>2 DEF CallOK, InCall
  <2>2. CASE g # f
    <3>1. CallOK(g) /\ call'[g] = call[g] /\ step'[g] = step[g] /\ dest'[g] = dest[g]
      BY <1>10, <2>2, FiberFacts
    <3>2. CASE step[g] \in InCall
      <4>1. call[g] \in Messages /\ call[g] # m
        BY <1>3, <2>2, <3>1, <3>2 DEF CallOK
      <4>2. msg'[call[g]] = msg[call[g]] /\ msg'[g].to = msg[g].to
        BY <1>11, <4>1
      <4>3. step[call[g]] \in {"none", "done"} => step'[call[g]] = step[call[g]]
        BY <1>1, <1>10, <4>1
      <4>4. ASSUME step[g] = "resumed", msg[call[g]].kind = "pool" PROVE msg[call[g]].data \in Workers
        BY <3>1, <4>1, <4>4, AnswerWorker DEF CallOK, PoolKinds
      <4> QED
        BY <1>8, <3>1, <4>1, <4>2, <4>3, <4>4 DEF CallOK, NoNewAnswer
    <3>3. CASE step[g] \notin InCall
      BY <3>1, <3>3 DEF CallOK, InCall
    <3> QED
      BY <3>2, <3>3
  <2> QED
    BY <2>1, <2>2
<1>18. CallersWait'
  <2> SUFFICES ASSUME NEW n \in Messages, msg'[n].kind \in CallKinds, ~msg'[n].freed
               PROVE  LET g == msg'[n].caller IN
                      g \in Messages /\ call'[g] = n /\ step'[g] \in InCall
    BY DEF CallersWait
  <2>1. CASE n = m
    <3>1. s = "suspend"
      BY <1>9, <1>11, <2>1 DEF CallKinds
    <3> QED
      BY <1>1, <1>2, <1>3, <1>10, <1>11, <2>1, <3>1 DEF InCall
  <2>2. CASE n # m
    <3>1. /\ msg[n].caller \in Messages /\ call[msg[n].caller] = n
          /\ step[msg[n].caller] \in InCall /\ msg'[n] = msg[n]
      BY <1>11, <2>2, CallerFacts
    <3> QED
      BY <1>2, <1>10, <2>2, <3>1
  <2> QED
    BY <2>1, <2>2
<1>19. PendingOK'
  <2> SUFFICES ASSUME NEW q \in Reactors, NEW n \in Pending(q)
               PROVE  /\ ~msg'[n].freed
                      /\ IF msg'[n].is_return THEN AnswerOK(q, n)' ELSE NewOK(q, n)'
    BY <1>14 DEF PendingOK
  <2>1. /\ n \in Messages /\ ~msg[n].freed
        /\ msg[n].is_return => AnswerOK(q, n)
        /\ ~msg[n].is_return => NewOK(q, n)
    BY PendingFacts
  <2>2. n # m
    BY <1>3, <1>4, <2>1 DEF NewOK, FiberKinds, PoolKinds
  <2>3. msg'[n] = msg[n]
    BY <1>11, <2>1, <2>2
  <2>4. ASSUME NewOK(q, n) PROVE NewOK(q, n)'
    BY <1>1, <1>2, <1>10, <2>1, <2>2, <2>3, <2>4 DEF NewOK
  <2>5. ASSUME AnswerOK(q, n), msg[n].is_return PROVE AnswerOK(q, n)'
    <3>1. msg[n].kind \in CallKinds => msg[n].caller \in Messages /\ msg[n].caller # f
      BY <1>1, <2>1, <2>5, CallerFacts DEF AnswerOK
    <3>2. msg[n].kind \in PoolKinds => msg[n].data \in Workers
      BY <2>1, <2>5, AnswerWorker
    <3>3. msg[n].kind = "fiber" => step'[n] = "done"
      BY <1>1, <1>10, <2>1, <2>5 DEF AnswerOK
    <3> QED
      BY <1>8, <1>10, <2>3, <2>5, <3>1, <3>2, <3>3 DEF AnswerOK, NoNewAnswer
  <2> QED
    BY <2>1, <2>3, <2>4, <2>5
<1> QED
  BY <1>8, <1>13, <1>14, <1>15, <1>16, <1>17, <1>18, <1>19 DEF IInv, FiberInv

====
