---- MODULE ReactorProofs ----
(***************************************************************************)
(* IInv is an invariant of the reactors, for any number of reactors,       *)
(* workers and messages and any limits, and the safety properties follow.  *)
(***************************************************************************)
EXTENDS ReactorFibers, ReactorPools, FiniteSetTheorems

\* The prover of the leaves that name none, and its time limit.
USE ZenonT(30)

\* What the lemmas use of the sizes and least elements of sets is true.
LEMMA SetFactsHold == SetFacts
<1>1. ASSUME NEW S \in SUBSET Nat, S # {}
      PROVE  Min(S) \in S /\ \A n \in S : Min(S) <= n
  <2>1. PICK m \in S : \A n \in S : ~(<<n, m>> \in OpToRel(<, Nat))
    BY <1>1, WFMin, NatLessThanWellFounded
  <2>2. \A n \in S : ~(n < m)
    BY <2>1 DEF OpToRel
  <2>3. \A n \in S : m <= n
    BY <2>2, SMTT(30)
  <2> QED
    BY <2>3 DEF Min
<1>2. IsFiniteSet(Messages) /\ IsFiniteSet(Workers)
  <2>1. 1 \in Int /\ MaxMessages \in Int /\ WorkerNum \in Int
    BY ReactorAssumption, SMTT(30)
  <2> QED
    BY <2>1, FS_Interval DEF Messages, Workers
<1>3. ASSUME NEW S \in SUBSET Messages PROVE Cardinality(S) \in Nat
  BY <1>2, FS_Subset, FS_CardinalityType
<1>4. ASSUME NEW S \in SUBSET Workers
      PROVE  /\ Cardinality(S) \in Nat
             /\ \A w \in Workers \ S : Cardinality(S \cup {w}) = Cardinality(S) + 1
             /\ \A w \in S : Cardinality(S \ {w}) = Cardinality(S) - 1
  <2>1. IsFiniteSet(S)
    BY <1>2, FS_Subset
  <2>2. Cardinality(S) \in Nat
    BY <2>1, FS_CardinalityType
  <2>3. ASSUME NEW w \in Workers \ S PROVE Cardinality(S \cup {w}) = Cardinality(S) + 1
    BY <2>1, FS_AddElement
  <2>4. ASSUME NEW w \in S PROVE Cardinality(S \ {w}) = Cardinality(S) - 1
    BY <2>1, FS_RemoveElement
  <2> QED
    BY <2>2, <2>3, <2>4
<1>5. Cardinality({}) = 0
  BY FS_EmptySet
<1> QED
  BY <1>1, <1>3, <1>4, <1>5 DEF SetFacts

-----------------------------------------------------------------------------
(* The invariant *)

\* Every step keeps the invariant.
LEMMA StepInv == IInv /\ [Next]_vars => IInv'
<1> SUFFICES ASSUME IInv, [Next]_vars PROVE IInv'
  OBVIOUS
<1>1. CASE UNCHANGED vars
  <2>1. /\ UNCHANGED <<msg, step, dest, call, yielded, inboxVars, schedVars, poolVars, workerVars>>
        /\ yielded' \subseteq Messages
    BY <1>1, FiberFacts DEF vars, fiberVars
  <2>2. InboxInv' /\ \A q \in Reactors : Pending(q)' \subseteq Pending(q)
    BY <2>1, SamePending DEF IInv
  <2> QED
    BY <2>1, <2>2, ToSame, SameQueue, QuietStep
<1>2. ASSUME NEW r \in Reactors, LoopStep(r) PROVE IInv'
  <2>1. CASE finish(r)
    BY <2>1, SetFactsHold, FinishSpecialInv, FinishCallInv
  <2>2. CASE receive_all(r) \/ IdleTurn(r) \/ dispatch(r) \/ stop(r) \/ FinishBatch(r)
    BY <2>2, ReceiveInv, IdleTurnInv, DispatchInv, StopInv, FinishBatchInv
  <2>3. CASE stop_workers(r) \/ Drain(r) \/ EndThread(r) \/ join
    BY <2>3, SetFactsHold, StopWorkersInv, DrainInv, EndInv
  <2> QED
    BY <1>2, <2>1, <2>2, <2>3 DEF LoopStep
<1>3. ASSUME NEW r \in Reactors, NEW f, FiberStep(r, f) PROVE IInv'
  <2>1. CASE \E cpu \in Reactors : run_at(r, f, cpu) \/ run_at_async(r, f, cpu)
    BY <2>1, SetFactsHold, CallInv
  <2>2. CASE \E kind \in {"pool", "special"} : run_in_thread_pool(r, f, kind)
    BY <2>2, SetFactsHold, PoolCallInv DEF PoolKinds
  <2>3. CASE PoolAssertion(r, f) \/ shutdown(r, f) \/ yield(r, f) \/ try_run_fails(r, f)
    BY <2>3, PoolAssertionInv, YieldInv
  <2>4. CASE Submit(r, f) \/ suspend(r, f) \/ Return(r, f) \/ try_run(r, f)
    BY <2>4, SetFactsHold, SubmitInv, SuspendInv, ReturnInv, TryRunInv
  <2>5. CASE SubmitStop(r, f) \/ Process(r, f) \/ Reply(r, f)
    BY <2>5, SubmitStopInv, ProcessInv, ReplyInv
  <2> QED
    BY <1>3, <2>1, <2>2, <2>3, <2>4, <2>5 DEF FiberStep
<1>4. ASSUME NEW w \in Workers, WorkerThread(w) PROVE IInv'
  <2>1. CASE ProcessTask(w)
    BY <2>1, EndWorkerInv, RunTaskInv
  <2>2. CASE SubmitTask(w) \/ ClearTask(w)
    BY <2>2, SubmitTaskInv, ClearTaskInv
  <2> QED
    BY <1>4, <2>1, <2>2 DEF WorkerThread
<1>5. ASSUME NEW r \in Reactors, Thread(r) PROVE IInv'
  BY <1>2, <1>3, <1>5, JoinWorkerInv DEF Thread
<1> QED
  BY <1>1, <1>4, <1>5 DEF Next

\* The reactors keep the invariant: every message that somebody still needs is in
\* one place, and every worker thread belongs to one pool.
THEOREM InvariantKept == Spec => []IInv
<1>1. Init => IInv
  BY InitInv, SetFactsHold
<1>2. IInv /\ [Next]_vars => IInv'
  BY StepInv
<1> QED
  BY <1>1, <1>2, PTL DEF Spec

-----------------------------------------------------------------------------
(* What follows from it *)

\* The elements of two sequences, one after the other.
LEMMA ConcatFacts ==
  ASSUME NEW S, NEW s \in Seq(S), NEW t \in Seq(S)
  PROVE  /\ Len(s \o t) = Len(s) + Len(t)
         /\ \A i \in 1..Len(s) + Len(t) :
               (s \o t)[i] = IF i <= Len(s) THEN s[i] ELSE t[i - Len(s)]
  BY SMTT(30)

\* The form in which TypeOK says that a thread has each fiber once.
LEMMA QueueForm ==
  ASSUME IInv, NEW r \in Reactors, NEW queue, queue = <<active[r]>> \o ready[r]
  PROVE  /\ \A i, j \in 1..Len(queue) : queue[i] = queue[j] => i = j
         /\ \A i \in 1..Len(queue) :
               queue[i] # EventLoop => msg[queue[i]].to = r /\ queue[i] \in Fibers
<1>1. active[r] \in Messages \cup {EventLoop} /\ ready[r] \in Seq(Messages \cup {EventLoop})
  BY DEF IInv, QueueInv, SchedTypes
<1>2. <<active[r]>> \in Seq(Messages \cup {EventLoop}) /\ Len(<<active[r]>>) = 1
      /\ <<active[r]>>[1] = active[r]
  BY <1>1, SMTT(30)
<1>3. /\ Len(ready[r]) \in Nat /\ DOMAIN ready[r] = 1..Len(ready[r])
      /\ Len(queue) = 1 + Len(ready[r])
      /\ \A i \in 1..Len(queue) : queue[i] = (IF i <= 1 THEN <<active[r]>>[i] ELSE ready[r][i - 1])
  BY <1>1, <1>2, ConcatFacts, SeqFacts, SMTT(30)
<1>4. \A i \in 1..Len(queue) :
         \/ i = 1 /\ queue[i] = active[r]
         \/ i > 1 /\ i - 1 \in 1..Len(ready[r]) /\ queue[i] = ready[r][i - 1]
  BY <1>2, <1>3, SMTT(30)
<1>5. IsInjective(ready[r]) /\ active[r] \notin Range(ready[r])
  BY DEF IInv, QueueInv, QueuedOnce
<1>6. \A i \in 1..Len(ready[r]) : ready[r][i] \in Range(ready[r])
  BY <1>3 DEF Range
<1>7. \A i, j \in 1..Len(ready[r]) : ready[r][i] = ready[r][j] => i = j
  BY <1>3, <1>5 DEF IsInjective
<1>8. ASSUME NEW i \in 1..Len(queue), NEW j \in 1..Len(queue), queue[i] = queue[j] PROVE i = j
  <2>1. i \in Int /\ j \in Int
    BY <1>3, SMTT(30)
  <2>2. ASSUME i > 1, j > 1 PROVE i - 1 = j - 1
    <3>1. /\ i - 1 \in 1..Len(ready[r]) /\ j - 1 \in 1..Len(ready[r])
          /\ queue[i] = ready[r][i - 1] /\ queue[j] = ready[r][j - 1]
      BY <1>4, <2>1, <2>2, SMTT(30)
    <3> QED
      BY <1>7, <1>8, <3>1
  <2>3. i = 1 <=> j = 1
    BY <1>4, <1>5, <1>6, <1>8, SMTT(30)
  <2> QED
    BY <1>4, <2>1, <2>2, <2>3, SMTT(30)
<1>9. ASSUME NEW i \in 1..Len(queue), queue[i] # EventLoop
      PROVE  msg[queue[i]].to = r /\ queue[i] \in Fibers
  <2>1. queue[i] \in Queued(r) \ {EventLoop}
    BY <1>4, <1>6, <1>9 DEF Queued
  <2> QED
    BY <2>1, QueuedFacts DEF Fibers, Runnable
<1> QED
  BY <1>8, <1>9

\* One fiber of a reactor is active and the others wait in its ready queue once
\* each (Scheduler's queues), the batch is a part of the inbox, and a pool keeps
\* within its limits (ThreadPool::try_run, release), for any number of reactors.
THEOREM ReactorTypes == Spec => []TypeOK
<1>1. ASSUME IInv PROVE TypeOK
  <2>1. \A m \in Messages : msg[m].kind \in {"none", "fiber", "one_way", "pool", "special"}
    BY <1>1, DataType DEF Kinds
  <2>2. ASSUME NEW r \in Reactors
        PROVE  /\ Len(inbox[r]) <= Capacity /\ taken[r] <= batch[r] /\ batch[r] <= Len(inbox[r])
               /\ Cardinality(busy[r]) <= max_size /\ Len(free[r]) <= min_size
    BY <1>1 DEF IInv, InboxInv, InboxBounds, PoolInv, OwnedOnce
  <2>3. ASSUME NEW r \in Reactors
        PROVE  LET queue == <<active[r]>> \o ready[r] IN
               /\ \A i, j \in 1..Len(queue) : queue[i] = queue[j] => i = j
               /\ \A i \in 1..Len(queue) :
                     queue[i] # EventLoop => msg[queue[i]].to = r /\ queue[i] \in Fibers
    BY <1>1, QueueForm
  <2>4. /\ step \in [Messages -> FiberSteps]
        /\ wpc \in [Workers -> {"none", "idle", "submit", "clear", "finished"}]
    BY <1>1, FiberFacts, PoolFacts
  <2> QED
    BY <2>1, <2>2, <2>3, <2>4 DEF TypeOK
<1> QED
  BY <1>1, InvariantKept, PTL

\* The fiber that finish() resumes is the one that waits for this answer: it is
\* suspended in that call and belongs to this reactor (the assertion of
\* Scheduler::resume).
THEOREM AnswersMeetFibers == Spec => []AnswerFindsFiber
<1>1. ASSUME IInv PROVE AnswerFindsFiber
  <2> SUFFICES ASSUME NEW r \in Reactors, LoopRuns(r, "batch"), NEW m \in Pending(r),
                      msg[m].is_return, msg[m].kind # "special"
               PROVE  LET f == msg[m].caller IN
                      step[f] = "suspended" /\ call[f] = m /\ msg[f].to = r
    BY DEF AnswerFindsFiber
  <2>1. m \in Messages /\ ~msg[m].freed /\ AnswerOK(r, m)
    BY <1>1, PendingFacts
  <2>2. msg[m].kind \in CallKinds /\ msg[m].cpu = r
        /\ step[msg[m].caller] \in {"suspend", "suspended"}
    BY <2>1 DEF AnswerOK, CallKinds, PoolKinds
  <2>3. PICK f \in Messages : f = msg[m].caller /\ call[f] = m
    BY <1>1, <2>1, <2>2, CallerFacts
  <2>4. msg[f].to = r
    BY <1>1, <2>2, <2>3, FiberFacts, SMTT(30) DEF CallOK, InCall
  <2>5. step[f] # "suspend"
    BY <1>1, <2>3, <2>4, Zeros DEF LoopRuns, IInv, QueueInv, ExclusiveActive, Exclusive
  <2> QED
    BY <2>2, <2>3, <2>4, <2>5
<1> QED
  BY <1>1, InvariantKept, PTL

\* No message is used after its end: not by the reactor whose inbox it waits in,
\* not by the worker that submits its answer, not by its own fiber (the frame of
\* run_at or the delete in finish() ends it).
THEOREM MessagesOutliveUse == Spec => []NoDanglingMessage
<1>1. ASSUME IInv PROVE NoDanglingMessage
  <2>1. \A r \in Reactors : \A m \in Pending(r) : ~msg[m].freed
    BY <1>1, PendingFacts
  <2>2. \A w \in Workers : wpc[w] = "submit" => ~msg[task[w]].freed
    BY <1>1, WorkerFacts DEF WorkerOK
  <2>3. \A f \in Fibers : ~msg[f].freed
    BY <1>1, FiberFacts DEF Fibers, MessageOK
  <2> QED
    BY <2>1, <2>2, <2>3 DEF NoDanglingMessage
<1> QED
  BY <1>1, InvariantKept, PTL

\* Worker::run never loses a task: until it has run, the worker of its message
\* holds it and is about to wake, or the worker has been stopped.
THEOREM TasksReachWorkers == Spec => []TaskNotLost
<1>1. ASSUME IInv PROVE TaskNotLost
  <2> SUFFICES ASSUME NEW m \in Messages, msg[m].kind \in PoolKinds, msg[m].data # NoWorker,
                      ~msg[m].is_return
               PROVE  LET w == msg[m].data IN wstop[w] \/ (task[w] = m /\ wready[w])
    BY DEF TaskNotLost, PoolKinds
  <2>1. HandedOver(m)
    BY <1>1, FiberFacts DEF MessageOK, HandedOver
  <2> QED
    BY <1>1, <2>1, HandedFacts DEF HandOK
<1> QED
  BY <1>1, InvariantKept, PTL

\* process() runs the task of a message at most once, and exactly once before a
\* call returns to its fiber.
THEOREM CallsRunOnce == Spec => []ProcessedOnce
<1>1. ASSUME IInv PROVE ProcessedOnce
  <2>1. \A m \in Messages : msg[m].runs = (IF msg[m].is_return THEN 1 ELSE 0)
    BY <1>1, FiberFacts DEF MessageOK
  <2>2. \A f \in Messages : step[f] = "resumed" => call[f] \in Messages /\ msg[call[f]].is_return
    BY <1>1, FiberFacts DEF CallOK, InCall
  <2> QED
    BY <2>1, <2>2, SMTT(30) DEF ProcessedOnce
<1> QED
  BY <1>1, InvariantKept, PTL

====
