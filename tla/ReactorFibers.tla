---- MODULE ReactorFibers ----
(***************************************************************************)
(* The steps of event loops and fibers outside the pools keep IInv.        *)
(***************************************************************************)
EXTENDS ReactorQueues

\* The prover of the leaves that name none, and its time limit.
USE ZenonT(30)

-----------------------------------------------------------------------------
(* Steps of the event loop and switches that move no message *)

\* Yielding, by choice or because the pool is full, keeps the invariant.
LEMMA YieldInv ==
  ASSUME IInv, NEW r \in Reactors, NEW f, yield(r, f) \/ try_run_fails(r, f)
  PROVE  IInv'
<1>1. active[r] = f /\ f \in Messages /\ step[f] \in {"run", "try_run"}
  BY DEF yield, try_run_fails, Runs
<1>2. /\ UNCHANGED <<msg, step, dest, call, inboxVars, poolVars, workerVars>>
      /\ Switch(r, Append(ready[r], f)) /\ yielded' \subseteq Messages
  BY <1>1 DEF yield, try_run_fails, fiberVars, IInv, FiberInv, FiberTypes
<1>3. QueueInv'
  BY <1>1, <1>2, ToSame, RotateQueue DEF Exclusive
<1> QED
  BY <1>2, <1>3, SamePending, QuietStep DEF IInv

\* So does a turn of the event loop that finds nothing,
LEMMA IdleTurnInv == ASSUME IInv, NEW r \in Reactors, IdleTurn(r) PROVE IInv'
<1>1. /\ active[r] = EventLoop /\ Switch(r, Append(ready[r], EventLoop))
      /\ UNCHANGED <<msg, step, dest, call, yielded, inboxVars, poolVars, workerVars>>
  BY DEF IdleTurn, LoopRuns, fiberVars
<1>2. QueueInv'
  BY <1>1, ToSame, RotateQueue, Zeros
<1> QED
  BY <1>1, <1>2, SamePending, QuietStep DEF IInv, FiberInv, FiberTypes

\* taking the message that stops the reactor,
LEMMA StopInv == ASSUME IInv, NEW r \in Reactors, stop(r) PROVE IInv'
<1>1. /\ active[r] = EventLoop /\ Switch(r, Append(ready[r], EventLoop))
      /\ Take(r) /\ taken[r] < batch[r]
      /\ UNCHANGED <<msg, step, dest, call, yielded, poolVars, workerVars>>
  BY DEF stop, Receives, LoopRuns, fiberVars
<1>2. QueueInv'
  BY <1>1, ToSame, RotateQueue, Zeros
<1>3. InboxInv' /\ \A q \in Reactors : Pending(q)' \subseteq Pending(q)
  BY <1>1, TakePending DEF IInv
<1> QED
  BY <1>1, <1>2, <1>3, QuietStep DEF IInv, FiberInv, FiberTypes

\* ending a batch,
LEMMA FinishBatchInv == ASSUME IInv, NEW r \in Reactors, FinishBatch(r) PROVE IInv'
<1>1. /\ active[r] = EventLoop /\ Switch(r, Append(ready[r], EventLoop))
      /\ UNCHANGED <<msg, step, dest, call, yielded, poolVars, workerVars>>
  BY DEF FinishBatch, LoopRuns, fiberVars
<1>2. QueueInv'
  BY <1>1, ToSame, RotateQueue, Zeros
<1>3. InboxInv' /\ \A q \in Reactors : Pending(q)' = Pending(q)
  BY FinishPending DEF IInv
<1> QED
  BY <1>1, <1>2, <1>3, QuietStep DEF IInv, FiberInv, FiberTypes

\* running the fibers that are left when the loop is over,
LEMMA DrainInv == ASSUME IInv, NEW r \in Reactors, Drain(r) PROVE IInv'
<1>1. /\ active[r] = EventLoop /\ Switch(r, ready[r])
      /\ UNCHANGED <<msg, step, dest, call, yielded, inboxVars, poolVars, workerVars>>
  BY DEF Drain, LoopRuns, fiberVars
<1>2. QueueInv'
  BY <1>1, ToSame, DrainQueue
<1> QED
  BY <1>1, <1>2, SamePending, QuietStep DEF IInv, FiberInv, FiberTypes

\* starting a batch,
LEMMA ReceiveInv == ASSUME IInv, NEW r \in Reactors, receive_all(r) PROVE IInv'
<1>1. /\ batch' = [batch EXCEPT ![r] = Len(inbox[r])] /\ inbox' = inbox /\ taken' = taken
      /\ UNCHANGED <<msg, step, dest, call, yielded, schedVars, poolVars, workerVars>>
  BY DEF receive_all, fiberVars
<1>2. QueueInv'
  BY <1>1, ToSame, SameQueue
<1>3. /\ taken[r] \in Nat /\ batch[r] \in Nat /\ Len(inbox[r]) \in Nat
      /\ taken[r] <= Len(inbox[r]) /\ Len(inbox[r]) <= Capacity
  BY PlaceFacts, SMTT(30) DEF IInv
<1>4. InboxTypes'
  BY <1>1, <1>3 DEF IInv, InboxInv, InboxTypes
<1>5. InboxBounds'
  BY <1>1, <1>3, SMTT(30) DEF IInv, InboxInv, InboxTypes, InboxBounds
<1>6. PendingOnce' /\ \A q \in Reactors : Pending(q)' = Pending(q)
  BY <1>1, SMTT(30) DEF IInv, InboxInv, PendingOnce, Places, Pending
<1> QED
  BY <1>1, <1>2, <1>4, <1>5, <1>6, QuietStep DEF IInv, FiberInv, FiberTypes, InboxInv

\* and the end of a thread.
LEMMA EndInv == ASSUME IInv, NEW r \in Reactors, EndThread(r) \/ join PROVE IInv'
<1>1. UNCHANGED <<msg, step, dest, call, yielded, schedVars, inboxVars, poolVars, workerVars>>
  BY DEF EndThread, join, fiberVars
<1>2. QueueInv'
  BY <1>1, ToSame, SameQueue
<1> QED
  BY <1>1, <1>2, SamePending, QuietStep DEF IInv, FiberInv, FiberTypes

-----------------------------------------------------------------------------
(* Steps of a fiber outside the pools *)

\* A fiber goes from one step to another and nothing else happens to messages.
StepOnly(f, s) ==
    /\ step' = [step EXCEPT ![f] = s] /\ s \in FiberSteps \ {"none", "done", "reply"}
    /\ step[f] \notin {"none", "done", "reply"}
    /\ \/ step[f] \notin InCall /\ s \notin InCall
       \/ step[f] = "suspend" /\ s = "suspended"

\* Such a step keeps what is known of messages and fibers ...
LEMMA StepOnlyFibers ==
  ASSUME IInv, NEW f \in Messages, NEW s, StepOnly(f, s),
         UNCHANGED <<msg, call, yielded, wpc>>, dest' \in [Messages -> Reactors],
         \A g \in Messages \ {f} : dest'[g] = dest[g]
  PROVE  FiberInv'
<1>1. /\ step' \in [Messages -> FiberSteps] /\ step'[f] = s
      /\ \A g \in Messages \ {f} : step'[g] = step[g]
  BY FiberFacts DEF StepOnly
<1>2. FiberTypes'
  BY <1>1, FiberFacts DEF FiberTypes
<1>3. MessagesOK'
  <2> SUFFICES ASSUME NEW m \in Messages PROVE MessageOK(m)'
    BY DEF MessagesOK
  <2>1. MessageOK(m)
    BY FiberFacts
  <2>2. CASE m = f
    BY <1>1, <2>1, <2>2 DEF MessageOK, StepOnly
  <2>3. CASE m # f
    BY <1>1, <2>1, <2>3 DEF MessageOK
  <2> QED
    BY <2>2, <2>3
<1>4. CallsOK'
  <2> SUFFICES ASSUME NEW g \in Messages PROVE CallOK(g)'
    BY DEF CallsOK
  <2>1. CallOK(g)
    BY FiberFacts
  <2>2. CASE g = f
    BY <1>1, <2>1, <2>2 DEF CallOK, StepOnly, InCall
  <2>3. CASE g # f
    BY <1>1, <2>1, <2>3 DEF CallOK, StepOnly, InCall
  <2> QED
    BY <2>2, <2>3
<1>5. CallersWait'
  <2> SUFFICES ASSUME NEW m \in Messages, msg[m].kind \in CallKinds, ~msg[m].freed
               PROVE  LET g == msg[m].caller IN
                      g \in Messages /\ call[g] = m /\ step'[g] \in InCall
    BY DEF CallersWait
  <2> QED
    BY <1>1, CallerFacts DEF StepOnly, InCall
<1> QED
  BY <1>2, <1>3, <1>4, <1>5 DEF FiberInv

\* ... and of the messages that wait.
LEMMA StepOnlyPending ==
  ASSUME IInv, NEW f \in Messages, NEW s, StepOnly(f, s), UNCHANGED <<msg, call, wpc>>,
         \A r \in Reactors : Pending(r)' \subseteq Pending(r)
  PROVE  PendingOK'
<1>1. step'[f] = s /\ \A g \in Messages \ {f} : step'[g] = step[g]
  BY FiberFacts DEF StepOnly
<1> SUFFICES ASSUME NEW r \in Reactors, NEW m \in Pending(r)
             PROVE  /\ ~msg[m].freed
                    /\ IF msg[m].is_return THEN AnswerOK(r, m)' ELSE NewOK(r, m)'
  BY DEF PendingOK
<1>2. /\ m \in Messages /\ ~msg[m].freed
      /\ msg[m].is_return => AnswerOK(r, m)
      /\ ~msg[m].is_return => NewOK(r, m)
  BY PendingFacts
<1>3. ASSUME NewOK(r, m) PROVE NewOK(r, m)'
  BY <1>1, <1>2, <1>3 DEF NewOK, StepOnly, InCall
<1>4. ASSUME AnswerOK(r, m) PROVE AnswerOK(r, m)'
  <2>1. msg[m].kind \in CallKinds => msg[m].caller \in Messages
    BY <1>2, CallerFacts
  <2> QED
    BY <1>1, <1>2, <1>4, <2>1 DEF AnswerOK, StepOnly, InCall
<1> QED
  BY <1>2, <1>3, <1>4

\* suspend keeps the invariant, whether or not the answer is already there.
LEMMA SuspendInv == ASSUME IInv, NEW r \in Reactors, NEW f, suspend(r, f) PROVE IInv'
<1>1. /\ step' = [step EXCEPT ![f] = "suspended"] /\ Switch(r, ready[r])
      /\ UNCHANGED <<msg, dest, call, yielded, inboxVars, poolVars, workerVars>>
      /\ f \in Messages /\ active[r] = f /\ step[f] = "suspend"
  BY RunsFacts, SMTT(30) DEF suspend
<1>2. StepOnly(f, "suspended") /\ wpc' = wpc
  BY <1>1 DEF StepOnly, FiberSteps, workerVars
<1>3. ToKept /\ PoolKept
  BY <1>1 DEF ToKept, PoolKept
<1>4. QueueInv'
  BY <1>1, <1>3, LeaveQueue DEF Exclusive
<1>5. InboxInv' /\ \A q \in Reactors : Pending(q)' \subseteq Pending(q)
  BY <1>1, SamePending DEF IInv
<1>6. FiberInv'
  BY <1>1, <1>2, FiberFacts, StepOnlyFibers
<1>7. PendingOK'
  BY <1>1, <1>2, <1>5, StepOnlyPending
<1>8. PoolInv'
  BY <1>1, <1>3, SamePool
<1> QED
  BY <1>4, <1>5, <1>6, <1>7, <1>8 DEF IInv

\* A call to a stopped pool, and the start of shutdown, keep the invariant.
LEMMA PoolAssertionInv ==
  ASSUME IInv, NEW r \in Reactors, NEW f, PoolAssertion(r, f) \/ shutdown(r, f)
  PROVE  IInv'
<1>1. PICK s \in {"aborted", "shutdown"} : step' = [step EXCEPT ![f] = s]
  BY DEF PoolAssertion, shutdown
<1>2. /\ UNCHANGED <<msg, call, yielded, schedVars, inboxVars, poolVars, workerVars>>
      /\ f \in Messages /\ active[r] = f /\ step[f] = "run"
      /\ dest' = dest \/ dest' = [dest EXCEPT ![f] = 0]
  BY RunsFacts, SMTT(30) DEF PoolAssertion, shutdown
<1>3. 0 \in Reactors
  BY CpuNumFacts, SMTT(30) DEF Reactors
<1>4. dest' \in [Messages -> Reactors] /\ \A g \in Messages \ {f} : dest'[g] = dest[g]
  BY <1>2, <1>3, FiberFacts, SMTT(30)
<1>5. StepOnly(f, s) /\ wpc' = wpc /\ s \in Runnable
  BY <1>1, <1>2 DEF StepOnly, FiberSteps, InCall, workerVars, Runnable
<1>6. ToKept /\ PoolKept
  BY <1>2 DEF ToKept, PoolKept
<1>7. QueueInv'
  BY <1>1, <1>2, <1>5, <1>6, KeepQueue
<1>8. InboxInv' /\ \A q \in Reactors : Pending(q)' \subseteq Pending(q)
  BY <1>2, SamePending DEF IInv
<1>9. FiberInv'
  BY <1>2, <1>4, <1>5, StepOnlyFibers
<1>10. PendingOK'
  BY <1>2, <1>5, <1>8, StepOnlyPending
<1>11. PoolInv'
  BY <1>2, <1>6, SamePool
<1> QED
  BY <1>7, <1>8, <1>9, <1>10, <1>11 DEF IInv

\* Sending a reactor the message that stops it keeps the invariant.
LEMMA SubmitStopInv ==
  ASSUME IInv, NEW r \in Reactors, NEW f, SubmitStop(r, f)
  PROVE  IInv'
<1>1. /\ UNCHANGED <<msg, call, yielded, schedVars, poolVars, workerVars>>
      /\ f \in Messages /\ active[r] = f /\ step[f] = "shutdown"
      /\ submit_to(dest[f], Stop) /\ dest[f] \in Reactors
  BY RunsFacts, FiberFacts, SMTT(30) DEF SubmitStop
<1>2. PICK s \in {"run", "shutdown"} : step' = [step EXCEPT ![f] = s]
  <2>1. CASE dest[f] = CpuNum - 1
    BY <2>1 DEF SubmitStop
  <2>2. CASE dest[f] # CpuNum - 1
    <3>1. step' = step
      BY <2>2 DEF SubmitStop
    <3>2. step = [step EXCEPT ![f] = "shutdown"]
      BY <1>1, FiberFacts
    <3> QED
      BY <3>1, <3>2
  <2> QED
    BY <2>1, <2>2
<1>3. dest' \in [Messages -> Reactors] /\ \A g \in Messages \ {f} : dest'[g] = dest[g]
  <2>1. CASE dest[f] = CpuNum - 1
    <3>1. 0 \in Reactors /\ dest' = [dest EXCEPT ![f] = 0]
      BY <2>1, CpuNumFacts, SMTT(30) DEF Reactors, SubmitStop
    <3> QED
      BY <1>1, <3>1, FiberFacts
  <2>2. CASE dest[f] # CpuNum - 1
    <3>1. dest[f] + 1 \in Reactors
      BY <1>1, <2>2, CpuNumFacts, SMTT(30) DEF Reactors
    <3>2. dest' = [dest EXCEPT ![f] = @ + 1]
      BY <2>2 DEF SubmitStop
    <3> QED
      BY <1>1, <3>1, <3>2, FiberFacts
  <2> QED
    BY <2>1, <2>2
<1>5. StepOnly(f, s) /\ wpc' = wpc /\ s \in Runnable
  BY <1>1, <1>2 DEF StepOnly, FiberSteps, InCall, workerVars, Runnable
<1>6. ToKept /\ PoolKept
  BY <1>1 DEF ToKept, PoolKept
<1>7. QueueInv'
  BY <1>1, <1>2, <1>5, <1>6, KeepQueue
<1>8. InboxInv' /\ \A q \in Reactors : Pending(q)' \subseteq Pending(q)
  <2>1. \A q \in Reactors : Stop \notin Pending(q)
    BY DEF Pending
  <2>2. /\ InboxInv'
        /\ \A q \in Reactors : Pending(q)' \subseteq Pending(q) \cup {Stop}
        /\ \A q \in Reactors : Stop \notin Pending(q)'
    BY <1>1, <2>1, AppendPending DEF IInv
  <2> QED
    BY <2>2
<1>9. FiberInv'
  BY <1>1, <1>3, <1>5, StepOnlyFibers
<1>10. PendingOK'
  BY <1>1, <1>5, <1>8, StepOnlyPending
<1>11. PoolInv'
  BY <1>1, <1>6, SamePool
<1> QED
  BY <1>7, <1>8, <1>9, <1>10, <1>11 DEF IInv

\* Making the message of a call keeps the invariant.
LEMMA NewMessageInv ==
  ASSUME SetFacts, IInv, NEW r \in Reactors, NEW f, Runs(r, f, "run"), NEW cpu \in Reactors,
         NEW kind, NEW at, NewMessage(r, f, kind, cpu, at),
         \/ kind \in FiberKinds /\ at = "submit"
         \/ kind \in PoolKinds /\ at = "try_run"
  PROVE  IInv'
<1> DEFINE m == Min(Unsent)
           new == [Unused EXCEPT !.kind = kind, !.to = cpu, !.cpu = r, !.caller = f]
<1>1. /\ f \in Messages /\ active[r] = f /\ step[f] = "run" /\ msg[f].to = r
  BY RunsFacts, SMTT(30)
<1>2. /\ msg' = [msg EXCEPT ![m] = new] /\ call' = [call EXCEPT ![f] = m]
      /\ dest' = [dest EXCEPT ![f] = cpu] /\ step' = [step EXCEPT ![f] = at]
      /\ UNCHANGED <<yielded, inboxVars, schedVars, poolVars, workerVars>>
      /\ MayGoOn
  BY DEF NewMessage
<1>3. m \in Messages /\ msg[m].kind = "none"
  BY <1>2, UnsentLeast DEF IInv, FiberInv
<1>4. step[m] = "none" /\ m # f
  BY <1>1, <1>3, FiberFacts DEF MessageOK, FiberKinds
<1>5. 0 \in Reactors
  BY CpuNumFacts, SMTT(30) DEF Reactors
<1>6. /\ new.kind = kind /\ new.to = cpu /\ new.cpu = r /\ new.caller = f
      /\ new.is_return = FALSE /\ new.data = NoWorker /\ new.runs = 0 /\ new.freed = FALSE
      /\ new \in MessageRecord
  BY <1>1, <1>5 DEF Unused, MessageRecord, Kinds, FiberKinds, PoolKinds
<1> HIDE DEF m, new
<1>7. /\ msg'[m] = new /\ \A n \in Messages \ {m} : msg'[n] = msg[n]
      /\ call'[f] = m /\ \A g \in Messages \ {f} : call'[g] = call[g]
      /\ dest'[f] = cpu /\ \A g \in Messages \ {f} : dest'[g] = dest[g]
      /\ step'[f] = at /\ \A g \in Messages \ {f} : step'[g] = step[g]
      /\ FiberTypes' /\ wpc' = wpc
  BY <1>1, <1>2, <1>3, <1>6, FiberFacts DEF FiberTypes, FiberSteps, workerVars
<1>8. ToKept /\ PoolKept
  BY <1>3, <1>6, <1>7 DEF ToKept, PoolKept, PoolKinds
<1>9. QueueInv'
  BY <1>1, <1>2, <1>8, KeepQueue DEF Runnable
<1>10. InboxInv' /\ \A q \in Reactors : Pending(q)' = Pending(q)
  BY <1>2, SamePending DEF IInv
<1>11. PoolInv'
  BY <1>2, <1>8, SamePool
<1>12. MessagesOK'
  <2> SUFFICES ASSUME NEW n \in Messages PROVE MessageOK(n)'
    BY DEF MessagesOK
  <2>1. MessageOK(n)
    BY FiberFacts
  <2>2. CASE n = m
    BY <1>4, <1>6, <1>7, <2>2 DEF MessageOK
  <2>3. CASE n = f
    BY <1>1, <1>4, <1>7, <2>1, <2>3 DEF MessageOK
  <2>4. CASE n # m /\ n # f
    BY <1>7, <2>1, <2>4 DEF MessageOK
  <2> QED
    BY <2>2, <2>3, <2>4
<1>13. CallsOK'
  <2> SUFFICES ASSUME NEW g \in Messages PROVE CallOK(g)'
    BY DEF CallsOK
  <2>1. CallOK(g)
    BY FiberFacts
  <2>2. CASE g = f
    BY <1>1, <1>3, <1>4, <1>6, <1>7, <2>2 DEF CallOK
  <2>3. CASE g # f
    <3>1. CASE step[g] \in InCall
      <4>1. call[g] \in Messages /\ call[g] # m /\ g # m
        BY <1>3, <1>4, <2>1, <3>1
           DEF CallOK, InCall, FiberKinds, PoolKinds, CallKinds
      <4>2. /\ msg'[call[g]] = msg[call[g]] /\ msg'[g] = msg[g] /\ call'[g] = call[g]
            /\ dest'[g] = dest[g] /\ step'[g] = step[g]
        BY <1>7, <2>3, <4>1
      <4>3. step[call[g]] \in {"none", "done"} => step'[call[g]] = step[call[g]]
        BY <1>1, <1>7, <4>1
      <4> QED
        BY <1>7, <2>1, <4>2, <4>3 DEF CallOK
    <3>2. CASE step[g] \notin InCall
      BY <1>7, <2>3, <3>2 DEF CallOK, InCall
    <3> QED
      BY <3>1, <3>2
  <2> QED
    BY <2>2, <2>3
<1>14. CallersWait'
  <2> SUFFICES ASSUME NEW n \in Messages, msg'[n].kind \in CallKinds, ~msg'[n].freed
               PROVE  LET g == msg'[n].caller IN
                      g \in Messages /\ call'[g] = n /\ step'[g] \in InCall
    BY DEF CallersWait
  <2>1. CASE n = m
    BY <1>1, <1>6, <1>7, <2>1 DEF InCall
  <2>2. CASE n # m
    <3>1. msg'[n] = msg[n]
      BY <1>7, <2>2
    <3>2. /\ msg[n].caller \in Messages /\ call[msg[n].caller] = n
          /\ step[msg[n].caller] \in InCall
      BY <3>1, CallerFacts
    <3>3. msg[n].caller # f
      BY <1>1, <3>2 DEF InCall
    <3> QED
      BY <1>7, <3>1, <3>2, <3>3, SMTT(30)
  <2> QED
    BY <2>1, <2>2
<1>15. PendingOK'
  <2> SUFFICES ASSUME NEW q \in Reactors, NEW n \in Pending(q)
               PROVE  /\ ~msg'[n].freed
                      /\ IF msg'[n].is_return THEN AnswerOK(q, n)' ELSE NewOK(q, n)'
    BY <1>10 DEF PendingOK
  <2>1. /\ n \in Messages /\ ~msg[n].freed
        /\ msg[n].is_return => AnswerOK(q, n)
        /\ ~msg[n].is_return => NewOK(q, n)
    BY PendingFacts
  <2>2. n # m
    BY <1>3, <2>1 DEF AnswerOK, NewOK, CallKinds, PoolKinds, FiberKinds
  <2>3. msg'[n] = msg[n]
    BY <1>7, <2>1, <2>2
  <2>4. ASSUME NewOK(q, n) PROVE NewOK(q, n)'
    BY <1>1, <1>7, <2>1, <2>2, <2>3, <2>4 DEF NewOK
  <2>5. ASSUME AnswerOK(q, n) PROVE AnswerOK(q, n)'
    <3>1. msg[n].kind \in CallKinds => msg[n].caller \in Messages
      BY <2>1, CallerFacts
    <3> QED
      BY <1>1, <1>7, <2>1, <2>3, <2>5, <3>1 DEF AnswerOK
  <2> QED
    BY <2>1, <2>3, <2>4, <2>5
<1> QED
  BY <1>7, <1>9, <1>10, <1>11, <1>12, <1>13, <1>14, <1>15 DEF IInv, FiberInv

\* Calling another reactor keeps the invariant ...
LEMMA CallInv ==
  ASSUME SetFacts, IInv, NEW r \in Reactors, NEW f, NEW cpu \in Reactors,
         run_at(r, f, cpu) \/ run_at_async(r, f, cpu)
  PROVE  IInv'
<1>1. PICK kind \in FiberKinds : Runs(r, f, "run") /\ NewMessage(r, f, kind, cpu, "submit")
  BY DEF run_at, run_at_async, FiberKinds
<1> QED
  BY <1>1, NewMessageInv

\* ... and so does calling the pool.
LEMMA PoolCallInv ==
  ASSUME SetFacts, IInv, NEW r \in Reactors, NEW f, NEW kind \in PoolKinds,
         run_in_thread_pool(r, f, kind)
  PROVE  IInv'
<1>1. Runs(r, f, "run") /\ NewMessage(r, f, kind, r, "try_run")
  BY DEF run_in_thread_pool
<1> QED
  BY <1>1, NewMessageInv

\* Putting the message of a call into the inbox keeps the invariant.
LEMMA SubmitInv == ASSUME IInv, NEW r \in Reactors, NEW f, Submit(r, f) PROVE IInv'
<1> DEFINE m == call[f]
           s == IF msg[call[f]].kind = "one_way" THEN "run" ELSE "suspend"
<1>1. /\ f \in Messages /\ active[r] = f /\ step[f] = "submit" /\ CallOK(f)
      /\ dest[f] \in Reactors
  BY RunsFacts, FiberFacts, SMTT(30) DEF Submit
<1>2. /\ step' = [step EXCEPT ![f] = s] /\ submit_to(dest[f], m)
      /\ UNCHANGED <<msg, dest, call, yielded, schedVars, poolVars, workerVars>>
  BY DEF Submit
<1>3. /\ m \in Messages /\ msg[m].caller = f /\ ~msg[m].freed
      /\ msg[m].cpu = msg[f].to /\ msg[m].kind \in FiberKinds
      /\ msg[m].to = dest[f] /\ step[m] = "none"
  BY <1>1 DEF CallOK, InCall
<1>4. ~msg[m].is_return /\ m # f
  BY <1>1, <1>3, FiberFacts DEF MessageOK
<1>5. \A q \in Reactors : m \notin Pending(q)
  BY <1>1, <1>4, PendingFacts, SMTT(30) DEF NewOK
<1>6. /\ InboxInv'
      /\ \A q \in Reactors : Pending(q)' \subseteq Pending(q) \cup {m}
      /\ \A q \in Reactors \ {dest[f]} : Pending(q)' = Pending(q)
  BY <1>1, <1>2, <1>3, <1>5, AppendPending DEF IInv
<1>7. \/ s = "run" /\ msg[m].kind = "one_way"
      \/ s = "suspend" /\ msg[m].kind = "fiber"
  BY <1>3 DEF FiberKinds
<1> HIDE DEF s
<1>8. /\ step'[f] = s /\ \A g \in Messages \ {f} : step'[g] = step[g]
      /\ step' \in [Messages -> FiberSteps] /\ wpc' = wpc
  BY <1>1, <1>2, <1>7, FiberFacts DEF FiberSteps, workerVars
<1>9. ToKept /\ PoolKept
  BY <1>2 DEF ToKept, PoolKept
<1>10. QueueInv'
  BY <1>1, <1>2, <1>7, <1>9, KeepQueue DEF Runnable
<1>11. PoolInv'
  BY <1>2, <1>9, SamePool
<1>12. FiberTypes'
  BY <1>2, <1>8, FiberFacts DEF FiberTypes
<1>13. MessagesOK'
  <2> SUFFICES ASSUME NEW n \in Messages PROVE MessageOK(n)'
    BY DEF MessagesOK
  <2>1. MessageOK(n)
    BY FiberFacts
  <2> QED
    BY <1>1, <1>2, <1>7, <1>8, <2>1 DEF MessageOK
<1>14. CallsOK'
  <2> SUFFICES ASSUME NEW g \in Messages PROVE CallOK(g)'
    BY DEF CallsOK
  <2>1. CallOK(g)
    BY FiberFacts
  <2>2. CASE g = f
    BY <1>2, <1>3, <1>7, <1>8, <2>2 DEF CallOK, CallKinds
  <2>3. CASE g # f
    BY <1>1, <1>2, <1>8, <2>1, <2>3 DEF CallOK, InCall
  <2> QED
    BY <2>2, <2>3
<1>15. CallersWait'
  <2> SUFFICES ASSUME NEW n \in Messages, msg[n].kind \in CallKinds, ~msg[n].freed
               PROVE  LET g == msg[n].caller IN
                      g \in Messages /\ call[g] = n /\ step'[g] \in InCall
    BY <1>2 DEF CallersWait
  <2>1. /\ msg[n].caller \in Messages /\ call[msg[n].caller] = n
        /\ step[msg[n].caller] \in InCall
    BY CallerFacts
  <2> QED
    BY <1>7, <1>8, <2>1 DEF InCall, CallKinds
<1>16. PendingOK'
  <2> SUFFICES ASSUME NEW q \in Reactors, NEW n \in Pending(q)'
               PROVE  /\ ~msg[n].freed
                      /\ IF msg[n].is_return THEN AnswerOK(q, n)' ELSE NewOK(q, n)'
    BY <1>2 DEF PendingOK
  <2>1. CASE n = m
    <3>1. q = dest[f]
      BY <1>5, <1>6, <2>1
    <3>2. ASSUME NEW g \in Messages, call[g] = m PROVE step'[g] # "submit"
      <4>1. CallOK(g)
        BY FiberFacts
      <4> QED
        BY <1>3, <1>7, <1>8, <3>2, <4>1 DEF CallOK, InCall
    <3>3. NewOK(q, n)'
      BY <1>2, <1>3, <1>4, <1>8, <2>1, <3>1, <3>2 DEF NewOK
    <3> QED
      BY <1>3, <1>4, <2>1, <3>3
  <2>2. CASE n # m
    <3>1. n \in Pending(q)
      BY <1>6, <2>2
    <3>2. /\ n \in Messages /\ ~msg[n].freed
          /\ msg[n].is_return => AnswerOK(q, n)
          /\ ~msg[n].is_return => NewOK(q, n)
      BY <3>1, PendingFacts
    <3>3. ASSUME NewOK(q, n) PROVE NewOK(q, n)'
      BY <1>1, <1>2, <1>7, <1>8, <3>2, <3>3 DEF NewOK
    <3>4. ASSUME AnswerOK(q, n) PROVE AnswerOK(q, n)'
      <4>1. msg[n].kind \in CallKinds => msg[n].caller \in Messages
        BY <3>2, CallerFacts
      <4> QED
        BY <1>1, <1>2, <1>8, <3>2, <3>4, <4>1 DEF AnswerOK
    <3> QED
      BY <3>2, <3>3, <3>4
  <2> QED
    BY <2>1, <2>2
<1> QED
  BY <1>6, <1>10, <1>11, <1>12, <1>13, <1>14, <1>15, <1>16 DEF IInv, FiberInv

\* Running the task of a message in its fiber keeps the invariant.
LEMMA ProcessInv == ASSUME IInv, NEW r \in Reactors, NEW f, Process(r, f) PROVE IInv'
<1>1. /\ f \in Messages /\ active[r] = f /\ step[f] = "run" /\ msg[f].to = r
      /\ MessageOK(f)
  BY RunsFacts, SMTT(30) DEF Process
<1>2. /\ msg' = [[msg EXCEPT ![f].is_return = TRUE, ![f].runs = @ + 1]
                    EXCEPT ![f].freed = (msg[f].kind = "one_way")]
      /\ call' = [call EXCEPT ![f] = NoMessage] /\ dest' = [dest EXCEPT ![f] = 0]
      /\ UNCHANGED <<yielded, inboxVars, poolVars, workerVars>>
  BY DEF Process, Processed
<1>3. /\ msg[f].kind \in FiberKinds /\ ~msg[f].is_return /\ ~msg[f].freed /\ msg[f].runs = 0
  BY <1>1 DEF MessageOK
<1>4. PICK s : /\ step' = [step EXCEPT ![f] = s]
               /\ s = IF msg[f].kind = "one_way" THEN "done" ELSE "reply"
  BY DEF Process
<1>5. 0 \in Reactors
  BY CpuNumFacts, SMTT(30) DEF Reactors
<1>6. /\ \A n \in Messages \ {f} : msg'[n] = msg[n]
      /\ msg'[f].kind = msg[f].kind /\ msg'[f].to = msg[f].to /\ msg'[f].cpu = msg[f].cpu
      /\ msg'[f].caller = msg[f].caller /\ msg'[f].is_return = TRUE
      /\ msg'[f].data = msg[f].data /\ msg'[f].runs = msg[f].runs + 1
      /\ msg[f].kind # "one_way" => ~msg'[f].freed
      /\ msg' \in [Messages -> MessageRecord]
  BY <1>1, <1>2, FiberFacts, DataType, SMTT(30) DEF MessageRecord
<1>7. /\ call'[f] = NoMessage /\ \A g \in Messages \ {f} : call'[g] = call[g]
      /\ dest'[f] = 0 /\ \A g \in Messages \ {f} : dest'[g] = dest[g]
      /\ step'[f] = s /\ \A g \in Messages \ {f} : step'[g] = step[g]
      /\ wpc' = wpc
  BY <1>1, <1>2, <1>4, FiberFacts DEF workerVars
<1>8. FiberTypes'
  BY <1>1, <1>2, <1>4, <1>5, <1>6, FiberFacts DEF FiberTypes, FiberSteps
<1>9. ToKept /\ PoolKept
  BY <1>3, <1>6 DEF ToKept, PoolKept, FiberKinds, PoolKinds
<1>10. QueueInv'
  <2>1. CASE msg[f].kind = "one_way"
    BY <1>1, <1>4, <1>9, <2>1, LeaveQueue DEF Process, Exclusive
  <2>2. CASE msg[f].kind # "one_way"
    BY <1>1, <1>4, <1>9, <2>2, KeepQueue DEF Process, Runnable
  <2> QED
    BY <2>1, <2>2
<1>11. InboxInv' /\ \A q \in Reactors : Pending(q)' = Pending(q)
  BY <1>2, SamePending DEF IInv
<1>12. PoolInv'
  BY <1>2, <1>9, SamePool
<1>13. MessagesOK'
  <2> SUFFICES ASSUME NEW n \in Messages PROVE MessageOK(n)'
    BY DEF MessagesOK
  <2>1. CASE n = f
    <3>1. msg'[f].runs = 1 /\ msg'[f].is_return /\ msg'[f].kind \in FiberKinds
      BY <1>3, <1>6, SMTT(30)
    <3>2. msg'[f].kind \notin PoolKinds
      BY <3>1 DEF FiberKinds, PoolKinds
    <3>3. step'[f] = "reply" => msg'[f].kind = "fiber" /\ ~msg'[f].freed
      BY <1>3, <1>4, <1>6, <1>7, SMTT(30) DEF FiberKinds
    <3>4. step'[f] \in {"done", "reply"}
      BY <1>4, <1>7
    <3> QED
      BY <2>1, <3>1, <3>2, <3>3, <3>4 DEF MessageOK
  <2>2. CASE n # f
    BY <1>6, <1>7, <2>2, FiberFacts, SMTT(30) DEF MessageOK
  <2> QED
    BY <2>1, <2>2
<1>14. CallsOK'
  <2> SUFFICES ASSUME NEW g \in Messages PROVE CallOK(g)'
    BY DEF CallsOK
  <2>1. CASE g = f
    BY <1>4, <1>7, <2>1, SMTT(30) DEF CallOK, InCall
  <2>2. CASE g # f
    <3>1. CallOK(g) /\ step'[g] = step[g] /\ call'[g] = call[g] /\ dest'[g] = dest[g]
      BY <1>7, <2>2, FiberFacts
    <3>2. CASE step[g] \notin InCall
      BY <3>1, <3>2 DEF CallOK, InCall
    <3>3. CASE step[g] \in InCall /\ call[g] # f
      <4>1. call[g] \in Messages
        BY <3>1, <3>3 DEF CallOK
      <4>2. msg'[call[g]] = msg[call[g]] /\ step'[call[g]] = step[call[g]] /\ msg'[g] = msg[g]
        BY <1>6, <1>7, <2>2, <3>3, <4>1
      <4> QED
        BY <1>7, <3>1, <4>2 DEF CallOK
    <3>4. CASE step[g] \in InCall /\ call[g] = f
      <4>1. step[g] \in {"suspend", "suspended"} /\ msg[f].kind \in CallKinds
        BY <1>1, <1>3, <3>1, <3>4
           DEF CallOK, InCall, FiberKinds, PoolKinds, CallKinds
      <4>2. msg'[g] = msg[g] /\ ~msg'[f].freed
        BY <1>6, <2>2, <4>1 DEF CallKinds
      <4> QED
        BY <1>6, <3>1, <3>4, <4>1, <4>2 DEF CallOK, InCall
    <3> QED
      BY <3>2, <3>3, <3>4
  <2> QED
    BY <2>1, <2>2
<1>15. CallersWait'
  <2> SUFFICES ASSUME NEW n \in Messages, msg'[n].kind \in CallKinds, ~msg'[n].freed
               PROVE  LET g == msg'[n].caller IN
                      g \in Messages /\ call'[g] = n /\ step'[g] \in InCall
    BY DEF CallersWait
  <2>1. msg'[n].kind = msg[n].kind /\ msg'[n].caller = msg[n].caller /\ ~msg[n].freed
    BY <1>3, <1>6
  <2>2. /\ msg[n].caller \in Messages /\ call[msg[n].caller] = n
        /\ step[msg[n].caller] \in InCall
    BY <2>1, CallerFacts
  <2>3. msg[n].caller # f
    BY <1>1, <2>2 DEF InCall
  <2> QED
    BY <1>7, <2>1, <2>2, <2>3
<1>16. PendingOK'
  <2> SUFFICES ASSUME NEW q \in Reactors, NEW n \in Pending(q)
               PROVE  /\ ~msg'[n].freed
                      /\ IF msg'[n].is_return THEN AnswerOK(q, n)' ELSE NewOK(q, n)'
    BY <1>11 DEF PendingOK
  <2>1. /\ n \in Messages /\ ~msg[n].freed
        /\ msg[n].is_return => AnswerOK(q, n)
        /\ ~msg[n].is_return => NewOK(q, n)
    BY PendingFacts
  <2>2. n # f
    BY <1>1, <1>3, <2>1 DEF NewOK
  <2>3. msg'[n] = msg[n]
    BY <1>6, <2>1, <2>2
  <2>4. ASSUME NewOK(q, n) PROVE NewOK(q, n)'
    BY <1>4, <1>7, <2>1, <2>2, <2>3, <2>4, SMTT(30) DEF NewOK
  <2>5. ASSUME AnswerOK(q, n) PROVE AnswerOK(q, n)'
    <3>1. msg[n].kind \in CallKinds => msg[n].caller \in Messages
      BY <2>1, CallerFacts
    <3> QED
      BY <1>1, <1>7, <2>1, <2>2, <2>3, <2>5, <3>1, SMTT(30) DEF AnswerOK
  <2> QED
    BY <2>1, <2>3, <2>4, <2>5
<1> QED
  BY <1>8, <1>10, <1>11, <1>12, <1>13, <1>14, <1>15, <1>16 DEF IInv, FiberInv

\* Sending the answer back keeps the invariant.
LEMMA ReplyInv == ASSUME IInv, NEW r \in Reactors, NEW f, Reply(r, f) PROVE IInv'
<1>1. /\ f \in Messages /\ active[r] = f /\ step[f] = "reply" /\ MessageOK(f)
      /\ msg[f].cpu \in Reactors
  BY RunsFacts, DataType, SMTT(30) DEF Reply
<1>2. /\ step' = [step EXCEPT ![f] = "done"] /\ submit_to(msg[f].cpu, f) /\ Switch(r, ready[r])
      /\ UNCHANGED <<msg, dest, call, yielded, poolVars, workerVars>>
  BY DEF Reply, ReplyTo
<1>3. msg[f].kind = "fiber" /\ msg[f].is_return /\ ~msg[f].freed
  BY <1>1 DEF MessageOK
<1>4. \A q \in Reactors : f \notin Pending(q)
  BY <1>1, <1>3, PendingFacts, SMTT(30) DEF AnswerOK
<1>5. /\ InboxInv'
      /\ \A q \in Reactors : Pending(q)' \subseteq Pending(q) \cup {f}
      /\ \A q \in Reactors \ {msg[f].cpu} : Pending(q)' = Pending(q)
  BY <1>1, <1>2, <1>4, AppendPending, SMTT(30) DEF IInv
<1>6. /\ step'[f] = "done" /\ \A g \in Messages \ {f} : step'[g] = step[g]
      /\ step' \in [Messages -> FiberSteps] /\ wpc' = wpc
  BY <1>1, <1>2, FiberFacts DEF FiberSteps, workerVars
<1>7. ToKept /\ PoolKept
  BY <1>2 DEF ToKept, PoolKept
<1>8. QueueInv'
  BY <1>1, <1>2, <1>7, LeaveQueue DEF Exclusive
<1>9. PoolInv'
  BY <1>2, <1>7, SamePool
<1>10. FiberTypes'
  BY <1>2, <1>6, FiberFacts DEF FiberTypes
<1>11. MessagesOK'
  <2> SUFFICES ASSUME NEW n \in Messages PROVE MessageOK(n)'
    BY DEF MessagesOK
  <2>1. MessageOK(n)
    BY FiberFacts
  <2> QED
    BY <1>1, <1>2, <1>3, <1>6, <2>1 DEF MessageOK
<1>12. CallsOK'
  <2> SUFFICES ASSUME NEW g \in Messages PROVE CallOK(g)'
    BY DEF CallsOK
  <2>1. CallOK(g)
    BY FiberFacts
  <2>2. CASE g = f
    BY <1>6, <2>2 DEF CallOK, InCall
  <2>3. CASE g # f
    BY <1>1, <1>2, <1>6, <2>1, <2>3 DEF CallOK, InCall
  <2> QED
    BY <2>2, <2>3
<1>13. CallersWait'
  <2> SUFFICES ASSUME NEW n \in Messages, msg[n].kind \in CallKinds, ~msg[n].freed
               PROVE  LET g == msg[n].caller IN
                      g \in Messages /\ call[g] = n /\ step'[g] \in InCall
    BY <1>2 DEF CallersWait
  <2>1. /\ msg[n].caller \in Messages /\ call[msg[n].caller] = n
        /\ step[msg[n].caller] \in InCall
    BY CallerFacts
  <2> QED
    BY <1>1, <1>6, <2>1 DEF InCall
<1>14. PendingOK'
  <2> SUFFICES ASSUME NEW q \in Reactors, NEW n \in Pending(q)'
               PROVE  /\ ~msg[n].freed
                      /\ IF msg[n].is_return THEN AnswerOK(q, n)' ELSE NewOK(q, n)'
    BY <1>2 DEF PendingOK
  <2>1. CASE n = f
    <3>1. q = msg[f].cpu
      BY <1>4, <1>5, <2>1
    <3>2. /\ msg[f].caller \in Messages /\ call[msg[f].caller] = f
          /\ step[msg[f].caller] \in InCall
      BY <1>1, <1>3, CallerFacts DEF CallKinds
    <3>3. step[msg[f].caller] \in {"suspend", "suspended"}
      <4>1. CallOK(msg[f].caller)
        BY <3>2, FiberFacts
      <4> QED
        BY <1>1, <1>3, <3>2, <4>1 DEF CallOK, InCall, PoolKinds
    <3>4. AnswerOK(q, n)'
      BY <1>1, <1>2, <1>3, <1>6, <2>1, <3>1, <3>2, <3>3 DEF AnswerOK, CallKinds, PoolKinds
    <3> QED
      BY <1>3, <2>1, <3>4
  <2>2. CASE n # f
    <3>1. n \in Pending(q)
      BY <1>5, <2>2
    <3>2. /\ n \in Messages /\ ~msg[n].freed
          /\ msg[n].is_return => AnswerOK(q, n)
          /\ ~msg[n].is_return => NewOK(q, n)
      BY <3>1, PendingFacts
    <3>3. ASSUME NewOK(q, n) PROVE NewOK(q, n)'
      BY <1>1, <1>2, <1>6, <2>2, <3>2, <3>3 DEF NewOK
    <3>4. ASSUME AnswerOK(q, n) PROVE AnswerOK(q, n)'
      <4>1. msg[n].kind \in CallKinds => msg[n].caller \in Messages
        BY <3>2, CallerFacts
      <4> QED
        BY <1>1, <1>2, <1>6, <2>2, <3>2, <3>4, <4>1 DEF AnswerOK
    <3> QED
      BY <3>2, <3>3, <3>4
  <2> QED
    BY <2>1, <2>2
<1> QED
  BY <1>5, <1>8, <1>9, <1>10, <1>11, <1>12, <1>13, <1>14 DEF IInv, FiberInv

\* Taking a new message from the inbox and starting its fiber keeps the invariant.
LEMMA DispatchInv == ASSUME IInv, NEW r \in Reactors, dispatch(r) PROVE IInv'
<1> DEFINE m == Received(r)
<1>1. /\ active[r] = EventLoop /\ taken[r] < batch[r] /\ Take(r) /\ m # Stop
      /\ ~msg[m].is_return
      /\ step' = [step EXCEPT ![m] = "run"] /\ active' = [active EXCEPT ![r] = m]
      /\ ready' = [ready EXCEPT ![r] = Append(@, EventLoop)]
      /\ UNCHANGED <<msg, dest, call, yielded, poolVars, workerVars>>
  BY DEF dispatch, Receives, LoopRuns
<1>2. /\ InboxInv' /\ m \in Pending(r) /\ m \in Messages
      /\ \A q \in Reactors : Pending(q)' \subseteq Pending(q) /\ m \notin Pending(q)'
  BY <1>1, TakePending DEF IInv
<1>3. ~msg[m].freed /\ NewOK(r, m)
  BY <1>1, <1>2, PendingFacts
<1> HIDE DEF m
<1>4. /\ msg[m].kind \in FiberKinds /\ msg[m].to = r /\ step[m] = "none"
      /\ \A g \in Messages : call[g] = m => step[g] # "submit"
  BY <1>3 DEF NewOK
<1>5. /\ step'[m] = "run" /\ \A g \in Messages \ {m} : step'[g] = step[g]
      /\ step' \in [Messages -> FiberSteps] /\ wpc' = wpc
  BY <1>1, <1>2, FiberFacts DEF FiberSteps, workerVars
<1>6. ToKept /\ PoolKept
  BY <1>1 DEF ToKept, PoolKept
<1>7. QueueInv'
  BY <1>1, <1>2, <1>4, <1>6, DispatchQueue DEF FiberKinds
<1>8. PoolInv'
  BY <1>1, <1>6, SamePool
<1>9. FiberTypes'
  BY <1>1, <1>5, FiberFacts DEF FiberTypes
<1>10. MessagesOK'
  <2> SUFFICES ASSUME NEW n \in Messages PROVE MessageOK(n)'
    BY DEF MessagesOK
  <2>1. MessageOK(n)
    BY FiberFacts
  <2> QED
    BY <1>1, <1>3, <1>4, <1>5, <2>1 DEF MessageOK
<1>11. CallsOK'
  <2> SUFFICES ASSUME NEW g \in Messages PROVE CallOK(g)'
    BY DEF CallsOK
  <2>1. CallOK(g)
    BY FiberFacts
  <2>2. CASE g = m
    BY <1>5, <2>2 DEF CallOK, InCall
  <2>3. CASE g # m
    BY <1>1, <1>4, <1>5, <2>1, <2>3 DEF CallOK, InCall
  <2> QED
    BY <2>2, <2>3
<1>12. CallersWait'
  <2> SUFFICES ASSUME NEW n \in Messages, msg[n].kind \in CallKinds, ~msg[n].freed
               PROVE  LET g == msg[n].caller IN
                      g \in Messages /\ call[g] = n /\ step'[g] \in InCall
    BY <1>1 DEF CallersWait
  <2> QED
    BY <1>4, <1>5, CallerFacts DEF InCall
<1>13. PendingOK'
  <2> SUFFICES ASSUME NEW q \in Reactors, NEW n \in Pending(q)'
               PROVE  /\ ~msg[n].freed
                      /\ IF msg[n].is_return THEN AnswerOK(q, n)' ELSE NewOK(q, n)'
    BY <1>1 DEF PendingOK
  <2>1. n \in Pending(q) /\ n # m
    BY <1>2
  <2>2. /\ n \in Messages /\ ~msg[n].freed
        /\ msg[n].is_return => AnswerOK(q, n)
        /\ ~msg[n].is_return => NewOK(q, n)
    BY <2>1, PendingFacts
  <2>3. ASSUME NewOK(q, n) PROVE NewOK(q, n)'
    BY <1>1, <1>5, <2>1, <2>2, <2>3 DEF NewOK
  <2>4. ASSUME AnswerOK(q, n) PROVE AnswerOK(q, n)'
    <3>1. msg[n].kind \in CallKinds => msg[n].caller \in Messages
      BY <2>2, CallerFacts
    <3> QED
      BY <1>1, <1>4, <1>5, <2>1, <2>2, <2>4, <3>1 DEF AnswerOK
  <2> QED
    BY <2>2, <2>3, <2>4
<1> QED
  BY <1>2, <1>7, <1>8, <1>9, <1>10, <1>11, <1>12, <1>13 DEF IInv, FiberInv

\* finish() of a message that a fiber waits for: the fiber is suspended.
LEMMA FinishCallInv ==
  ASSUME IInv, NEW r \in Reactors, finish(r), msg[Received(r)].kind # "special"
  PROVE  IInv'
<1>1. /\ taken[r] < batch[r] /\ Take(r) /\ Received(r) # Stop /\ msg[Received(r)].is_return
      /\ resume(r, msg[Received(r)].caller) /\ active[r] = EventLoop
      /\ UNCHANGED <<msg, dest, call, yielded, poolVars, workerVars>>
  BY DEF finish, Receives, LoopRuns
<1>2. PICK m \in Messages : m = Received(r)
  BY <1>1, TakePending DEF IInv
<1>3. /\ InboxInv' /\ m \in Pending(r)
      /\ \A q \in Reactors : Pending(q)' \subseteq Pending(q) /\ m \notin Pending(q)'
  BY <1>1, <1>2, TakePending DEF IInv
<1>4. /\ msg[m].is_return /\ ~msg[m].freed /\ msg[m].kind \in CallKinds /\ msg[m].cpu = r
      /\ msg[m].kind = "fiber" => step[m] = "done"
      /\ msg[m].kind = "pool" => wpc[msg[m].data] # "submit"
      /\ step[msg[m].caller] \in {"suspend", "suspended"}
  BY <1>1, <1>2, <1>3, PendingFacts, SMTT(30) DEF AnswerOK, CallKinds, PoolKinds
<1>5. PICK f \in Messages : f = msg[m].caller /\ call[f] = m
  BY <1>4, CallerFacts
<1>6. msg[f].to = r
  BY <1>4, <1>5, FiberFacts, SMTT(30) DEF CallOK, InCall
<1>7. step[f] = "suspended"
  BY <1>1, <1>4, <1>5, <1>6, Zeros
     DEF IInv, QueueInv, ExclusiveActive, Exclusive
<1>8. step' = [step EXCEPT ![f] = "resumed"] /\ resume(r, f) /\ wpc' = wpc
  BY <1>1, <1>2, <1>5 DEF resume, workerVars
<1>9. /\ step'[f] = "resumed" /\ \A g \in Messages \ {f} : step'[g] = step[g]
      /\ step' \in [Messages -> FiberSteps]
  BY <1>8, FiberFacts DEF FiberSteps
<1>10. ToKept /\ PoolKept
  BY <1>1 DEF ToKept, PoolKept
<1>11. QueueInv'
  BY <1>6, <1>7, <1>8, <1>10, ResumeQueue
<1>12. PoolInv'
  BY <1>1, <1>10, SamePool
<1>13. FiberTypes'
  BY <1>1, <1>9, FiberFacts DEF FiberTypes
<1>14. MessagesOK'
  <2> SUFFICES ASSUME NEW n \in Messages PROVE MessageOK(n)'
    BY DEF MessagesOK
  <2>1. MessageOK(n)
    BY FiberFacts
  <2> QED
    BY <1>1, <1>7, <1>9, <2>1 DEF MessageOK
<1>15. CallsOK'
  <2> SUFFICES ASSUME NEW g \in Messages PROVE CallOK(g)'
    BY DEF CallsOK
  <2>1. CallOK(g)
    BY FiberFacts
  <2>2. CASE g = f
    <3>1. step'[m] = "done" \/ msg[m].kind # "fiber"
      BY <1>4, <1>7, <1>9
    <3>2. msg[m].caller = g /\ msg[m].cpu = msg[g].to
      BY <1>4, <1>5, <1>6, <2>2
    <3>3. step'[g] = "resumed" /\ call'[g] = m /\ msg' = msg /\ wpc' = wpc
      BY <1>1, <1>5, <1>8, <1>9, <2>2
    <3> QED
      BY <1>4, <3>1, <3>2, <3>3 DEF CallOK
  <2>3. CASE g # f
    BY <1>1, <1>7, <1>8, <1>9, <2>1, <2>3 DEF CallOK, InCall
  <2> QED
    BY <2>2, <2>3
<1>16. CallersWait'
  <2> SUFFICES ASSUME NEW n \in Messages, msg[n].kind \in CallKinds, ~msg[n].freed
               PROVE  LET g == msg[n].caller IN
                      g \in Messages /\ call[g] = n /\ step'[g] \in InCall
    BY <1>1 DEF CallersWait
  <2> QED
    BY <1>9, CallerFacts DEF InCall
<1>17. PendingOK'
  <2> SUFFICES ASSUME NEW q \in Reactors, NEW n \in Pending(q)'
               PROVE  /\ ~msg[n].freed
                      /\ IF msg[n].is_return THEN AnswerOK(q, n)' ELSE NewOK(q, n)'
    BY <1>1 DEF PendingOK
  <2>1. /\ n \in Messages /\ ~msg[n].freed /\ n # m
        /\ msg[n].is_return => AnswerOK(q, n)
        /\ ~msg[n].is_return => NewOK(q, n)
    BY <1>3, PendingFacts
  <2>2. ASSUME NewOK(q, n) PROVE NewOK(q, n)'
    BY <1>1, <1>7, <1>9, <2>1, <2>2 DEF NewOK
  <2>3. ASSUME AnswerOK(q, n) PROVE AnswerOK(q, n)'
    <3>1. msg[n].kind \in CallKinds => msg[n].caller \in Messages /\ msg[n].caller # f
      BY <1>5, <2>1, CallerFacts
    <3> QED
      BY <1>1, <1>7, <1>8, <1>9, <2>1, <2>3, <3>1 DEF AnswerOK
  <2> QED
    BY <2>1, <2>2, <2>3
<1> QED
  BY <1>3, <1>11, <1>12, <1>13, <1>14, <1>15, <1>16, <1>17 DEF IInv, FiberInv

-----------------------------------------------------------------------------
(* The initial state *)

\* The invariant holds when the application starts.
LEMMA InitInv == ASSUME SetFacts, Init PROVE IInv
<1>1. /\ 0 \in Reactors /\ App \in Messages /\ Reactors \subseteq Int
      /\ \A r \in Reactors : r + 1 \in Workers /\ r + 1 <= CpuNum
  BY ReactorAssumption, SMTT(30) DEF Reactors, Messages, Workers, App
<1>2. /\ msg \in [Messages -> MessageRecord]
      /\ \A m \in Messages :
            /\ msg[m].kind = (IF m = App THEN "one_way" ELSE "none")
            /\ msg[m].to = 0 /\ msg[m].cpu = 0 /\ ~msg[m].is_return /\ msg[m].data = NoWorker
            /\ msg[m].runs = 0 /\ ~msg[m].freed
  <2>1. [Unused EXCEPT !.kind = "one_way"] \in MessageRecord /\ Unused \in MessageRecord
    BY <1>1 DEF Unused, MessageRecord, Kinds
  <2> QED
    BY <2>1 DEF Init, Unused
<1>3. /\ step \in [Messages -> FiberSteps] /\ dest \in [Messages -> Reactors]
      /\ call \in [Messages -> Messages \cup {NoMessage}] /\ yielded \subseteq Messages
      /\ \A m \in Messages : step[m] = "none" /\ call[m] = NoMessage
  BY <1>1 DEF Init, FiberSteps
<1>4. FiberInv
  <2>1. FiberTypes
    BY <1>2, <1>3 DEF FiberTypes
  <2>2. MessagesOK
    BY <1>2, <1>3 DEF MessagesOK, MessageOK, PoolKinds
  <2>3. CallsOK
    BY <1>3 DEF CallsOK, CallOK, InCall
  <2>4. CallersWait
    BY <1>2 DEF CallersWait, CallKinds
  <2> QED
    BY <2>1, <2>2, <2>3, <2>4 DEF FiberInv
<1>5. <<>> \in Seq(Messages \cup {EventLoop}) /\ Range(<<>>) = {} /\ IsInjective(<<>>)
  BY SMTT(30) DEF Range, IsInjective
<1>6. QueueInv
  <2>1. \A r \in Reactors : active[r] = EventLoop /\ ready[r] = <<>>
    BY DEF Init
  <2>2. SchedTypes
    BY <1>5 DEF Init, SchedTypes
  <2>3. QueuedOnce /\ QueuedRun
    BY <1>5, <2>1 DEF QueuedOnce, QueuedRun, Queued
  <2>4. ExclusiveActive
    BY <1>3 DEF ExclusiveActive, Exclusive
  <2> QED
    BY <2>2, <2>3, <2>4 DEF QueueInv
<1>7. \A r \in Reactors : /\ inbox[r] = (IF r = 0 THEN <<App>> ELSE <<>>)
                          /\ taken[r] = 0 /\ batch[r] = 0
  BY DEF Init
<1>8. /\ \A r \in Reactors : Places(r) = (IF r = 0 THEN {1} ELSE {})
      /\ \A r \in Reactors : Pending(r) \subseteq (IF r = 0 THEN {App} ELSE {})
  <2>1. Len(<<App>>) = 1 /\ <<App>>[1] = App /\ Len(<<>>) = 0
    OBVIOUS
  <2>2. 0 + 1..1 = {1} /\ 0 + 1..0 = {}
    BY SMTT(30)
  <2> QED
    BY <1>7, <2>1, <2>2, SMTT(30) DEF Places, Pending
<1>9. InboxInv
  <2>1. InboxTypes
    <3>1. <<App>> \in Seq(Messages \cup {Stop}) /\ <<>> \in Seq(Messages \cup {Stop})
      BY <1>1, SMTT(30)
    <3>2. 0 \in Nat
      OBVIOUS
    <3> QED
      BY <3>1, <3>2 DEF Init, InboxTypes
  <2>2. InboxBounds
    <3> SUFFICES ASSUME NEW r \in Reactors
                 PROVE  taken[r] <= batch[r] /\ batch[r] <= Len(inbox[r]) /\ Len(inbox[r]) <= Capacity
      BY DEF InboxBounds
    <3>1. Len(<<App>>) = 1 /\ Len(<<>>) = 0
      OBVIOUS
    <3>2. PICK n \in {0, 1} : Len(inbox[r]) = n
      BY <1>7, <3>1
    <3>3. taken[r] = 0 /\ batch[r] = 0
      BY <1>7
    <3>4. n <= Capacity /\ 0 <= n /\ 0 <= 0
      BY ReactorAssumption, SMTT(30)
    <3> QED
      BY <3>2, <3>3, <3>4
  <2>3. PendingOnce
    BY <1>8 DEF PendingOnce
  <2> QED
    BY <2>1, <2>2, <2>3 DEF InboxInv
<1>10. PendingOK
  BY <1>1, <1>2, <1>3, <1>8 DEF PendingOK, NewOK, FiberKinds
<1>11. /\ \A r \in Reactors : /\ free[r] = <<r + 1>> /\ busy[r] = {} /\ joining[r] = NoWorker
                              /\ Range(free[r]) = {r + 1} /\ Owned(r) = {r + 1}
       /\ \A w \in Workers : /\ wpc[w] = (IF w <= CpuNum THEN "idle" ELSE "none")
                             /\ ~wready[w] /\ ~wstop[w]
  <2>1. ASSUME NEW x PROVE Range(<<x>>) = {x}
    BY SMTT(30) DEF Range
  <2>2. /\ \A r \in Reactors : free[r] = <<r + 1>> /\ busy[r] = {} /\ joining[r] = NoWorker
        /\ \A w \in Workers : /\ wpc[w] = (IF w <= CpuNum THEN "idle" ELSE "none")
                              /\ ~wready[w] /\ ~wstop[w]
    BY DEF Init
  <2>3. \A r \in Reactors : Range(free[r]) = {r + 1}
    BY <2>1, <2>2
  <2> QED
    BY <2>2, <2>3 DEF Owned
<1>12. PoolTypes
  BY <1>1, SMTT(30) DEF Init, PoolTypes
<1>13. OwnedOnce
  <2>1. Cardinality({}) = 0
    BY DEF SetFacts
  <2>2. \A r, q \in Reactors : r # q => r + 1 # q + 1
    BY <1>1, SMTT(30)
  <2>3. \A r \in Reactors : Len(free[r]) <= min_size /\ Cardinality(busy[r]) <= max_size
    <3> SUFFICES ASSUME NEW r \in Reactors
                 PROVE  Len(free[r]) <= min_size /\ Cardinality(busy[r]) <= max_size
      OBVIOUS
    <3>1. free[r] = <<r + 1>> /\ Cardinality(busy[r]) = 0
      BY <1>11, <2>1
    <3>2. Len(<<r + 1>>) = 1
      OBVIOUS
    <3> QED
      BY <3>1, <3>2, ReactorAssumption, SMTT(30) DEF min_size
  <2> QED
    BY <1>11, <2>2, <2>3 DEF OwnedOnce
<1>14. OwnersOK
  <2> SUFFICES ASSUME NEW r \in Reactors, NEW w \in Workers PROVE OwnerOK(r, w)
    BY DEF OwnersOK
  <2>1. w = r + 1 => wpc[w] = "idle"
    BY <1>1, <1>11
  <2> QED
    BY <1>11, <2>1, Zeros DEF OwnerOK
<1>15. WorkersOK
  BY <1>11 DEF WorkersOK, WorkerOK
<1>16. HandedOnce /\ HandedOK
  BY <1>2 DEF HandedOnce, HandedOK, HandedOver
<1> QED
  BY <1>4, <1>6, <1>9, <1>10, <1>12, <1>13, <1>14, <1>15, <1>16 DEF IInv, PoolInv

====
