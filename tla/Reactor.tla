---- MODULE Reactor ----
(***************************************************************************)
(* The reactors: one event loop per thread that turns the messages of its  *)
(* inbox into fibers, calls from a fiber to another reactor (run_at,       *)
(* run_at_async) or to a pool of blocking threads (run_in_thread_pool),    *)
(* their answers, and the shutdown of the application.                     *)
(*                                                                         *)
(* An inbox is the FIFO queue that MPSCQueue implements: places become     *)
(* free at the end of a batch, and a sender spins while there is none.     *)
(* A fiber is named by the message it was started for.  What a thread does *)
(* between two points where another thread can see it is one step.         *)
(***************************************************************************)
EXTENDS Integers, Sequences, FiniteSets, FiniteSetsExt
CONSTANTS CpuNum,       \* number of reactors; reactor 0 runs on the main thread
          WorkerNum,    \* bound: threads of the pools
          MaxMessages,  \* bound: messages (and yields) of one behaviour
          Capacity,     \* places of an inbox
          max_size,     \* busy threads a pool allows
          MaxCalls      \* bound: messages of each kind that the fibers of a
                        \* reactor send
VARIABLES msg,                        \* the messages
          step, dest, call,           \* of each fiber: where it is, the reactor
                                      \* and the message of its current call
          yielded,                    \* history: the fibers that have yielded
          inbox, taken, batch,        \* of each reactor: the queue, how many of
                                      \* the batch it has handled, its length
          loop, running,              \* of each reactor: its event loop
          active, ready,              \* of each reactor: the scheduler
          free, busy, pool_stopped,   \* of each reactor: the thread pool
          joining,                    \* of each reactor: the worker it joins
          wpc, task, wready, wstop    \* of each worker thread
fiberVars == <<msg, step, dest, call, yielded>>
inboxVars == <<inbox, taken, batch>>
loopVars == <<loop, running>>
schedVars == <<active, ready>>
poolVars == <<free, busy, pool_stopped, joining>>
workerVars == <<wpc, task, wready, wstop>>
vars == <<fiberVars, inboxVars, loopVars, schedVars, poolVars, workerVars>>

Reactors == 0..CpuNum - 1
Workers == 1..WorkerNum
Messages == 1..MaxMessages
NoWorker == 0
NoMessage == 0
EventLoop == 0      \* the main fiber and, after the loop, the dispatcher
Stop == 0           \* in an inbox: a message of Application::shutdown
min_size == 1       \* Reactor's constructor

ASSUME ReactorAssumption ==
    /\ CpuNum \in Nat \ {0} /\ WorkerNum \in Nat /\ WorkerNum >= CpuNum
    /\ MaxMessages \in Nat \ {0} /\ Capacity \in Nat \ {0} /\ max_size \in Nat \ {0}
    /\ MaxCalls \in [Reactors -> [{"fiber", "one_way", "pool", "special"} -> Nat]]

\* contexts_ is never changed, so contexts() is always 0.
contexts == 0
DEFAULT_CONTEXTS == 2

\* Application::run has sent its message; each pool has its first thread.
Unused == [kind |-> "none", to |-> 0, cpu |-> 0, caller |-> NoMessage,
           is_return |-> FALSE, data |-> NoWorker, runs |-> 0, freed |-> FALSE]
App == 1
Init ==
    /\ msg = [m \in Messages |->
                IF m = App THEN [Unused EXCEPT !.kind = "one_way"] ELSE Unused]
    /\ step = [m \in Messages |-> "none"]
    /\ dest = [m \in Messages |-> 0]
    /\ call = [m \in Messages |-> NoMessage]
    /\ yielded = {}
    /\ inbox = [r \in Reactors |-> IF r = 0 THEN <<App>> ELSE <<>>]
    /\ taken = [r \in Reactors |-> 0]
    /\ batch = [r \in Reactors |-> 0]
    /\ loop = [r \in Reactors |-> "check"]
    /\ running = [r \in Reactors |-> TRUE]
    /\ active = [r \in Reactors |-> EventLoop]
    /\ ready = [r \in Reactors |-> <<>>]
    /\ free = [r \in Reactors |-> <<r + 1>>]
    /\ busy = [r \in Reactors |-> {}]
    /\ pool_stopped = [r \in Reactors |-> FALSE]
    /\ joining = [r \in Reactors |-> NoWorker]
    /\ wpc = [w \in Workers |-> IF w <= CpuNum THEN "idle" ELSE "none"]
    /\ task = [w \in Workers |-> NoMessage]
    /\ wready = [w \in Workers |-> FALSE]
    /\ wstop = [w \in Workers |-> FALSE]

(***************************************************************************)
(* The scheduler of a reactor's thread, and the inboxes                    *)
(***************************************************************************)

\* pick_next: the first ready fiber.  Only after the loop can there be none.
Switch(r, queue) ==
    /\ active' = [active EXCEPT ![r] = IF queue = <<>> THEN EventLoop ELSE Head(queue)]
    /\ ready' = [ready EXCEPT ![r] = IF queue = <<>> THEN <<>> ELSE Tail(queue)]

\* process() of a message: it runs the task and becomes an answer.
MutProcessed(m) == [msg EXCEPT ![m].runs = @ + 1]
Processed(m) == [msg EXCEPT ![m].is_return = TRUE, ![m].runs = @ + 1]

\* An answer goes back to the reactor that made the message.
MutReplyTo(m) == msg[m].to
ReplyTo(m) == msg[m].cpu

\* submit_to returns once there is a place in the inbox.
submit_to(cpu, m) ==
    /\ Len(inbox[cpu]) < Capacity
    /\ inbox' = [inbox EXCEPT ![cpu] = Append(@, m)]
    /\ UNCHANGED <<taken, batch>>

\* The fiber f runs on reactor r, and its thread is not waiting for a worker.
Runs(r, f, at) == /\ active[r] = f /\ f \in Messages /\ step[f] = at
                  /\ joining[r] = NoWorker
LoopRuns(r, at) == active[r] = EventLoop /\ loop[r] = at /\ joining[r] = NoWorker

Unsent == {m \in Messages : msg[m].kind = "none"}
MayGoOn == Cardinality(Unsent) > Cardinality(yielded)       \* the bound MaxMessages

(***************************************************************************)
(* Calls of a fiber                                                        *)
(***************************************************************************)

\* A message is made on the heap or in the frame of the calling fiber.
NewMessage(r, f, kind, cpu, at) ==
    /\ MayGoOn
    /\ Cardinality({m \in Messages \ {App} : msg[m].kind = kind /\ msg[m].cpu = r})
         < MaxCalls[r][kind]
    /\ LET m == Min(Unsent) IN
         /\ msg' = [msg EXCEPT ![m] = [Unused EXCEPT !.kind = kind, !.to = cpu,
                                                     !.cpu = r, !.caller = f]]
         /\ call' = [call EXCEPT ![f] = m]
    /\ dest' = [dest EXCEPT ![f] = cpu]
    /\ step' = [step EXCEPT ![f] = at]
    /\ UNCHANGED <<yielded, inboxVars, loopVars, schedVars, poolVars, workerVars>>

\* run_at and run_at_v to another reactor; to its own they only call the task.
run_at(r, f, cpu) ==
    /\ Runs(r, f, "run") /\ cpu # r
    /\ NewMessage(r, f, "fiber", cpu, "submit")

run_at_async(r, f, cpu) ==
    /\ Runs(r, f, "run") /\ cpu # r
    /\ NewMessage(r, f, "one_way", cpu, "submit")

Submit(r, f) ==
    /\ Runs(r, f, "submit")
    /\ submit_to(dest[f], call[f])
    /\ step' = [step EXCEPT ![f] = IF msg[call[f]].kind = "one_way" THEN "run" ELSE "suspend"]
    /\ UNCHANGED <<msg, dest, call, yielded, loopVars, schedVars, poolVars, workerVars>>

\* Scheduler::suspend
suspend(r, f) ==
    /\ Runs(r, f, "suspend")
    /\ step' = [step EXCEPT ![f] = "suspended"]
    /\ Switch(r, ready[r])
    /\ UNCHANGED <<msg, dest, call, yielded, inboxVars, loopVars, poolVars, workerVars>>

\* run_in_thread_pool and run_in_thread_pool_special ("special").
run_in_thread_pool(r, f, kind) ==
    /\ Runs(r, f, "run") /\ ~pool_stopped[r]
    /\ NewMessage(r, f, kind, r, "try_run")

\* Their assertion that the pool is running fails.
PoolAssertion(r, f) ==
    /\ Runs(r, f, "run") /\ pool_stopped[r]
    /\ step' = [step EXCEPT ![f] = "aborted"]
    /\ UNCHANGED <<msg, dest, call, yielded, inboxVars, loopVars, schedVars, poolVars,
                   workerVars>>

\* acquire_worker: the last free thread, or a new one.
Acquire(r) == IF free[r] # <<>> THEN free[r][Len(free[r])]
              ELSE Min({w \in Workers : wpc[w] = "none"})

MutHasRoom(r) == Cardinality(busy[r]) <= max_size
HasRoom(r) == Cardinality(busy[r]) < max_size

\* A worker's mutex is free while its thread waits or is not there.
MutMutexFree(w) == wpc[w] \in {"none", "idle", "clear", "finished"}
MutexFree(w) == wpc[w] \in {"none", "idle", "finished"}

\* The message keeps its worker, and lives on after a special call returns.
MutHandOver(m, w) == [msg EXCEPT ![m].data = w, ![m].freed = (msg[m].kind = "special")]
HandOver(m, w) == [msg EXCEPT ![m].data = w]

\* try_run gives the task to a thread.  Worker::run needs the worker's mutex,
\* and leaves a stopped worker alone.
try_run(r, f) ==
    /\ Runs(r, f, "try_run") /\ HasRoom(r)
    /\ free[r] # <<>> \/ \E w \in Workers : wpc[w] = "none"
    /\ LET w == Acquire(r) IN
         /\ MutexFree(w)
         /\ busy' = [busy EXCEPT ![r] = @ \cup {w}]
         /\ free' = [free EXCEPT ![r] = SubSeq(@, 1, Len(@) - 1)]
         /\ msg' = HandOver(call[f], w)
         /\ IF wstop[w] THEN UNCHANGED workerVars
            ELSE /\ task' = [task EXCEPT ![w] = call[f]]
                 /\ wready' = [wready EXCEPT ![w] = TRUE]
                 /\ wpc' = [wpc EXCEPT ![w] = IF @ = "none" THEN "idle" ELSE @]
                 /\ UNCHANGED wstop
    /\ step' = [step EXCEPT ![f] = IF msg[call[f]].kind = "special" THEN "run" ELSE "suspend"]
    /\ UNCHANGED <<dest, call, yielded, inboxVars, loopVars, schedVars, pool_stopped,
                   joining>>

\* The pool is at its limit: yield and try again.
try_run_fails(r, f) ==
    /\ Runs(r, f, "try_run") /\ ~HasRoom(r)
    /\ Switch(r, Append(ready[r], f))
    /\ UNCHANGED <<fiberVars, inboxVars, loopVars, poolVars, workerVars>>

\* this_fiber::yield in the code of the application, at most once for each fiber.
yield(r, f) ==
    /\ Runs(r, f, "run") /\ MayGoOn /\ f \notin yielded
    /\ yielded' = yielded \cup {f}
    /\ Switch(r, Append(ready[r], f))
    /\ UNCHANGED <<msg, step, dest, call, inboxVars, loopVars, poolVars, workerVars>>

\* An application shuts down once.
ShutdownCalled ==
    \/ \E g \in Messages : step[g] = "shutdown"
    \/ \E q \in Reactors : ~running[q] \/ \E i \in 1..Len(inbox[q]) : inbox[q][i] = Stop

\* Application::shutdown sends a message to every reactor in turn.
shutdown(r, f) ==
    /\ Runs(r, f, "run")
    /\ ~ShutdownCalled
    /\ step' = [step EXCEPT ![f] = "shutdown"]
    /\ dest' = [dest EXCEPT ![f] = 0]
    /\ UNCHANGED <<msg, call, yielded, inboxVars, loopVars, schedVars, poolVars, workerVars>>

SubmitStop(r, f) ==
    /\ Runs(r, f, "shutdown")
    /\ submit_to(dest[f], Stop)
    /\ IF dest[f] = CpuNum - 1
       THEN /\ step' = [step EXCEPT ![f] = "run"]
            /\ dest' = [dest EXCEPT ![f] = 0]
       ELSE /\ dest' = [dest EXCEPT ![f] = @ + 1]
            /\ UNCHANGED step
    /\ UNCHANGED <<msg, call, yielded, loopVars, schedVars, poolVars, workerVars>>

\* Worker::stop needs the worker's mutex, and then joins its thread.
StopWorker(r, w) ==
    /\ MutexFree(w)
    /\ wstop' = [wstop EXCEPT ![w] = TRUE]
    /\ wready' = [wready EXCEPT ![w] = TRUE]
    /\ task' = [task EXCEPT ![w] = NoMessage]
    /\ joining' = [joining EXCEPT ![r] = w]
    /\ UNCHANGED wpc

\* ThreadPool::release keeps min_size_ free threads and stops the others.
release(r, w) ==
    /\ busy' = [busy EXCEPT ![r] = @ \ {w}]
    /\ IF Len(free[r]) < min_size
       THEN /\ free' = [free EXCEPT ![r] = Append(@, w)]
            /\ UNCHANGED <<joining, workerVars>>
       ELSE /\ StopWorker(r, w)
            /\ UNCHANGED free
    /\ UNCHANGED pool_stopped

\* The join in Worker::stop returns; release then deletes the worker.
JoinWorker(r) ==
    LET w == joining[r] IN
    /\ w # NoWorker /\ wpc[w] = "finished"
    /\ joining' = [joining EXCEPT ![r] = NoWorker]
    /\ IF \E i \in 1..Len(free[r]) : free[r][i] = w THEN UNCHANGED workerVars
       ELSE /\ wpc' = [wpc EXCEPT ![w] = "none"]
            /\ wstop' = [wstop EXCEPT ![w] = FALSE]
            /\ UNCHANGED <<task, wready>>
    /\ UNCHANGED <<fiberVars, inboxVars, loopVars, schedVars, free, busy, pool_stopped>>

\* The call returns in the resumed fiber, and its message is destroyed.
Return(r, f) ==
    LET m == call[f] IN
    /\ Runs(r, f, "resumed")
    /\ step' = [step EXCEPT ![f] = "run"]
    /\ msg' = [msg EXCEPT ![m].freed = TRUE]
    /\ call' = [call EXCEPT ![f] = NoMessage]
    /\ dest' = [dest EXCEPT ![f] = 0]
    /\ IF msg[m].kind = "pool" THEN release(r, msg[m].data)
       ELSE UNCHANGED <<poolVars, workerVars>>
    /\ UNCHANGED <<yielded, inboxVars, loopVars, schedVars>>

\* The task of the fiber's own message ends: process() returns.  A one-way
\* message is finished here, and the fiber terminates.
Process(r, f) ==
    /\ Runs(r, f, "run")
    /\ msg' = [Processed(f) EXCEPT ![f].freed = (msg[f].kind = "one_way")]
    /\ IF msg[f].kind = "one_way"
       THEN /\ step' = [step EXCEPT ![f] = "done"]
            /\ Switch(r, ready[r])
       ELSE /\ step' = [step EXCEPT ![f] = "reply"]
            /\ UNCHANGED schedVars
    /\ call' = [call EXCEPT ![f] = NoMessage]
    /\ dest' = [dest EXCEPT ![f] = 0]
    /\ UNCHANGED <<yielded, inboxVars, loopVars, poolVars, workerVars>>

\* Any other message goes back to the reactor of its caller.
Reply(r, f) ==
    /\ Runs(r, f, "reply")
    /\ submit_to(ReplyTo(f), f)
    /\ step' = [step EXCEPT ![f] = "done"]
    /\ Switch(r, ready[r])
    /\ UNCHANGED <<msg, dest, call, yielded, loopVars, poolVars, workerVars>>

(***************************************************************************)
(* The event loop                                                          *)
(***************************************************************************)

Continues(r) == running[r] \/ contexts > DEFAULT_CONTEXTS

\* receive_all begins: the batch is what the inbox holds now.
receive_all(r) ==
    /\ LoopRuns(r, "check") /\ Continues(r) /\ inbox[r] # <<>>
    /\ batch' = [batch EXCEPT ![r] = Len(inbox[r])]
    /\ loop' = [loop EXCEPT ![r] = "batch"]
    /\ UNCHANGED <<running, inbox, taken, fiberVars, schedVars, poolVars, workerVars>>

\* The inbox is empty: the loop only yields.
IdleTurn(r) ==
    /\ LoopRuns(r, "check") /\ Continues(r) /\ inbox[r] = <<>>
    /\ Switch(r, Append(ready[r], EventLoop))
    /\ UNCHANGED <<fiberVars, inboxVars, loopVars, poolVars, workerVars>>

Received(r) == inbox[r][taken[r] + 1]
Receives(r) == LoopRuns(r, "batch") /\ taken[r] < batch[r]
Take(r) == /\ taken' = [taken EXCEPT ![r] = @ + 1]
           /\ UNCHANGED <<inbox, batch>>

\* Scheduler::resume
resume(r, f) ==
    /\ step' = [step EXCEPT ![f] = "resumed"]
    /\ ready' = [ready EXCEPT ![r] = Append(@, f)]
    /\ UNCHANGED active

\* process_fn on an answer: finish() resumes the fiber that made the call, or
\* for a special message runs the handler, releases the worker and deletes it.
finish(r) ==
    /\ Receives(r) /\ Received(r) # Stop /\ msg[Received(r)].is_return
    /\ Take(r)
    /\ LET m == Received(r) IN
       IF msg[m].kind = "special"
       THEN /\ msg' = [msg EXCEPT ![m].freed = TRUE]
            /\ release(r, msg[m].data)
            /\ UNCHANGED <<step, schedVars>>
       ELSE /\ resume(r, msg[m].caller)
            /\ UNCHANGED <<msg, poolVars, workerVars>>
    /\ UNCHANGED <<dest, call, yielded, loopVars>>

\* process_fn on a new message: its fiber runs at once (launch::dispatch), and
\* the loop goes on when the fibers that were ready before have had their turn.
dispatch(r) ==
    /\ Receives(r) /\ Received(r) # Stop /\ ~msg[Received(r)].is_return
    /\ Take(r)
    /\ step' = [step EXCEPT ![Received(r)] = "run"]
    /\ active' = [active EXCEPT ![r] = Received(r)]
    /\ ready' = [ready EXCEPT ![r] = Append(@, EventLoop)]
    /\ UNCHANGED <<msg, dest, call, yielded, loopVars, poolVars, workerVars>>

\* The same for the message of shutdown: its fiber calls stop() and ends.
stop(r) ==
    /\ Receives(r) /\ Received(r) = Stop
    /\ Take(r)
    /\ running' = [running EXCEPT ![r] = FALSE]
    /\ Switch(r, Append(ready[r], EventLoop))
    /\ UNCHANGED <<loop, fiberVars, poolVars, workerVars>>

\* What came after the batch.
MutRest(r) == <<>>
Rest(r) == SubSeq(inbox[r], batch[r] + 1, Len(inbox[r]))

\* The batch is finished, its places are free, and the loop yields.
FinishBatch(r) ==
    /\ LoopRuns(r, "batch") /\ taken[r] = batch[r]
    /\ inbox' = [inbox EXCEPT ![r] = Rest(r)]
    /\ taken' = [taken EXCEPT ![r] = 0]
    /\ batch' = [batch EXCEPT ![r] = 0]
    /\ loop' = [loop EXCEPT ![r] = "check"]
    /\ Switch(r, Append(ready[r], EventLoop))
    /\ UNCHANGED <<running, fiberVars, poolVars, workerVars>>

\* The loop ends, and stop_workers stops the free workers one by one.  Then the
\* thread ends, which resumes fibers until none is left; in reactor 0 it joins
\* the other threads.
stop_workers(r) ==
    /\ LoopRuns(r, "check") /\ ~Continues(r)
    /\ LET left == {i \in 1..Len(free[r]) : ~wstop[free[r][i]]} IN
       IF left # {}
       THEN /\ StopWorker(r, free[r][Min(left)])
            /\ UNCHANGED <<loop, pool_stopped>>
       ELSE /\ pool_stopped' = [pool_stopped EXCEPT ![r] = TRUE]
            /\ loop' = [loop EXCEPT ![r] = IF r = 0 THEN "join" ELSE "drain"]
            /\ UNCHANGED <<joining, workerVars>>
    /\ UNCHANGED <<running, fiberVars, inboxVars, schedVars, free, busy>>

FibersOf(r) == {f \in Messages : msg[f].to = r /\ step[f] \notin {"none", "done"}}

\* scheduler::~scheduler joins the dispatcher.
Drain(r) ==
    /\ LoopRuns(r, "drain") /\ ready[r] # <<>>
    /\ Switch(r, ready[r])
    /\ UNCHANGED <<fiberVars, inboxVars, loopVars, poolVars, workerVars>>

EndThread(r) ==
    /\ LoopRuns(r, "drain") /\ FibersOf(r) = {}
    /\ loop' = [loop EXCEPT ![r] = "ended"]
    /\ UNCHANGED <<running, fiberVars, inboxVars, schedVars, poolVars, workerVars>>

\* Application::join
join ==
    /\ LoopRuns(0, "join") /\ \A r \in Reactors \ {0} : loop[r] = "ended"
    /\ loop' = [loop EXCEPT ![0] = "ended"]
    /\ UNCHANGED <<running, fiberVars, inboxVars, schedVars, poolVars, workerVars>>

(***************************************************************************)
(* The worker threads                                                      *)
(***************************************************************************)

\* The worker wakes and processes its task, or ends.
ProcessTask(w) ==
    /\ wpc[w] = "idle" /\ wready[w]
    /\ wready' = [wready EXCEPT ![w] = FALSE]
    /\ IF wstop[w]
       THEN /\ wpc' = [wpc EXCEPT ![w] = "finished"]
            /\ UNCHANGED msg
       ELSE /\ wpc' = [wpc EXCEPT ![w] = "submit"]
            /\ msg' = Processed(task[w])
    /\ UNCHANGED <<step, dest, call, yielded, task, wstop,
                   inboxVars, loopVars, schedVars, poolVars>>

SubmitTask(w) ==
    /\ wpc[w] = "submit"
    /\ submit_to(ReplyTo(task[w]), task[w])
    /\ wpc' = [wpc EXCEPT ![w] = "clear"]
    /\ UNCHANGED <<task, wready, wstop, fiberVars, loopVars, schedVars, poolVars>>

ClearTask(w) ==
    /\ wpc[w] = "clear"
    /\ task' = [task EXCEPT ![w] = NoMessage]
    /\ wpc' = [wpc EXCEPT ![w] = "idle"]
    /\ UNCHANGED <<wready, wstop, fiberVars, inboxVars, loopVars, schedVars, poolVars>>

(***************************************************************************)
(* The specification                                                       *)
(***************************************************************************)

FiberStep(r, f) ==
    \/ \E cpu \in Reactors : run_at(r, f, cpu) \/ run_at_async(r, f, cpu)
    \/ \E kind \in {"pool", "special"} : run_in_thread_pool(r, f, kind)
    \/ PoolAssertion(r, f) \/ try_run(r, f) \/ try_run_fails(r, f)
    \/ Submit(r, f) \/ suspend(r, f) \/ Return(r, f) \/ yield(r, f)
    \/ shutdown(r, f) \/ SubmitStop(r, f) \/ Process(r, f) \/ Reply(r, f)

LoopStep(r) ==
    \/ receive_all(r) \/ IdleTurn(r) \/ finish(r) \/ dispatch(r) \/ stop(r) 
    \/ FinishBatch(r) \/ stop_workers(r) \/ Drain(r) \/ EndThread(r)
    \/ r = 0 /\ join

Thread(r) == LoopStep(r) \/ JoinWorker(r) \/ \E f \in {active[r]} : FiberStep(r, f)

WorkerThread(w) == ProcessTask(w) \/ SubmitTask(w) \/ ClearTask(w)

Next == (\E r \in Reactors : Thread(r)) \/ \E w \in Workers : WorkerThread(w)

\* The threads are scheduled fairly by the operating system.
Spec == /\ Init /\ [][Next]_vars
        /\ \A r \in Reactors : WF_vars(Thread(r))
        /\ \A w \in Workers : WF_vars(WorkerThread(w))

(***************************************************************************)
(* Properties                                                              *)
(***************************************************************************)

Fibers == {m \in Messages : step[m] \notin {"none", "done"}}
Pending(r) == {inbox[r][i] : i \in taken[r] + 1..Len(inbox[r])} \ {Stop}
FiberSteps == {"none", "run", "submit", "suspend", "suspended", "resumed", "try_run",
               "shutdown", "reply", "done", "aborted"}

\* The state has the expected form: at most one of the fibers of a reactor is
\* active, the ready ones wait in one queue once each, and nobody else is there.
TypeOK ==
    /\ \A m \in Messages : msg[m].kind \in {"none", "fiber", "one_way", "pool", "special"}
    /\ step \in [Messages -> FiberSteps]
    /\ \A r \in Reactors :
         /\ Len(inbox[r]) <= Capacity /\ taken[r] <= batch[r] /\ batch[r] <= Len(inbox[r])
         /\ Cardinality(busy[r]) <= max_size /\ Len(free[r]) <= min_size
         /\ LET queue == <<active[r]>> \o ready[r] IN
              /\ \A i, j \in 1..Len(queue) : queue[i] = queue[j] => i = j
              /\ \A i \in 1..Len(queue) :
                   queue[i] # EventLoop => msg[queue[i]].to = r /\ queue[i] \in Fibers
    /\ wpc \in [Workers -> {"none", "idle", "submit", "clear", "finished"}]

\* An answer meets the fiber that waits for it: when the event loop is about to
\* finish a message of run_at or run_in_thread_pool, the caller is suspended in
\* that very call and belongs to this reactor (Scheduler::resume asserts that
\* the fiber is in the wait queue).
AnswerFindsFiber ==
    \A r \in Reactors : LoopRuns(r, "batch") =>
        \A m \in Pending(r) : (msg[m].is_return /\ msg[m].kind # "special") =>
            LET f == msg[m].caller IN
            step[f] = "suspended" /\ call[f] = m /\ msg[f].to = r

\* Nobody holds a message that has been destroyed: a message that waits in an
\* inbox, that a worker has, or that a fiber has been started for still exists.
NoDanglingMessage ==
    /\ \A r \in Reactors : \A m \in Pending(r) : ~msg[m].freed
    /\ \A w \in Workers : wpc[w] = "submit" => ~msg[task[w]].freed
    /\ \A f \in Fibers : ~msg[f].freed

\* A task given to a pool is not lost: until it has run, the worker of its
\* message has it and is about to wake, unless the worker has been stopped.
\* (The worker asserts task_ when it wakes.)
TaskNotLost ==
    \A m \in Messages :
        LET w == msg[m].data IN
        (msg[m].kind \in {"pool", "special"} /\ w # NoWorker /\ ~msg[m].is_return)
        => wstop[w] \/ (task[w] = m /\ wready[w])

\* A call runs its task exactly once before it returns, and the message never
\* runs again.
ProcessedOnce ==
    /\ \A m \in Messages : msg[m].runs <= 1
    /\ \A f \in Messages : step[f] = "resumed" => msg[call[f]].runs = 1

\* Reactors that spin in submit_to on each other's full inboxes, or on that of
\* a reactor that has left its loop.
SpinsOn(r, q) ==
    \E f \in Messages :
        /\ active[r] = f /\ Len(inbox[q]) = Capacity
        /\ \/ step[f] \in {"submit", "shutdown"} /\ dest[f] = q
           \/ step[f] = "reply" /\ msg[f].cpu = q
Wedged == \E S \in SUBSET Reactors \ {{}} :
              \A r \in S : \E q \in Reactors : SpinsOn(r, q) /\ (q \in S \/ pool_stopped[q])

\* Every call returns, and shutdown() stops every reactor: again and again no
\* fiber is suspended in a call, or the application was shut down and then all
\* reactors have been told to stop; unless reactors spin on each other's inboxes.
CallsReturn ==
    []<>(\/ ~ShutdownCalled /\ \A f \in Messages : step[f] # "suspended"
         \/ \A r \in Reactors : ~running[r]
         \/ Wedged)

\* No fiber asks a stopped pool to run a task: run_in_thread_pool asserts that
\* the pool is running.
PoolRunning == \A f \in Messages : step[f] # "aborted"

====
