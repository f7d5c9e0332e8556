---- MODULE ReactorInv ----
(***************************************************************************)
(* The inductive invariant of the reactors: where each message is, who     *)
(* waits for it, and whose each worker thread is.                          *)
(***************************************************************************)
EXTENDS Reactor

Kinds == {"none", "fiber", "one_way", "pool", "special"}
PoolKinds == {"pool", "special"}        \* messages that a worker processes
FiberKinds == {"fiber", "one_way"}      \* messages that a fiber processes
CallKinds == {"fiber", "pool"}          \* messages that a fiber waits for
MessageRecord ==
    [kind : Kinds, to : Reactors, cpu : Reactors, caller : Messages \cup {NoMessage},
     is_return : BOOLEAN, data : Workers \cup {NoWorker}, runs : Nat, freed : BOOLEAN]

\* The types of the variables that the argument is about.
FiberTypes ==
    /\ msg \in [Messages -> MessageRecord]
    /\ step \in [Messages -> FiberSteps]
    /\ dest \in [Messages -> Reactors]
    /\ call \in [Messages -> Messages \cup {NoMessage}]
    /\ yielded \subseteq Messages
InboxTypes ==
    /\ inbox \in [Reactors -> Seq(Messages \cup {Stop})]
    /\ taken \in [Reactors -> Nat] /\ batch \in [Reactors -> Nat]
SchedTypes ==
    /\ active \in [Reactors -> Messages \cup {EventLoop}]
    /\ ready \in [Reactors -> Seq(Messages \cup {EventLoop})]
PoolTypes ==
    /\ free \in [Reactors -> Seq(Workers)]
    /\ busy \in [Reactors -> SUBSET Workers]
    /\ joining \in [Reactors -> Workers \cup {NoWorker}]
    /\ wpc \in [Workers -> {"none", "idle", "submit", "clear", "finished"}]
    /\ task \in [Workers -> Messages \cup {NoMessage}]
    /\ wready \in [Workers -> BOOLEAN] /\ wstop \in [Workers -> BOOLEAN]

\* The batch being handled is a part of the inbox.
InboxBounds ==
    \A r \in Reactors :
        taken[r] <= batch[r] /\ batch[r] <= Len(inbox[r]) /\ Len(inbox[r]) <= Capacity

\* A fiber of these steps is active or ready, of the others it has the thread.
Runnable == {"run", "submit", "suspend", "resumed", "try_run", "shutdown", "reply", "aborted"}
Exclusive == {"submit", "suspend", "shutdown", "reply", "aborted"}
Queued(r) == {active[r]} \cup Range(ready[r])
QueuedOnce ==
    \A r \in Reactors : IsInjective(ready[r]) /\ active[r] \notin Range(ready[r])
QueuedRun ==
    \A r \in Reactors : \A f \in Queued(r) \ {EventLoop} :
        msg[f].to = r /\ step[f] \in Runnable
ExclusiveActive ==
    \A f \in Messages : step[f] \in Exclusive => active[msg[f].to] = f

\* What a message says of its own fiber or task.
MessageOK(m) ==
    /\ msg[m].runs = (IF msg[m].is_return THEN 1 ELSE 0)
    /\ step[m] # "none" => msg[m].kind \in FiberKinds
    /\ step[m] \notin {"none", "done"} =>
          ~msg[m].freed /\ (msg[m].is_return <=> step[m] = "reply")
    /\ step[m] = "reply" => msg[m].kind = "fiber"
    /\ step[m] = "done" => msg[m].is_return
    /\ msg[m].kind \in FiberKinds /\ step[m] = "none" => ~msg[m].is_return
    /\ msg[m].kind \in PoolKinds /\ msg[m].freed => msg[m].is_return
    /\ msg[m].kind \in PoolKinds /\ msg[m].is_return => msg[m].data # NoWorker
MessagesOK == \A m \in Messages : MessageOK(m)

\* A fiber that is in a call has its message, and the message names the fiber.
InCall == {"submit", "try_run", "suspend", "suspended", "resumed"}
CallOK(f) ==
    LET m == call[f] IN
    /\ step[f] \in InCall =>
          /\ m \in Messages /\ msg[m].caller = f /\ ~msg[m].freed
          /\ msg[m].cpu = msg[f].to
    /\ step[f] = "submit" =>
          msg[m].kind \in FiberKinds /\ msg[m].to = dest[f] /\ step[m] = "none"
    /\ step[f] = "try_run" => msg[m].kind \in PoolKinds /\ msg[m].data = NoWorker
    /\ step[f] \in {"suspend", "suspended", "resumed"} => msg[m].kind \in CallKinds
    /\ step[f] = "resumed" =>
          /\ msg[m].is_return
          /\ msg[m].kind = "fiber" => step[m] = "done"
          /\ msg[m].kind = "pool" => wpc[msg[m].data] # "submit"
CallsOK == \A f \in Messages : CallOK(f)

\* Until it is destroyed, the caller of such a message is in the call.
CallersWait ==
    \A m \in Messages : msg[m].kind \in CallKinds /\ ~msg[m].freed =>
        LET f == msg[m].caller IN
        f \in Messages /\ call[f] = m /\ step[f] \in InCall

\* The messages that wait in an inbox, each in one place and nowhere else.
Places(r) == taken[r] + 1..Len(inbox[r])
PendingOnce ==
    \A r, q \in Reactors : \A i \in Places(r), j \in Places(q) :
        inbox[r][i] = inbox[q][j] /\ inbox[r][i] # Stop => r = q /\ i = j
NewOK(r, m) ==
    /\ msg[m].kind \in FiberKinds /\ msg[m].to = r /\ step[m] = "none"
    /\ \A f \in Messages : call[f] = m => step[f] # "submit"
AnswerOK(r, m) ==
    /\ msg[m].kind \in CallKinds \cup PoolKinds /\ msg[m].cpu = r
    /\ msg[m].kind = "fiber" => step[m] = "done"
    /\ msg[m].kind \in CallKinds => step[msg[m].caller] \in {"suspend", "suspended"}
    /\ msg[m].kind \in PoolKinds => wpc[msg[m].data] # "submit"
PendingOK ==
    \A r \in Reactors : \A m \in Pending(r) :
        /\ ~msg[m].freed
        /\ IF msg[m].is_return THEN AnswerOK(r, m) ELSE NewOK(r, m)

\* A worker is free, busy or being joined, in one pool.
Owned(r) == busy[r] \cup Range(free[r]) \cup ({joining[r]} \ {NoWorker})
OwnedOnce ==
    /\ \A r, q \in Reactors : r # q => Owned(r) \cap Owned(q) = {}
    /\ \A r \in Reactors : busy[r] \cap (Range(free[r]) \cup {joining[r]}) = {}
    /\ \A r \in Reactors : Cardinality(busy[r]) <= max_size /\ Len(free[r]) <= min_size
OwnerOK(r, w) ==
    /\ joining[r] = w => wstop[w]
    /\ w \in Range(free[r]) =>
          IF wstop[w] THEN wpc[w] = "finished" \/ joining[r] = w
                      ELSE ~wready[w] /\ wpc[w] \in {"idle", "clear"}
    /\ w \in busy[r] /\ wstop[w] => wpc[w] = "finished"
    /\ w \in Owned(r) => wpc[w] # "none"
OwnersOK == \A r \in Reactors, w \in Workers : OwnerOK(r, w)

\* What a worker thread does next, and the message that it has.
HasTask(w) ==
    task[w] \in Messages /\ msg[task[w]].kind \in PoolKinds /\ msg[task[w]].data = w
WorkerOK(w) ==
    /\ wpc[w] \in {"none", "submit", "clear"} => ~wstop[w] /\ ~wready[w]
    /\ wpc[w] = "finished" => wstop[w] /\ ~wready[w]
    /\ wpc[w] = "idle" /\ wstop[w] => wready[w]
    /\ wpc[w] = "idle" /\ wready[w] /\ ~wstop[w] =>
          HasTask(w) /\ ~msg[task[w]].is_return
    /\ wpc[w] = "submit" =>
          HasTask(w) /\ msg[task[w]].is_return /\ ~msg[task[w]].freed
WorkersOK == \A w \in Workers : WorkerOK(w)

\* The worker of a message that is not destroyed is busy with it alone.
HandedOver(m) == msg[m].kind \in PoolKinds /\ ~msg[m].freed /\ msg[m].data # NoWorker
HandedOnce ==
    \A m, n \in Messages :
        HandedOver(m) /\ HandedOver(n) /\ msg[m].data = msg[n].data => m = n
HandOK(m) ==
    LET w == msg[m].data IN
    /\ w \in busy[msg[m].cpu]
    /\ IF msg[m].is_return
       THEN ~wstop[w] /\ ~wready[w] /\ wpc[w] \in {"idle", "submit", "clear"}
       ELSE wstop[w] \/ (task[w] = m /\ wready[w])
HandedOK == \A m \in Messages : HandedOver(m) => HandOK(m)

FiberInv == FiberTypes /\ MessagesOK /\ CallsOK /\ CallersWait
QueueInv == SchedTypes /\ QueuedOnce /\ QueuedRun /\ ExclusiveActive
InboxInv == InboxTypes /\ InboxBounds /\ PendingOnce
PoolInv == PoolTypes /\ OwnedOnce /\ OwnersOK /\ WorkersOK /\ HandedOnce /\ HandedOK
IInv == FiberInv /\ QueueInv /\ InboxInv /\ PendingOK /\ PoolInv

\* What the proofs use of least elements and of the sizes of sets: ReactorProofs
\* shows it from the theorems on finite sets, the other modules assume it.
SetFacts ==
    /\ \A S \in SUBSET Nat : S # {} => Min(S) \in S /\ \A n \in S : Min(S) <= n
    /\ Cardinality({}) = 0
    /\ \A S \in SUBSET Messages : Cardinality(S) \in Nat
    /\ \A S \in SUBSET Workers :
          /\ Cardinality(S) \in Nat
          /\ \A w \in Workers \ S : Cardinality(S \cup {w}) = Cardinality(S) + 1
          /\ \A w \in S : Cardinality(S \ {w}) = Cardinality(S) - 1

====
