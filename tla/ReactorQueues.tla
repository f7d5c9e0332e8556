---- MODULE ReactorQueues ----
(***************************************************************************)
(* The parts of the state that the reactors' steps share: a thread's queue of*)
(* fibers, the inboxes, and what a step leaves alone.                      *)
(***************************************************************************)
EXTENDS ReactorInv, TLAPS

\* The prover of the leaves that name none, and its time limit.
USE ZenonT(30)

\* The least element of a set of numbers exists.
LEMMA MinIsLeast ==
  ASSUME SetFacts, NEW S, S \subseteq Nat, S # {}
  PROVE  Min(S) \in S /\ \A n \in S : Min(S) <= n
  BY DEF SetFacts

\* While a fiber may go on, there is an unused message for its next call.
LEMMA UnsentLeast ==
  ASSUME SetFacts, FiberTypes, MayGoOn
  PROVE  Min(Unsent) \in Messages /\ msg[Min(Unsent)].kind = "none"
<1>1. yielded \in SUBSET Messages
  BY DEF FiberTypes
<1>2. Cardinality(yielded) \in Nat /\ Cardinality({}) = 0
  BY <1>1 DEF SetFacts
<1>3. Unsent # {}
  BY <1>2, SMTT(30) DEF MayGoOn
<1>4. Unsent \subseteq Nat
  BY ReactorAssumption, SMTT(30) DEF Unsent, Messages
<1> QED
  BY <1>3, <1>4, MinIsLeast DEF Unsent

\* There is a first reactor.
LEMMA CpuNumFacts == CpuNum \in Nat /\ CpuNum > 0
  BY ReactorAssumption, SMTT(30)

\* The marks for "none" are no messages and no workers.
LEMMA Zeros ==
  /\ EventLoop \notin Messages /\ Stop \notin Messages /\ NoMessage \notin Messages
  /\ NoWorker \notin Workers
  BY ReactorAssumption, SMTT(30) DEF EventLoop, Stop, NoMessage, NoWorker, Messages, Workers

-----------------------------------------------------------------------------
(* Sequences *)

\* What the provers know of sequences, in one place: length, elements and range.
LEMMA SeqFacts ==
  ASSUME NEW S, NEW s \in Seq(S)
  PROVE  /\ Len(s) \in Nat /\ DOMAIN s = 1..Len(s)
         /\ s # <<>> => Len(s) > 0
         /\ \A i \in 1..Len(s) : s[i] \in S
         /\ Range(s) \subseteq S
<1>1. /\ Len(s) \in Nat /\ DOMAIN s = 1..Len(s)
      /\ \A i \in 1..Len(s) : s[i] \in S
  BY SMTT(30)
<1>2. s # <<>> => Len(s) > 0
  BY SMTT(30)
<1>3. Range(s) \subseteq S
  BY <1>1 DEF Range
<1> QED
  BY <1>1, <1>2, <1>3

\* The empty sequence.
LEMMA EmptyFacts ==
  ASSUME NEW S
  PROVE <<>> \in Seq(S) /\ Len(<<>>) = 0 /\ DOMAIN <<>> = {}
  BY SMTT(30)

\* Appending an element.
LEMMA AppendFacts ==
  ASSUME NEW S, NEW s \in Seq(S), NEW x \in S
  PROVE  /\ Append(s, x) \in Seq(S) /\ Len(Append(s, x)) = Len(s) + 1
         /\ DOMAIN Append(s, x) = 1..Len(s) + 1
         /\ \A i \in 1..Len(s) : Append(s, x)[i] = s[i]
         /\ Append(s, x)[Len(s) + 1] = x
  BY SMTT(30)

\* Taking the first element away.
LEMMA TailFacts ==
  ASSUME NEW S, NEW s \in Seq(S), s # <<>>
  PROVE  /\ Head(s) \in S /\ Tail(s) \in Seq(S) /\ Len(Tail(s)) = Len(s) - 1
         /\ Head(s) = s[1]
         /\ \A i \in 1..Len(Tail(s)) : Tail(s)[i] = s[i + 1]
  BY SMTT(30)

\* What is left of a sequence without its first elements.
LEMMA SuffixFacts ==
  ASSUME NEW S, NEW s \in Seq(S), NEW n \in 0..Len(s)
  PROVE  /\ SubSeq(s, n + 1, Len(s)) \in Seq(S)
         /\ Len(SubSeq(s, n + 1, Len(s))) = Len(s) - n
         /\ \A i \in 1..Len(s) - n : SubSeq(s, n + 1, Len(s))[i] = s[n + i]
  BY SMTT(30)

-----------------------------------------------------------------------------
(* Sequences without repetitions *)

\* Appending a new element keeps a sequence free of repetitions.
LEMMA AppendOnce ==
  ASSUME NEW S, NEW s \in Seq(S), NEW x \in S
  PROVE  /\ Range(Append(s, x)) = Range(s) \cup {x}
         /\ IsInjective(s) /\ x \notin Range(s) => IsInjective(Append(s, x))
<1>1. /\ DOMAIN Append(s, x) = 1..Len(s) + 1 /\ DOMAIN s = 1..Len(s) /\ Len(s) \in Nat
      /\ \A i \in 1..Len(s) : Append(s, x)[i] = s[i]
      /\ Append(s, x)[Len(s) + 1] = x
  BY AppendFacts, SeqFacts, SMTT(30)
<1>2. \A i \in 1..Len(s) + 1 : i \in 1..Len(s) \/ i = Len(s) + 1
  BY <1>1, SMTT(30)
<1>3. \A i \in 1..Len(s) : i \in 1..Len(s) + 1
  BY <1>1, SMTT(30)
<1>4. Len(s) + 1 \in 1..Len(s) + 1
  BY <1>1, SMTT(30)
<1>5. Range(Append(s, x)) = Range(s) \cup {x}
  BY <1>1, <1>2, <1>3, <1>4 DEF Range
<1>6. ASSUME IsInjective(s), x \notin Range(s) PROVE IsInjective(Append(s, x))
  BY <1>1, <1>2, <1>6 DEF Range, IsInjective
<1> QED
  BY <1>5, <1>6

\* So does taking the first element away.
LEMMA TailOnce ==
  ASSUME NEW S, NEW s \in Seq(S), s # <<>>
  PROVE  /\ Head(s) \in S /\ Tail(s) \in Seq(S)
         /\ Range(s) = Range(Tail(s)) \cup {Head(s)}
         /\ IsInjective(s) => IsInjective(Tail(s)) /\ Head(s) \notin Range(Tail(s))
<1>1. /\ Head(s) \in S /\ Tail(s) \in Seq(S) /\ Len(Tail(s)) = Len(s) - 1
      /\ \A i \in 1..Len(Tail(s)) : Tail(s)[i] = s[i + 1]
  BY TailFacts
<1>2. /\ Len(s) \in Nat /\ Len(s) # 0 /\ DOMAIN s = 1..Len(s)
      /\ DOMAIN Tail(s) = 1..Len(s) - 1 /\ Head(s) = s[1]
  BY <1>1, SeqFacts, SMTT(30)
<1>3. \A i \in 1..Len(s) - 1 : Tail(s)[i] = s[i + 1] /\ i + 1 \in 1..Len(s)
  BY <1>1, <1>2, SMTT(30)
<1>4. \A i \in 1..Len(s) : i = 1 \/ \E j \in 1..Len(s) - 1 : i = j + 1
  <2> TAKE i \in 1..Len(s)
  <2>1. i # 1 => i - 1 \in 1..Len(s) - 1 /\ i = (i - 1) + 1
    BY <1>2, SMTT(30)
  <2> QED
    BY <2>1
<1>5. 1 \in 1..Len(s)
  BY <1>2, SMTT(30)
<1>6. Range(s) = Range(Tail(s)) \cup {Head(s)}
  <2>1. ASSUME NEW x \in Range(s) PROVE x \in Range(Tail(s)) \cup {Head(s)}
    <3>1. PICK i \in 1..Len(s) : x = s[i]
      BY <1>2 DEF Range
    <3>2. i # 1 => \E j \in 1..Len(s) - 1 : x = Tail(s)[j]
      BY <1>3, <1>4, <3>1
    <3> QED
      BY <1>2, <3>1, <3>2 DEF Range
  <2>2. Range(Tail(s)) \cup {Head(s)} \subseteq Range(s)
    BY <1>2, <1>3, <1>5, SMTT(30) DEF Range
  <2> QED
    BY <2>1, <2>2
<1>7. ASSUME IsInjective(s)
      PROVE  IsInjective(Tail(s)) /\ Head(s) \notin Range(Tail(s))
  BY <1>2, <1>3, <1>5, <1>7, SMTT(30) DEF Range, IsInjective
<1> QED
  BY <1>1, <1>6, <1>7

-----------------------------------------------------------------------------
(* The scheduler of a thread: who is queued after a switch *)

\* A fiber that runs on a reactor belongs to it.
LEMMA RunsFacts ==
  ASSUME IInv, NEW r \in Reactors, NEW f, NEW at, Runs(r, f, at)
  PROVE  /\ f \in Messages /\ f # EventLoop /\ active[r] = f /\ step[f] = at
         /\ joining[r] = NoWorker /\ msg[f].to = r
         /\ MessageOK(f) /\ CallOK(f)
<1>1. f \in Messages /\ active[r] = f /\ step[f] = at /\ joining[r] = NoWorker
  BY DEF Runs
<1>2. f # EventLoop
  BY <1>1, Zeros
<1>3. msg[f].to = r
  BY <1>1, <1>2 DEF IInv, QueueInv, QueuedRun, Queued
<1> QED
  BY <1>1, <1>2, <1>3 DEF IInv, FiberInv, MessagesOK, CallsOK

\* The active fiber leaves: the next ready one, if any, takes its place.
LEMMA SwitchOnce ==
  ASSUME SchedTypes, NEW r \in Reactors, NEW queue \in Seq(Messages \cup {EventLoop}),
         IsInjective(queue), Switch(r, queue), QueuedOnce
  PROVE  /\ QueuedOnce'
         /\ SchedTypes'
         /\ \A q \in Reactors \ {r} : active'[q] = active[q] /\ Queued(q)' = Queued(q)
         /\ Queued(r)' \subseteq Range(queue) \cup {EventLoop}
<1>1. CASE queue = <<>>
  <2>1. /\ active' = [active EXCEPT ![r] = EventLoop]
        /\ ready' = [ready EXCEPT ![r] = <<>>]
    BY <1>1 DEF Switch
  <2>2. Range(<<>>) = {} /\ IsInjective(<<>>) /\ <<>> \in Seq(Messages \cup {EventLoop})
    BY EmptyFacts DEF Range, IsInjective
  <2> QED
    BY <1>1, <2>1, <2>2 DEF QueuedOnce, Queued, SchedTypes
<1>2. CASE queue # <<>>
  <2>1. /\ active' = [active EXCEPT ![r] = Head(queue)]
        /\ ready' = [ready EXCEPT ![r] = Tail(queue)]
    BY <1>2 DEF Switch
  <2>2. /\ Head(queue) \in Messages \cup {EventLoop}
        /\ Tail(queue) \in Seq(Messages \cup {EventLoop})
        /\ Range(queue) = Range(Tail(queue)) \cup {Head(queue)}
        /\ IsInjective(Tail(queue)) /\ Head(queue) \notin Range(Tail(queue))
    BY <1>2, TailOnce
  <2> QED
    BY <2>1, <2>2 DEF QueuedOnce, Queued, SchedTypes
<1> QED
  BY <1>1, <1>2

\* A message in use keeps its reactor.
ToKept == \A m \in Messages : msg[m].kind # "none" => msg'[m].to = msg[m].to

\* A queued fiber belongs to the reactor and can go on.
LEMMA QueuedFacts ==
  ASSUME IInv, NEW r \in Reactors, NEW f \in Queued(r) \ {EventLoop}
  PROVE  /\ f \in Messages /\ msg[f].to = r /\ step[f] \in Runnable
         /\ msg[f].kind # "none" /\ msg[f].kind \in FiberKinds
<1>1. f \in Messages
  <2>1. CASE f = active[r]
    BY <2>1 DEF IInv, QueueInv, SchedTypes
  <2>2. CASE f \in Range(ready[r])
    <3>1. ready[r] \in Seq(Messages \cup {EventLoop})
      BY DEF IInv, QueueInv, SchedTypes
    <3> QED
      BY <2>2, <3>1, SeqFacts, SMTT(30)
  <2> QED
    BY <2>1, <2>2 DEF Queued
<1>2. msg[f].to = r /\ step[f] \in Runnable
  BY DEF IInv, QueueInv, QueuedRun
<1>3. step[f] # "none"
  BY <1>2 DEF Runnable
<1>4. msg[f].kind \in FiberKinds
  BY <1>1, <1>3 DEF IInv, FiberInv, MessagesOK, MessageOK
<1> QED
  BY <1>1, <1>2, <1>4 DEF FiberKinds

\* The active fiber goes on: the queue stays as it is.
LEMMA KeepQueue ==
  ASSUME IInv, ToKept, UNCHANGED schedVars, NEW r \in Reactors, NEW f \in Messages,
         active[r] = f, NEW s \in Runnable, step' = [step EXCEPT ![f] = s]
  PROVE  QueueInv'
<1>1. active' = active /\ ready' = ready /\ f # EventLoop
  BY Zeros DEF schedVars
<1>2. QueuedOnce' /\ SchedTypes'
  BY <1>1 DEF IInv, QueueInv, QueuedOnce, SchedTypes
<1>3. step \in [Messages -> FiberSteps]
  BY DEF IInv, FiberInv, FiberTypes
<1>4. QueuedRun'
  <2> SUFFICES ASSUME NEW q \in Reactors, NEW g \in Queued(q) \ {EventLoop}
               PROVE  msg'[g].to = q /\ step'[g] \in Runnable
    BY <1>1 DEF QueuedRun, Queued
  <2> QED
    BY <1>3, QueuedFacts DEF ToKept
<1>5. ExclusiveActive'
  <2> SUFFICES ASSUME NEW g \in Messages, step'[g] \in Exclusive
               PROVE  active[msg'[g].to] = g
    BY <1>1 DEF ExclusiveActive
  <2>1. CASE g = f
    BY <1>1, <2>1, QueuedFacts DEF Queued, ToKept
  <2>2. CASE g # f
    <3>1. step[g] \in Exclusive /\ step[g] # "none"
      BY <1>3, <2>2 DEF Exclusive
    <3>2. msg[g].kind # "none"
      BY <3>1 DEF IInv, FiberInv, MessagesOK, MessageOK, FiberKinds
    <3> QED
      BY <3>1, <3>2 DEF ToKept, IInv, QueueInv, ExclusiveActive
  <2> QED
    BY <2>1, <2>2
<1> QED
  BY <1>2, <1>4, <1>5 DEF QueueInv

\* Nothing about the fibers of a thread changes.
LEMMA SameQueue ==
  ASSUME IInv, ToKept, UNCHANGED <<step, schedVars>>
  PROVE  QueueInv'
<1>1. active' = active /\ ready' = ready /\ step' = step
  BY DEF schedVars
<1>2. QueuedOnce' /\ SchedTypes'
  BY <1>1 DEF IInv, QueueInv, QueuedOnce, SchedTypes
<1>3. QueuedRun'
  <2> SUFFICES ASSUME NEW q \in Reactors, NEW g \in Queued(q) \ {EventLoop}
               PROVE  msg'[g].to = q /\ step[g] \in Runnable
    BY <1>1 DEF QueuedRun, Queued
  <2> QED
    BY QueuedFacts DEF ToKept
<1>4. ExclusiveActive'
  <2> SUFFICES ASSUME NEW g \in Messages, step[g] \in Exclusive
               PROVE  active[msg'[g].to] = g
    BY <1>1 DEF ExclusiveActive
  <2>1. msg[g].kind # "none"
    BY DEF IInv, FiberInv, MessagesOK, MessageOK, FiberKinds, Exclusive
  <2> QED
    BY <2>1 DEF ToKept, IInv, QueueInv, ExclusiveActive
<1> QED
  BY <1>2, <1>3, <1>4 DEF QueueInv

\* A switch on one thread: the fibers queued afterwards were queued before and
\* run on, and the active one was not in the middle of a step.
LEMMA SwitchQueue ==
  ASSUME IInv, ToKept, NEW r \in Reactors,
         NEW queue \in Seq(Messages \cup {EventLoop}), IsInjective(queue), Switch(r, queue),
         \A f \in Range(queue) : f \in Queued(r) \ {EventLoop} => step'[f] = step[f],
         Range(queue) \subseteq Queued(r) \cup {EventLoop},
         \A f \in Messages : step'[f] = step[f] \/ f = active[r],
         active[r] \in Messages => step'[active[r]] \notin Exclusive
  PROVE  QueueInv'
<1>1. /\ QueuedOnce' /\ SchedTypes'
      /\ \A q \in Reactors \ {r} : active'[q] = active[q] /\ Queued(q)' = Queued(q)
      /\ Queued(r)' \subseteq Range(queue) \cup {EventLoop}
  BY SwitchOnce DEF IInv, QueueInv
<1>2. QueuedRun'
  <2> SUFFICES ASSUME NEW q \in Reactors, NEW g \in Queued(q)' \ {EventLoop}
               PROVE  msg'[g].to = q /\ step'[g] \in Runnable
    BY DEF QueuedRun
  <2>1. CASE q = r
    <3>1. g \in Range(queue) /\ g \in Queued(r) \ {EventLoop}
      BY <1>1, <2>1
    <3> QED
      BY <2>1, <3>1, QueuedFacts DEF ToKept
  <2>2. CASE q # r
    <3>1. g \in Queued(q) \ {EventLoop}
      BY <1>1, <2>2
    <3>2. g \in Messages /\ msg[g].to = q /\ step[g] \in Runnable /\ msg[g].kind # "none"
      BY <3>1, QueuedFacts
    <3>3. g # active[r]
      <4> SUFFICES ASSUME g = active[r] PROVE FALSE
        OBVIOUS
      <4>1. g \in Queued(r) \ {EventLoop}
        BY <3>1 DEF Queued
      <4> QED
        BY <2>2, <3>2, <4>1, QueuedFacts
    <3> QED
      BY <3>2, <3>3 DEF ToKept
  <2> QED
    BY <2>1, <2>2
<1>3. ExclusiveActive'
  <2> SUFFICES ASSUME NEW g \in Messages, step'[g] \in Exclusive
               PROVE  active'[msg'[g].to] = g
    BY DEF ExclusiveActive
  <2>1. g # active[r] /\ step[g] \in Exclusive
    OBVIOUS
  <2>2. active[msg[g].to] = g /\ msg[g].kind # "none" /\ msg[g].to \in Reactors
    BY <2>1 DEF IInv, QueueInv, ExclusiveActive, FiberInv, MessagesOK, MessageOK, FiberKinds,
       Exclusive, FiberTypes, MessageRecord
  <2>3. msg[g].to # r /\ msg'[g].to = msg[g].to
    BY <2>1, <2>2 DEF ToKept
  <2> QED
    BY <1>1, <2>2, <2>3
<1> QED
  BY <1>1, <1>2, <1>3 DEF QueueInv

\* The active fiber, or the event loop, goes to the end of the queue.
LEMMA RotateQueue ==
  ASSUME IInv, ToKept, NEW r \in Reactors, Switch(r, Append(ready[r], active[r])),
         step' = step, active[r] \in Messages => step[active[r]] \notin Exclusive
  PROVE  QueueInv'
<1> DEFINE queue == Append(ready[r], active[r])
<1>1. /\ ready[r] \in Seq(Messages \cup {EventLoop}) /\ active[r] \in Messages \cup {EventLoop}
      /\ IsInjective(ready[r]) /\ active[r] \notin Range(ready[r])
  BY DEF IInv, QueueInv, SchedTypes, QueuedOnce
<1>2. queue \in Seq(Messages \cup {EventLoop})
  BY <1>1, AppendFacts
<1>3. IsInjective(queue) /\ Range(queue) = Queued(r)
  BY <1>1, AppendOnce, SMTT(30) DEF Queued
<1> QED
  BY <1>2, <1>3, SwitchQueue

\* The active fiber is suspended or ends.
LEMMA LeaveQueue ==
  ASSUME IInv, ToKept, NEW r \in Reactors, NEW f \in Messages, active[r] = f,
         Switch(r, ready[r]), NEW s, s \notin Exclusive, step' = [step EXCEPT ![f] = s]
  PROVE  QueueInv'
<1>1. /\ ready[r] \in Seq(Messages \cup {EventLoop}) /\ IsInjective(ready[r])
      /\ f \notin Range(ready[r]) /\ step \in [Messages -> FiberSteps]
  BY DEF IInv, QueueInv, SchedTypes, QueuedOnce, FiberInv, FiberTypes
<1>2. Range(ready[r]) \subseteq Queued(r)
  BY DEF Queued
<1>3. \A g \in Messages : step'[g] = step[g] \/ g = f
  BY <1>1
<1>4. \A g \in Range(ready[r]) : g \in Queued(r) \ {EventLoop} => step'[g] = step[g]
  BY <1>1, <1>3, QueuedFacts
<1> QED
  BY <1>1, <1>2, <1>3, <1>4, SwitchQueue

\* The event loop leaves the thread to the fibers that are ready.
LEMMA DrainQueue ==
  ASSUME IInv, ToKept, NEW r \in Reactors, active[r] = EventLoop, Switch(r, ready[r]),
         step' = step
  PROVE  QueueInv'
<1>1. ready[r] \in Seq(Messages \cup {EventLoop}) /\ IsInjective(ready[r])
  BY DEF IInv, QueueInv, SchedTypes, QueuedOnce
<1>2. Range(ready[r]) \subseteq Queued(r)
  BY DEF Queued
<1> QED
  BY <1>1, <1>2, SwitchQueue, Zeros

\* A suspended fiber was in no queue before it is resumed.
LEMMA ResumeQueue ==
  ASSUME IInv, ToKept, NEW r \in Reactors, NEW f \in Messages, step[f] = "suspended",
         msg[f].to = r, resume(r, f)
  PROVE  QueueInv'
<1>1. /\ step' = [step EXCEPT ![f] = "resumed"] /\ active' = active
      /\ ready' = [ready EXCEPT ![r] = Append(@, f)]
      /\ step \in [Messages -> FiberSteps]
      /\ ready \in [Reactors -> Seq(Messages \cup {EventLoop})]
  BY DEF resume, IInv, FiberInv, FiberTypes, QueueInv, SchedTypes
<1>2. f \notin Queued(r) /\ f # EventLoop
  BY QueuedFacts, Zeros DEF Runnable
<1>3. /\ Append(ready[r], f) \in Seq(Messages \cup {EventLoop})
      /\ Range(Append(ready[r], f)) = Range(ready[r]) \cup {f}
      /\ IsInjective(Append(ready[r], f))
  BY <1>1, <1>2, AppendFacts, AppendOnce, SMTT(30) DEF IInv, QueueInv, QueuedOnce, Queued
<1>4. /\ ready'[r] = Append(ready[r], f)
      /\ \A q \in Reactors \ {r} : ready'[q] = ready[q]
      /\ SchedTypes'
  BY <1>1, <1>3 DEF IInv, QueueInv, SchedTypes
<1>5. QueuedOnce'
  BY <1>1, <1>2, <1>3, <1>4 DEF IInv, QueueInv, QueuedOnce, Queued
<1>6. Queued(r)' = Queued(r) \cup {f} /\ \A q \in Reactors \ {r} : Queued(q)' = Queued(q)
  BY <1>1, <1>3, <1>4 DEF Queued
<1>7. msg[f].kind # "none"
  BY DEF IInv, FiberInv, MessagesOK, MessageOK, FiberKinds
<1>8. QueuedRun'
  <2> SUFFICES ASSUME NEW q \in Reactors, NEW g \in Queued(q)' \ {EventLoop}
               PROVE  msg'[g].to = q /\ step'[g] \in Runnable
    BY DEF QueuedRun
  <2>1. CASE g = f
    <3>1. q = r
      <4> SUFFICES ASSUME q # r PROVE FALSE
        OBVIOUS
      <4>1. f \in Queued(q) \ {EventLoop}
        BY <1>6, <2>1
      <4> QED
        BY <4>1, QueuedFacts
    <3> QED
      BY <1>1, <1>7, <2>1, <3>1 DEF ToKept, Runnable
  <2>2. CASE g # f
    <3>1. g \in Queued(q) \ {EventLoop}
      BY <1>6, <2>2
    <3> QED
      BY <1>1, <2>2, <3>1, QueuedFacts DEF ToKept
  <2> QED
    BY <2>1, <2>2
<1>9. ExclusiveActive'
  <2> SUFFICES ASSUME NEW g \in Messages, step'[g] \in Exclusive
               PROVE  active[msg'[g].to] = g
    BY <1>1 DEF ExclusiveActive
  <2>1. g # f /\ step[g] \in Exclusive
    BY <1>1 DEF Exclusive
  <2>2. msg[g].kind # "none"
    BY <2>1 DEF IInv, FiberInv, MessagesOK, MessageOK, FiberKinds, Exclusive
  <2> QED
    BY <2>1, <2>2 DEF ToKept, IInv, QueueInv, ExclusiveActive
<1> QED
  BY <1>4, <1>5, <1>8, <1>9 DEF QueueInv

\* The fiber of a new message runs at once; the loop waits behind the ready ones.
LEMMA DispatchQueue ==
  ASSUME IInv, ToKept, NEW r \in Reactors, NEW m \in Messages, active[r] = EventLoop,
         step[m] = "none", msg[m].kind # "none", msg[m].to = r,
         step' = [step EXCEPT ![m] = "run"],
         active' = [active EXCEPT ![r] = m],
         ready' = [ready EXCEPT ![r] = Append(@, EventLoop)]
  PROVE  QueueInv'
<1>1. /\ step \in [Messages -> FiberSteps]
      /\ active \in [Reactors -> Messages \cup {EventLoop}]
      /\ ready \in [Reactors -> Seq(Messages \cup {EventLoop})]
  BY DEF IInv, FiberInv, FiberTypes, QueueInv, SchedTypes
<1>2. m # EventLoop /\ \A q \in Reactors : m \notin Queued(q)
  BY QueuedFacts, Zeros DEF Runnable
<1>3. /\ Append(ready[r], EventLoop) \in Seq(Messages \cup {EventLoop})
      /\ Range(Append(ready[r], EventLoop)) = Range(ready[r]) \cup {EventLoop}
      /\ IsInjective(Append(ready[r], EventLoop))
  BY <1>1, AppendFacts, AppendOnce, SMTT(30) DEF IInv, QueueInv, QueuedOnce
<1>4. /\ ready'[r] = Append(ready[r], EventLoop) /\ active'[r] = m
      /\ \A q \in Reactors \ {r} : ready'[q] = ready[q] /\ active'[q] = active[q]
      /\ SchedTypes'
  BY <1>1, <1>3 DEF SchedTypes
<1>5. QueuedOnce'
  BY <1>2, <1>3, <1>4, SMTT(30) DEF IInv, QueueInv, QueuedOnce, Queued
<1>6. /\ Queued(r)' = Queued(r) \cup {m}
      /\ \A q \in Reactors \ {r} : Queued(q)' = Queued(q)
  BY <1>3, <1>4 DEF Queued
<1>7. QueuedRun'
  <2> SUFFICES ASSUME NEW q \in Reactors, NEW g \in Queued(q)' \ {EventLoop}
               PROVE  msg'[g].to = q /\ step'[g] \in Runnable
    BY DEF QueuedRun
  <2>1. CASE g = m
    BY <1>1, <1>2, <1>6, <2>1 DEF ToKept, Runnable
  <2>2. CASE g # m
    <3>1. g \in Queued(q) \ {EventLoop}
      BY <1>6, <2>2
    <3> QED
      BY <1>1, <2>2, <3>1, QueuedFacts DEF ToKept
  <2> QED
    BY <2>1, <2>2
<1>8. ExclusiveActive'
  <2> SUFFICES ASSUME NEW g \in Messages, step'[g] \in Exclusive
               PROVE  active'[msg'[g].to] = g
    BY DEF ExclusiveActive
  <2>1. g # m /\ step[g] \in Exclusive
    BY <1>1 DEF Exclusive
  <2>2. active[msg[g].to] = g /\ msg[g].kind # "none" /\ msg[g].to \in Reactors
    BY <2>1
       DEF IInv, QueueInv, ExclusiveActive, FiberInv, MessagesOK, MessageOK, FiberKinds,
       Exclusive, FiberTypes, MessageRecord
  <2>3. msg[g].to # r
    BY <2>2, Zeros
  <2> QED
    BY <1>4, <2>2, <2>3 DEF ToKept
<1> QED
  BY <1>4, <1>5, <1>7, <1>8 DEF QueueInv

-----------------------------------------------------------------------------
(* The inboxes: what waits after a message is put in, taken, or a batch ends *)

\* The places of an inbox and what waits in them.
LEMMA PlaceFacts ==
  ASSUME InboxInv, NEW r \in Reactors
  PROVE  /\ inbox[r] \in Seq(Messages \cup {Stop}) /\ Len(inbox[r]) \in Nat
         /\ taken[r] \in Nat /\ batch[r] \in Nat
         /\ taken[r] <= batch[r] /\ batch[r] <= Len(inbox[r]) /\ Len(inbox[r]) <= Capacity
         /\ \A i \in Places(r) : i \in 1..Len(inbox[r]) /\ inbox[r][i] \in Messages \cup {Stop}
         /\ \A m : m \in Pending(r) <=> m # Stop /\ \E i \in Places(r) : inbox[r][i] = m
<1>1. /\ inbox[r] \in Seq(Messages \cup {Stop}) /\ taken[r] \in Nat /\ batch[r] \in Nat
      /\ taken[r] <= batch[r] /\ batch[r] <= Len(inbox[r]) /\ Len(inbox[r]) <= Capacity
  BY DEF InboxInv, InboxTypes, InboxBounds
<1>2. Len(inbox[r]) \in Nat /\ \A i \in 1..Len(inbox[r]) : inbox[r][i] \in Messages \cup {Stop}
  BY <1>1, SeqFacts
<1>3. \A i \in Places(r) : i \in 1..Len(inbox[r])
  BY <1>1, <1>2, SMTT(30) DEF Places
<1>4. \A m : m \in Pending(r) <=> m # Stop /\ \E i \in Places(r) : inbox[r][i] = m
  BY DEF Pending, Places
<1> QED
  BY <1>1, <1>2, <1>3, <1>4

\* What waits is a message.
LEMMA PendingMessages ==
  ASSUME IInv, NEW r \in Reactors, NEW m \in Pending(r)
  PROVE  m \in Messages
  BY PlaceFacts, SMTT(30) DEF IInv

\* submit_to adds one message, which waited nowhere before.
LEMMA AppendPending ==
  ASSUME InboxInv, NEW cpu \in Reactors, NEW m \in Messages \cup {Stop}, submit_to(cpu, m),
         \A r \in Reactors : m \notin Pending(r)
  PROVE  /\ InboxInv'
         /\ \A r \in Reactors : Pending(r)' \subseteq Pending(r) \cup {m}
         /\ \A r \in Reactors \ {cpu} : Pending(r)' = Pending(r)
         /\ \A r \in Reactors : Stop \notin Pending(r)'
<1>1. /\ Len(inbox[cpu]) < Capacity /\ inbox' = [inbox EXCEPT ![cpu] = Append(@, m)]
      /\ taken' = taken /\ batch' = batch
  BY DEF submit_to
<1>2. /\ inbox[cpu] \in Seq(Messages \cup {Stop}) /\ Len(inbox[cpu]) \in Nat
      /\ taken[cpu] \in Nat /\ batch[cpu] \in Nat /\ taken[cpu] <= batch[cpu]
      /\ batch[cpu] <= Len(inbox[cpu])
  BY PlaceFacts
<1>3. /\ Append(inbox[cpu], m) \in Seq(Messages \cup {Stop})
      /\ Len(Append(inbox[cpu], m)) = Len(inbox[cpu]) + 1
      /\ \A i \in 1..Len(inbox[cpu]) : Append(inbox[cpu], m)[i] = inbox[cpu][i]
      /\ Append(inbox[cpu], m)[Len(inbox[cpu]) + 1] = m
  BY <1>2, AppendFacts, SMTT(30)
<1>4. /\ inbox'[cpu] = Append(inbox[cpu], m)
      /\ \A r \in Reactors \ {cpu} : inbox'[r] = inbox[r]
      /\ inbox' \in [Reactors -> Seq(Messages \cup {Stop})]
  BY <1>1, <1>3 DEF InboxInv, InboxTypes
<1>5. InboxTypes'
  BY <1>1, <1>4 DEF InboxInv, InboxTypes
<1>6. InboxBounds'
  <2> SUFFICES ASSUME NEW r \in Reactors
               PROVE  /\ taken[r] <= batch[r] /\ batch[r] <= Len(inbox'[r])
                      /\ Len(inbox'[r]) <= Capacity
    BY <1>1 DEF InboxBounds
  <2>1. CASE r = cpu
    <3>1. Len(inbox'[r]) = Len(inbox[cpu]) + 1
      BY <1>3, <1>4, <2>1
    <3> QED
      BY <1>1, <1>2, <2>1, <3>1, ReactorAssumption, SMTT(30)
  <2>2. CASE r # cpu
    BY <1>4, <2>2 DEF InboxInv, InboxBounds
  <2> QED
    BY <2>1, <2>2
<1>7. \A r \in Reactors : \A i \in Places(r)' :
         \/ i \in Places(r) /\ inbox'[r][i] = inbox[r][i]
         \/ r = cpu /\ i = Len(inbox[cpu]) + 1 /\ inbox'[r][i] = m
  <2> SUFFICES ASSUME NEW r \in Reactors, NEW i \in Places(r)'
               PROVE  \/ i \in Places(r) /\ inbox'[r][i] = inbox[r][i]
                      \/ r = cpu /\ i = Len(inbox[cpu]) + 1 /\ inbox'[r][i] = m
    OBVIOUS
  <2>1. CASE r # cpu
    BY <1>1, <1>4, <2>1 DEF Places
  <2>2. CASE r = cpu
    <3>1. i \in taken[cpu] + 1..Len(inbox[cpu]) + 1
      BY <1>1, <1>3, <1>4, <2>2 DEF Places
    <3>2. i = Len(inbox[cpu]) + 1 \/ i \in taken[cpu] + 1..Len(inbox[cpu])
      BY <1>2, <3>1, SMTT(30)
    <3>3. ASSUME i \in taken[cpu] + 1..Len(inbox[cpu]) PROVE i \in 1..Len(inbox[cpu])
      BY <1>2, <3>3, SMTT(30)
    <3> QED
      BY <1>3, <1>4, <2>2, <3>2, <3>3 DEF Places
  <2> QED
    BY <2>1, <2>2
<1>8. PendingOnce'
  <2> SUFFICES ASSUME NEW r \in Reactors, NEW q \in Reactors, NEW i \in Places(r)',
                      NEW j \in Places(q)', inbox'[r][i] = inbox'[q][j], inbox'[r][i] # Stop
               PROVE  r = q /\ i = j
    BY SMTT(30) DEF PendingOnce
  <2>1. ASSUME NEW p \in Reactors, NEW k \in Places(p), inbox[p][k] = m PROVE m = Stop
    BY <2>1, PlaceFacts
  <2> QED
    BY <1>7, <2>1, SMTT(30) DEF InboxInv, PendingOnce
<1>9. \A r \in Reactors : \A n \in Pending(r)' : n # Stop /\ (n \in Pending(r) \/ (r = cpu /\ n = m))
  <2> SUFFICES ASSUME NEW r \in Reactors, NEW n \in Pending(r)'
               PROVE  n # Stop /\ (n \in Pending(r) \/ (r = cpu /\ n = m))
    OBVIOUS
  <2>1. n # Stop /\ \E i \in Places(r)' : inbox'[r][i] = n
    BY DEF Pending, Places
  <2> QED
    BY <1>7, <2>1, PlaceFacts
<1>10. \A r \in Reactors \ {cpu} : Pending(r)' = Pending(r)
  BY <1>1, <1>4 DEF Pending
<1> QED
  BY <1>5, <1>6, <1>8, <1>9, <1>10 DEF InboxInv

\* The message taken from a batch waits nowhere afterwards.
LEMMA TakePending ==
  ASSUME InboxInv, NEW r \in Reactors, taken[r] < batch[r], Take(r)
  PROVE  /\ InboxInv'
         /\ \A q \in Reactors : Pending(q)' \subseteq Pending(q)
         /\ Received(r) # Stop => /\ Received(r) \in Pending(r) /\ Received(r) \in Messages
                                  /\ \A q \in Reactors : Received(r) \notin Pending(q)'
<1>1. taken' = [taken EXCEPT ![r] = @ + 1] /\ inbox' = inbox /\ batch' = batch
  BY DEF Take
<1>2. /\ Len(inbox[r]) \in Nat /\ taken[r] \in Nat /\ batch[r] \in Nat
      /\ batch[r] <= Len(inbox[r])
  BY PlaceFacts
<1>3. /\ taken'[r] = taken[r] + 1 /\ \A q \in Reactors \ {r} : taken'[q] = taken[q]
      /\ taken' \in [Reactors -> Nat]
  BY <1>1, <1>2, SMTT(30) DEF InboxInv, InboxTypes
<1>4. InboxTypes'
  BY <1>1, <1>3 DEF InboxInv, InboxTypes
<1>5. InboxBounds'
  BY <1>1, <1>2, <1>3, SMTT(30) DEF InboxInv, InboxBounds
<1>6. \A q \in Reactors : \A i \in Places(q)' :
         i \in Places(q) /\ ~(q = r /\ i = taken[r] + 1)
  BY <1>1, <1>2, <1>3, SMTT(30) DEF Places
<1>7. PendingOnce'
  BY <1>1, <1>6, SMTT(30) DEF InboxInv, PendingOnce
<1>8. taken[r] + 1 \in Places(r)
  BY <1>2, SMTT(30) DEF Places
<1>9. \A q \in Reactors : \A m \in Pending(q)' : \E i \in Places(q)' : inbox[q][i] = m /\ m # Stop
  BY <1>1 DEF Pending, Places
<1>10. \A q \in Reactors : Pending(q)' \subseteq Pending(q)
  BY <1>6, <1>9, PlaceFacts, SMTT(30)
<1>11. ASSUME Received(r) # Stop
       PROVE  /\ Received(r) \in Pending(r) /\ Received(r) \in Messages
              /\ \A q \in Reactors : Received(r) \notin Pending(q)'
  <2>1. Received(r) \in Pending(r) /\ Received(r) \in Messages
    BY <1>8, <1>11, PlaceFacts DEF Received
  <2>2. ASSUME NEW q \in Reactors, Received(r) \in Pending(q)' PROVE FALSE
    <3>1. PICK i \in Places(q)' : inbox[q][i] = inbox[r][taken[r] + 1]
      BY <1>9, <2>2 DEF Received
    <3> QED
      BY <1>6, <1>8, <1>11, <3>1, SMTT(30) DEF InboxInv, PendingOnce, Received
  <2> QED
    BY <2>1, <2>2
<1> QED
  BY <1>4, <1>5, <1>7, <1>10, <1>11 DEF InboxInv

\* Removing a batch that was handled loses no message that waits.
LEMMA FinishPending ==
  ASSUME InboxInv, NEW r \in Reactors, FinishBatch(r)
  PROVE  /\ InboxInv'
         /\ \A q \in Reactors : Pending(q)' = Pending(q)
<1>1. /\ taken[r] = batch[r] /\ inbox' = [inbox EXCEPT ![r] = Rest(r)]
      /\ taken' = [taken EXCEPT ![r] = 0] /\ batch' = [batch EXCEPT ![r] = 0]
  BY DEF FinishBatch
<1>2. /\ inbox[r] \in Seq(Messages \cup {Stop}) /\ Len(inbox[r]) \in Nat /\ batch[r] \in Nat
      /\ batch[r] <= Len(inbox[r]) /\ Len(inbox[r]) <= Capacity
      /\ \A i \in 1..Len(inbox[r]) : inbox[r][i] \in Messages \cup {Stop}
  BY PlaceFacts, SeqFacts
<1>3. /\ Rest(r) \in Seq(Messages \cup {Stop}) /\ Len(Rest(r)) = Len(inbox[r]) - batch[r]
      /\ \A i \in 1..Len(inbox[r]) - batch[r] : Rest(r)[i] = inbox[r][batch[r] + i]
  <2>1. batch[r] \in 0..Len(inbox[r]) /\ inbox[r] \in Seq(Messages \cup {Stop})
    BY <1>2, SMTT(30)
  <2> QED
    BY <2>1, SuffixFacts DEF Rest
<1>4. /\ inbox'[r] = Rest(r) /\ taken'[r] = 0 /\ batch'[r] = 0
      /\ \A q \in Reactors \ {r} :
            inbox'[q] = inbox[q] /\ taken'[q] = taken[q] /\ batch'[q] = batch[q]
      /\ InboxTypes'
  BY <1>1, <1>3 DEF InboxInv, InboxTypes
<1>5. InboxBounds'
  <2> SUFFICES ASSUME NEW q \in Reactors
               PROVE  /\ taken'[q] <= batch'[q] /\ batch'[q] <= Len(inbox'[q])
                      /\ Len(inbox'[q]) <= Capacity
    BY DEF InboxBounds
  <2>1. CASE q = r
    BY <1>2, <1>3, <1>4, <2>1, ReactorAssumption, SMTT(30)
  <2>2. CASE q # r
    BY <1>4, <2>2 DEF InboxInv, InboxBounds
  <2> QED
    BY <2>1, <2>2
<1>6. \A i \in Places(r)' : i + batch[r] \in Places(r) /\ inbox'[r][i] = inbox[r][i + batch[r]]
  <2>1. Places(r)' = 1..Len(inbox[r]) - batch[r]
    BY <1>2, <1>3, <1>4, SMTT(30) DEF Places
  <2>2. \A i \in 1..Len(inbox[r]) - batch[r] :
           i + batch[r] \in Places(r) /\ i + batch[r] = batch[r] + i
    BY <1>1, <1>2, SMTT(30) DEF Places
  <2> QED
    BY <1>3, <1>4, <2>1, <2>2
<1>7. \A i \in Places(r) : i - batch[r] \in Places(r)' /\ inbox'[r][i - batch[r]] = inbox[r][i]
  <2>1. Places(r)' = 1..Len(inbox[r]) - batch[r]
    BY <1>2, <1>3, <1>4, SMTT(30) DEF Places
  <2>2. \A i \in Places(r) :
           i - batch[r] \in 1..Len(inbox[r]) - batch[r] /\ batch[r] + (i - batch[r]) = i
    BY <1>1, <1>2, SMTT(30) DEF Places
  <2> QED
    BY <1>3, <1>4, <2>1, <2>2
<1>8. \A q \in Reactors \ {r} : Places(q)' = Places(q)
  BY <1>4 DEF Places
<1>9. PendingOnce'
  <2> SUFFICES ASSUME NEW p \in Reactors, NEW q \in Reactors, NEW i \in Places(p)',
                      NEW j \in Places(q)', inbox'[p][i] = inbox'[q][j], inbox'[p][i] # Stop
               PROVE  p = q /\ i = j
    BY DEF PendingOnce
  <2> DEFINE Old(x, k) == IF x = r THEN k + batch[r] ELSE k
  <2>1. /\ Old(p, i) \in Places(p) /\ inbox[p][Old(p, i)] = inbox'[p][i]
        /\ Old(q, j) \in Places(q) /\ inbox[q][Old(q, j)] = inbox'[q][j]
    BY <1>4, <1>6, <1>8
  <2>2. p = q /\ Old(p, i) = Old(q, j)
    BY <2>1, SMTT(30) DEF InboxInv, PendingOnce
  <2>3. i \in Int /\ j \in Int
    BY SMTT(30) DEF Places
  <2> QED
    BY <1>2, <2>2, <2>3, SMTT(30)
<1>10. \A q \in Reactors : Pending(q)' = Pending(q)
  <2> TAKE q \in Reactors
  <2>1. CASE q = r
    <3>1. \A m : m \in Pending(r)' <=> m # Stop /\ \E i \in Places(r)' : inbox'[r][i] = m
      BY DEF Pending, Places
    <3>2. \A m : m \in Pending(r) <=> m # Stop /\ \E i \in Places(r) : inbox[r][i] = m
      BY DEF Pending, Places
    <3>3. \A m : m \in Pending(r)' <=> m \in Pending(r)
      BY <1>6, <1>7, <3>1, <3>2
    <3> QED
      BY <2>1, <3>3, SMTT(30)
  <2>2. CASE q # r
    BY <1>4, <2>2 DEF Pending
  <2> QED
    BY <2>1, <2>2
<1> QED
  BY <1>4, <1>5, <1>9, <1>10 DEF InboxInv

\* Inboxes that do not change keep their part of the invariant.
LEMMA SamePending ==
  ASSUME InboxInv, UNCHANGED inboxVars
  PROVE  InboxInv' /\ \A r \in Reactors : Pending(r)' = Pending(r)
  BY SMTT(30) DEF InboxInv, InboxTypes, InboxBounds, PendingOnce, Places, Pending, inboxVars

-----------------------------------------------------------------------------
(* What a step leaves alone *)

\* No worker begins to submit an answer.
NoNewAnswer == \A w \in Workers : wpc'[w] = "submit" => wpc[w] = "submit"

\* The messages of the pools are as before; a new one has no worker yet.
PoolKept ==
    \A m \in Messages :
        /\ msg[m].kind \in PoolKinds =>
              /\ msg'[m].kind = msg[m].kind /\ msg'[m].data = msg[m].data
              /\ msg'[m].cpu = msg[m].cpu /\ msg'[m].is_return = msg[m].is_return
              /\ msg'[m].freed = msg[m].freed
        /\ msg[m].kind \notin PoolKinds /\ msg'[m].kind \in PoolKinds =>
              msg'[m].data = NoWorker

\* The types of the fields of a message.
LEMMA DataType ==
  ASSUME IInv, NEW m \in Messages
  PROVE  /\ msg[m].data \in Workers \cup {NoWorker} /\ msg[m].cpu \in Reactors
         /\ msg[m].to \in Reactors /\ msg[m].kind \in Kinds
         /\ msg[m].caller \in Messages \cup {NoMessage}
         /\ msg[m].is_return \in BOOLEAN /\ msg[m].freed \in BOOLEAN
         /\ msg[m].runs \in Nat
  BY DEF IInv, FiberInv, FiberTypes, MessageRecord

\* Pools and workers that do not change keep their part of the invariant.
LEMMA SamePool ==
  ASSUME IInv, PoolKept, UNCHANGED <<poolVars, workerVars>>
  PROVE  PoolInv'
<1>1. UNCHANGED <<free, busy, joining, wpc, task, wready, wstop>>
  BY DEF poolVars, workerVars
<1>2. PoolTypes' /\ OwnedOnce' /\ OwnersOK'
  BY <1>1 DEF IInv, PoolInv, PoolTypes, OwnedOnce, OwnersOK, OwnerOK, Owned
<1>3. WorkersOK'
  BY <1>1 DEF IInv, PoolInv, WorkersOK, WorkerOK, HasTask, PoolKept
<1>4. ASSUME NEW m \in Messages, HandedOver(m)'
      PROVE  /\ HandedOver(m) /\ msg'[m].data = msg[m].data /\ msg'[m].cpu = msg[m].cpu
             /\ msg'[m].is_return = msg[m].is_return
  BY <1>4 DEF HandedOver, PoolKept
<1>5. HandedOnce'
  BY <1>4 DEF IInv, PoolInv, HandedOnce
<1>6. HandedOK'
  BY <1>1, <1>4 DEF IInv, PoolInv, HandedOK, HandOK
<1> QED
  BY <1>2, <1>3, <1>5, <1>6 DEF PoolInv

\* So do fibers and messages.
LEMMA SameFibers ==
  ASSUME IInv, UNCHANGED <<msg, step, dest, call>>, yielded' \subseteq Messages, NoNewAnswer
  PROVE  FiberInv'
<1>1. FiberTypes' /\ MessagesOK' /\ CallersWait'
  BY DEF IInv, FiberInv, FiberTypes, MessagesOK, MessageOK, CallersWait
<1>2. CallsOK'
  <2> SUFFICES ASSUME NEW f \in Messages PROVE CallOK(f)'
    BY DEF CallsOK
  <2>1. CallOK(f)
    BY DEF IInv, FiberInv, CallsOK
  <2>2. ASSUME step[f] = "resumed", msg[call[f]].kind = "pool" PROVE msg[call[f]].data \in Workers
    <3>1. call[f] \in Messages /\ msg[call[f]].is_return
      BY <2>1, <2>2 DEF CallOK, InCall
    <3>2. MessageOK(call[f])
      BY <3>1 DEF IInv, FiberInv, MessagesOK
    <3> QED
      BY <2>2, <3>1, <3>2, DataType DEF MessageOK, PoolKinds
  <2> QED
    BY <2>1, <2>2 DEF CallOK, NoNewAnswer
<1> QED
  BY <1>1, <1>2 DEF FiberInv

\* An answer from a pool names the worker that ran it.
LEMMA AnswerWorker ==
  ASSUME IInv, NEW m \in Messages, msg[m].kind \in PoolKinds, msg[m].is_return
  PROVE  msg[m].data \in Workers
  BY DataType DEF IInv, FiberInv, MessagesOK, MessageOK

\* Messages may leave an inbox.
LEMMA FewerPending ==
  ASSUME IInv, UNCHANGED <<msg, step, call>>, NoNewAnswer,
         \A r \in Reactors : Pending(r)' \subseteq Pending(r)
  PROVE  PendingOK'
<1> SUFFICES ASSUME NEW r \in Reactors, NEW m \in Pending(r)
             PROVE  /\ ~msg[m].freed
                    /\ IF msg[m].is_return THEN AnswerOK(r, m)' ELSE NewOK(r, m)'
  BY DEF PendingOK
<1>1. m \in Messages
  BY PendingMessages
<1>2. ~msg[m].freed /\ IF msg[m].is_return THEN AnswerOK(r, m) ELSE NewOK(r, m)
  BY DEF IInv, PendingOK
<1>3. NewOK(r, m) => NewOK(r, m)'
  BY DEF NewOK
<1>4. msg[m].is_return /\ AnswerOK(r, m) => AnswerOK(r, m)'
  BY <1>1, AnswerWorker DEF AnswerOK, NoNewAnswer
<1> QED
  BY <1>2, <1>3, <1>4

\* What the invariant says of messages and fibers.
LEMMA FiberFacts ==
  ASSUME IInv
  PROVE  /\ msg \in [Messages -> MessageRecord] /\ step \in [Messages -> FiberSteps]
         /\ dest \in [Messages -> Reactors] /\ call \in [Messages -> Messages \cup {NoMessage}]
         /\ yielded \subseteq Messages
         /\ \A m \in Messages : MessageOK(m) /\ CallOK(m)
  BY DEF IInv, FiberInv, FiberTypes, MessagesOK, CallsOK

\* The caller of a message that is not destroyed is in that call.
LEMMA CallerFacts ==
  ASSUME IInv, NEW m \in Messages, msg[m].kind \in CallKinds, ~msg[m].freed
  PROVE  /\ msg[m].caller \in Messages /\ call[msg[m].caller] = m
         /\ step[msg[m].caller] \in InCall
  BY DEF IInv, FiberInv, CallersWait

\* A message that waits is a new one or an answer.
LEMMA PendingFacts ==
  ASSUME IInv, NEW r \in Reactors, NEW m \in Pending(r)
  PROVE  /\ m \in Messages /\ ~msg[m].freed
         /\ msg[m].is_return => AnswerOK(r, m)
         /\ ~msg[m].is_return => NewOK(r, m)
  BY PendingMessages DEF IInv, PendingOK

\* A step that changes queues and inboxes only, and adds no message.
LEMMA QuietStep ==
  ASSUME IInv, QueueInv', InboxInv', UNCHANGED <<msg, step, dest, call, poolVars, workerVars>>,
         yielded' \subseteq Messages, \A r \in Reactors : Pending(r)' \subseteq Pending(r)
  PROVE  IInv'
<1>1. NoNewAnswer /\ PoolKept
  BY DEF NoNewAnswer, PoolKept, workerVars
<1> QED
  BY <1>1, SameFibers, FewerPending, SamePool DEF IInv

\* Messages that do not change keep their reactors.
LEMMA ToSame == ASSUME UNCHANGED msg PROVE ToKept
  BY DEF ToKept

====
