-------------------------- MODULE SemaphoreProofs ---------------------------
(***************************************************************************)
(* No wake-up is lost, and no Sc is, for every number of CPUs, Ecs,        *)
(* semaphores and calls.                                                   *)
(***************************************************************************)
EXTENDS Semaphore, TLAPS

-----------------------------------------------------------------------------
(* Queues.                                                                 *)

(* dequeue takes the element at i, and leaves the others in their order.   *)
LEMMA DequeueOne ==
    ASSUME NEW q \in Seq(Ec), NEW i \in DOMAIN q
    PROVE  /\ Dequeue(q, i) \in Seq(Ec) /\ Len(Dequeue(q, i)) = Len(q) - 1
           /\ Len(q) \in Nat /\ i \in 1 .. Len(q) /\ DOMAIN Dequeue(q, i) = 1 .. Len(q) - 1
           /\ \A j \in 1 .. Len(q) - 1 : Dequeue(q, i)[j] = IF j < i THEN q[j] ELSE q[j + 1]
  BY DEF Dequeue

(* The others remain in the queue.                                         *)
LEMMA OthersRemain ==
    ASSUME NEW q \in Seq(Ec), NEW i \in DOMAIN q, NEW e, e # q[i]
    PROVE  Queued(Dequeue(q, i), e) <=> Queued(q, e)
<1> DEFINE r == Dequeue(q, i)
<1>1. /\ Len(r) = Len(q) - 1 /\ Len(q) \in Nat /\ i \in 1 .. Len(q)
      /\ \A j \in 1 .. Len(q) - 1 : r[j] = IF j < i THEN q[j] ELSE q[j + 1]
  BY DequeueOne
<1> HIDE DEF r
<1>2. ASSUME NEW j \in 1 .. Len(q), q[j] = e PROVE \E k \in 1 .. Len(r) : r[k] = e
  <2>1. CASE j < i
    BY <1>1, <1>2, <2>1
  <2>2. CASE j > i
    <3>1. j - 1 \in 1 .. Len(r) /\ r[j - 1] = q[j]
      BY <1>1, <1>2, <2>2
    <3>2. QED
      BY <1>2, <3>1
  <2>3. QED
    BY <1>1, <1>2, <2>1, <2>2
<1>3. ASSUME NEW k \in 1 .. Len(r), r[k] = e PROVE \E j \in 1 .. Len(q) : q[j] = e
  BY <1>1, <1>3
<1>4. QED
  BY <1>2, <1>3 DEF Queued, r

(* An Ec is appended.                                                      *)
LEMMA Appended ==
    ASSUME NEW q \in Seq(Ec), NEW f \in Ec, NEW e
    PROVE  Queued(Append(q, f), e) <=> (Queued(q, e) \/ e = f)
<1>1. /\ Append(q, f) \in Seq(Ec) /\ Len(Append(q, f)) = Len(q) + 1 /\ Len(q) \in Nat
      /\ \A j \in 1 .. Len(q) : Append(q, f)[j] = q[j]
      /\ Append(q, f)[Len(q) + 1] = f
  OBVIOUS
<1>2. QED
  BY <1>1 DEF Queued

-----------------------------------------------------------------------------
(* What the steps do to who is blocked.                                    *)

(* Nobody's state changes where no queue does.                             *)
LEMMA SameBlocked == ASSUME queue' = queue PROVE \A e \in Ec : Blocked(e)' <=> Blocked(e)
  BY DEF Blocked

\* The step takes e, which is in the queue of s, out of it.
Dequeued(e, s) ==
    \E i \in DOMAIN queue[s] :
        queue[s][i] = e /\ queue' = [queue EXCEPT ![s] = Dequeue(queue[s], i)]

(* Nobody else is affected.                                                *)
LEMMA DequeuedBlocked ==
    ASSUME TypeOK, NEW s \in Sem, NEW e \in Ec, Dequeued(e, s)
    PROVE  /\ queue' \in [Sem -> Seq(Ec)]
           /\ \A f \in Ec \ {e} : Blocked(f)' <=> Blocked(f)
<1>1. PICK i \in DOMAIN queue[s] :
          queue[s][i] = e /\ queue' = [queue EXCEPT ![s] = Dequeue(queue[s], i)]
  BY Zenon DEF Dequeued
<1>2. queue \in [Sem -> Seq(Ec)] /\ queue[s] \in Seq(Ec)
  BY DEF TypeOK
<1>3. Dequeue(queue[s], i) \in Seq(Ec)
  BY <1>1, <1>2, DequeueOne
<1>4. /\ queue' \in [Sem -> Seq(Ec)] /\ queue'[s] = Dequeue(queue[s], i)
      /\ \A t \in Sem \ {s} : queue'[t] = queue[t]
  BY <1>1, <1>2, <1>3
<1>5. ASSUME NEW f \in Ec \ {e} PROVE Blocked(f)' <=> Blocked(f)
  <2>1. Queued(Dequeue(queue[s], i), f) <=> Queued(queue[s], f)
    BY <1>1, <1>2, OthersRemain
  <2>2. \A t \in Sem : Queued(queue'[t], f) <=> Queued(queue[t], f)
    BY <1>4, <2>1
  <2>3. QED
    BY <2>2 DEF Blocked
<1>6. QED
  BY <1>4, <1>5

(* A step that enqueues one Ec.                                            *)
LEMMA EnqueueBlocked ==
    ASSUME TypeOK, NEW s \in Sem, NEW f \in Ec, queue' = [queue EXCEPT ![s] = Append(@, f)]
    PROVE  /\ queue' \in [Sem -> Seq(Ec)]
           /\ \A e \in Ec : Blocked(e)' <=> (Blocked(e) \/ e = f)
<1>1. queue \in [Sem -> Seq(Ec)] /\ queue[s] \in Seq(Ec)
  BY DEF TypeOK
<1>2. /\ queue' \in [Sem -> Seq(Ec)] /\ queue'[s] = Append(queue[s], f)
      /\ \A t \in Sem \ {s} : queue'[t] = queue[t]
  BY <1>1
<1>3. ASSUME NEW e \in Ec PROVE Blocked(e)' <=> (Blocked(e) \/ e = f)
  BY <1>1, <1>2, Appended DEF Blocked
<1>4. QED
  BY <1>2, <1>3
-----------------------------------------------------------------------------
(* No wake-up is lost.                                                     *)

\* What BlockInv says of the CPU p.
CpuInv(p) ==
    /\ current[p] # Idle => Home[current[p]] = p
    /\ \A e \in ready[p] \cup remote[p] : Home[e] = p
    /\ pc[p] \in {"block_sc", "block_enqueue", "finish"} => current[p] # Idle
    /\ pc[p] = "release" => target[p] \in Ec
    /\ pc[p] = "block_enqueue" =>
           /\ lock[current[p]] = p
           /\ Blocked(current[p]) \/ Releasing(current[p])

(* The invariant holds of the next state if it holds of every CPU.         *)
LEMMA BlockInvCpusNext ==
    BlockInv' <=> TypeOK' /\ (\A p \in CPU : CpuInv(p)') /\ NoLostWakeup'
  BY DEF BlockInv, CpuInv

(* When the kernel starts nobody waits.                                    *)
LEMMA InitBlockInv == Init => BlockInv
  BY SemaphoreAssumption DEF Init, BlockInv, TypeOK, NoLostWakeup

(* dn() that finds a unit.                                                 *)
LEMMA DnTakeBlockInv ==
    ASSUME BlockInv, NEW p \in CPU, NEW s \in Sem, DnTake(p, s) PROVE BlockInv'
<1>1. TypeOK'
  BY DEF BlockInv, TypeOK, DnTake, ecs, scheduler
<1>2. \A e \in Ec : (Blocked(e)' <=> Blocked(e)) /\ (Releasing(e)' <=> Releasing(e))
  BY SameBlocked DEF Releasing, DnTake, ecs, scheduler
<1>3. ASSUME NEW q \in CPU PROVE CpuInv(q)'
  BY <1>2 DEF BlockInv, CpuInv, TypeOK, DnTake, ecs, scheduler
<1>4. NoLostWakeup'
  BY <1>2 DEF BlockInv, NoLostWakeup, Releasing, TypeOK, DnTake, ecs, scheduler
<1>5. QED
  BY <1>1, <1>3, <1>4, BlockInvCpusNext

(* dn() that has to wait.                                                  *)
LEMMA DnWaitBlockInv ==
    ASSUME BlockInv, NEW p \in CPU, NEW s \in Sem, DnWait(p, s) PROVE BlockInv'
<1>1. current[p] \in Ec
  BY DEF BlockInv, TypeOK, DnWait, scheduler, Goto
<1>2. /\ queue' \in [Sem -> Seq(Ec)]
      /\ \A e \in Ec : Blocked(e)' <=> (Blocked(e) \/ e = current[p])
  BY <1>1, EnqueueBlocked, Zenon DEF BlockInv, DnWait
<1>3. TypeOK'
  BY <1>1, <1>2, SemaphoreAssumption DEF BlockInv, TypeOK, DnWait, scheduler, Goto
<1>4. \A e \in Ec : Releasing(e)' <=> Releasing(e)
  BY DEF BlockInv, TypeOK, Releasing, DnWait, scheduler, Goto
<1>5. ASSUME NEW q \in CPU PROVE CpuInv(q)'
  BY <1>2, <1>4 DEF BlockInv, CpuInv, TypeOK, DnWait, scheduler, Goto
<1>6. NoLostWakeup'
  BY <1>2, <1>4 DEF BlockInv, NoLostWakeup, Releasing, TypeOK, DnWait, scheduler, Goto
<1>7. QED
  BY <1>3, <1>5, <1>6, BlockInvCpusNext

(* block_sc() takes the lock of the Ec, or finds that it may go on.        *)
LEMMA BlockScBlockInv ==
    ASSUME BlockInv, NEW p \in CPU, BlockSc(p) PROVE BlockInv'
<1>1. TypeOK'
  <2>1. current[p] \in Ec /\ lock \in [Ec -> CPU \cup {None}]
    BY DEF BlockInv, TypeOK, BlockSc
  <2>2. /\ lock' = [lock EXCEPT ![current[p]] = p] \/ lock' = lock
        /\ pc' = [pc EXCEPT ![p] = "block_enqueue"] \/ pc' = [pc EXCEPT ![p] = "finish"]
        /\ UNCHANGED <<sems, timer, cont, scq, scheduler, target, history>>
    BY DEF BlockSc, Goto
  <2>3. lock' \in [Ec -> CPU \cup {None}]
    BY <2>1, <2>2
  <2>4. QED
    BY <2>2, <2>3, Zenon DEF BlockInv, TypeOK, sems, scheduler, history
<1>2. \A e \in Ec : (Blocked(e)' <=> Blocked(e)) /\ (Releasing(e)' <=> Releasing(e))
  BY SameBlocked DEF BlockInv, TypeOK, Releasing, sems, history, scheduler, Goto, BlockSc
<1>3. ASSUME NEW q \in CPU PROVE CpuInv(q)'
  BY <1>2, SemaphoreAssumption DEF BlockInv, CpuInv, TypeOK, sems, history, scheduler, Goto, BlockSc
<1>4. NoLostWakeup'
  BY <1>2 DEF BlockInv, NoLostWakeup, Releasing, TypeOK, sems, history, scheduler, Goto, BlockSc
<1>5. QED
  BY <1>1, <1>3, <1>4, BlockInvCpusNext

(* The Sc is enqueued: the Ec is blocked or somebody releases it.          *)
LEMMA BlockEnqueueBlockInv ==
    ASSUME BlockInv, NEW p \in CPU, BlockEnqueue(p) PROVE BlockInv'
<1>1. TypeOK'
  BY SemaphoreAssumption DEF BlockInv, TypeOK, sems, history, scheduler, Goto, BlockEnqueue
<1>2. \A e \in Ec : (Blocked(e)' <=> Blocked(e)) /\ (Releasing(e)' <=> Releasing(e))
  BY SameBlocked DEF BlockInv, TypeOK, Releasing, sems, history, scheduler, Goto, BlockEnqueue
<1>3. ASSUME NEW q \in CPU PROVE CpuInv(q)'
  BY <1>2, SemaphoreAssumption DEF BlockInv, CpuInv, TypeOK, sems, history, scheduler, Goto, BlockEnqueue
<1>4. NoLostWakeup'
  BY <1>2 DEF BlockInv, NoLostWakeup, Releasing, TypeOK, sems, history, scheduler, Goto, BlockEnqueue
<1>5. QED
  BY <1>1, <1>3, <1>4, BlockInvCpusNext

(* A Sc of the ready list runs.                                            *)
LEMMA ScheduleBlockInv ==
    ASSUME BlockInv, NEW p \in CPU, Schedule(p) PROVE BlockInv'
<1>1. TypeOK'
  BY SemaphoreAssumption DEF BlockInv, TypeOK, sems, history, ecs, scheduler, Goto, Schedule
<1>2. \A e \in Ec : (Blocked(e)' <=> Blocked(e)) /\ (Releasing(e)' <=> Releasing(e))
  BY SameBlocked DEF BlockInv, TypeOK, Releasing, sems, history, ecs, scheduler, Goto, Schedule
<1>3. ASSUME NEW q \in CPU PROVE CpuInv(q)'
  BY <1>2, SemaphoreAssumption DEF BlockInv, CpuInv, TypeOK, sems, history, ecs, scheduler, Goto, Schedule
<1>4. NoLostWakeup'
  BY <1>2 DEF BlockInv, NoLostWakeup, Releasing, TypeOK, sems, history, ecs, scheduler, Goto, Schedule
<1>5. QED
  BY <1>1, <1>3, <1>4, BlockInvCpusNext

(* Its Ec goes on, or blocks again.                                        *)
LEMMA ActivateBlockInv ==
    ASSUME BlockInv, NEW p \in CPU, Activate(p) PROVE BlockInv'
<1>1. TypeOK'
  BY SemaphoreAssumption DEF BlockInv, TypeOK, sems, history, ecs, scheduler, Goto, Activate
<1>2. \A e \in Ec : (Blocked(e)' <=> Blocked(e)) /\ (Releasing(e)' <=> Releasing(e))
  BY SameBlocked DEF BlockInv, TypeOK, Releasing, sems, history, ecs, scheduler, Goto, Activate
<1>3. ASSUME NEW q \in CPU PROVE CpuInv(q)'
  BY <1>2, SemaphoreAssumption DEF BlockInv, CpuInv, TypeOK, sems, history, ecs, scheduler, Goto, Activate
<1>4. NoLostWakeup'
  BY <1>2 DEF BlockInv, NoLostWakeup, Releasing, TypeOK, sems, history, ecs, scheduler, Goto, Activate
<1>5. QED
  BY <1>1, <1>3, <1>4, BlockInvCpusNext

(* A dn() ends.                                                            *)
LEMMA FinishBlockInv ==
    ASSUME BlockInv, NEW p \in CPU, Finish(p) PROVE BlockInv'
<1>1. TypeOK'
  BY SemaphoreAssumption DEF BlockInv, TypeOK, sems, history, ecs, scheduler, Goto, Finish
<1>2. \A e \in Ec : (Blocked(e)' <=> Blocked(e)) /\ (Releasing(e)' <=> Releasing(e))
  BY SameBlocked DEF BlockInv, TypeOK, Releasing, sems, history, ecs, scheduler, Goto, Finish
<1>3. ASSUME NEW q \in CPU PROVE CpuInv(q)'
  BY <1>2, SemaphoreAssumption DEF BlockInv, CpuInv, TypeOK, sems, history, ecs, scheduler, Goto, Finish
<1>4. NoLostWakeup'
  BY <1>2 DEF BlockInv, NoLostWakeup, Releasing, TypeOK, sems, history, ecs, scheduler, Goto, Finish
<1>5. QED
  BY <1>1, <1>3, <1>4, BlockInvCpusNext

(* The interrupt that announces Scs in the remote queue.                   *)
LEMMA RrqAcceptBlockInv ==
    ASSUME BlockInv, NEW p \in CPU, RrqAccept(p) PROVE BlockInv'
<1>1. TypeOK'
  BY SemaphoreAssumption DEF BlockInv, TypeOK, sems, history, ecs, scheduler, Goto, RrqAccept
<1>2. \A e \in Ec : (Blocked(e)' <=> Blocked(e)) /\ (Releasing(e)' <=> Releasing(e))
  BY SameBlocked DEF BlockInv, TypeOK, Releasing, sems, history, ecs, scheduler, Goto, RrqAccept
<1>3. ASSUME NEW q \in CPU PROVE CpuInv(q)'
  BY <1>2, SemaphoreAssumption DEF BlockInv, CpuInv, TypeOK, sems, history, ecs, scheduler, Goto, RrqAccept
<1>4. NoLostWakeup'
  BY <1>2 DEF BlockInv, NoLostWakeup, Releasing, TypeOK, sems, history, ecs, scheduler, Goto, RrqAccept
<1>5. QED
  BY <1>1, <1>3, <1>4, BlockInvCpusNext

(* They become ready.                                                      *)
LEMMA RrqHandlerBlockInv ==
    ASSUME BlockInv, NEW p \in CPU, RrqHandler(p) PROVE BlockInv'
<1>1. TypeOK'
  BY SemaphoreAssumption DEF BlockInv, TypeOK, sems, history, ecs, scheduler, Goto, RrqHandler
<1>2. \A e \in Ec : (Blocked(e)' <=> Blocked(e)) /\ (Releasing(e)' <=> Releasing(e))
  BY SameBlocked DEF BlockInv, TypeOK, Releasing, sems, history, ecs, scheduler, Goto, RrqHandler
<1>3. ASSUME NEW q \in CPU PROVE CpuInv(q)'
  BY <1>2, SemaphoreAssumption DEF BlockInv, CpuInv, TypeOK, sems, history, ecs, scheduler, Goto, RrqHandler
<1>4. NoLostWakeup'
  BY <1>2 DEF BlockInv, NoLostWakeup, Releasing, TypeOK, sems, history, ecs, scheduler, Goto, RrqHandler
<1>5. QED
  BY <1>1, <1>3, <1>4, BlockInvCpusNext

(* The running Sc goes back to the ready list.                             *)
LEMMA PreemptBlockInv ==
    ASSUME BlockInv, NEW p \in CPU, Preempt(p) PROVE BlockInv'
<1>1. TypeOK'
  BY SemaphoreAssumption DEF BlockInv, TypeOK, sems, history, ecs, scheduler, Goto, Preempt
<1>2. \A e \in Ec : (Blocked(e)' <=> Blocked(e)) /\ (Releasing(e)' <=> Releasing(e))
  BY SameBlocked DEF BlockInv, TypeOK, Releasing, sems, history, ecs, scheduler, Goto, Preempt
<1>3. ASSUME NEW q \in CPU PROVE CpuInv(q)'
  BY <1>2, SemaphoreAssumption DEF BlockInv, CpuInv, TypeOK, sems, history, ecs, scheduler, Goto, Preempt
<1>4. NoLostWakeup'
  BY <1>2 DEF BlockInv, NoLostWakeup, Releasing, TypeOK, sems, history, ecs, scheduler, Goto, Preempt
<1>5. QED
  BY <1>1, <1>3, <1>4, BlockInvCpusNext

(* up() and timeout() both take one Ec out of a queue and go on to release *)
(* it; what they do to timeouts and continuations does not matter here.    *)
LEMMA DequeueBlockInv ==
    ASSUME BlockInv, NEW p \in CPU, pc[p] = "user", NEW s \in Sem, NEW f \in Ec, Dequeued(f, s),
           target' = [target EXCEPT ![p] = f], pc' = [pc EXCEPT ![p] = "release"],
           UNCHANGED <<lock, scq, current, ready, remote>>, TypeOK'
    PROVE  BlockInv'
<1>1. TypeOK
  BY DEF BlockInv
<1>2. \A e \in Ec \ {f} : Blocked(e)' <=> Blocked(e)
  BY <1>1, DequeuedBlocked
<1>3. (\A e \in Ec : Releasing(e) => Releasing(e)') /\ Releasing(f)'
  BY <1>1 DEF TypeOK, Releasing
<1>4. ASSUME NEW q \in CPU PROVE CpuInv(q)'
  BY <1>2, <1>3 DEF BlockInv, CpuInv, TypeOK
<1>5. NoLostWakeup'
  BY <1>2, <1>3 DEF BlockInv, NoLostWakeup, Releasing, TypeOK
<1>6. QED
  BY <1>4, <1>5, BlockInvCpusNext

(* A step that changes counters, timeouts and the like only.               *)
LEMMA SameBlockInv ==
    ASSUME BlockInv, UNCHANGED <<queue, lock, scq, current, ready, remote, pc, target>>, TypeOK'
    PROVE  BlockInv'
<1>1. \A e \in Ec : (Blocked(e)' <=> Blocked(e)) /\ (Releasing(e)' <=> Releasing(e))
  BY SameBlocked DEF Releasing
<1>2. ASSUME NEW q \in CPU PROVE CpuInv(q)'
  BY <1>1 DEF BlockInv, CpuInv, TypeOK
<1>3. NoLostWakeup'
  BY <1>1 DEF BlockInv, NoLostWakeup, Releasing, TypeOK
<1>4. QED
  BY <1>2, <1>3, BlockInvCpusNext

(* up() adds a unit, or takes the first Ec out of the queue.               *)
LEMMA UpBlockInv ==
    ASSUME BlockInv, NEW p \in CPU, NEW s \in Sem, Up(p, s) PROVE BlockInv'
<1>1. TypeOK
  BY DEF BlockInv
<1>2. /\ queue[s] \in Seq(Ec) /\ ups' \in [Sem -> Nat] /\ calls' \in Nat /\ pc[p] = "user"
      /\ UNCHANGED <<timer, cont, lock, scq, current, ready, remote, ipi, wait, taken>>
  BY <1>1 DEF TypeOK, Up, ecs, scheduler
<1>3. CASE queue[s] = <<>>
  <2>1. counter' = [counter EXCEPT ![s] = @ + 1] /\ UNCHANGED <<queue, pc, target>>
    BY <1>3 DEF Up
  <2>2. counter' \in [Sem -> Nat]
    BY <1>1, <2>1 DEF TypeOK
  <2>3. TypeOK'
    BY <1>1, <1>2, <2>1, <2>2 DEF TypeOK
  <2>4. QED
    BY <1>2, <2>1, <2>3, SameBlockInv
<1>4. CASE queue[s] # <<>>
  <2>1. PICK f \in Ec : f = queue[s][1] /\ 1 \in DOMAIN queue[s] /\ Head(queue[s]) = f
    BY <1>2, <1>4
  <2>2. /\ queue' = [queue EXCEPT ![s] = Dequeue(queue[s], 1)] /\ counter' = counter
        /\ target' = [target EXCEPT ![p] = f] /\ pc' = [pc EXCEPT ![p] = "release"]
    BY <1>4, <2>1 DEF Up, Goto
  <2>3. Dequeued(f, s)
    BY <2>1, <2>2, Zenon DEF Dequeued
  <2>4. queue' \in [Sem -> Seq(Ec)]
    BY <1>1, <2>3, DequeuedBlocked
  <2>5. TypeOK'
    BY <1>1, <1>2, <2>2, <2>4 DEF TypeOK
  <2>6. QED
    BY <1>2, <2>2, <2>3, <2>5, DequeueBlockInv, Zenon
<1>5. QED
  BY <1>3, <1>4

(* The timeout takes its Ec out of the queue, if it is still there.        *)
LEMMA TimeoutBlockInv ==
    ASSUME BlockInv, NEW p \in CPU, NEW e \in Ec, Timeout(p, e) PROVE BlockInv'
<1>1. TypeOK
  BY DEF BlockInv
<1>2. /\ timer' = [timer EXCEPT ![e] = None] /\ pc[p] = "user"
      /\ UNCHANGED <<counter, lock, scq, current, ready, remote, ipi, wait, ups, taken, calls>>
  BY DEF Timeout, scheduler, history
<1>3. CASE Blocked(e)
  <2>1. PICK s \in Sem : s = timer[e]
    BY <1>1 DEF TypeOK, Timeout
  <2>2. /\ cont' = [cont EXCEPT ![e] = "timeout"]
        /\ target' = [target EXCEPT ![p] = e] /\ pc' = [pc EXCEPT ![p] = "release"]
    BY <1>3 DEF Timeout, Goto
  <2>3. Dequeued(e, s)
    BY <1>3, <2>1 DEF Timeout, Dequeued
  <2>4. queue' \in [Sem -> Seq(Ec)]
    BY <1>1, <2>3, DequeuedBlocked
  <2>5. TypeOK'
    BY <1>1, <1>2, <2>2, <2>4 DEF TypeOK
  <2>6. QED
    BY <1>2, <2>2, <2>3, <2>5, DequeueBlockInv, Zenon
<1>4. CASE ~Blocked(e)
  <2>1. UNCHANGED <<queue, cont, target, pc>>
    BY <1>4 DEF Timeout
  <2>2. TypeOK'
    BY <1>1, <1>2, <2>1 DEF TypeOK
  <2>3. QED
    BY <1>2, <2>1, <2>2, SameBlockInv
<1>5. QED
  BY <1>3, <1>4

(* release() takes the Sc out of the queue of the Ec, whose lock is free.  *)
LEMMA ReleaseBlockInv ==
    ASSUME BlockInv, NEW p \in CPU, Release(p) PROVE BlockInv'
<1>1. TypeOK
  BY DEF BlockInv
<1>2. PICK f \in Ec : f = target[p] /\ lock[f] = None /\ Home[f] \in CPU
  BY SemaphoreAssumption DEF BlockInv, Release
<1>3. /\ scq' = scq \ {f} /\ pc[p] = "release"
      /\ target' = [target EXCEPT ![p] = None] /\ pc' = [pc EXCEPT ![p] = "user"]
      /\ UNCHANGED <<queue, lock, current>>
      /\ UNCHANGED <<counter, timer, cont, wait, ups, taken, calls>>
  BY <1>2 DEF Release, Goto, sems, history
<1>4. /\ ready' = ready \/ ready' = [ready EXCEPT ![Home[f]] = @ \cup {f}]
      /\ remote' = remote \/ remote' = [remote EXCEPT ![Home[f]] = @ \cup {f}]
      /\ ipi' = ipi \/ ipi' = ipi \cup {Home[f]}
      /\ ready \in [CPU -> SUBSET Ec] /\ remote \in [CPU -> SUBSET Ec] /\ ipi \subseteq CPU
  <2>1. ready \in [CPU -> SUBSET Ec] /\ remote \in [CPU -> SUBSET Ec] /\ ipi \subseteq CPU
    BY <1>1 DEF TypeOK
  <2>2. QED
    BY <1>2, <2>1 DEF Release
<1>5. \A e \in Ec : Blocked(e)' <=> Blocked(e)
  BY <1>3, SameBlocked
<1>6. \A e \in Ec \ {f} : Releasing(e) => Releasing(e)'
  BY <1>1, <1>2, <1>3 DEF TypeOK, Releasing
<1>7. TypeOK'
  <2>1. ready' \in [CPU -> SUBSET Ec] /\ remote' \in [CPU -> SUBSET Ec] /\ ipi' \subseteq CPU
    <3>1. ready' \in [CPU -> SUBSET Ec]
      BY <1>2, <1>4
    <3>2. remote' \in [CPU -> SUBSET Ec]
      BY <1>2, <1>4
    <3>3. QED
      BY <1>2, <1>4, <3>1, <3>2
  <2>2. QED
    BY <1>1, <1>3, <2>1, Zenon DEF TypeOK
<1>8. ASSUME NEW q \in CPU PROVE CpuInv(q)'
  <2>1. \A e \in (ready[q] \cup remote[q])' : Home[e] = q
    <3>1. ready'[q] \subseteq ready[q] \cup {f} /\ (Home[f] # q => ready'[q] = ready[q])
      BY <1>2, <1>4
    <3>2. remote'[q] \subseteq remote[q] \cup {f} /\ (Home[f] # q => remote'[q] = remote[q])
      BY <1>2, <1>4
    <3>3. QED
      BY <3>1, <3>2 DEF BlockInv
  <2>2. pc[q] = "block_enqueue" => current[q] \in Ec \ {f} /\ lock[current[q]] = q
    BY <1>1, <1>2, SemaphoreAssumption DEF BlockInv, TypeOK
  <2>3. /\ pc'[q] = pc[q] \/ pc'[q] = "user"
        /\ pc'[q] = "release" => target'[q] = target[q] /\ pc[q] = "release"
    BY <1>1, <1>3 DEF TypeOK
  <2>4. CpuInv(q)
    BY DEF BlockInv, CpuInv
  <2>5. QED
    BY <1>3, <1>5, <1>6, <2>1, <2>2, <2>3, <2>4 DEF CpuInv
<1>9. NoLostWakeup'
  BY <1>1, <1>3, <1>5, <1>6, Zenon DEF BlockInv, NoLostWakeup, Releasing, TypeOK
<1>10. QED
  BY <1>7, <1>8, <1>9, BlockInvCpusNext

(* BlockInv is an invariant.                                               *)
THEOREM WaitersAreReleased == Spec => []BlockInv
<1>1. BlockInv /\ [Next]_vars => BlockInv'
  <2> SUFFICES ASSUME BlockInv, [Next]_vars PROVE BlockInv'
    OBVIOUS
  <2>1. CASE UNCHANGED vars
    <3>1. TypeOK'
      BY <2>1 DEF BlockInv, TypeOK, vars, sems, ecs, scheduler, history
    <3>2. QED
      BY <2>1, <3>1, SameBlockInv DEF vars, sems, ecs, scheduler
  <2>2. ASSUME NEW p \in CPU, Kernel(p) PROVE BlockInv'
    BY <2>2, BlockScBlockInv, BlockEnqueueBlockInv, ScheduleBlockInv, ActivateBlockInv,
       FinishBlockInv, ReleaseBlockInv, RrqHandlerBlockInv DEF Kernel
  <2>3. QED
    BY <2>1, <2>2, RrqAcceptBlockInv, PreemptBlockInv, DnTakeBlockInv, DnWaitBlockInv,
       UpBlockInv, TimeoutBlockInv DEF Next
<1>2. QED
  BY <1>1, InitBlockInv, PTL DEF Spec

(* A Sc that waits in the queue of an Ec is never forgotten there: the Ec  *)
(* is in the queue of a semaphore, or the CPU that took it out is about to *)
(* release it.                                                             *)
THEOREM SemaphoreNoLostWakeup == Spec => []NoLostWakeup
<1>1. BlockInv => NoLostWakeup
  BY DEF BlockInv
<1>2. QED
  BY <1>1, WaitersAreReleased, PTL
-----------------------------------------------------------------------------
(* No Sc is lost or linked twice.                                          *)

\* The CPU of e runs e; a CPU in schedule() has nothing to run.
Runs(e) == current[Home[e]] = e /\ pc[Home[e]] # "schedule"

\* Each of the conditions on e excludes the others, and one of them holds.
PlaceOf(e) ==
    \/ Runs(e) /\ e \notin ready[Home[e]] /\ e \notin remote[Home[e]] /\ e \notin scq
    \/ ~Runs(e) /\ e \in ready[Home[e]] /\ e \notin remote[Home[e]] /\ e \notin scq
    \/ ~Runs(e) /\ e \notin ready[Home[e]] /\ e \in remote[Home[e]] /\ e \notin scq
    \/ ~Runs(e) /\ e \notin ready[Home[e]] /\ e \notin remote[Home[e]] /\ e \in scq

\* OnePlace, on the CPU of each Ec.
PlaceInv == \A e \in Ec : PlaceOf(e)

(* The steps keep PlaceInv: what a Sc leaves and what it enters is the     *)
(* same step.                                                              *)
LEMMA PlaceStep ==
    ASSUME BlockInv, PlaceInv, [Next]_vars PROVE PlaceInv'
<1> SUFFICES ASSUME NEW e \in Ec PROVE PlaceOf(e)'
  BY DEF PlaceInv
<1> DEFINE h == Home[e]
<1>1. h \in CPU /\ PlaceOf(e) /\ e # Idle /\ e # None /\ None \notin CPU
  BY SemaphoreAssumption DEF PlaceInv
<1>2. /\ current \in [CPU -> Ec \cup {Idle}] /\ ready \in [CPU -> SUBSET Ec]
      /\ remote \in [CPU -> SUBSET Ec] /\ scq \subseteq Ec /\ DOMAIN pc = CPU
      /\ \A q \in CPU : /\ current[q] # Idle => Home[current[q]] = q
                        /\ pc[q] = "release" => target[q] \in Ec
                        /\ pc[q] = "block_enqueue" => current[q] # Idle
                        /\ \A f \in ready[q] \cup remote[q] : Home[f] = q
  BY DEF BlockInv, TypeOK
<1> HIDE DEF h
<1>3. CASE UNCHANGED vars
  BY <1>1, <1>3 DEF vars, PlaceOf, Runs, sems, ecs, scheduler, history, Goto
<1>4. ASSUME NEW p \in CPU, BlockSc(p) \/ Activate(p) \/ Finish(p) \/ RrqAccept(p) PROVE PlaceOf(e)'
  BY <1>1, <1>2, <1>4 DEF BlockSc, Activate, Finish, RrqAccept, PlaceOf, Runs, h, sems, ecs, scheduler, history, Goto
<1>5. ASSUME NEW p \in CPU, BlockEnqueue(p) PROVE PlaceOf(e)'
  BY <1>1, <1>2, <1>5 DEF BlockEnqueue, PlaceOf, Runs, h, sems, ecs, scheduler, history, Goto
<1>6. ASSUME NEW p \in CPU, Schedule(p) PROVE PlaceOf(e)'
  BY <1>1, <1>2, <1>6 DEF Schedule, PlaceOf, Runs, h, sems, ecs, scheduler, history, Goto
<1>7. ASSUME NEW p \in CPU, Release(p) PROVE PlaceOf(e)'
  BY <1>1, <1>2, <1>7 DEF Release, PlaceOf, Runs, h, sems, ecs, scheduler, history, Goto
<1>8. ASSUME NEW p \in CPU, RrqHandler(p) PROVE PlaceOf(e)'
  BY <1>1, <1>2, <1>8 DEF RrqHandler, PlaceOf, Runs, h, sems, ecs, scheduler, history, Goto
<1>9. ASSUME NEW p \in CPU, Preempt(p) PROVE PlaceOf(e)'
  BY <1>1, <1>2, <1>9 DEF Preempt, PlaceOf, Runs, h, sems, ecs, scheduler, history, Goto
<1>10. ASSUME NEW p \in CPU, NEW s \in Sem, DnTake(p, s) \/ DnWait(p, s) \/ Up(p, s) PROVE PlaceOf(e)'
  BY <1>1, <1>2, <1>10 DEF DnTake, DnWait, Up, PlaceOf, Runs, h, sems, ecs, scheduler, history, Goto
<1>11. ASSUME NEW p \in CPU, NEW f \in Ec, Timeout(p, f) PROVE PlaceOf(e)'
  BY <1>1, <1>2, <1>11 DEF Timeout, PlaceOf, Runs, h, sems, ecs, scheduler, history, Goto
<1>12. QED
  BY <1>3, <1>4, <1>5, <1>6, <1>7, <1>8, <1>9, <1>10, <1>11 DEF Next, Kernel

(* The Sc of every Ec is in exactly one place at every moment: it runs, or *)
(* is in one ready list, one remote queue or the queue of its Ec.          *)
THEOREM ScInOnePlace == Spec => []OnePlace
<1>1. Init => PlaceInv
  BY SemaphoreAssumption DEF Init, PlaceInv, PlaceOf, Runs
<1>2. BlockInv /\ PlaceInv /\ [Next]_vars => PlaceInv'
  BY PlaceStep
<1>3. BlockInv /\ PlaceInv => OnePlace
  <2> SUFFICES ASSUME BlockInv, PlaceInv, NEW e \in Ec
               PROVE  \E x \in Places(e) : Places(e) = {x}
    BY DEF OnePlace
  <2> DEFINE h == Home[e]
  <2>1. h \in CPU /\ e # Idle
    BY SemaphoreAssumption
  <2>2. \A q \in CPU \ {h} : current[q] # e /\ e \notin ready[q] /\ e \notin remote[q]
    BY <2>1 DEF BlockInv
  <2>3. PlaceOf(e)
    BY DEF PlaceInv
  <2>4. \/ Places(e) = {<<"current", h>>} \/ Places(e) = {<<"ready", h>>}
        \/ Places(e) = {<<"remote", h>>} \/ Places(e) = {<<"blocked", e>>}
    <3>1. CASE Runs(e)
      BY <2>1, <2>2, <2>3, <3>1 DEF PlaceOf, Runs, Places
    <3>2. CASE e \in ready[h]
      BY <2>1, <2>2, <2>3, <3>2 DEF PlaceOf, Runs, Places
    <3>3. CASE e \in remote[h]
      BY <2>1, <2>2, <2>3, <3>3 DEF PlaceOf, Runs, Places
    <3>4. CASE e \in scq
      BY <2>1, <2>2, <2>3, <3>4 DEF PlaceOf, Runs, Places
    <3>5. QED
      BY <2>3, <3>1, <3>2, <3>3, <3>4 DEF PlaceOf
  <2>5. QED
    BY <2>4, Zenon
<1>4. QED
  BY <1>1, <1>2, <1>3, WaitersAreReleased, PTL DEF Spec
=============================================================================
