------------------------ MODULE SemaphoreUnitProofs -------------------------
(***************************************************************************)
(* No unit of a semaphore is lost or handed out twice, for every number of *)
(* CPUs, Ecs, semaphores and calls.                                        *)
(***************************************************************************)
EXTENDS SemaphoreProofs, FiniteSetTheorems

-----------------------------------------------------------------------------
(* No unit is lost.                                                        *)

\* What UnitInv says of the queues, of the CPU p and of the timeouts.
QueuesInv ==
    \A s \in Sem : \A i \in DOMAIN queue[s] :
        /\ wait[queue[s][i]] = s /\ cont[queue[s][i]] = "success"
        /\ \A j \in DOMAIN queue[s] : queue[s][i] = queue[s][j] => i = j
RunInv(p) ==
    current[p] # Idle => /\ pc[p] \in {"user", "release", "rrq"} => wait[current[p]] = None
                         /\ pc[p] = "finish" => ~Blocked(current[p])
TimersInv ==
    \A e \in Ec : (cont[e] = "timeout" => timer[e] = None) /\ (timer[e] # None => timer[e] = wait[e])

(* The invariant, part by part.                                            *)
LEMMA UnitInvParts ==
    UnitInv <=> QueuesInv /\ (\A p \in CPU : RunInv(p)) /\ TimersInv /\ UnitsConserved
  BY DEF UnitInv, QueuesInv, RunInv, TimersInv, TimerMatchesWait

(* The same of the next state.                                             *)
LEMMA UnitInvPartsNext ==
    UnitInv' <=> QueuesInv' /\ (\A p \in CPU : RunInv(p)') /\ TimersInv' /\ UnitsConserved'
  BY DEF UnitInv, QueuesInv, RunInv, TimersInv, TimerMatchesWait

(* The Ecs on their way with a unit can be counted.                        *)
LEMMA WokenCount ==
    \A s \in Sem : IsFiniteSet(Woken(s)) /\ Cardinality(Woken(s)) \in Nat
<1> TAKE s \in Sem
<1>1. Woken(s) \subseteq Ec
  BY DEF Woken
<1>2. QED
  BY <1>1, SemaphoreAssumption, FS_Subset, FS_CardinalityType

(* Whoever is in a queue waits for that semaphore.                         *)
LEMMA BlockedWaits ==
    ASSUME TypeOK, QueuesInv, NEW e \in Ec, Blocked(e)
    PROVE  /\ wait[e] \in Sem /\ cont[e] = "success"
           /\ \E i \in DOMAIN queue[wait[e]] : queue[wait[e]][i] = e
<1>1. PICK s \in Sem : Queued(queue[s], e)
  BY DEF Blocked
<1>2. queue[s] \in Seq(Ec)
  BY DEF TypeOK
<1>3. PICK i \in DOMAIN queue[s] : queue[s][i] = e
  BY <1>1, <1>2 DEF Queued
<1>4. QED
  BY <1>3 DEF QueuesInv

(* A step that changes neither the counters nor who is on their way.       *)
LEMMA SameUnits ==
    ASSUME UnitInv, UNCHANGED <<counter, ups, taken>>, \A t \in Sem : Woken(t)' = Woken(t)
    PROVE  UnitsConserved'
<1>1. ASSUME NEW t \in Sem PROVE ups'[t] = counter'[t] + taken'[t] + Cardinality(Woken(t)')
  <2>1. ups[t] = counter[t] + taken[t] + Cardinality(Woken(t)) /\ Woken(t)' = Woken(t)
    BY Zenon DEF UnitInv, UnitsConserved
  <2>2. QED
    BY <2>1
<1>2. QED
  BY <1>1, Zenon DEF UnitsConserved

(* When the kernel starts there are no units and nobody waits.             *)
LEMMA InitUnitInv == Init => UnitInv
<1> SUFFICES ASSUME Init PROVE UnitInv
  OBVIOUS
<1>1. \A s \in Sem : queue[s] = <<>> /\ DOMAIN queue[s] = {}
  BY DEF Init
<1>2. QueuesInv /\ TimersInv /\ \A p \in CPU : RunInv(p)
  BY <1>1 DEF Init, QueuesInv, TimersInv, RunInv
<1>3. ASSUME NEW s \in Sem PROVE Cardinality(Woken(s)) = 0
  <2>1. Woken(s) = {}
    BY SemaphoreAssumption DEF Init, Woken
  <2>2. QED
    BY <2>1, FS_EmptySet
<1>4. UnitsConserved
  BY <1>3 DEF Init, UnitsConserved
<1>5. QED
  BY <1>2, <1>4, UnitInvParts

(* A step of the scheduler, or of a CPU that blocks or releases an Ec,     *)
(* leaves the units alone.                                                 *)
LEMMA SameUnitInv ==
    ASSUME UnitInv, UNCHANGED <<sems, wait, cont, timer, ups, taken>>, \A p \in CPU : RunInv(p)'
    PROVE  UnitInv'
<1>1. QueuesInv' /\ TimersInv'
  BY UnitInvParts DEF QueuesInv, TimersInv, sems
<1>2. \A s \in Sem : Woken(s)' = Woken(s)
  BY DEF Woken, Blocked, sems
<1>3. UnitsConserved'
  BY <1>2, SameUnits, Zenon DEF sems
<1>4. QED
  BY <1>1, <1>3, UnitInvPartsNext

(* The steps that do not concern the units.                                *)
LEMMA SchedulerUnitInv ==
    ASSUME BlockInv, UnitInv, NEW p \in CPU,
           \/ BlockSc(p) \/ BlockEnqueue(p) \/ Schedule(p) \/ Activate(p) \/ Release(p)
           \/ RrqHandler(p) \/ RrqAccept(p) \/ Preempt(p)
    PROVE  UnitInv'
<1>1. UNCHANGED <<sems, wait, cont, timer, ups, taken>>
  BY DEF BlockSc, BlockEnqueue, Schedule, Activate, Release, RrqHandler, RrqAccept, Preempt, sems, ecs, scheduler, history, Goto
<1>2. \A e : Blocked(e)' <=> Blocked(e)
  BY <1>1 DEF Blocked, sems, ecs, scheduler, history, Goto
<1>3. ASSUME NEW q \in CPU PROVE RunInv(q)'
  <2>1. RunInv(q) /\ TypeOK
    BY UnitInvParts DEF BlockInv, sems, ecs, scheduler, history, Goto
  <2>2. CASE q # p
    <3>1. pc'[q] = pc[q] /\ current'[q] = current[q]
      BY <2>1, <2>2 DEF BlockSc, BlockEnqueue, Schedule, Activate, Release, RrqHandler, RrqAccept, Preempt, TypeOK, sems, ecs, scheduler, history, Goto
    <3>2. QED
      BY <1>1, <1>2, <2>1, <3>1 DEF RunInv
  <2>3. CASE q = p
    <3>1. CASE BlockSc(p) \/ Activate(p)
      BY <1>1, <1>2, <2>1, <2>3, <3>1 DEF BlockSc, Activate, RunInv, TypeOK, sems, ecs, scheduler, history, Goto
    <3>2. CASE BlockEnqueue(p) \/ Schedule(p) \/ Preempt(p)
      BY <2>1, <2>3, <3>2 DEF BlockEnqueue, Schedule, Preempt, RunInv, TypeOK, sems, ecs, scheduler, history, Goto
    <3>3. CASE Release(p) \/ RrqHandler(p) \/ RrqAccept(p)
      BY <1>1, <2>1, <2>3, <3>3 DEF Release, RrqHandler, RrqAccept, RunInv, TypeOK, sems, ecs, scheduler, history, Goto
    <3>4. QED
      BY <3>1, <3>2, <3>3
  <2>4. QED
    BY <2>2, <2>3
<1>4. QED
  BY <1>1, <1>3, SameUnitInv
(* dn() takes units out of the counter.                                    *)
LEMMA DnTakeUnitInv ==
    ASSUME BlockInv, UnitInv, NEW p \in CPU, NEW s \in Sem, DnTake(p, s) PROVE UnitInv'
<1>1. QueuesInv' /\ TimersInv' /\ \A q \in CPU : RunInv(q)'
  BY UnitInvParts DEF QueuesInv, TimersInv, RunInv, Blocked, DnTake, ecs, scheduler
<1>2. \A t \in Sem : Woken(t)' = Woken(t)
  BY DEF Woken, Blocked, DnTake, ecs, scheduler
<1>3. ASSUME NEW t \in Sem
      PROVE  ups'[t] = counter'[t] + taken'[t] + Cardinality(Woken(t)')
  <2>1. ups[t] = counter[t] + taken[t] + Cardinality(Woken(t)) /\ Cardinality(Woken(t)) \in Nat
    BY WokenCount DEF UnitInv, UnitsConserved
  <2>2. counter \in [Sem -> Nat] /\ taken \in [Sem -> Nat] /\ ups' = ups
    BY DEF BlockInv, TypeOK, DnTake, ecs, scheduler
  <2>3. PICK n \in {1, counter[s]} : /\ counter' = [counter EXCEPT ![s] = @ - n]
                                     /\ taken' = [taken EXCEPT ![s] = @ + n]
    BY Zenon DEF DnTake
  <2>4. n \in Nat
    BY <2>2, <2>3
  <2>5. counter'[t] + taken'[t] = counter[t] + taken[t]
    BY <2>2, <2>3, <2>4
  <2>6. QED
    BY <1>2, <2>1, <2>2, <2>5
<1>4. UnitsConserved'
  BY <1>3, Zenon DEF UnitsConserved
<1>5. QED
  BY <1>1, <1>4, UnitInvPartsNext

(* dn() that waits: the Ec was in user mode, hence in no queue.            *)
LEMMA DnWaitUnitInv ==
    ASSUME BlockInv, UnitInv, NEW p \in CPU, NEW s \in Sem, DnWait(p, s) PROVE UnitInv'
<1>1. TypeOK /\ QueuesInv /\ TimersInv /\ \A q \in CPU : RunInv(q)
  BY UnitInvParts, Zenon DEF BlockInv
<1>2. PICK e \in Ec : e = current[p]
  BY <1>1 DEF TypeOK, DnWait, scheduler, Goto
<1>3. wait[e] = None /\ ~Blocked(e) /\ None \notin Sem
  BY <1>1, <1>2, BlockedWaits, SemaphoreAssumption DEF RunInv, DnWait, scheduler, Goto
<1>4. /\ queue' = [queue EXCEPT ![s] = Append(queue[s], e)] /\ wait' = [wait EXCEPT ![e] = s]
      /\ cont' = [cont EXCEPT ![e] = "success"]
  BY <1>2 DEF DnWait, scheduler, Goto
<1>5. \A f \in Ec : Blocked(f)' <=> (Blocked(f) \/ f = e)
  BY <1>1, <1>4, EnqueueBlocked, Zenon
<1>6. QueuesInv'
  <2> SUFFICES ASSUME NEW t \in Sem, NEW i \in DOMAIN queue'[t]
               PROVE  /\ wait'[queue'[t][i]] = t /\ cont'[queue'[t][i]] = "success"
                      /\ \A j \in DOMAIN queue'[t] : queue'[t][i] = queue'[t][j] => i = j
    BY DEF QueuesInv, DnWait, scheduler, Goto
  <2>1. queue[t] \in Seq(Ec) /\ \A j \in DOMAIN queue[t] : queue[t][j] \in Ec \ {e}
    BY <1>1, <1>3 DEF TypeOK, QueuesInv, DnWait, scheduler, Goto
  <2>2. CASE t # s
    BY <1>1, <1>4, <2>1, <2>2 DEF QueuesInv, TypeOK, DnWait, scheduler, Goto
  <2>3. CASE t = s
    <3>1. /\ queue'[s] = Append(queue[s], e) /\ DOMAIN queue'[s] = 1 .. Len(queue[s]) + 1
          /\ Len(queue[s]) \in Nat /\ DOMAIN queue[s] = 1 .. Len(queue[s])
          /\ \A j \in 1 .. Len(queue[s]) : queue'[s][j] = queue[s][j]
          /\ queue'[s][Len(queue[s]) + 1] = e
      BY <1>1, <1>4, <2>1, <2>3 DEF TypeOK, DnWait, scheduler, Goto
    <3>2. \A j \in 1 .. Len(queue[s]) : wait'[queue[s][j]] = s /\ cont'[queue[s][j]] = "success"
      BY <1>1, <1>4, <2>1, <2>3, <3>1 DEF QueuesInv, TypeOK, DnWait, scheduler, Goto
    <3>3. wait'[e] = s /\ cont'[e] = "success"
      BY <1>1, <1>4 DEF TypeOK, DnWait, scheduler, Goto
    <3>4. \A k, j \in 1 .. Len(queue[s]) : queue[s][k] = queue[s][j] => k = j
      BY <1>1, <3>1 DEF QueuesInv, DnWait, scheduler, Goto
    <3>5. QED
      BY <2>1, <2>3, <3>1, <3>2, <3>3, <3>4
  <2>4. QED
    BY <2>2, <2>3
<1>7. TimersInv'
  BY <1>1, <1>2, <1>4 DEF TimersInv, TypeOK, DnWait, scheduler, Goto
<1>8. ASSUME NEW q \in CPU PROVE RunInv(q)'
  <2>1. CASE q = p
    BY <1>1, <2>1 DEF RunInv, TypeOK, DnWait, scheduler, Goto
  <2>2. CASE q # p
    <3>1. pc'[q] = pc[q] /\ current'[q] = current[q]
      BY <1>1, <2>2 DEF TypeOK, DnWait, scheduler, Goto
    <3>2. current[q] # Idle => current[q] \in Ec \ {e}
      <4>1. Home[e] = p /\ (current[q] # Idle => Home[current[q]] = q)
        BY <1>2, SemaphoreAssumption DEF BlockInv, DnWait, scheduler, Goto
      <4>2. QED
        BY <1>1, <2>2, <4>1 DEF TypeOK
    <3>3. \A f \in Ec \ {e} : wait'[f] = wait[f] /\ (Blocked(f)' <=> Blocked(f))
      BY <1>1, <1>4, <1>5 DEF TypeOK, DnWait, scheduler, Goto
    <3>4. QED
      BY <1>1, <3>1, <3>2, <3>3 DEF RunInv
  <2>3. QED
    BY <2>1, <2>2
<1>9. \A t \in Sem : Woken(t)' = Woken(t)
  BY <1>1, <1>3, <1>4, <1>5 DEF Woken, TypeOK, DnWait, scheduler, Goto
<1>10. UnitsConserved'
  BY <1>9, SameUnits DEF DnWait
<1>11. QED
  BY <1>6, <1>7, <1>8, <1>10, UnitInvPartsNext

(* A dn() that waited ends: its Ec is in no queue, and brings the unit if  *)
(* an up() woke it.                                                        *)
LEMMA FinishUnitInv ==
    ASSUME BlockInv, UnitInv, NEW p \in CPU, Finish(p) PROVE UnitInv'
<1>1. TypeOK /\ QueuesInv /\ TimersInv /\ \A q \in CPU : RunInv(q)
  BY UnitInvParts, Zenon DEF BlockInv
<1>2. PICK e \in Ec : e = current[p]
  BY DEF BlockInv, TypeOK, Finish, sems, scheduler, Goto
<1>3. ~Blocked(e) /\ \A f \in Ec : Blocked(f)' <=> Blocked(f)
  BY <1>1, <1>2, SemaphoreAssumption, SameBlocked DEF RunInv, Finish, sems, scheduler, Goto
<1>4. wait' = [wait EXCEPT ![e] = None] /\ UNCHANGED <<queue, cont, ups, counter>>
  BY <1>2 DEF Finish, sems, scheduler, Goto
<1>5. QueuesInv'
  <2>1. ASSUME NEW t \in Sem, NEW i \in DOMAIN queue[t] PROVE queue[t][i] \in Ec \ {e}
    <3>1. queue[t] \in Seq(Ec) /\ i \in 1 .. Len(queue[t]) /\ queue[t][i] \in Ec
      BY <1>1, <2>1 DEF TypeOK, Finish, sems, scheduler, Goto
    <3>2. QED
      BY <1>3, <3>1 DEF Blocked, Queued
  <2>2. QED
    BY <1>1, <1>4, <2>1 DEF QueuesInv, TypeOK
<1>6. TimersInv'
  BY <1>1, <1>2, <1>4 DEF TimersInv, TypeOK, Finish, sems, scheduler, Goto
<1>7. ASSUME NEW q \in CPU PROVE RunInv(q)'
  BY <1>1, <1>2, <1>3, <1>4 DEF BlockInv, RunInv, TypeOK, Finish, sems, scheduler, Goto
<1>8. ASSUME NEW t \in Sem PROVE ups'[t] = counter'[t] + taken'[t] + Cardinality(Woken(t)')
  <2>1. /\ ups[t] = counter[t] + taken[t] + Cardinality(Woken(t))
        /\ Cardinality(Woken(t)) \in Nat /\ IsFiniteSet(Woken(t))
    BY WokenCount DEF UnitInv, UnitsConserved
  <2>2. counter[t] \in Nat /\ taken[t] \in Nat /\ ups' = ups /\ counter' = counter
    BY <1>1 DEF TypeOK, Finish, sems, scheduler, Goto
  <2>3. Woken(t)' = Woken(t) \ {e}
    BY <1>1, <1>3, <1>4, SemaphoreAssumption DEF Woken, TypeOK, Finish, sems, scheduler, Goto
  <2>4. CASE e \in Woken(t)
    <3>1. taken'[t] = taken[t] + 1
      BY <1>1, <1>2, <2>4, SemaphoreAssumption DEF Woken, TypeOK, Finish, sems, scheduler, Goto
    <3>2. Cardinality(Woken(t)') = Cardinality(Woken(t)) - 1
      BY <2>1, <2>3, <2>4, FS_RemoveElement, Zenon
    <3>3. QED
      BY <2>1, <2>2, <3>1, <3>2
  <2>5. CASE e \notin Woken(t)
    <3>1. taken'[t] = taken[t]
      BY <1>1, <1>2, <1>3, <2>5 DEF Woken, TypeOK, Finish, sems, scheduler, Goto
    <3>2. Woken(t)' = Woken(t)
      BY <2>3, <2>5, Zenon
    <3>3. QED
      BY <2>1, <2>2, <3>1, <3>2
  <2>6. QED
    BY <2>4, <2>5
<1>9. UnitsConserved'
  BY <1>8, Zenon DEF UnitsConserved
<1>10. QED
  BY <1>5, <1>6, <1>7, <1>9, UnitInvPartsNext

(* What up() and timeout() have in common: one Ec leaves its queue, and is *)
(* in none then.                                                           *)
LEMMA DequeueUnits ==
    ASSUME BlockInv, UnitInv, NEW s \in Sem, NEW e \in Ec, Dequeued(e, s),
           wait' = wait, \A f \in Ec \ {e} : cont'[f] = cont[f]
    PROVE  /\ wait[e] = s /\ cont[e] = "success" /\ Blocked(e) /\ ~Blocked(e)'
           /\ \A f \in Ec \ {e} : Blocked(f)' <=> Blocked(f)
           /\ QueuesInv'
<1>1. TypeOK /\ QueuesInv
  BY UnitInvParts DEF BlockInv
<1>d. PICK i \in DOMAIN queue[s] :
          queue[s][i] = e /\ queue' = [queue EXCEPT ![s] = Dequeue(queue[s], i)]
  BY Zenon DEF Dequeued
<1> DEFINE r == Dequeue(queue[s], i)
<1>2. wait[e] = s /\ cont[e] = "success"
  BY <1>d, <1>1 DEF QueuesInv
<1>4. /\ queue[s] \in Seq(Ec) /\ DOMAIN queue[s] = 1 .. Len(queue[s])
      /\ queue'[s] = r /\ \A t \in Sem \ {s} : queue'[t] = queue[t]
  BY <1>d, <1>1 DEF TypeOK
<1>5. /\ DOMAIN r = 1 .. Len(queue[s]) - 1 /\ Len(r) = Len(queue[s]) - 1
      /\ i \in 1 .. Len(queue[s]) /\ Len(queue[s]) \in Nat
      /\ \A j \in 1 .. Len(queue[s]) - 1 : r[j] = IF j < i THEN queue[s][j] ELSE queue[s][j + 1]
  BY <1>4, DequeueOne, Zenon
<1> HIDE DEF r
<1>3. Blocked(e) /\ \A f \in Ec \ {e} : Blocked(f)' <=> Blocked(f)
  <2>1. Queued(queue[s], e)
    BY <1>d, <1>5 DEF Queued
  <2>2. QED
    BY <1>1, <2>1, DequeuedBlocked DEF Blocked
<1> DEFINE old(j) == IF j < i THEN j ELSE j + 1
<1>6. \A j \in 1 .. Len(queue[s]) - 1 :
          r[j] = queue[s][old(j)] /\ old(j) \in DOMAIN queue[s] /\ old(j) # i
  BY <1>4, <1>5
<1>7. \A j, k \in 1 .. Len(queue[s]) - 1 : old(j) = old(k) => j = k
  BY <1>5
<1> HIDE DEF old
<1>8. \A j \in 1 .. Len(queue[s]) - 1 : r[j] \in Ec \ {e}
  BY <1>d, <1>1, <1>4, <1>6 DEF QueuesInv
<1>9. ~Blocked(e)'
  <2>1. ASSUME NEW t \in Sem PROVE ~Queued(queue'[t], e)
    <3>1. CASE t = s
      BY <1>4, <1>5, <1>8, <3>1 DEF Queued
    <3>2. CASE t # s
      <4>1. queue'[t] = queue[t] /\ queue[t] \in Seq(Ec)
        BY <1>1, <1>4, <3>2 DEF TypeOK
      <4>2. QED
        BY <1>1, <1>2, <3>2, <4>1 DEF QueuesInv, Queued
    <3>3. QED
      BY <3>1, <3>2
  <2>2. QED
    BY <2>1 DEF Blocked
<1>10. QueuesInv'
  <2> SUFFICES ASSUME NEW t \in Sem, NEW k \in DOMAIN queue'[t]
               PROVE  /\ wait[queue'[t][k]] = t /\ cont'[queue'[t][k]] = "success"
                      /\ \A j \in DOMAIN queue'[t] : queue'[t][k] = queue'[t][j] => k = j
    BY DEF QueuesInv
  <2>1. CASE t = s
    <3>0. k \in 1 .. Len(queue[s]) - 1
      BY <1>4, <1>5, <2>1
    <3>1. /\ k \in 1 .. Len(queue[s]) - 1 /\ r[k] = queue[s][old(k)] /\ r[k] \in Ec \ {e}
          /\ wait[r[k]] = s /\ cont[r[k]] = "success"
      BY <1>1, <1>6, <1>8, <3>0 DEF QueuesInv
    <3>2. \A j \in 1 .. Len(queue[s]) - 1 : r[k] = r[j] => k = j
      BY <1>1, <1>6, <1>7, <3>1 DEF QueuesInv
    <3>3. QED
      BY <1>4, <1>5, <2>1, <3>1, <3>2, Zenon
  <2>2. CASE t # s
    <3>1. queue'[t] = queue[t] /\ queue[t] \in Seq(Ec)
      BY <1>1, <1>4, <2>2 DEF TypeOK
    <3>2. queue[t][k] \in Ec \ {e}
      BY <1>1, <1>2, <2>2, <3>1 DEF QueuesInv
    <3>3. QED
      BY <1>1, <3>1, <3>2 DEF QueuesInv
  <2>3. QED
    BY <2>1, <2>2
<1>11. QED
  BY <1>2, <1>3, <1>9, <1>10

(* up() gives its unit to the counter, or to the Ec it dequeues.           *)
LEMMA UpUnitInv ==
    ASSUME BlockInv, UnitInv, NEW p \in CPU, NEW s \in Sem, Up(p, s) PROVE UnitInv'
<1>1. TypeOK /\ QueuesInv /\ TimersInv /\ \A q \in CPU : RunInv(q)
  BY UnitInvParts, Zenon DEF BlockInv
<1>2. TimersInv'
  BY <1>1 DEF TimersInv, Up, ecs, scheduler, Goto
<1>3. /\ \A t \in Sem : counter[t] \in Nat /\ ups[t] \in Nat /\ taken[t] \in Nat
      /\ taken' = taken /\ ups' = [ups EXCEPT ![s] = @ + 1] /\ ups \in [Sem -> Nat]
  BY <1>1 DEF TypeOK, Up, ecs, scheduler, Goto
<1>4. \A t \in Sem : /\ ups[t] = counter[t] + taken[t] + Cardinality(Woken(t))
                     /\ Cardinality(Woken(t)) \in Nat /\ IsFiniteSet(Woken(t))
  BY WokenCount DEF UnitInv, UnitsConserved
<1>5. CASE queue[s] = <<>>
  <2>1. QueuesInv' /\ (\A q \in CPU : RunInv(q)') /\ \A t \in Sem : Woken(t)' = Woken(t)
    BY <1>1, <1>5 DEF QueuesInv, RunInv, Woken, Blocked, Up, ecs, scheduler, Goto
  <2>2. counter' = [counter EXCEPT ![s] = @ + 1] /\ counter \in [Sem -> Nat]
    BY <1>1, <1>5 DEF TypeOK, Up, ecs, scheduler, Goto
  <2>3. ASSUME NEW t \in Sem PROVE ups'[t] = counter'[t] + taken'[t] + Cardinality(Woken(t)')
    <3>1. /\ Cardinality(Woken(t)') = Cardinality(Woken(t)) /\ taken'[t] = taken[t]
          /\ ups[t] = counter[t] + taken[t] + Cardinality(Woken(t))
      BY <1>3, <1>4, <2>1, Zenon
    <3>2. \/ ups'[t] = ups[t] + 1 /\ counter'[t] = counter[t] + 1
          \/ ups'[t] = ups[t] /\ counter'[t] = counter[t]
      BY <1>3, <2>2
    <3>3. counter[t] \in Nat /\ taken[t] \in Nat /\ Cardinality(Woken(t)) \in Nat
      BY <1>3, <1>4, Zenon
    <3>4. QED
      BY <3>1, <3>2, <3>3
  <2>4. UnitsConserved'
    BY <2>3, Zenon DEF UnitsConserved
  <2>5. QED
    BY <1>2, <2>1, <2>4, UnitInvPartsNext
<1>6. CASE queue[s] # <<>>
  <2>1. queue[s] \in Seq(Ec)
    BY <1>1 DEF TypeOK, Up, ecs, scheduler, Goto
  <2>2. 1 \in DOMAIN queue[s]
    BY <1>6, <2>1
  <2>3. PICK e \in Ec : e = queue[s][1]
    BY <2>1, <2>2
  <2>4. /\ queue' = [queue EXCEPT ![s] = Dequeue(queue[s], 1)] /\ UNCHANGED <<wait, cont, counter, current>>
        /\ pc' = [pc EXCEPT ![p] = "release"] /\ pc[p] = "user"
    BY <1>6 DEF Up, ecs, scheduler, Goto
  <2>5. /\ wait[e] = s /\ cont[e] = "success" /\ Blocked(e) /\ ~Blocked(e)'
        /\ \A f \in Ec \ {e} : Blocked(f)' <=> Blocked(f)
        /\ QueuesInv'
    <3>1. \A f \in Ec \ {e} : cont'[f] = cont[f]
      BY <2>4
    <3>2. Dequeued(e, s)
      BY <2>2, <2>3, <2>4, Zenon DEF Dequeued
    <3>3. QED
      BY <2>4, <3>1, <3>2, DequeueUnits
  <2>6. ASSUME NEW q \in CPU PROVE RunInv(q)'
    <3>1. \A f \in Ec : Blocked(f)' => Blocked(f)
      BY <2>5
    <3>2. QED
      BY <1>1, <2>4, <3>1 DEF RunInv, TypeOK
  <2>7. ASSUME NEW t \in Sem PROVE ups'[t] = counter'[t] + taken'[t] + Cardinality(Woken(t)')
    <3>1. CASE t = s
      <4>1. Woken(t)' = Woken(t) \cup {e} /\ e \notin Woken(t)
        BY <2>4, <2>5, <3>1 DEF Woken
      <4>2. Cardinality(Woken(t)') = Cardinality(Woken(t)) + 1
        BY <1>4, <4>1, FS_AddElement, Zenon
      <4>3. ups'[t] = ups[t] + 1 /\ counter'[t] = counter[t] /\ taken'[t] = taken[t]
        BY <1>3, <2>4, <3>1
      <4>4. /\ ups[t] = counter[t] + taken[t] + Cardinality(Woken(t))
            /\ counter[t] \in Nat /\ taken[t] \in Nat /\ Cardinality(Woken(t)) \in Nat
        BY <1>3, <1>4
      <4>5. QED
        BY <4>2, <4>3, <4>4
    <3>2. CASE t # s
      <4>1. Woken(t)' = Woken(t)
        BY <2>4, <2>5, <3>2 DEF Woken
      <4>2. QED
        BY <1>3, <1>4, <2>4, <3>2, <4>1
    <3>3. QED
      BY <3>1, <3>2
  <2>8. UnitsConserved'
    BY <2>7, Zenon DEF UnitsConserved
  <2>9. QED
    BY <1>2, <2>5, <2>6, <2>8, UnitInvPartsNext
<1>7. QED
  BY <1>5, <1>6

(* The timeout dequeues its Ec without a unit.                             *)
LEMMA TimeoutUnitInv ==
    ASSUME BlockInv, UnitInv, NEW p \in CPU, NEW e \in Ec, Timeout(p, e) PROVE UnitInv'
<1>1. TypeOK /\ QueuesInv /\ TimersInv /\ \A q \in CPU : RunInv(q)
  BY UnitInvParts, Zenon DEF BlockInv
<1>2. CASE Blocked(e)
  <2>1. PICK s \in Sem : s = timer[e]
    BY <1>1 DEF TypeOK, Timeout
  <2>2. PICK i \in DOMAIN queue[s] : queue[s][i] = e /\ queue' = [queue EXCEPT ![s] = Dequeue(queue[s], i)]
    BY <1>2, <2>1, Zenon DEF Timeout
  <2>3. /\ pc' = [pc EXCEPT ![p] = "release"] /\ pc[p] = "user"
        /\ UNCHANGED <<current, wait, counter, ups, taken>>
    BY <1>2 DEF Timeout, scheduler, history, Goto
  <2>4. /\ cont' = [cont EXCEPT ![e] = "timeout"] /\ timer' = [timer EXCEPT ![e] = None] /\ wait' = wait
        /\ \A f \in Ec \ {e} : cont'[f] = cont[f]
    BY <1>1, <1>2 DEF TypeOK, Timeout, scheduler, history, Goto
  <2>5. /\ wait[e] = s /\ Blocked(e) /\ ~Blocked(e)'
        /\ \A f \in Ec \ {e} : Blocked(f)' <=> Blocked(f)
        /\ QueuesInv'
    <3>1. Dequeued(e, s)
      BY <2>2, Zenon DEF Dequeued
    <3>2. QED
      BY <2>4, <3>1, DequeueUnits
  <2>6. TimersInv'
    BY <1>1, <2>4 DEF TimersInv, TypeOK
  <2>7. ASSUME NEW q \in CPU PROVE RunInv(q)'
    <3>1. \A f \in Ec : Blocked(f)' => Blocked(f)
      BY <2>5
    <3>2. QED
      BY <1>1, <2>3, <3>1 DEF RunInv, TypeOK
  <2>8. \A t \in Sem : Woken(t)' = Woken(t)
    BY <1>1, <1>2, <2>4, <2>5 DEF Woken, TypeOK
  <2>9. UnitsConserved'
    BY <2>3, <2>8, SameUnits
  <2>10. QED
    BY <2>5, <2>6, <2>7, <2>9, UnitInvPartsNext
<1>3. CASE ~Blocked(e)
  <2>1. timer' = [timer EXCEPT ![e] = None] /\ UNCHANGED <<queue, cont, wait, pc, current, counter, ups, taken>>
    BY <1>3 DEF Timeout, scheduler, history, Goto
  <2>2. TimersInv'
    BY <1>1, <2>1 DEF TimersInv, TypeOK
  <2>3. QueuesInv' /\ (\A q \in CPU : RunInv(q)') /\ \A t \in Sem : Woken(t)' = Woken(t)
    BY <1>1, <2>1 DEF QueuesInv, RunInv, Woken, Blocked
  <2>4. UnitsConserved'
    BY <2>1, <2>3, SameUnits
  <2>5. QED
    BY <2>2, <2>3, <2>4, UnitInvPartsNext
<1>4. QED
  BY <1>2, <1>3

(* UnitInv is an invariant.                                                *)
THEOREM UnitsInvariant == Spec => []UnitInv
<1>1. BlockInv /\ UnitInv /\ [Next]_vars => UnitInv'
  <2> SUFFICES ASSUME BlockInv, UnitInv, [Next]_vars PROVE UnitInv'
    OBVIOUS
  <2>1. CASE UNCHANGED vars
    <3>1. \A q \in CPU : RunInv(q)'
      BY <2>1, UnitInvParts DEF RunInv, Blocked, vars, sems, scheduler, history
    <3>2. QED
      BY <2>1, <3>1, SameUnitInv DEF vars, ecs, history
  <2>2. ASSUME NEW p \in CPU, Kernel(p) \/ RrqAccept(p) \/ Preempt(p) PROVE UnitInv'
    BY <2>2, SchedulerUnitInv, FinishUnitInv DEF Kernel
  <2>3. QED
    BY <2>1, <2>2, DnTakeUnitInv, DnWaitUnitInv, UpUnitInv, TimeoutUnitInv DEF Next
<1>2. QED
  BY <1>1, InitUnitInv, WaitersAreReleased, PTL DEF Spec

(* Every up() gives exactly one unit: no unit is lost or doubled when an   *)
(* up(), a timeout and the end of a dn() meet.                             *)
THEOREM SemaphoreUnitsConserved == Spec => []UnitsConserved
<1>1. UnitInv => UnitsConserved
  BY DEF UnitInv
<1>2. QED
  BY <1>1, UnitsInvariant, PTL

(* A timeout that is pending belongs to the dn() its Ec is in.             *)
THEOREM SemaphoreTimers == Spec => []TimerMatchesWait
<1>1. UnitInv => TimerMatchesWait
  BY DEF UnitInv
<1>2. QED
  BY <1>1, UnitsInvariant, PTL
=============================================================================
