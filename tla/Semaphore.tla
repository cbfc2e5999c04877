----------------------------- MODULE Semaphore ------------------------------
(***************************************************************************)
(* Semaphores and blocking: Sm::dn, Sm::up and Sm::timeout (sm.hpp), the   *)
(* blocking and release of execution contexts (ec.hpp), the hypercall      *)
(* timeout, and the queue by which a CPU makes a scheduling context ready  *)
(* on another CPU (sc.cpp).                                                *)
(*                                                                         *)
(* Every Ec has one Sc, and the two are one value here.  An Ec that waits  *)
(* is linked into the semaphore's queue under the semaphore's lock; its Sc *)
(* is put into the Ec's own queue (scq) afterwards, under the Ec's lock,   *)
(* unless an up() has taken the Ec out again meanwhile.  The kernel runs   *)
(* with interrupts disabled: pc[p] is "user" whenever an interrupt may be  *)
(* taken.  Which Sc of the ready list runs next is left open.              *)
(***************************************************************************)
EXTENDS Integers, Sequences, FiniteSets

CONSTANTS CPU,      \* the CPUs
          Ec,       \* execution contexts, each with its Sc
          Home,     \* Home[e]: the CPU of e
          Idle,     \* the idle Ec of every CPU
          Sem,      \* semaphores
          None,     \* nullptr
          Calls     \* bound: dn() and up() calls

ASSUME SemaphoreAssumption ==
    /\ Home \in [Ec -> CPU] /\ IsFiniteSet(Ec) /\ Calls \in Nat
    /\ Idle \notin Ec /\ None \notin Sem \cup CPU \cup Ec

VARIABLES
    counter, queue,         \* of each semaphore: its counter, the Ecs that wait
    timer,                  \* Ec::timeout: the semaphore if it is active
    cont,                   \* Ec::cont: the status the waiting Ec returns with
    lock, scq,              \* the Ecs' locks, the Ecs with their Sc in their queue
    current, ready, remote, \* of each CPU: Sc::current, ready list, rq.queue
    ipi,                    \* CPUs with VEC_IPI_RRQ pending
    pc, target,             \* where each CPU is, the Ec it is releasing
    wait,                   \* the semaphore whose dn() an Ec has not finished
    ups, taken,             \* history: up() calls, units taken by dn() calls
    calls                   \* what is left of Calls

sems == <<counter, queue>>
ecs == <<timer, cont, lock, scq>>
scheduler == <<current, ready, remote, ipi>>
history == <<wait, ups, taken, calls>>
vars == <<sems, ecs, scheduler, pc, target, history>>

\* Queue<Ec>: e is linked into q, and q without its element at i.
Queued(q, e) == \E i \in 1 .. Len(q) : q[i] = e
Dequeue(q, i) == [j \in 1 .. Len(q) - 1 |-> IF j < i THEN q[j] ELSE q[j + 1]]

\* Ec::blocked: linked into the queue of a semaphore.
Blocked(e) == \E s \in Sem : Queued(queue[s], e)

Init ==
    /\ counter = [s \in Sem |-> 0] /\ queue = [s \in Sem |-> <<>>]
    /\ timer = [e \in Ec |-> None] /\ cont = [e \in Ec |-> "success"]
    /\ lock = [e \in Ec |-> None] /\ scq = {}
    /\ current = [p \in CPU |-> Idle] /\ ipi = {}
    /\ ready = [p \in CPU |-> {e \in Ec : Home[e] = p}] /\ remote = [p \in CPU |-> {}]
    /\ pc = [p \in CPU |-> "user"] /\ target = [p \in CPU |-> None]
    /\ wait = [e \in Ec |-> None]
    /\ ups = [s \in Sem |-> 0] /\ taken = [s \in Sem |-> 0] /\ calls = Calls

Goto(p, l) == pc' = [pc EXCEPT ![p] = l]

-----------------------------------------------------------------------------
(* Sm::dn, called by the running Ec.                                       *)

\* The counter is positive: take one unit, or all of them.
DnTake(p, s) ==
    /\ pc[p] = "user" /\ current[p] # Idle /\ calls > 0
    /\ counter[s] > 0
    /\ \E n \in {1, counter[s]} :
           /\ counter' = [counter EXCEPT ![s] = @ - n]
           /\ taken' = [taken EXCEPT ![s] = @ + n]
    /\ calls' = calls - 1
    /\ UNCHANGED <<queue, ecs, scheduler, pc, target, wait, ups>>

\* It is zero: wait in the queue, with or without a timeout.
DnWait(p, s) ==
    /\ pc[p] = "user" /\ current[p] # Idle /\ calls > 0
    /\ counter[s] = 0
    /\ LET e == current[p] IN
       /\ queue' = [queue EXCEPT ![s] = Append(@, e)]
       /\ \E t \in {s, None} : timer' = [timer EXCEPT ![e] = t]
       /\ cont' = [cont EXCEPT ![e] = "success"]
       /\ wait' = [wait EXCEPT ![e] = s]
    /\ calls' = calls - 1
    /\ Goto(p, "block_sc")
    /\ UNCHANGED <<counter, lock, scq, scheduler, target, ups, taken>>

\* blocked() is not tested again under the lock.
BlockScUnchecked(p) ==
    /\ pc[p] = "block_sc"
    /\ LET e == current[p] IN
       /\ lock[e] = None
       /\ lock' = [lock EXCEPT ![e] = p] /\ Goto(p, "block_enqueue")
    /\ UNCHANGED <<sems, timer, cont, scq, scheduler, target, history>>

\* Ec::block_sc: under the Ec's lock, go on if it is no longer blocked, ...
BlockSc(p) ==
    /\ pc[p] = "block_sc"
    /\ LET e == current[p] IN
       /\ lock[e] = None
       /\ IF Blocked(e)
          THEN lock' = [lock EXCEPT ![e] = p] /\ Goto(p, "block_enqueue")
          ELSE Goto(p, "finish") /\ UNCHANGED lock
    /\ UNCHANGED <<sems, timer, cont, scq, scheduler, target, history>>

\* ... else enqueue the Sc and unlock.
BlockEnqueue(p) ==
    /\ pc[p] = "block_enqueue"
    /\ scq' = scq \cup {current[p]}
    /\ lock' = [lock EXCEPT ![current[p]] = None]
    /\ Goto(p, "schedule")
    /\ UNCHANGED <<sems, timer, cont, scheduler, target, history>>

\* Sc::schedule (true)
Schedule(p) ==
    /\ pc[p] = "schedule"
    /\ \E e \in IF ready[p] = {} THEN {Idle} ELSE ready[p] :
           /\ current' = [current EXCEPT ![p] = e]
           /\ ready' = [ready EXCEPT ![p] = @ \ {e}]
    /\ Goto(p, "activate")
    /\ UNCHANGED <<sems, ecs, remote, ipi, target, history>>

\* Ec::activate: an Ec that is still blocked blocks again.
Activate(p) ==
    /\ pc[p] = "activate"
    /\ Goto(p, CASE current[p] = Idle                           -> "user"
                 [] current[p] # Idle /\ Blocked(current[p])    -> "block_sc"
                 [] current[p] # Idle /\ ~Blocked(current[p])   -> "finish")
    /\ UNCHANGED <<sems, ecs, scheduler, target, history>>

\* sys_finish with the status in cont, or plain return to user mode.
Finish(p) ==
    /\ pc[p] = "finish"
    /\ LET e == current[p]
           s == wait[e] IN
       /\ wait' = [wait EXCEPT ![e] = None]
       /\ taken' = IF s # None /\ cont[e] = "success" THEN [taken EXCEPT ![s] = @ + 1] ELSE taken
       /\ timer' = IF cont[e] = "success" THEN [timer EXCEPT ![e] = None] ELSE timer
    /\ Goto(p, "user")
    /\ UNCHANGED <<sems, cont, lock, scq, scheduler, target, ups, calls>>

-----------------------------------------------------------------------------
(* Sm::up, by a system call or an interrupt, and Sm::timeout, by the timer *)
(* interrupt on the CPU of the Ec.                                         *)

Up(p, s) ==
    /\ pc[p] = "user" /\ calls > 0
    /\ IF queue[s] = <<>>
       THEN /\ counter' = [counter EXCEPT ![s] = @ + 1]
            /\ UNCHANGED <<queue, pc, target>>
       ELSE /\ queue' = [queue EXCEPT ![s] = Dequeue(@, 1)]
            /\ target' = [target EXCEPT ![p] = Head(queue[s])]
            /\ Goto(p, "release")
            /\ UNCHANGED counter
    /\ ups' = [ups EXCEPT ![s] = @ + 1]
    /\ calls' = calls - 1
    /\ UNCHANGED <<ecs, scheduler, wait, taken>>

\* The Ec times out although an up() has woken it.
TimeoutUnchecked(p, e) ==
    /\ pc[p] = "user" /\ Home[e] = p /\ timer[e] # None
    /\ timer' = [timer EXCEPT ![e] = None]
    /\ queue' = [s \in Sem |-> SelectSeq(queue[s], LAMBDA f : f # e)]
    /\ cont' = [cont EXCEPT ![e] = "timeout"]
    /\ target' = [target EXCEPT ![p] = e]
    /\ Goto(p, "release")
    /\ UNCHANGED <<counter, lock, scq, scheduler, history>>

\* The timeout does not end the wait.
TimeoutIgnored(p, e) ==
    /\ pc[p] = "user" /\ Home[e] = p /\ timer[e] # None
    /\ timer' = [timer EXCEPT ![e] = None]
    /\ UNCHANGED <<sems, cont, lock, scq, scheduler, pc, target, history>>

Timeout(p, e) ==
    /\ pc[p] = "user" /\ Home[e] = p /\ timer[e] # None
    /\ timer' = [timer EXCEPT ![e] = None]
    /\ IF Blocked(e)
       THEN /\ \E i \in DOMAIN queue[timer[e]] :
                  /\ queue[timer[e]][i] = e
                  /\ queue' = [queue EXCEPT ![timer[e]] = Dequeue(@, i)]
            /\ cont' = [cont EXCEPT ![e] = "timeout"]
            /\ target' = [target EXCEPT ![p] = e]
            /\ Goto(p, "release")
       ELSE UNCHANGED <<queue, cont, target, pc>>
    /\ UNCHANGED <<counter, lock, scq, scheduler, history>>

\* Ec::release: the Sc in the queue of the Ec, if it is there by now, becomes
\* ready; Sc::remote_enqueue interrupts the other CPU for the first Sc only.
Release(p) ==
    /\ pc[p] = "release"
    /\ LET e == target[p]
           q == Home[e] IN
       /\ lock[e] = None
       /\ scq' = scq \ {e}
       /\ ready' = IF e \in scq /\ q = p THEN [ready EXCEPT ![q] = @ \cup {e}] ELSE ready
       /\ remote' = IF e \in scq /\ q # p THEN [remote EXCEPT ![q] = @ \cup {e}] ELSE remote
       /\ ipi' = IF e \in scq /\ q # p /\ remote[q] = {} THEN ipi \cup {q} ELSE ipi
    /\ target' = [target EXCEPT ![p] = None]
    /\ Goto(p, "user")
    /\ UNCHANGED <<sems, timer, cont, lock, current, history>>

-----------------------------------------------------------------------------
(* Interrupts that concern the scheduler.                                  *)

\* VEC_IPI_RRQ is accepted, then Sc::rrq_handler empties the queue.
RrqAccept(p) ==
    /\ pc[p] = "user" /\ p \in ipi
    /\ ipi' = ipi \ {p}
    /\ Goto(p, "rrq")
    /\ UNCHANGED <<sems, ecs, current, ready, remote, target, history>>

RrqHandler(p) ==
    /\ pc[p] = "rrq"
    /\ ready' = [ready EXCEPT ![p] = @ \cup remote[p]]
    /\ remote' = [remote EXCEPT ![p] = {}]
    /\ Goto(p, "user")
    /\ UNCHANGED <<sems, ecs, current, ipi, target, history>>

\* HZD_SCHED: the running Sc goes back to the ready list.
Preempt(p) ==
    /\ pc[p] = "user" /\ ready[p] # {}
    /\ \E e \in ready[p] :
           /\ current' = [current EXCEPT ![p] = e]
           /\ ready' = [ready EXCEPT ![p] = (@ \cup {current[p]}) \ {e, Idle}]
    /\ Goto(p, "activate")
    /\ UNCHANGED <<sems, ecs, remote, ipi, target, history>>

-----------------------------------------------------------------------------

Kernel(p) ==
    \/ BlockSc(p) \/ BlockEnqueue(p) \/ Schedule(p) \/ Activate(p) \/ Finish(p)
    \/ Release(p) \/ RrqHandler(p)

Next ==
    \E p \in CPU :
        \/ Kernel(p) \/ RrqAccept(p) \/ Preempt(p)
        \/ \E s \in Sem : DnTake(p, s) \/ DnWait(p, s) \/ Up(p, s)
        \/ \E e \in Ec : Timeout(p, e)

Spec == Init /\ [][Next]_vars

(* Kernel code keeps executing; interrupts that are pending are taken.     *)
FairSpec ==
    /\ Spec
    /\ \A p \in CPU : WF_vars(Kernel(p))
    /\ SF_vars(\E p \in CPU : RrqAccept(p)) /\ SF_vars(\E e \in Ec : Timeout(Home[e], e))

-----------------------------------------------------------------------------

TypeOK ==
    /\ counter \in [Sem -> Nat] /\ queue \in [Sem -> Seq(Ec)]
    /\ timer \in [Ec -> Sem \cup {None}] /\ cont \in [Ec -> {"success", "timeout"}]
    /\ lock \in [Ec -> CPU \cup {None}] /\ scq \subseteq Ec
    /\ current \in [CPU -> Ec \cup {Idle}] /\ ipi \subseteq CPU
    /\ ready \in [CPU -> SUBSET Ec] /\ remote \in [CPU -> SUBSET Ec]
    /\ pc \in [CPU -> {"user", "block_sc", "block_enqueue", "schedule", "activate", "finish",
                       "release", "rrq"}]
    /\ target \in [CPU -> Ec \cup {None}]
    /\ wait \in [Ec -> Sem \cup {None}]
    /\ ups \in [Sem -> Nat] /\ taken \in [Sem -> Nat] /\ calls \in Nat

(* No wake-up is lost: a Sc that waits in the queue of an Ec which no      *)
(* semaphore holds any more is about to be released by the CPU that took   *)
(* the Ec out, although block_sc() tests blocked() under another lock than *)
(* the one under which up() and timeout() dequeue the Ec.                  *)
NoLostWakeup ==
    \A e \in scq : Blocked(e) \/ \E p \in CPU : pc[p] = "release" /\ target[p] = e

\* The CPUs that took e out of a queue and have not released it yet.
Releasing(e) == \E p \in CPU : pc[p] = "release" /\ target[p] = e

(* The strengthening of NoLostWakeup that is inductive.  A CPU only runs   *)
(* and lists Ecs of its own, so that a CPU in block_sc() has the lock of   *)
(* an Ec no other CPU blocks; while it has that lock the Ec is blocked, or *)
(* the CPU that releases it waits for the lock.                            *)
BlockInv ==
    /\ TypeOK
    /\ \A p \in CPU : /\ current[p] # Idle => Home[current[p]] = p
                      /\ \A e \in ready[p] \cup remote[p] : Home[e] = p
                      /\ pc[p] \in {"block_sc", "block_enqueue", "finish"} => current[p] # Idle
                      /\ pc[p] = "release" => target[p] \in Ec
                      /\ pc[p] = "block_enqueue" =>
                             /\ lock[current[p]] = p
                             /\ Blocked(current[p]) \/ Releasing(current[p])
    /\ NoLostWakeup

\* The places where the Sc of e is linked or runs.
Places(e) ==
    {<<"current", p>> : p \in {q \in CPU : current[q] = e /\ pc[q] # "schedule"}}
    \cup {<<"ready", p>> : p \in {q \in CPU : e \in ready[q]}}
    \cup {<<"remote", p>> : p \in {q \in CPU : e \in remote[q]}}
    \cup (IF e \in scq THEN {<<"blocked", e>>} ELSE {})

(* A Sc is never lost and never linked twice: the Ec's queue, the ready    *)
(* list and the remote queue share its prev and next pointers.             *)
OnePlace == \A e \in Ec : \E x \in Places(e) : Places(e) = {x}

\* The Ecs that were dequeued for a unit of s and have not returned with it.
Woken(s) == {e \in Ec : wait[e] = s /\ ~Blocked(e) /\ cont[e] = "success"}

(* Every up() gives exactly one unit: units are in the counter, taken, or  *)
(* on their way to the Ec that was dequeued for them; an Ec whose timeout  *)
(* fires while an up() is under way does not get both or neither.          *)
UnitsConserved ==
    \A s \in Sem : ups[s] = counter[s] + taken[s] + Cardinality(Woken(s))

(* A timeout is only ever pending for the dn() the Ec is in, so that it    *)
(* cannot end a later one.                                                 *)
TimerMatchesWait == \A e \in Ec : timer[e] # None => timer[e] = wait[e]

(* The strengthening of UnitsConserved and TimerMatchesWait that is        *)
(* inductive: an Ec is at most once in the queue, of the semaphore it      *)
(* waits for; the Ec that is in user mode waits for none, and the one that *)
(* finishes its dn() is in no queue.                                       *)
UnitInv ==
    /\ \A s \in Sem : \A i \in DOMAIN queue[s] :
           /\ wait[queue[s][i]] = s /\ cont[queue[s][i]] = "success"
           /\ \A j \in DOMAIN queue[s] : queue[s][i] = queue[s][j] => i = j
    /\ \A p \in CPU : current[p] # Idle =>
           /\ pc[p] \in {"user", "release", "rrq"} => wait[current[p]] = None
           /\ pc[p] = "finish" => ~Blocked(current[p])
    /\ \A e \in Ec : cont[e] = "timeout" => timer[e] = None
    /\ TimerMatchesWait
    /\ UnitsConserved

(* An Ec that an up() or a timeout took out of the queue becomes ready,    *)
(* and one that waits with a timeout does not wait for ever.               *)
WokenBecomesReady == \A e \in Ec : (e \in scq /\ ~Blocked(e)) ~> (e \in ready[Home[e]])
TimedWaitEnds == \A e \in Ec : (timer[e] # None) ~> ~Blocked(e)
=============================================================================
