------------------------------- MODULE Signal -------------------------------
(***************************************************************************)
(* Signals: semaphores that are chained to another one (si.hpp, si.cpp and *)
(* the parts of sm.hpp and syscall.cpp that deal with them).               *)
(*                                                                         *)
(* A submit() on a signal counts up the signal and then the semaphore it   *)
(* is chained to, in whose queue of signals it is left unless a thread     *)
(* waits there.  The thread that takes the unit also takes the signal's    *)
(* value and resets its counter; dn() does that without the signal's lock. *)
(* The semaphore of an interrupt belongs to the kernel and may be chained  *)
(* to a semaphore or a signal, and chained anew, at any time.              *)
(*                                                                         *)
(* Blocking itself is modelled by Semaphore: here a waiting thread is only *)
(* an entry of a semaphore's queue.                                        *)
(***************************************************************************)
EXTENDS Integers, Sequences, SequencesExt

CONSTANTS Thread,     \* threads and interrupt handlers, each on its own CPU
          Kern,       \* semaphores of interrupts (sm->space is Pd::kern)
          User,       \* the other semaphores
          None,       \* nullptr
          Sinks,      \* the semaphores that signals are created for
          Targets,    \* the semaphores an interrupt is chained to
          Zero,       \* do threads use dn() with the flag zc (take all)?
          Calls       \* bound: operations

Sm == Kern \cup User

VARIABLES
    sm,                 \* Si::sm of each semaphore
    counter, lock,      \* Sm::counter, the spinlock
    ecs, sis,           \* Queue<Ec> (threads) and Queue<Si> of each semaphore
    chain_lock,         \* the lock of Si::chain
    pc, self, to, c,    \* of each thread: where it is; the semaphore it works on,
                        \* the one it is chained to; the value it loaded
    kern, again,        \* Si::chain: the semaphore, how many submits are left
    calls

shared == <<sm, counter, lock, ecs, sis, chain_lock>>
local == <<self, to, c, kern, again>>
vars == <<shared, pc, local, calls>>

Init ==
    /\ sm = [x \in Sm |-> None]
    /\ counter = [x \in Sm |-> 0] /\ lock = [x \in Sm |-> None]
    /\ ecs = [x \in Sm |-> <<>>] /\ sis = [x \in Sm |-> <<>>]
    /\ chain_lock = None
    /\ pc = [t \in Thread |-> "user"] /\ self = [t \in Thread |-> None]
    /\ to = [t \in Thread |-> None] /\ c = [t \in Thread |-> 0]
    /\ kern = [t \in Thread |-> None] /\ again = [t \in Thread |-> 0]
    /\ calls = Calls

Goto(t, l) == pc' = [pc EXCEPT ![t] = l]

\* A thread in user mode starts an operation on x.
Enter(t, x, l) ==
    /\ pc[t] = "user" /\ calls > 0 /\ calls' = calls - 1
    /\ self' = [self EXCEPT ![t] = x]
    /\ Goto(t, l)

Acquire(t, x) == lock[x] = None /\ lock' = [lock EXCEPT ![x] = t]
Unlock(x) == lock' = [lock EXCEPT ![x] = None]

\* The end of a submit: Si::chain may have more of them to do.
Done(t) == Goto(t, IF again[t] > 0 THEN "again" ELSE IF chain_lock = t THEN "unchain" ELSE "user")

\* Si::queued
Queued(x) == \E y \in Sm : Contains(sis[y], x)

-----------------------------------------------------------------------------
(* sys_create_sm: a signal x is chained to a semaphore y that is none; x   *)
(* is new, nobody has used it yet.                                         *)

CreateSignal(x, y) ==
    /\ x \in User /\ y \in Sinks \ {x} /\ sm[y] = None
    /\ sm[x] = None /\ counter[x] = 0 /\ ecs[x] = <<>> /\ sis[x] = <<>>
    /\ \A z \in Sm : sm[z] # x
    /\ \A t \in Thread : x \notin {self[t], to[t]}
    /\ calls > 0 /\ calls' = calls - 1
    /\ sm' = [sm EXCEPT ![x] = y]
    /\ UNCHANGED <<counter, lock, ecs, sis, chain_lock, pc, local>>

(* Si::submit                                                              *)

Submit(t, x) ==
    /\ Enter(t, x, "submit")
    /\ UNCHANGED <<shared, to, c, kern, again>>

\* The semaphore of an interrupt: pass it on to the one it is chained to.
SubmitKern(t) ==
    /\ pc[t] = "submit"
    /\ IF self[t] \in Kern /\ sm[self[t]] # None
       THEN self' = [self EXCEPT ![t] = sm[self[t]]] /\ UNCHANGED pc
       ELSE Goto(t, "up") /\ UNCHANGED self
    /\ UNCHANGED <<shared, to, c, kern, again, calls>>

\* i->up(): under its lock, wake a thread or load the counter ...
UpSelf(t) ==
    /\ pc[t] = "up"
    /\ LET x == self[t] IN
       IF ecs[x] # <<>>
       THEN /\ lock[x] = None
            /\ ecs' = [ecs EXCEPT ![x] = Tail(@)]
            /\ pc' = [pc EXCEPT ![t] = "chained", ![Head(ecs[x])] = "user"]
            /\ UNCHANGED <<lock, c>>
       ELSE /\ Acquire(t, x)
            /\ c' = [c EXCEPT ![t] = counter[x]]
            /\ Goto(t, "count")
            /\ UNCHANGED ecs
    /\ UNCHANGED <<sm, counter, sis, chain_lock, self, to, kern, again, calls>>

\* ... and store it.
Count(t) ==
    /\ pc[t] = "count"
    /\ counter' = [counter EXCEPT ![self[t]] = c[t] + 1]
    /\ Unlock(self[t])
    /\ Goto(t, "chained")
    /\ UNCHANGED <<sm, ecs, sis, chain_lock, local, calls>>

\* sm_chained = ACCESS_ONCE (sm)
Chained(t) ==
    /\ pc[t] = "chained"
    /\ to' = [to EXCEPT ![t] = sm[self[t]]]
    /\ IF sm[self[t]] = None THEN Done(t) ELSE Goto(t, "up_chained")
    /\ UNCHANGED <<shared, self, c, kern, again, calls>>

\* sm_chained->up (nullptr, i): under its lock, wake a thread, which gets the
\* signal; if none waits, return if the signal is queued already (anywhere), ...
UpChained(t) ==
    /\ pc[t] = "up_chained"
    /\ LET x == self[t]
           y == to[t] IN
       \/ /\ lock[y] = None /\ ecs[y] # <<>>
          /\ ecs' = [ecs EXCEPT ![y] = Tail(@)]
          /\ pc' = [pc EXCEPT ![t] = "reset", ![Head(ecs[y])] = "user"]
          /\ UNCHANGED lock
       \/ /\ lock[y] = None /\ ecs[y] = <<>> /\ Queued(x)
          /\ Done(t)
          /\ UNCHANGED <<ecs, lock>>
       \/ /\ ecs[y] = <<>> /\ ~Queued(x)
          /\ Acquire(t, y)
          /\ Goto(t, "enqueue")
          /\ UNCHANGED ecs
    /\ UNCHANGED <<sm, counter, sis, chain_lock, local, calls>>


\* ... else enqueue it and count.
Enqueue(t) ==
    /\ pc[t] = "enqueue"
    /\ LET y == to[t] IN
       /\ sis' = [sis EXCEPT ![y] = Append(@, self[t])]
       /\ counter' = [counter EXCEPT ![y] = @ + 1]
       /\ Unlock(y)
    /\ Done(t)
    /\ UNCHANGED <<sm, ecs, chain_lock, local, calls>>

\* si->reset (true), on behalf of the thread that was woken
Reset(t) ==
    /\ pc[t] = "reset"
    /\ lock[self[t]] = None
    /\ counter' = [counter EXCEPT ![self[t]] = 0]
    /\ Done(t)
    /\ UNCHANGED <<sm, lock, ecs, sis, chain_lock, local, calls>>

-----------------------------------------------------------------------------
(* Sm::dn.  A thread cannot wait on a signal (sys_sm_ctrl).                *)

Dn(t, x) ==
    /\ Enter(t, x, IF sm[x] = None THEN "dn" ELSE "user")
    /\ UNCHANGED <<shared, to, c, kern, again>>

DnWait(t) ==
    /\ pc[t] = "dn"
    /\ LET x == self[t] IN
       /\ lock[x] = None /\ counter[x] = 0
       /\ ecs' = [ecs EXCEPT ![x] = Append(@, t)]
    /\ Goto(t, "wait")
    /\ UNCHANGED <<sm, counter, lock, sis, chain_lock, local, calls>>

\* Take a unit and the first signal; with zc all units, but still one signal.
DnTake(t) ==
    /\ pc[t] = "dn"
    /\ LET x == self[t] IN
       /\ Acquire(t, x) /\ counter[x] > 0
       /\ \E n \in {1} \cup IF Zero THEN {counter[x]} ELSE {} :
              counter' = [counter EXCEPT ![x] = @ - n]
       /\ to' = [to EXCEPT ![t] = IF sis[x] = <<>> THEN None ELSE Head(sis[x])]
       /\ sis' = [sis EXCEPT ![x] = IF @ = <<>> THEN @ ELSE Tail(@)]
    /\ Goto(t, "dn_reset")
    /\ UNCHANGED <<sm, ecs, chain_lock, self, c, kern, again, calls>>

\* reset() of that signal, without its lock, and return.
DnReset(t) ==
    /\ pc[t] = "dn_reset"
    /\ counter' = IF to[t] = None THEN counter ELSE [counter EXCEPT ![to[t]] = 0]
    /\ Unlock(self[t])
    /\ Goto(t, "user")
    /\ UNCHANGED <<sm, ecs, sis, chain_lock, local, calls>>

-----------------------------------------------------------------------------
(* Si::chain, called by sys_assign_gsi for the semaphore x of an interrupt *)

Chain(t, x, y) ==
    /\ x \in Kern /\ y \in Targets \cup {None}
    /\ Enter(t, x, "chain")
    /\ to' = [to EXCEPT ![t] = y]
    /\ kern' = [kern EXCEPT ![t] = x]
    /\ UNCHANGED <<shared, c, again>>

ChainStore(t) ==
    /\ pc[t] = "chain" /\ chain_lock = None
    /\ chain_lock' = t
    /\ sm' = [sm EXCEPT ![self[t]] = to[t]]
    /\ Goto(t, "chain_reset")
    /\ UNCHANGED <<counter, lock, ecs, sis, local, calls>>

\* c = kern_sm->reset (true), then c times kern_sm->submit()
ChainReset(t) ==
    /\ pc[t] = "chain_reset"
    /\ LET x == kern[t] IN
       /\ lock[x] = None
       /\ counter' = [counter EXCEPT ![x] = 0]
       /\ again' = [again EXCEPT ![t] = counter[x]]
       /\ Goto(t, IF counter[x] > 0 THEN "again" ELSE "unchain")
    /\ UNCHANGED <<sm, lock, ecs, sis, chain_lock, self, to, c, kern, calls>>

Again(t) ==
    /\ pc[t] = "again"
    /\ again' = [again EXCEPT ![t] = @ - 1]
    /\ self' = [self EXCEPT ![t] = kern[t]]
    /\ Goto(t, "submit")
    /\ UNCHANGED <<shared, to, c, kern, calls>>

Unchain(t) ==
    /\ pc[t] = "unchain"
    /\ chain_lock' = None
    /\ Goto(t, "user")
    /\ UNCHANGED <<sm, counter, lock, ecs, sis, local, calls>>

-----------------------------------------------------------------------------

Kernel(t) ==
    \/ SubmitKern(t) \/ UpSelf(t) \/ Count(t) \/ Chained(t) \/ UpChained(t) \/ Enqueue(t) \/ Reset(t)
    \/ DnWait(t) \/ DnTake(t) \/ DnReset(t)
    \/ ChainStore(t) \/ ChainReset(t) \/ Again(t) \/ Unchain(t)

Next ==
    \/ \E t \in Thread :
           \/ Kernel(t)
           \/ \E x \in Sm : Submit(t, x) \/ Dn(t, x) \/ \E y \in Sm \cup {None} : Chain(t, x, y)
    \/ \E x, y \in Sm : CreateSignal(x, y)

Spec == Init /\ [][Next]_vars

-----------------------------------------------------------------------------

TypeOK ==
    /\ sm \in [Sm -> Sm \cup {None}]
    /\ counter \in [Sm -> Nat] /\ lock \in [Sm -> Thread \cup {None}]
    /\ ecs \in [Sm -> Seq(Thread)] /\ sis \in [Sm -> Seq(Sm)]
    /\ chain_lock \in Thread \cup {None}
    /\ self \in [Thread -> Sm \cup {None}] /\ to \in [Thread -> Sm \cup {None}]
    /\ kern \in [Thread -> Kern \cup {None}]
    /\ c \in [Thread -> Nat] /\ again \in [Thread -> Nat] /\ calls \in 0 .. Calls

AtRest == \A t \in Thread : pc[t] \in {"user", "wait"}


(* No thread sleeps at a semaphore while a unit or a signal is there.      *)
NoSleeper == AtRest => \A x \in Sm : ecs[x] # <<>> => counter[x] = 0 /\ sis[x] = <<>>

(* A signal is linked at most once: Si has one pair of pointers, and       *)
(* up() tests queued() under the lock of the semaphore it is queued at.    *)
LinkedOnce ==
    \A x \in Sm : \A y, z \in Sm : \A i \in DOMAIN sis[y], j \in DOMAIN sis[z] :
        sis[y][i] = x /\ sis[z][j] = x => y = z /\ i = j

(* sys_create_sm refuses a signal as target to "limit chaining to solely   *)
(* one level".                                                             *)
OneLevel == \A x \in User : sm[x] # None => sm[sm[x]] = None
=============================================================================
