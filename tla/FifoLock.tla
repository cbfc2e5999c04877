------------------------------ MODULE FifoLock ------------------------------
(***************************************************************************)
(* What a Spinlock promises its users: CPUs are served one at a time, in   *)
(* the order in which they asked.  The lock is the queue of the CPUs that  *)
(* have asked and not yet released; the one that holds it is the head.     *)
(***************************************************************************)
EXTENDS Sequences

CONSTANT CPU        \* the processors

VARIABLES queue,    \* CPUs that asked for the lock, oldest first
          holder    \* the set of CPUs inside the critical section

vars == <<queue, holder>>

Init == queue = <<>> /\ holder = {}

\* A CPU that is neither waiting nor inside asks for the lock.
Ask(p) ==
    /\ \A i \in DOMAIN queue : queue[i] # p
    /\ queue' = Append(queue, p)
    /\ UNCHANGED holder

\* The CPU at the head enters the critical section.
Enter(p) ==
    /\ queue # <<>> /\ Head(queue) = p
    /\ holder = {}
    /\ holder' = {p}
    /\ UNCHANGED queue

\* The CPU inside leaves and gives the lock to the next one.
Leave(p) ==
    /\ holder = {p}
    /\ holder' = {}
    /\ queue' = Tail(queue)

Next == \E p \in CPU : Ask(p) \/ Enter(p) \/ Leave(p)

Spec == Init /\ [][Next]_vars
=============================================================================
