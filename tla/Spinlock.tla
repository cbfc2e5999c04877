------------------------------ MODULE Spinlock ------------------------------
(***************************************************************************)
(* The ticket lock of include/spinlock.hpp.  The 16-bit word val holds two *)
(* bytes: the high byte is the next ticket to hand out, the low byte the   *)
(* ticket that is being served.  lock() takes a ticket with one atomic     *)
(* xadd of 0x100, which also returns the low byte of that moment, and then *)
(* re-reads the low byte until it equals the ticket.  unlock() increments  *)
(* the low byte with an incb that has no lock prefix: a load and a store.  *)
(*                                                                         *)
(* The bytes wrap around; Tickets is the number of values of one byte (256 *)
(* in the code, smaller when model checking so that the wrap-around is     *)
(* reached in few steps).                                                  *)
(***************************************************************************)
EXTENDS Integers, FiniteSets

CONSTANTS CPU,      \* the processors that use the lock
          Tickets   \* the number of values of a byte of val

(* NUM_CPU is 256 (config.hpp) and a byte has 256 values: there are never  *)
(* more CPUs than tickets.                                                 *)
ASSUME TicketsAssumption ==
    /\ Tickets \in Nat \ {0}
    /\ IsFiniteSet(CPU)
    /\ Cardinality(CPU) <= Tickets

VARIABLES next,     \* high byte of val: the next ticket to hand out
          serving,  \* low byte of val: the ticket being served
          pc,       \* where each CPU is: outside, spinning in lock(), holding
                    \* the lock, or between load and store of unlock()
          ticket,   \* high byte of tmp: the ticket the CPU drew
          seen      \* low byte of tmp: the last value of serving it read

vars == <<next, serving, pc, ticket, seen>>

Byte == 0 .. Tickets - 1

\* One more, in a byte.
Inc(b) == (b + 1) % Tickets

Init ==
    /\ next = 0
    /\ serving = 0
    /\ pc = [p \in CPU |-> "out"]
    /\ ticket = [p \in CPU |-> 0]
    /\ seen = [p \in CPU |-> 0]

\* lock; xadd: one atomic step hands out a ticket and reads both bytes.
Xadd(p) ==
    /\ pc[p] = "out"
    /\ ticket' = [ticket EXCEPT ![p] = next]
    /\ seen' = [seen EXCEPT ![p] = serving]
    /\ next' = Inc(next)
    /\ pc' = [pc EXCEPT ![p] = "spin"]
    /\ UNCHANGED serving

\* A CPU enters whoever is being served.
EnterUnchecked(p) ==
    /\ pc[p] = "spin"
    /\ pc' = [pc EXCEPT ![p] = "in"]
    /\ UNCHANGED <<next, serving, ticket, seen>>

\* cmpb, je 2f: the served ticket read last is this CPU's.
Enter(p) ==
    /\ pc[p] = "spin"
    /\ seen[p] = ticket[p]
    /\ pc' = [pc EXCEPT ![p] = "in"]
    /\ UNCHANGED <<next, serving, ticket, seen>>

\* The low byte is not read again.
ReloadNothing(p) ==
    /\ pc[p] = "spin"
    /\ seen[p] # ticket[p]
    /\ UNCHANGED vars

\* cmpb, pause, movb: it is not; read the low byte again.
Reload(p) ==
    /\ pc[p] = "spin"
    /\ seen[p] # ticket[p]
    /\ seen' = [seen EXCEPT ![p] = serving]
    /\ UNCHANGED <<next, serving, pc, ticket>>

\* First half of incb in unlock(): the load of the low byte.
UnlockLoad(p) ==
    /\ pc[p] = "in"
    /\ seen' = [seen EXCEPT ![p] = serving]
    /\ pc' = [pc EXCEPT ![p] = "unlock"]
    /\ UNCHANGED <<next, serving, ticket>>

\* Second half: the store.  Only the low byte is written.
UnlockStore(p) ==
    /\ pc[p] = "unlock"
    /\ serving' = Inc(seen[p])
    /\ pc' = [pc EXCEPT ![p] = "out"]
    /\ UNCHANGED <<next, ticket, seen>>

Next == \E p \in CPU : Xadd(p) \/ Enter(p) \/ Reload(p) \/ UnlockLoad(p) \/ UnlockStore(p)

Spec == Init /\ [][Next]_vars

(* A CPU in lock() or unlock() keeps executing (interrupts are off, see    *)
(* lock_guard.hpp), and the critical sections of the kernel end.           *)
FairSpec ==
    Spec /\ \A p \in CPU : WF_vars(Enter(p) \/ Reload(p) \/ UnlockLoad(p) \/ UnlockStore(p))

-----------------------------------------------------------------------------
\* CPUs that have drawn a ticket and not yet passed the lock on.
Busy == {p \in CPU : pc[p] # "out"}

\* CPUs inside the critical section, unlock() included.
Inside == {p \in CPU : pc[p] \in {"in", "unlock"}}

\* How many unlocks away the ticket t is from being served.
Dist(t) == (t - serving) % Tickets

TypeOK ==
    /\ next \in Byte
    /\ serving \in Byte
    /\ pc \in [CPU -> {"out", "spin", "in", "unlock"}]
    /\ ticket \in [CPU -> Byte]
    /\ seen \in [CPU -> Byte]

(* Two CPUs are never in the critical section together, although tickets   *)
(* are reused after Tickets acquisitions and unlock() is not atomic.       *)
MutualExclusion == \A p, q \in Inside : p = q

(* The strengthening of MutualExclusion that is inductive: the outstanding *)
(* tickets are distinct and are the Cardinality(Busy) ones from serving on *)
(* (modulo the byte), next is the first one after them, and a CPU that has *)
(* seen its own ticket served is the one being served.                     *)
TicketInv ==
    /\ TypeOK
    /\ next = (serving + Cardinality(Busy)) % Tickets
    /\ \A p \in Busy : Dist(ticket[p]) < Cardinality(Busy)
    /\ \A p, q \in Busy : ticket[p] = ticket[q] => p = q
    /\ \A p \in Busy : seen[p] = ticket[p] => serving = ticket[p]
    /\ \A p \in Inside : serving = ticket[p]
    /\ \A p \in CPU : pc[p] = "unlock" => seen[p] = serving

(* Every CPU that calls lock() gets the lock: the tickets are served in    *)
(* turn and the holder always leaves.                                      *)
EveryoneServed == \A p \in CPU : pc[p] = "spin" ~> pc[p] = "in"

-----------------------------------------------------------------------------
\* The refinement of the first-come first-served lock: the queue is the
\* busy CPUs in the order of their tickets.
Queue == [i \in 1 .. Cardinality(Busy) |->
            CHOOSE p \in Busy : Dist(ticket[p]) = i - 1]

Fifo == INSTANCE FifoLock WITH queue <- Queue, holder <- Inside

(* The ticket lock implements the first-come first-served lock: the xadd   *)
(* is the moment of the request, nobody overtakes, and the store of        *)
(* unlock() hands the lock to the next ticket.                             *)
FifoSpec == Fifo!Spec
=============================================================================
