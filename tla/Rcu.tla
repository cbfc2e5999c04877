-------------------------------- MODULE Rcu ---------------------------------
(***************************************************************************)
(* Read-copy-update: rcu.hpp and rcu.cpp, with the CPUs that use it.       *)
(*                                                                         *)
(* Kernel objects that are taken out of the kernel's data structures are   *)
(* handed to Rcu::call and freed by a callback once no CPU can still be    *)
(* using them.  A CPU uses an object without a reference count only while  *)
(* it is in the kernel; it reports that it has none (quiet) on its way     *)
(* back to user mode, when the hazard HZD_RCU tells it that a new batch    *)
(* has started since its last report.                                      *)
(*                                                                         *)
(* state is the word Rcu::state: the number of the batch above two bits,   *)
(* RCU_CMP (all CPUs have reported for the batch) and RCU_PND (somebody    *)
(* waits for the next one).  The next batch starts when both are set.      *)
(* update() runs in the timer interrupt and may interrupt kernel code.     *)
(***************************************************************************)
EXTENDS Integers, FiniteSets

CONSTANTS CPU,      \* the CPUs that are online
          Elem,     \* kernel objects (Rcu_elem)
          Calls     \* bound: objects handed to Rcu::call

ASSUME RcuAssumption ==
    IsFiniteSet(CPU) /\ CPU # {} /\ IsFiniteSet(Elem) /\ Calls \in Nat

VARIABLES
    state, count,           \* Rcu::state as a record, Rcu::count
    l_batch, c_batch,       \* per CPU: the batch last seen, the batch of curr
    next, curr, done,       \* per CPU: the three lists, as sets
    hazard,                 \* the CPUs with HZD_RCU set
    pc,                     \* where each CPU is, "user" and "kernel" included
    arg, v,                 \* start_batch: its argument, the value it loaded
    linked,                 \* the objects reachable by kernel code
    refs,                   \* per CPU: the objects its kernel code works on
    calls                   \* what is left of Calls

lists == <<next, curr, done>>
batches == <<l_batch, c_batch>>
objects == <<linked, refs, calls>>
vars == <<state, count, batches, lists, hazard, pc, arg, v, objects>>

Bits == {"CMP", "PND"}
Other(s) == IF s = "CMP" THEN "PND" ELSE "CMP"

Init ==
    /\ state = [batch |-> 0, bits |-> {"CMP"}]
    /\ count = 0
    /\ l_batch = [p \in CPU |-> 0] /\ c_batch = [p \in CPU |-> 0]
    /\ next = [p \in CPU |-> {}] /\ curr = [p \in CPU |-> {}] /\ done = [p \in CPU |-> {}]
    /\ hazard = {}
    /\ pc = [p \in CPU |-> "user"]
    /\ arg = [p \in CPU |-> "CMP"]
    /\ v = [p \in CPU |-> state]
    /\ linked = Elem
    /\ refs = [p \in CPU |-> {}]
    /\ calls = Calls

Goto(p, from, to) == pc[p] = from /\ pc' = [pc EXCEPT ![p] = to]

-----------------------------------------------------------------------------
(* The CPU's way into the kernel and back.                                 *)

Enter(p) ==
    /\ Goto(p, "user", "kernel")
    /\ UNCHANGED <<state, count, batches, lists, hazard, arg, v, objects>>

\* Kernel code finds an object and works on it.
Lookup(p, e) ==
    /\ pc[p] = "kernel" /\ e \in linked
    /\ refs' = [refs EXCEPT ![p] = @ \cup {e}]
    /\ UNCHANGED <<state, count, batches, lists, hazard, pc, arg, v, linked, calls>>

\* Kernel code removes the object and calls Rcu::call.
Call(p, e) ==
    /\ pc[p] = "kernel" /\ e \in linked /\ calls > 0
    /\ linked' = linked \ {e}
    /\ next' = [next EXCEPT ![p] = @ \cup {e}]
    /\ calls' = calls - 1
    /\ UNCHANGED <<state, count, batches, curr, done, hazard, pc, arg, v, refs>>

\* The memory of a freed object is used for a new one.
Create(p, e) ==
    /\ pc[p] = "kernel"
    /\ e \notin linked /\ \A q \in CPU : e \notin next[q] \cup curr[q] \cup done[q]
    /\ linked' = linked \cup {e}
    /\ UNCHANGED <<state, count, batches, lists, hazard, pc, arg, v, refs, calls>>

\* ret_user_*: nothing is in use any more; a pending hazard is handled first.
Leave(p) ==
    /\ Goto(p, "kernel", IF p \in hazard THEN "quiet" ELSE "user")
    /\ refs' = [refs EXCEPT ![p] = {}]
    /\ UNCHANGED <<state, count, batches, lists, hazard, arg, v, linked, calls>>

\* The timer interrupt, from user mode or from kernel code.
Timer(p) ==
    /\ pc[p] \in {"user", "kernel"}
    /\ pc' = [pc EXCEPT ![p] = "update"]
    /\ UNCHANGED <<state, count, batches, lists, hazard, arg, v, objects>>

-----------------------------------------------------------------------------
(* Rcu::quiet and Rcu::update                                              *)

Quiet(p) ==
    /\ pc[p] = "quiet"
    /\ hazard' = hazard \ {p}
    /\ count' = count - 1
    /\ arg' = [arg EXCEPT ![p] = "CMP"]
    /\ pc' = [pc EXCEPT ![p] = IF count - 1 = 0 THEN "load" ELSE "user"]
    /\ UNCHANGED <<state, batches, lists, v, objects>>

\* A batch this CPU has not seen yet.
UpdateBatch(p) ==
    /\ Goto(p, "update", "complete")
    /\ l_batch' = [l_batch EXCEPT ![p] = state.batch]
    /\ hazard' = IF l_batch[p] # state.batch THEN hazard \cup {p} ELSE hazard
    /\ UNCHANGED <<state, count, c_batch, lists, arg, v, objects>>

\* complete (b): the batch is over.
Complete(b) == state.batch > b \/ (state.batch = b /\ "CMP" \in state.bits)

UpdateDone(p) ==
    /\ Goto(p, "complete", "pending")
    /\ IF curr[p] # {} /\ Complete(c_batch[p])
       THEN /\ done' = [done EXCEPT ![p] = @ \cup curr[p]]
            /\ curr' = [curr EXCEPT ![p] = {}]
       ELSE UNCHANGED <<done, curr>>
    /\ UNCHANGED <<state, count, batches, next, hazard, arg, v, objects>>

\* The current batch will do, not the next one.
UpdateNextEarly(p) ==
    /\ pc[p] = "pending"
    /\ IF curr[p] = {} /\ next[p] # {}
       THEN /\ curr' = [curr EXCEPT ![p] = next[p]]
            /\ next' = [next EXCEPT ![p] = {}]
            /\ c_batch' = [c_batch EXCEPT ![p] = l_batch[p]]
            /\ arg' = [arg EXCEPT ![p] = "PND"]
            /\ pc' = [pc EXCEPT ![p] = "load"]
       ELSE /\ pc' = [pc EXCEPT ![p] = "invoke"]
            /\ UNCHANGED <<curr, next, c_batch, arg>>
    /\ UNCHANGED <<state, count, l_batch, done, hazard, v, objects>>

\* What was called since waits for the next batch.
UpdateNext(p) ==
    /\ pc[p] = "pending"
    /\ IF curr[p] = {} /\ next[p] # {}
       THEN /\ curr' = [curr EXCEPT ![p] = next[p]]
            /\ next' = [next EXCEPT ![p] = {}]
            /\ c_batch' = [c_batch EXCEPT ![p] = l_batch[p] + 1]
            /\ arg' = [arg EXCEPT ![p] = "PND"]
            /\ pc' = [pc EXCEPT ![p] = "load"]
       ELSE /\ pc' = [pc EXCEPT ![p] = "invoke"]
            /\ UNCHANGED <<curr, next, c_batch, arg>>
    /\ UNCHANGED <<state, count, l_batch, done, hazard, v, objects>>

\* invoke_batch: the callbacks free the objects.
Invoke(p) ==
    /\ Goto(p, "invoke", "kernel")
    /\ done' = [done EXCEPT ![p] = {}]
    /\ UNCHANGED <<state, count, batches, next, curr, hazard, arg, v, objects>>

-----------------------------------------------------------------------------
(* Rcu::start_batch (s)                                                    *)

\* Where start_batch returns to: into update or out of quiet.
After(p) == IF arg[p] = "PND" THEN "invoke" ELSE "user"

\* v = state: another batch, or the bit is set already.
Load(p) ==
    /\ pc[p] = "load"
    /\ v' = [v EXCEPT ![p] = state]
    /\ pc' = [pc EXCEPT ![p] =
                  IF state.batch # l_batch[p] \/ arg[p] \in state.bits THEN After(p) ELSE "swap"]
    /\ UNCHANGED <<state, count, batches, lists, hazard, arg, objects>>

\* Nobody starts the next batch when the second bit is set.
SwapOnly(p) ==
    /\ pc[p] = "swap"
    /\ IF state = v[p]
       THEN /\ state' = [state EXCEPT !.bits = @ \cup {arg[p]}]
            /\ pc' = [pc EXCEPT ![p] = After(p)]
       ELSE pc' = [pc EXCEPT ![p] = "load"] /\ UNCHANGED state
    /\ UNCHANGED <<count, batches, lists, hazard, arg, v, objects>>

\* cmp_swap (state, v, v | s): the one who finds the other bit set goes on.
Swap(p) ==
    /\ pc[p] = "swap"
    /\ IF state = v[p]
       THEN /\ state' = [state EXCEPT !.bits = @ \cup {arg[p]}]
            /\ pc' = [pc EXCEPT ![p] = IF Other(arg[p]) \in v[p].bits THEN "reset" ELSE After(p)]
       ELSE pc' = [pc EXCEPT ![p] = "load"] /\ UNCHANGED state
    /\ UNCHANGED <<count, batches, lists, hazard, arg, v, objects>>

\* count = Cpu::online
Reset(p) ==
    /\ Goto(p, "reset", "start")
    /\ count' = Cardinality(CPU)
    /\ UNCHANGED <<state, batches, lists, hazard, arg, v, objects>>

\* state++: both bits are set, so it carries into the batch number.
Start(p) ==
    /\ Goto(p, "start", After(p))
    /\ state' = CASE "CMP" \notin state.bits -> [state EXCEPT !.bits = @ \cup {"CMP"}]
                  [] state.bits = {"CMP"}    -> [state EXCEPT !.bits = {"PND"}]
                  [] state.bits = Bits       -> [batch |-> state.batch + 1, bits |-> {}]
    /\ UNCHANGED <<count, batches, lists, hazard, arg, v, objects>>

-----------------------------------------------------------------------------

Code(p) ==
    \/ Quiet(p) \/ UpdateBatch(p) \/ UpdateDone(p) \/ UpdateNext(p) \/ Invoke(p)
    \/ Load(p) \/ Swap(p) \/ Reset(p) \/ Start(p)

Next ==
    \E p \in CPU :
        \/ Enter(p) \/ Leave(p) \/ Timer(p) \/ Code(p)
        \/ \E e \in Elem : Lookup(p, e) \/ Call(p, e) \/ Create(p, e)

Spec == Init /\ [][Next]_vars

(* Kernel code runs to its end, and the timer keeps interrupting: the      *)
(* budget of the running scheduling context, the idle one included, always *)
(* has a timeout pending.                                                  *)
FairSpec == Spec /\ \A p \in CPU : WF_vars(Code(p)) /\ SF_vars(Leave(p)) /\ SF_vars(Timer(p))

-----------------------------------------------------------------------------

Queued(p) == next[p] \cup curr[p] \cup done[p]

State == [batch : Nat, bits : SUBSET Bits]

(* Types of the variables; count never runs below zero.                    *)
TypeOK ==
    /\ state \in State /\ count \in 0 .. Cardinality(CPU)
    /\ l_batch \in [CPU -> Nat] /\ c_batch \in [CPU -> Nat]
    /\ next \in [CPU -> SUBSET Elem] /\ curr \in [CPU -> SUBSET Elem] /\ done \in [CPU -> SUBSET Elem]
    /\ hazard \subseteq CPU
    /\ pc \in [CPU -> {"user", "kernel", "quiet", "update", "complete", "pending", "invoke",
                       "load", "swap", "reset", "start"}]
    /\ arg \in [CPU -> Bits] /\ v \in [CPU -> State]
    /\ linked \subseteq Elem /\ refs \in [CPU -> SUBSET Elem] /\ calls \in Nat

(* No object is freed while a CPU works on it: whatever a CPU has looked   *)
(* up is still linked, or waits in a list whose batch is not over.         *)
NoUseAfterFree ==
    \A p \in CPU : refs[p] \subseteq linked \cup UNION {next[q] \cup curr[q] : q \in CPU}

(* Why it holds.  The CPUs that Owe a report for the batch: those that     *)
(* have not seen it yet or have not been quiet since.  count is their      *)
(* number until RCU_CMP is set, and then there are none; one CPU at a time *)
(* sets RCU_CMP or starts a batch.  A CPU that works on an object in curr  *)
(* still owes its report for the batch of curr (NotYet), and the same will *)
(* be true of what update() is about to take from next.                    *)
Owe == {p \in CPU : l_batch[p] # state.batch \/ p \in hazard}
NotYet(p, b) == state.batch < b \/ (state.batch = b /\ p \in Owe)
BatchInv ==
    /\ \A p \in CPU :
           /\ l_batch[p] # state.batch => l_batch[p] + 1 = state.batch /\ p \notin hazard
           /\ pc[p] = "quiet" => p \in hazard
    /\ IF "CMP" \in state.bits THEN Owe = {} ELSE count = Cardinality(Owe)
    /\ \A p \in CPU : pc[p] \in {"load", "swap"} /\ arg[p] = "CMP" =>
                       "CMP" \notin state.bits /\ Owe = {}
    /\ \A p, q \in CPU : arg[p] = "CMP" /\ arg[q] = "CMP" =>
                          (pc[p] \in {"load", "swap"} /\ pc[q] \in {"load", "swap"} => p = q)
    /\ \A p \in CPU : pc[p] = "swap" => arg[p] \notin v[p].bits
    /\ \A p \in CPU : pc[p] \in {"reset", "start"} => state.bits = Bits
    /\ \A p \in CPU : pc[p] = "start" => count = Cardinality(CPU)
    /\ \A p, q \in CPU : pc[p] \in {"reset", "start"} /\ pc[q] \in {"reset", "start"} => p = q
ObjectInv ==
    /\ \A p \in CPU : \A e \in Queued(p) : e \notin linked
    /\ \A p \in CPU :
           pc[p] = "quiet" \/ (pc[p] \in {"load", "swap", "reset", "start"} /\ arg[p] = "CMP")
               => refs[p] = {}
    /\ \A q \in CPU : \A e \in refs[q] :
           /\ e \in linked \/ \E p \in CPU : e \in Queued(p)
           /\ \A p \in CPU :
                  /\ e \notin done[p]
                  /\ e \in curr[p] => NotYet(q, c_batch[p])
                  /\ pc[p] \in {"complete", "pending"} /\ e \in next[p] => NotYet(q, l_batch[p] + 1)
RcuInv == TypeOK /\ BatchInv /\ ObjectInv

(* Every object given to Rcu::call is freed: after the last of the Calls   *)
(* that there are, the lists become empty and stay so.                     *)
EveryCallDone == <>[](\A p \in CPU : Queued(p) = {})
=============================================================================
