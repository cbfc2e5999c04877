--------------------------- MODULE CoreAllocator ----------------------------
(***************************************************************************)
(* Elastic core allocation between cells: Core_allocator, Cpu_resource,    *)
(* Cell and the parts of the Cell Infopage (CIP) they share with user      *)
(* space, driven by the system calls SYS_ALLOC, SYS_RELEASE and            *)
(* SYS_CELL_CTRL.                                                          *)
(*                                                                         *)
(* Nothing of this is guarded by a lock: every CPU may be inside one of    *)
(* the system calls, and the calls touch the shared words one by one.  A   *)
(* step of the model is one such access (a compare-and-swap, an atomic bit *)
(* operation, a load or a store) with the CPU-local work around it.  The   *)
(* kernel is not preempted, so a CPU executes one call at a time; stack[p] *)
(* holds the program points of the functions it is in, innermost first.    *)
(*                                                                         *)
(* A worker and its semaphore are modelled by the semaphore's counter and  *)
(* by whether the worker waits on it: dn() and up() take the semaphore's   *)
(* lock, so each is one step.  A cell has at most one worker per core.     *)
(***************************************************************************)
EXTENDS Integers, Sequences, FiniteSets, FiniteSetsExt

CONSTANTS Cell,          \* the cells
          Hoitaja,       \* the CPU on which the cell manager runs
          NoCell,        \* nullptr
          Systems        \* the systems, one of which is chosen, see sys

ASSUME AllocatorAssumption ==
    /\ NoCell \notin Cell
    /\ \A s \in Systems :
           /\ s.core \subseteq Nat /\ IsFiniteSet(s.core) /\ Hoitaja \notin s.core
           /\ s.reserved \in [Cell -> SUBSET s.core] /\ s.worker \in [Cell -> SUBSET s.core]
           /\ \A c, d \in Cell : c # d => s.reserved[c] \cap s.reserved[d] = {}
           /\ s.calls \in Nat /\ s.serial \in BOOLEAN /\ s.boot \in BOOLEAN

VARIABLES
    sys,                \* the system: its cores, what Hoitaja reserves for each
                        \* cell, where a cell has workers, the bound on their
                        \* calls, whether the threads of a cell serialise
                        \* SYS_ALLOC, whether the cells are still to be started
    owner, current,     \* Resource::_owner, _current of each core
    hazard,             \* cores with HZD_YIELD set in Resource::hazards
    idle,               \* Core_allocator::_idle_cpus
    cip,                \* the CIP of each cell, see Cip
    initialized,        \* Cell::initialized
    counter, asleep,    \* the workers' semaphores, and who waits on them
    stack, loc,         \* of each CPU: program points, local variables
    calls               \* what is left of sys.calls

resources == <<owner, current, hazard, idle>>
semaphores == <<counter, asleep>>
shared == <<resources, cip, semaphores, initialized, calls>>
vars == <<sys, shared, stack, loc>>

Core == sys.core
Reserved == sys.reserved
Worker == sys.worker

Cpu == Core \cup {Hoitaja}

\* me: Pd::current->cell; cell: the cell the call works for; k: the core at
\* hand; n of q cores allocated; res: the snapshot of the reserved cores, todo:
\* what is left of the set being iterated; b: the borrower or the holder; to: the
\* cell a core is given to; ok: a returned bool.
NoLocals == [me |-> NoCell, cell |-> NoCell, k |-> Hoitaja, n |-> 0, q |-> 0,
             res |-> {}, todo |-> {}, b |-> NoCell, to |-> NoCell, ok |-> FALSE]

At(p, l) == stack[p] # <<>> /\ Head(stack[p]) = l

\* Continue at the points ls, the first of them now, the others on return.
Goto(p, ls) == stack' = [stack EXCEPT ![p] = ls \o Tail(@)]
Return(p) == Goto(p, <<>>)
ReturnIs(p, r) == Return(p) /\ loc' = [loc EXCEPT ![p].ok = r]


\* A CIP without requests; channels is the number of cores among which
\* channel_info was last divided.
Cip(cores, reserved) ==
    [cores_current |-> cores, cores_reserved |-> reserved, cores_new |-> {}, cores_reclaimed |-> {},
     yield_flag |-> [k \in Core |-> 0], channels |-> 0]

(* The state after boot: add_cpu() has put every core into the idle set.   *)
Booted ==
    /\ owner = [k \in Core |-> NoCell] /\ current = [k \in Core |-> NoCell]
    /\ hazard = {} /\ idle = Core
    /\ cip = [c \in Cell |-> Cip({}, {})]
    /\ initialized = {}
    /\ counter = [c \in Cell |-> [k \in Core |-> 0]]
    /\ asleep = {}
    /\ stack = [p \in Cpu |-> <<>>] /\ loc = [p \in Cpu |-> NoLocals]
    /\ calls = sys.calls

(* A later state: every cell has been started on the first of its cores,   *)
(* and its workers on the other cores have put themselves to sleep.        *)
Running ==
    LET Home == {Min(Reserved[c]) : c \in {d \in Cell : Reserved[d] # {}}}
        Holder(k) == IF k \in Home THEN CHOOSE c \in Cell : k \in Reserved[c] ELSE NoCell
    IN
    /\ owner = [k \in Core |-> IF \E c \in Cell : k \in Reserved[c]
                               THEN CHOOSE c \in Cell : k \in Reserved[c] ELSE NoCell]
    /\ current = [k \in Core |-> Holder(k)]
    /\ hazard = {} /\ idle = Core \ Home
    /\ cip = [c \in Cell |-> Cip({k \in Core : Holder(k) = c}, Reserved[c])]
    /\ initialized = Cell
    /\ counter = [c \in Cell |-> [k \in Core |-> 0]]
    /\ asleep = {w \in Cell \X Core : w[2] \in Worker[w[1]] /\ Holder(w[2]) # w[1]}
    /\ stack = [p \in Cpu |-> <<>>] /\ loc = [p \in Cpu |-> NoLocals]
    /\ calls = sys.calls

Init == sys \in Systems /\ IF sys.boot THEN Booted ELSE Running

-----------------------------------------------------------------------------
(* Core_allocator::alloc                                                   *)

\* cores_new.clear()
AllocClear(p) ==
    /\ At(p, "alloc")
    /\ cip' = [cip EXCEPT ![loc[p].cell].cores_new = {}]
    /\ Goto(p, <<"snapshot">>)
    /\ UNCHANGED <<resources, semaphores, initialized, loc, calls>>

\* The local set reserved: the reserved cores less the current ones.
AllocSnapshot(p) ==
    /\ At(p, "snapshot")
    /\ LET c == loc[p].cell
           free == cip[c].cores_reserved \ cip[c].cores_current IN
       loc' = [loc EXCEPT ![p].res = free, ![p].todo = free]
    /\ Goto(p, <<"reserved">>)
    /\ UNCHANGED shared

Done(p) == loc[p].n >= loc[p].q \/ loc[p].todo = {}

\* One round of the first (reserved cores) or second (idle cores) loop: the
\* compare-and-swap of occupy().
AllocOccupy(p) ==
    \E l \in {"reserved", "borrow"} :
        /\ At(p, l) /\ ~Done(p)
        /\ LET k == Min(loc[p].todo)
               free == current[k] = NoCell IN
           /\ current' = IF free THEN [current EXCEPT ![k] = loc[p].cell] ELSE current
           /\ loc' = [loc EXCEPT ![p].todo = @ \ {k}, ![p].k = k, ![p].to = loc[p].cell,
                                 ![p].n = IF free THEN @ + 1 ELSE @]
           /\ Goto(p, IF free THEN <<"occupied", l>> ELSE <<l>>)
        /\ UNCHANGED <<owner, hazard, idle, cip, semaphores, initialized, calls>>

\* The first loop ended: return, or take a snapshot of the idle cores.
AllocBorrow(p) ==
    /\ At(p, "reserved") /\ Done(p)
    /\ IF loc[p].n = loc[p].q
       THEN Goto(p, <<"allocated">>) /\ UNCHANGED loc
       ELSE Goto(p, <<"borrow">>) /\ loc' = [loc EXCEPT ![p].todo = idle]
    /\ UNCHANGED shared

\* The second loop ended: return, or look at the reserved cores again.
AllocHired(p) ==
    /\ At(p, "borrow") /\ Done(p)
    /\ IF loc[p].n = loc[p].q
       THEN Goto(p, <<"allocated">>) /\ UNCHANGED loc
       ELSE Goto(p, <<"hired">>) /\ loc' = [loc EXCEPT ![p].todo = loc[p].res]
    /\ UNCHANGED shared

\* A round of the third loop: the first read of borrowed(), or the loop's end.
AllocLent(p) ==
    /\ At(p, "hired")
    /\ IF Done(p)
       THEN Goto(p, <<"allocated">>) /\ UNCHANGED loc
       ELSE LET k == Min(loc[p].todo) IN
            /\ loc' = [loc EXCEPT ![p].todo = @ \ {k}, ![p].k = k]
            /\ Goto(p, IF owner[k] # current[k] THEN <<"lent">> ELSE <<"hired">>)
    /\ UNCHANGED shared

\* The second read of borrowed(); a borrowed core is reclaimed.
AllocReclaim(p) ==
    /\ At(p, "lent")
    /\ Goto(p, IF current[loc[p].k] # NoCell THEN <<"reclaim", "count">> ELSE <<"hired">>)
    /\ UNCHANGED <<shared, loc>>

\* if (reclaim()) cores_allocated++
AllocCount(p) ==
    /\ At(p, "count")
    /\ loc' = [loc EXCEPT ![p].n = IF loc[p].ok THEN @ + 1 ELSE @]
    /\ Goto(p, <<"hired">>)
    /\ UNCHANGED shared

\* Back in sys_alloc(): no core at all is an error, otherwise the channels are
\* divided among the cores and the cores in cores_new are woken.
AllocDone(p) ==
    /\ At(p, "allocated")
    /\ LET c == loc[p].cell IN
       IF loc[p].n = 0
       THEN Return(p) /\ UNCHANGED <<cip, loc>>
       ELSE /\ cip' = [cip EXCEPT ![c].channels = loc[p].n]
            /\ loc' = [loc EXCEPT ![p].todo = cip[c].cores_new]
            /\ Goto(p, <<"wake_cores">>)
    /\ UNCHANGED <<resources, semaphores, initialized, calls>>

\* Cell::wake_cores: the next core of the snapshot.
WakeCores(p) ==
    /\ At(p, "wake_cores")
    /\ IF loc[p].todo = {}
       THEN Return(p) /\ UNCHANGED loc
       ELSE LET k == Min(loc[p].todo) IN
            /\ loc' = [loc EXCEPT ![p].todo = @ \ {k}, ![p].k = k, ![p].to = loc[p].cell]
            /\ Goto(p, <<"wake_core", "wake_cores">>)
    /\ UNCHANGED shared

-----------------------------------------------------------------------------
(* Cpu_resource::occupy after its compare-and-swap succeeded.              *)

OccupyIdle(p) ==
    /\ At(p, "occupied")
    /\ idle' = idle \ {loc[p].k}
    /\ Goto(p, <<"occupied_new">>)
    /\ UNCHANGED <<owner, current, hazard, cip, semaphores, initialized, loc, calls>>

\* The core is not noted for wake_cores().
OccupyNewForgets(p) ==
    /\ At(p, "occupied_new")
    /\ Return(p)
    /\ UNCHANGED <<resources, cip, semaphores, initialized, loc, calls>>

OccupyNew(p) ==
    /\ At(p, "occupied_new")
    /\ cip' = [cip EXCEPT ![loc[p].to].cores_new = @ \cup {loc[p].k}]
    /\ Return(p)
    /\ UNCHANGED <<resources, semaphores, initialized, loc, calls>>

(* Cell::wake_core and Sm::up, for the worker of cell to on core k.        *)
WakeCore(p) ==
    /\ At(p, "wake_core")
    /\ LET c == loc[p].to
           k == loc[p].k IN
       IF k \in Worker[c]
       THEN cip' = [cip EXCEPT ![c].cores_current = @ \cup {k}] /\ Goto(p, <<"up">>)
       ELSE UNCHANGED cip /\ Return(p)
    /\ UNCHANGED <<resources, semaphores, initialized, loc, calls>>

Up(p) ==
    /\ At(p, "up")
    /\ LET c == loc[p].to
           k == loc[p].k IN
       IF <<c, k>> \in asleep
       THEN asleep' = asleep \ {<<c, k>>} /\ UNCHANGED counter
       ELSE counter' = [counter EXCEPT ![c][k] = @ + 1] /\ UNCHANGED asleep
    /\ Return(p)
    /\ UNCHANGED <<resources, cip, initialized, loc, calls>>

(* Cell::block_workers_on and Sm::dn(zero): a pending up is consumed, or   *)
(* the worker sleeps and the call ends when it is woken (cont is set to    *)
(* sys_finish).                                                            *)
Block(p) ==
    /\ At(p, "block")
    /\ cip' = [cip EXCEPT ![loc[p].b].cores_current = @ \ {loc[p].k}]
    /\ Goto(p, <<"dn">>)
    /\ UNCHANGED <<resources, semaphores, initialized, loc, calls>>

Dn(p) ==
    /\ At(p, "dn")
    /\ LET c == loc[p].b
           k == loc[p].k IN
       IF k \notin Worker[c] \/ counter[c][k] > 0
       THEN /\ counter' = [counter EXCEPT ![c][k] = 0]
            /\ Return(p)
            /\ UNCHANGED <<asleep, loc>>
       ELSE /\ asleep' = asleep \cup {<<c, k>>}
            /\ stack' = [stack EXCEPT ![p] = <<>>]
            /\ loc' = [loc EXCEPT ![p] = NoLocals]
            /\ UNCHANGED counter
    /\ UNCHANGED <<resources, cip, initialized, calls>>

-----------------------------------------------------------------------------
(* Cpu_resource::reclaim of core k                                         *)

\* A method called through a null Cell pointer, or assert (_owner): the CPU
\* stops.
Fault(p) == stack' = [stack EXCEPT ![p] = <<"fault">>]

\* cores_reclaimed.set
ReclaimMark(p) ==
    /\ At(p, "reclaim")
    /\ LET o == owner[loc[p].k] IN
       IF o = NoCell
       THEN Fault(p) /\ UNCHANGED cip
       ELSE cip' = [cip EXCEPT ![o].cores_reclaimed = @ \cup {loc[p].k}] /\ Goto(p, <<"reclaim_occupy">>)
    /\ UNCHANGED <<resources, semaphores, initialized, loc, calls>>

\* occupy (_owner)
ReclaimOccupy(p) ==
    /\ At(p, "reclaim_occupy")
    /\ LET k == loc[p].k IN
       IF current[k] = NoCell
       THEN /\ current' = [current EXCEPT ![k] = owner[k]]
            /\ loc' = [loc EXCEPT ![p].to = owner[k]]
            /\ Goto(p, <<"occupied", "reclaim_wake">>)
       ELSE Goto(p, <<"reclaim_look">>) /\ UNCHANGED <<current, loc>>
    /\ UNCHANGED <<owner, hazard, idle, cip, semaphores, initialized, calls>>

\* current()->wake_core (_id); return true
ReclaimWake(p) ==
    /\ At(p, "reclaim_wake")
    /\ LET c == current[loc[p].k] IN
       IF c = NoCell
       THEN Fault(p) /\ UNCHANGED loc
       ELSE /\ loc' = [loc EXCEPT ![p].to = c, ![p].ok = TRUE]
            /\ Goto(p, <<"wake_core">>)
    /\ UNCHANGED shared

\* borrower = current(): ask it to return the core, or give up.
ReclaimLook(p) ==
    /\ At(p, "reclaim_look")
    /\ LET b == current[loc[p].k] IN
       /\ loc' = [loc EXCEPT ![p].b = b]
       /\ Goto(p, IF b \notin {NoCell, owner[loc[p].k]} THEN <<"ask">> ELSE <<"give_up">>)
    /\ UNCHANGED shared

\* cores_reclaimed.clr; return false (also at the end of handle_hazard)
GiveUp(p) ==
    /\ At(p, "give_up")
    /\ cip' = [cip EXCEPT ![owner[loc[p].k]].cores_reclaimed = @ \ {loc[p].k}]
    /\ ReturnIs(p, FALSE)
    /\ UNCHANGED <<resources, semaphores, initialized, calls>>

\* Cell::return_core of the borrower: raise the yield flag unless a voluntary
\* yield was announced; a cell without a worker on the core loses it at once.
Ask(p) ==
    /\ At(p, "ask")
    /\ LET b == loc[p].b
           k == loc[p].k
           raise == k \in Worker[b] /\ cip[b].yield_flag[k] = 0 IN
       /\ cip' = IF raise THEN [cip EXCEPT ![b].yield_flag[k] = 1] ELSE cip
       /\ loc' = [loc EXCEPT ![p].ok = TRUE]
       /\ Goto(p, CASE raise -> <<>>
                    [] k \in Worker[b] /\ ~raise -> <<"set_hazard">>
                    [] k \notin Worker[b] -> <<"return">>)
    /\ UNCHANGED <<resources, semaphores, initialized, calls>>

-----------------------------------------------------------------------------
(* set_hazard (HZD_YIELD) and Core_allocator::handle_hazard                *)

SetHazard(p) ==
    /\ At(p, "set_hazard")
    /\ hazard' = hazard \cup {loc[p].k}
    /\ Goto(p, <<"handle_hazard">>)
    /\ UNCHANGED <<owner, current, idle, cip, semaphores, initialized, loc, calls>>

HandleHazard(p) ==
    /\ At(p, "handle_hazard")
    /\ IF loc[p].k \in hazard
       THEN Goto(p, <<"clear_hazard">>) /\ UNCHANGED loc
       ELSE ReturnIs(p, FALSE)
    /\ UNCHANGED shared

ClearHazard(p) ==
    /\ At(p, "clear_hazard")
    /\ hazard' = hazard \ {loc[p].k}
    /\ Goto(p, <<"hazard_wait">>)
    /\ UNCHANGED <<owner, current, idle, cip, semaphores, initialized, loc, calls>>

\* borrower = current(); then wait until it is gone, or for 5 us: the wait may
\* end at any moment.
HazardWait(p) ==
    /\ At(p, "hazard_wait")
    /\ loc' = [loc EXCEPT ![p].b = current[loc[p].k]]
    /\ Goto(p, <<"hazard_occupy">>)
    /\ UNCHANGED shared

\* The core is taken although the borrower still has it.
HazardOccupyAnyway(p) ==
    /\ At(p, "hazard_occupy")
    /\ LET k == loc[p].k IN
       /\ current' = [current EXCEPT ![k] = owner[k]]
       /\ loc' = [loc EXCEPT ![p].to = owner[k]]
       /\ Goto(p, <<"occupied", "hazard_clear">>)
    /\ UNCHANGED <<owner, hazard, idle, cip, semaphores, initialized, calls>>

HazardOccupy(p) ==
    /\ At(p, "hazard_occupy")
    /\ LET k == loc[p].k IN
       IF current[k] = NoCell
       THEN /\ current' = [current EXCEPT ![k] = owner[k]]
            /\ loc' = [loc EXCEPT ![p].to = owner[k]]
            /\ Goto(p, <<"occupied", "hazard_clear">>)
       ELSE Goto(p, <<"give_up">>) /\ UNCHANGED <<current, loc>>
    /\ UNCHANGED <<owner, hazard, idle, cip, semaphores, initialized, calls>>

HazardClear(p) ==
    /\ At(p, "hazard_clear")
    /\ LET b == loc[p].b IN
       cip' = IF b = NoCell THEN cip ELSE [cip EXCEPT ![b].cores_current = @ \ {loc[p].k}]
    /\ ReturnIs(p, TRUE)
    /\ UNCHANGED <<resources, semaphores, initialized, calls>>

-----------------------------------------------------------------------------
(* Core_allocator::release and Cpu_resource::release                       *)

\* Does the cell hold the core?  If not, only its workers are blocked.
Release(p) ==
    /\ At(p, "release")
    /\ LET c == loc[p].cell
           holds == current[loc[p].k] = c IN
       /\ loc' = [loc EXCEPT ![p].b = c]
       /\ Goto(p, IF holds THEN <<"release_held">> ELSE <<"clear_flag", "block">>)
    /\ UNCHANGED shared

\* curr = _current
ReleaseHeld(p) ==
    /\ At(p, "release_held")
    /\ LET b == current[loc[p].k] IN
       IF b = NoCell
       THEN Fault(p) /\ UNCHANGED loc
       ELSE loc' = [loc EXCEPT ![p].b = b] /\ Goto(p, <<"release_flag">>)
    /\ UNCHANGED shared

\* need_to_return_core
ReleaseFlag(p) ==
    /\ At(p, "release_flag")
    /\ Goto(p, IF cip[loc[p].b].yield_flag[loc[p].k] = 1
               THEN <<"return">> ELSE <<"clear_flag", "release_idle">>)
    /\ UNCHANGED <<shared, loc>>

ClearFlag(p) ==
    /\ At(p, "clear_flag")
    /\ cip' = [cip EXCEPT ![loc[p].b].yield_flag[loc[p].k] = 0]
    /\ Return(p)
    /\ UNCHANGED <<resources, semaphores, initialized, loc, calls>>

ReleaseIdle(p) ==
    /\ At(p, "release_idle")
    /\ idle' = idle \cup {loc[p].k}
    /\ Goto(p, <<"release_store">>)
    /\ UNCHANGED <<owner, current, hazard, cip, semaphores, initialized, loc, calls>>

\* Resource::release; only a caller that held the core itself is blocked.
ReleaseStore(p) ==
    /\ At(p, "release_store")
    /\ current' = [current EXCEPT ![loc[p].k] = NoCell]
    /\ Goto(p, IF loc[p].me = loc[p].b THEN <<"block">> ELSE <<>>)
    /\ UNCHANGED <<owner, hazard, idle, cip, semaphores, initialized, loc, calls>>

-----------------------------------------------------------------------------
(* Cpu_resource::return_core                                               *)

\* The request is taken as answered without giving the core up.
ReturnLookOnly(p) ==
    /\ At(p, "return")
    /\ loc' = [loc EXCEPT ![p].b = loc[p].cell]
    /\ Goto(p, <<"clear_flag">>)
    /\ UNCHANGED shared

\* borrower = _current, then its yield flag is cleared
ReturnLook(p) ==
    /\ At(p, "return")
    /\ LET b == current[loc[p].k] IN
       IF b = NoCell
       THEN Fault(p) /\ UNCHANGED loc
       ELSE loc' = [loc EXCEPT ![p].b = b] /\ Goto(p, <<"clear_flag", "return_store">>)
    /\ UNCHANGED shared


ReturnStore(p) ==
    /\ At(p, "return_store")
    /\ LET o == owner[loc[p].k] IN
       IF o = NoCell
       THEN Fault(p) /\ UNCHANGED current
       ELSE current' = [current EXCEPT ![loc[p].k] = o] /\ Goto(p, <<"return_wake">>)
    /\ UNCHANGED <<owner, hazard, idle, cip, semaphores, initialized, loc, calls>>

\* current()->wake_core; only a caller that held the core itself is blocked.
ReturnWake(p) ==
    /\ At(p, "return_wake")
    /\ LET c == current[loc[p].k] IN
       IF c = NoCell
       THEN Fault(p) /\ UNCHANGED loc
       ELSE /\ loc' = [loc EXCEPT ![p].to = c]
            /\ Goto(p, <<"wake_core">> \o IF loc[p].me = loc[p].b THEN <<"block">> ELSE <<>>)
    /\ UNCHANGED shared

-----------------------------------------------------------------------------
(* SYS_CELL_CTRL UPDATE_CORES: Core_allocator::confer, then transfer of    *)
(* the first core when the cell is new.                                    *)

Confer(p) ==
    /\ At(p, "confer")
    /\ LET c == loc[p].cell IN
       IF loc[p].todo # {}
       THEN LET k == Min(loc[p].todo) IN
            /\ owner' = [owner EXCEPT ![k] = c]
            /\ loc' = [loc EXCEPT ![p].todo = @ \ {k}]
            /\ UNCHANGED stack
       ELSE /\ UNCHANGED owner
            /\ loc' = [loc EXCEPT ![p].k = Min(cip[c].cores_reserved)]
            /\ Goto(p, IF c \in initialized THEN <<>> ELSE <<"transfer", "initialized">>)
    /\ UNCHANGED <<current, hazard, idle, cip, semaphores, initialized, calls>>

\* if (!_idle_cpus.chk (cpu)) return
Transfer(p) ==
    /\ At(p, "transfer")
    /\ Goto(p, IF loc[p].k \in idle THEN <<"transfer_lent">> ELSE <<>>)
    /\ UNCHANGED <<shared, loc>>

\* A borrowed core is reclaimed, any other one occupied.
TransferLent(p) ==
    /\ At(p, "transfer_lent")
    /\ Goto(p, IF current[loc[p].k] \notin {NoCell, owner[loc[p].k]}
               THEN <<"reclaim", "adopt_new">> ELSE <<"transfer_occupy">>)
    /\ UNCHANGED <<shared, loc>>

TransferOccupy(p) ==
    /\ At(p, "transfer_occupy")
    /\ LET k == loc[p].k
           free == current[k] = NoCell IN
       /\ current' = IF free THEN [current EXCEPT ![k] = loc[p].cell] ELSE current
       /\ loc' = [loc EXCEPT ![p].to = loc[p].cell]
       /\ Goto(p, IF free THEN <<"occupied", "adopt_new">> ELSE <<"transfer_failed">>)
    /\ UNCHANGED <<owner, hazard, idle, cip, semaphores, initialized, calls>>

\* The occupation failed: stop unless the core turns out to be borrowed.
TransferFailed(p) ==
    /\ At(p, "transfer_failed")
    /\ Goto(p, IF current[loc[p].k] \notin {NoCell, owner[loc[p].k]} THEN <<"adopt_new">> ELSE <<>>)
    /\ UNCHANGED <<shared, loc>>

\* cores_new.clr (cpu)
AdoptNew(p) ==
    /\ At(p, "adopt_new")
    /\ cip' = [cip EXCEPT ![loc[p].cell].cores_new = @ \ {loc[p].k}]
    /\ Goto(p, <<"adopt_current">>)
    /\ UNCHANGED <<resources, semaphores, initialized, loc, calls>>

\* cores_current.set (cpu)
AdoptCurrent(p) ==
    /\ At(p, "adopt_current")
    /\ cip' = [cip EXCEPT ![loc[p].cell].cores_current = @ \cup {loc[p].k}]
    /\ Return(p)
    /\ UNCHANGED <<resources, semaphores, initialized, loc, calls>>

Initialized(p) ==
    /\ At(p, "initialized")
    /\ initialized' = initialized \cup {loc[p].cell}
    /\ Return(p)
    /\ UNCHANGED <<resources, cip, semaphores, loc, calls>>

-----------------------------------------------------------------------------
(* The system calls, and what user space does between them.                *)

\* Back to user space.
Finish(p) ==
    /\ At(p, "finish")
    /\ stack' = [stack EXCEPT ![p] = <<>>]
    /\ loc' = [loc EXCEPT ![p] = NoLocals]
    /\ UNCHANGED shared

Enter(p, l, locals) ==
    /\ stack[p] = <<>>
    /\ stack' = [stack EXCEPT ![p] = <<l, "finish">>]
    /\ loc' = [loc EXCEPT ![p] = locals]

Awake(c, k) == c \in initialized /\ k \in Worker[c] /\ <<c, k>> \notin asleep

\* SYS_ALLOC by the worker of cell c on core k.
SysAlloc(c, k) ==
    /\ Awake(c, k) /\ k \in cip[c].cores_current /\ cip[c].yield_flag[k] = 0
    /\ calls > 0 /\ calls' = calls - 1
    /\ sys.serial => \A p \in Core : ~(stack[p] # <<>> /\ loc[p].me = c /\ loc[p].q > 0)
    /\ \E q \in 1 .. Cardinality(Core) :
           Enter(k, "alloc", [NoLocals EXCEPT !.me = c, !.cell = c, !.q = q])
    /\ UNCHANGED <<resources, cip, semaphores, initialized>>

\* The worker announces in its CIP that it is going to release its core.
AnnounceYield(c, k) ==
    /\ Awake(c, k) /\ k \in cip[c].cores_current /\ stack[k] = <<>>
    /\ calls > 0 /\ calls' = calls - 1
    /\ cip[c].yield_flag[k] = 0
    /\ cip' = [cip EXCEPT ![c].yield_flag[k] = 2]
    /\ UNCHANGED <<resources, semaphores, initialized, stack, loc>>

\* SYS_RELEASE RELEASE, after the announcement or on a core the cell does not
\* have.
SysRelease(c, k) ==
    /\ Awake(c, k)
    /\ cip[c].yield_flag[k] = 2 \/ (cip[c].yield_flag[k] = 0 /\ k \notin cip[c].cores_current)
    /\ Enter(k, "release", [NoLocals EXCEPT !.me = c, !.cell = c, !.k = k])
    /\ UNCHANGED shared

\* SYS_RELEASE RETURN: the worker found its yield flag raised.
SysReturn(c, k) ==
    /\ Awake(c, k) /\ cip[c].yield_flag[k] = 1
    /\ Enter(k, "return", [NoLocals EXCEPT !.me = c, !.cell = c, !.k = k])
    /\ UNCHANGED shared

\* Hoitaja writes the cell's reservation and calls SYS_CELL_CTRL.
SysUpdateCores(c) ==
    /\ cip[c].cores_reserved # Reserved[c]
    /\ cip' = [cip EXCEPT ![c].cores_reserved = Reserved[c]]
    /\ Enter(Hoitaja, "confer", [NoLocals EXCEPT !.cell = c, !.todo = Reserved[c]])
    /\ UNCHANGED <<resources, semaphores, initialized, calls>>

User(c, k) == SysAlloc(c, k) \/ AnnounceYield(c, k) \/ SysRelease(c, k) \/ SysReturn(c, k)

Kernel(p) ==
    \/ AllocClear(p) \/ AllocSnapshot(p) \/ AllocOccupy(p) \/ AllocBorrow(p) \/ AllocHired(p)
    \/ AllocLent(p) \/ AllocReclaim(p) \/ AllocCount(p) \/ AllocDone(p) \/ WakeCores(p)
    \/ OccupyIdle(p) \/ OccupyNew(p) \/ WakeCore(p) \/ Up(p) \/ Block(p) \/ Dn(p)
    \/ ReclaimMark(p) \/ ReclaimOccupy(p) \/ ReclaimWake(p) \/ ReclaimLook(p) \/ GiveUp(p) \/ Ask(p)
    \/ SetHazard(p) \/ HandleHazard(p) \/ ClearHazard(p)
    \/ HazardWait(p) \/ HazardOccupy(p) \/ HazardClear(p)
    \/ Release(p) \/ ReleaseHeld(p) \/ ReleaseFlag(p) \/ ClearFlag(p) \/ ReleaseIdle(p) \/ ReleaseStore(p)
    \/ ReturnLook(p) \/ ReturnStore(p) \/ ReturnWake(p)
    \/ Confer(p) \/ Transfer(p) \/ TransferLent(p) \/ TransferOccupy(p) \/ TransferFailed(p)
    \/ AdoptNew(p) \/ AdoptCurrent(p) \/ Initialized(p) \/ Finish(p)

Next ==
    /\ \/ \E p \in Cpu : Kernel(p)
       \/ \E c \in Cell, k \in Core : User(c, k)
       \/ \E c \in Cell : SysUpdateCores(c)
    /\ UNCHANGED sys

Spec == Init /\ [][Next]_vars

AllCores == UNION {s.core : s \in Systems}

(* A CPU inside the kernel is not preempted, so it keeps executing; a      *)
(* worker that is awake and finds its yield flag raised returns its core;  *)
(* workers that could give up cores again and again do so in the end.      *)
FairKernel(p) == p \in Cpu /\ Kernel(p) /\ UNCHANGED sys
FairReturn(c, k) == k \in Core /\ SysReturn(c, k) /\ UNCHANGED sys
SomeRelease == (\E c \in Cell, k \in Core : SysRelease(c, k)) /\ UNCHANGED sys

FairSpec ==
    /\ Spec
    /\ \A p \in AllCores \cup {Hoitaja} : WF_vars(FairKernel(p))
    /\ \A c \in Cell, k \in AllCores : WF_vars(FairReturn(c, k))
    /\ SF_vars(SomeRelease)

-----------------------------------------------------------------------------

CellOrNone == Cell \cup {NoCell}

(* The shared words and each CPU's local variables keep their types, and   *)
(* no call counts more cores than it asked for.                            *)
TypeOK ==
    /\ owner \in [Core -> CellOrNone] /\ current \in [Core -> CellOrNone]
    /\ hazard \subseteq Core /\ idle \subseteq Core
    /\ cip \in [Cell -> [cores_current : SUBSET Core, cores_reserved : SUBSET Core,
                         cores_new : SUBSET Core, cores_reclaimed : SUBSET Core,
                         yield_flag : [Core -> 0 .. 2], channels : 0 .. Cardinality(Core)]]
    /\ counter \in [Cell -> [Core -> Nat]] /\ asleep \subseteq Cell \X Core
    /\ initialized \subseteq Cell /\ calls \in 0 .. sys.calls
    /\ \A p \in Cpu : loc[p].n <= loc[p].q


\* No call is working on core k.
Settled(k) == \A p \in Cpu : stack[p] = <<>> \/ loc[p].k # k

(* A core that no call is working on is in _idle_cpus exactly if nobody    *)
(* holds it, although the set and _current are two words that occupy() and *)
(* release() change in opposite orders.                                    *)
IdleIsFree == \A k \in Core : Settled(k) => (k \in idle <=> current[k] = NoCell)

(* A cell that has a worker on a core loses the core only by a call that   *)
(* its own worker makes on that core: reclaim() and handle_hazard() never  *)
(* take _current away from it, whatever they race with.                    *)
OnlyHolderGivesUp ==
    [][\A k \in Core : current[k] # NoCell /\ current'[k] # current[k] =>
           \/ k \notin Worker[current[k]]
           \/ stack[k] # <<>> /\ loc[k].me = current[k]]_vars

Quiescent == \A p \in Cpu : stack[p] = <<>>

(* When all calls have returned, the worker of the cell that holds a core  *)
(* is awake, once Hoitaja has started the cells: occupy(), reclaim() and   *)
(* return_core() are always followed by the matching wake_core().          *)
(* Cell::wake_cores is documented as "Wake all CPU cores that were         *)
(* recently allocated but not woken up yet".                               *)
HolderIsAwake ==
    ~sys.boot /\ Quiescent => \A c \in initialized, k \in Core :
                     current[k] = c /\ k \in Worker[c] => Awake(c, k)

(* A request raised at the cell that holds the core is answered: the cell  *)
(* gives the core up.                                                      *)
RequestAnswered ==
    \A c \in Cell, k \in AllCores :
        (k \in Core /\ cip[c].yield_flag[k] = 1 /\ current[k] = c) ~> (current[k] # c)

-----------------------------------------------------------------------------
(* What comments of the code say, and the code does not do.                *)

(* resource.cpp: a release notices a yield request filed meanwhile,        *)
(* "Otherwise, the owner may indefinetely wait for the CPU core's return". *)
(* So no request is left at a cell that no longer holds the core.          *)
NoRequestLost ==
    Quiescent => \A c \in Cell, k \in Core : cip[c].yield_flag[k] = 1 => current[k] = c

(* cip.hpp: cores_current is the "Set of CPU cores currently allocated to  *)
(* this cell".                                                             *)
CurrentIsAllocated ==
    Quiescent => \A c \in Cell : cip[c].cores_current = {k \in Core : current[k] = c}

(* core_allocator.hpp: release() yields a core, "putting all workers of    *)
(* the given cell on it to sleep".                                         *)
ReleasedSleeps ==
    ~sys.boot /\ Quiescent => \A c \in initialized : \A k \in Worker[c] : current[k] # c => <<c, k>> \in asleep

(* core_allocator.hpp: transfer() "will automatically make new_owner not   *)
(* just the owner of cpu but allocate the CPU for new_owner too".          *)
TransferAllocates == \A p \in Cpu : At(p, "initialized") => current[loc[p].k] = loc[p].cell
=============================================================================
