----------------------------- MODULE MCProgress -----------------------------
(***************************************************************************)
(* CPUs that wait for each other: at a spinlock, at boot and suspend, and  *)
(* for a core that a cell has lent.  The three specifications share        *)
(* nothing; one of them, side, takes steps, the others stay in an initial  *)
(* state.                                                                  *)
(***************************************************************************)
EXTENDS Spinlock, Sequences, TLC

VARIABLE side

-----------------------------------------------------------------------------
(* Platform: three CPUs, one of which may be more than the kernel has room *)
(* for, and the boot processor need not be the first of the table.         *)

CONSTANTS Id, NUM_IRQ, MAXPIN, WIDTH, RATIO

VARIABLES w, id, gsi, boot_lock, barrier, page, backup, acpi, cr3, current, cpu, saved, late, resume_time, sleeps,
          tsc, tm, irt, irr, line, drv, cnt, events, times

platform == <<w, id, gsi, boot_lock, barrier, page, backup, acpi, cr3, current, cpu, saved, late, resume_time, sleeps,
              tsc, tm, irt, irr, line, drv, cnt, events, times>>

Lapics(n) == [i \in 1 .. n |-> [type |-> "lapic", id |-> i - 1, on |-> TRUE]]
\* The same with an x2APIC entry, and a CPU that is not enabled
Mixed == << [type |-> "x2apic", id |-> 1, on |-> TRUE], [type |-> "lapic", id |-> 2, on |-> FALSE],
            [type |-> "lapic", id |-> 0, on |-> TRUE] >>
Quiet == [cpus |-> {0, 1, 2}, num |-> 3, madt |-> Lapics(3), sci |-> 1, bsp |-> 0, caller |-> 0, sleep |-> "S3", sleeps |-> 2,
          bus |-> FALSE, times |-> 0, at |-> {}, ticks |-> 0,
          gsis |-> 0 .. 3, gsi |-> 0, dest |-> 0, home |-> 0, events |-> 0]

Cpus == {[Quiet EXCEPT !.num = n, !.bsp = b, !.caller = c] : n \in {2, 3}, b \in {0, 1}, c \in {0, 1}}
     \cup {[Quiet EXCEPT !.madt = Mixed, !.bsp = b] : b \in {0, 1}}
     \cup {[Quiet EXCEPT !.cpus = {0, 1}, !.madt = Lapics(2), !.sleep = s] : s \in {"S1", "none"}}

P == INSTANCE Platform WITH Workloads <- Cpus

-----------------------------------------------------------------------------
(* CoreAllocator: two cells on three cores, each with a worker on every    *)
(* core.  A owns core 1, B owns cores 2 and 3.                             *)

CONSTANTS A, B, NoCell

VARIABLES sys, owner, c_current, hazard, idle, cip, initialized, counter, asleep, stack, loc, calls

cores == <<sys, owner, c_current, hazard, idle, cip, initialized, counter, asleep, stack, loc, calls>>

Three == [core |-> {1, 2, 3}, reserved |-> (A :> {1}) @@ (B :> {2, 3}), worker |-> [c \in {A, B} |-> {1, 2, 3}],
          calls |-> 2, serial |-> TRUE, boot |-> FALSE]

C == INSTANCE CoreAllocator WITH Cell <- {A, B}, Hoitaja <- 0, Systems <- {Three}, current <- c_current

-----------------------------------------------------------------------------

MCInit ==
    /\ side \in {"lock", "platform", "cores"}
    /\ Init /\ P!Init /\ C!Init
    /\ side # "platform" => w = Quiet

MCNext ==
    \/ side = "lock" /\ Next /\ UNCHANGED <<side, platform, cores>>
    \/ side = "platform" /\ P!Next /\ UNCHANGED <<side, vars, cores>>
    \/ side = "cores" /\ C!Next /\ UNCHANGED <<side, vars, platform>>

(* The fairness of the three specifications.                               *)
MCSpec ==
    /\ MCInit /\ [][MCNext]_<<side, vars, platform, cores>>
    /\ \A p \in CPU : WF_vars(side = "lock" /\ (Enter(p) \/ Reload(p) \/ UnlockLoad(p) \/ UnlockStore(p)))
    /\ \A c \in Id : WF_platform(side = "platform" /\ c \in w.cpus /\ P!Kernel(c))
    /\ \A k \in 0 .. 3 : WF_cores(side = "cores" /\ C!FairKernel(k))
    /\ \A c \in {A, B}, k \in 1 .. 3 : WF_cores(side = "cores" /\ C!FairReturn(c, k))
    \* a CPU's halt request, a cell's release of a core; side does not change
    /\ \A c \in Id :
           SF_<<platform, cores>>(
               \/ side = "platform" /\ c \in w.cpus /\ P!TakeHlt(c) /\ UNCHANGED cores
               \/ side = "cores" /\ c = 0 /\ C!SomeRelease /\ UNCHANGED platform)

-----------------------------------------------------------------------------



(* A request raised at the cell that holds the core is answered: the cell  *)
(* gives the core up (core_allocator.cpp, resource.cpp).                   *)
RequestAnswered == C!RequestAnswered
=============================================================================
