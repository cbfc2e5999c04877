------------------------------ MODULE MCKernel ------------------------------
(***************************************************************************)
(* What runs on one CPU, Ecs and Scs that call each other; the timers and  *)
(* interrupts that come in between; the trees that hold the regions of a   *)
(* space.  The three specifications share nothing; one of them, side,      *)
(* takes steps, the others stay as they are (those of Platform are then    *)
(* all 0).                                                                 *)
(***************************************************************************)
EXTENDS Ipc

CONSTANT Sides      \* which of them to check

VARIABLE side

-----------------------------------------------------------------------------
(* Ipc: two clients of different priority, two servers that call each      *)
(* other.                                                                  *)

CONSTANTS g1, g2, s1, s2

MCPrio == (g1 :> 1) @@ (g2 :> 2) @@ (Idle :> 0)
MCMayCall == (g1 :> {s1}) @@ (g2 :> {s1, s2}) @@ (s1 :> {s2}) @@ (s2 :> {s1})

-----------------------------------------------------------------------------
(* Platform: two CPUs that suspend.                                        *)

CONSTANTS Id, NUM_IRQ, MAXPIN, WIDTH, RATIO

VARIABLES w, id, gsi, boot_lock, barrier, page, backup, acpi, cr3, current, cpu, saved, late, resume_time, sleeps,
          tsc, tm, irt, irr, line, drv, cnt, events, times

platform == <<w, id, gsi, boot_lock, barrier, page, backup, acpi, cr3, current, cpu, saved, late, resume_time, sleeps,
              tsc, tm, irt, irr, line, drv, cnt, events, times>>

Lapics == [i \in {1, 2} |-> [type |-> "lapic", id |-> i - 1, on |-> TRUE]]
Quiet == [cpus |-> {0, 1}, num |-> 3, madt |-> Lapics, sci |-> 1, bsp |-> 0, caller |-> 0, sleep |-> "S3", sleeps |-> 2,
          bus |-> FALSE, times |-> 0, at |-> {}, ticks |-> 0,
          gsis |-> 0 .. 3, gsi |-> 0, dest |-> 0, home |-> 0, events |-> 0]

\* Timeouts; the timer counts bus cycles or the TSC.
Timers == {[Quiet EXCEPT !.sleep = s, !.bus = b, !.sleeps = 1, !.times = 2, !.at = {2, 5}, !.ticks = 5] :
               s \in {"S1", "S3"}, b \in BOOLEAN}

\* The interrupt arrives at one CPU, its driver is on the other.
Table == Lapics \o << [type |-> "intr", irq |-> 0, gsi |-> 2, trg |-> "level"], [type |-> "ioapic", gsi |-> 0] >>
Irqs == {[Quiet EXCEPT !.madt = Table, !.gsi = g, !.dest = 1, !.home = c, !.events = 3] : g \in {0, 2, 3}, c \in {0, 1}}

P == INSTANCE Platform WITH Workloads <- Timers \cup Irqs

-----------------------------------------------------------------------------
(* Avl: a tree of up to 12 nodes, inserted and removed in any order; and a *)
(* space whose regions are added and split.                                *)

CONSTANT FRAMES

VARIABLES a, h

Single == [nodes |-> {[base |-> b, order |-> 0] : b \in 0 .. 11}, adds |-> {}, dels |-> {}]
Splits == [nodes |-> {[base |-> 4, order |-> 2]}, adds |-> {<<0, 11>>, <<1, 6>>}, dels |-> 0 .. 10]

L == INSTANCE Avl WITH Workloads <- {Single, Splits}, w <- a

-----------------------------------------------------------------------------

MCInit ==
    /\ side \in Sides
    /\ Init /\ (side # "ipc" => tgt[g2] = s1)
    /\ IF side = "platform" THEN P!Init
       ELSE /\ w = 0 /\ id = 0 /\ gsi = 0 /\ boot_lock = 0 /\ barrier = 0 /\ page = 0 /\ backup = 0 /\ acpi = 0
            /\ cr3 = 0 /\ current = 0 /\ cpu = 0 /\ saved = 0 /\ late = 0 /\ resume_time = 0 /\ sleeps = 0 /\ tsc = 0
            /\ tm = 0 /\ irt = 0 /\ irr = 0 /\ line = 0 /\ drv = 0 /\ cnt = 0 /\ events = 0 /\ times = 0
    /\ L!Init /\ (side # "tree" => a = Single)

(* Devices may be quiet; the Ecs of a CPU never come to a deadlock.        *)
MCNext ==
    \/ side = "ipc" /\ Next /\ UNCHANGED <<side, platform, a, h>>
    \/ side = "platform" /\ P!Next /\ UNCHANGED <<side, vars, a, h>>
    \/ side = "platform" /\ UNCHANGED <<side, vars, platform, a, h>>
    \/ side = "tree" /\ L!Next /\ UNCHANGED <<side, vars, platform>>

MCSpec == MCInit /\ [][MCNext]_<<side, vars, platform, a, h>>

-----------------------------------------------------------------------------

(* A CPU's timer fires no later than its first timeout (timeout.cpp).      *)
TimerArmed == side = "platform" => P!TimerArmed

(* The pin of a driver that waits for its interrupt is not masked (gsi.cpp,*)
(* ioapic.hpp).                                                            *)
DriverHeard == side = "platform" => P!DriverHeard

(* Lookups find what the tree holds, and the balances are what insert and  *)
(* remove take them for (avl.cpp).                                         *)
TreeSound == side = "tree" => L!TreeSound

(* The tree of a space implements a set of regions that do not overlap     *)
(* (space.hpp, avl.cpp).                                                   *)
SpaceIsSet == L!SpaceIsSet
=============================================================================
