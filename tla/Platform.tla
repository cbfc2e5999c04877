------------------------------ MODULE Platform ------------------------------
(***************************************************************************)
(* The CPUs from reset to user mode, suspend and resume (start.S,          *)
(* init.cpp, bootstrap.cpp, cpu.cpp, acpi.cpp, lapic.cpp), and what must   *)
(* survive a suspend: the timeouts of every CPU (Timeouts) and the         *)
(* interrupts that drivers wait for (gsi.cpp, ioapic.hpp).                 *)
(*                                                                         *)
(* The boot processor starts the others with INIT and SIPI.  They take     *)
(* turns, under boot_lock, on the one boot stack, switch to their own and  *)
(* meet at a barrier.  A suspend stops the other CPUs by an IPI; on resume *)
(* all CPUs come up the same way again.  From S3 the boot processor too    *)
(* starts with the code for the others; from S1, or if the machine did not *)
(* sleep at all, the suspending CPU calls bootstrap() itself.              *)
(*                                                                         *)
(* One interrupt is modelled: its device, its pin, its driver.  A CPU that *)
(* runs takes interrupts; within the kernel it does not.                   *)
(***************************************************************************)
EXTENDS Timeouts, FiniteSets

CONSTANTS Id,         \* APIC identifiers
          NUM_IRQ,    \* interrupts of the ISA bus
          MAXPIN,     \* irt_max of the IOAPIC: its last pin
          Workloads   \* [cpus, bsp: the machine's CPUs, its boot processor;
                      \*  num, madt, sci: NUM_CPU, ACPI's tables;
                      \*  caller, sleep, sleeps: who suspends, how, how often;
                      \*  bus, times, ticks: timer, timeouts, clock;
                      \*  gsi, dest, home, events: the interrupt, its CPU, its
                      \*  driver's CPU, how often the device raises it]

VARIABLES
    w,                  \* the workload
    id, gsi,            \* Lapic::id; Gsi::gsi_table
    boot_lock, barrier, \* the lock of the boot stack; bootstrap()'s barrier
    page, backup,       \* the page at AP_BOOT_PADDR; its copy ("none": !valid)
    acpi,               \* is ACPI mode enabled?
    cr3, current,       \* CPUs that have page tables; that have an Ec::current
    cpu,                \* of each CPU, where it is
    saved, late,        \* Ioapic::saved_entries; pins changed after that
    resume_time, sleeps,
    tsc, tm,            \* of each CPU: clock; timeouts and timer
    irt, irr, line,     \* the IOAPIC's entry; CPUs with the interrupt; device
    drv, cnt,           \* the driver; the interrupt's semaphore
    events, times

start == <<boot_lock, page, backup, acpi, cr3>>
clock == <<tsc, tm, times>>
irq == <<irt, irr, line, drv, cnt, events>>
power == <<saved, late, resume_time, sleeps>>
vars == <<w, id, gsi, start, barrier, current, cpu, power, clock, irq>>

Cpu == w.cpus

Masked == [dest |-> 0, masked |-> TRUE]
Fresh == [pc |-> "off", tmp |-> 0, ipi |-> FALSE, hlt |-> 0, ok |-> TRUE]

Init ==
    /\ w \in Workloads
    /\ id = <<>> /\ gsi = <<>>
    /\ boot_lock = 0 /\ barrier = 0
    /\ page = "firmware" /\ backup = "none"
    /\ acpi = FALSE /\ cr3 = {} /\ current = {}
    /\ cpu = [c \in Cpu |-> IF c = w.bsp THEN [Fresh EXCEPT !.pc = "setup"] ELSE Fresh]
    /\ saved = Masked /\ late = FALSE /\ resume_time = 0 /\ sleeps = w.sleeps
    /\ tsc = [c \in Cpu |-> 0] /\ tm = [c \in Cpu |-> NoTimer] /\ times = w.times
    /\ irt = Masked /\ irr = {} /\ line = FALSE /\ drv = "new" /\ cnt = 0 /\ events = w.events

Goto(c, l) == cpu' = [cpu EXCEPT ![c].pc = l]
At(c, l) == cpu[c].pc = l

\* Cpu::online, and Lapic::lookup (0 .. online - 1, or none)
online == Len(id)
Lookup(c) == IF \E i \in DOMAIN id : id[i] = c THEN CHOOSE i \in DOMAIN id : id[i] = c /\ \A j \in 1 .. i - 1 : id[j] # c ELSE 0
Known(c) == Lookup(c) # 0

-----------------------------------------------------------------------------
(* Acpi_table_madt::parse: one pass over the table for each type           *)

OfType(type) == SelectSeq(w.madt, LAMBDA e : e.type = type)

ParseLapic(ids, e) == IF e.on /\ Len(ids) < w.num THEN Append(ids, e.id) ELSE ids

ParseIoapic(table, e) ==
    [g \in DOMAIN table |-> IF g \in e.gsi .. e.gsi + MAXPIN THEN [table[g] EXCEPT !.pin = g - e.gsi] ELSE table[g]]

\* Level triggered: said so, or left open and the system control interrupt
ParseIntr(table, e) ==
    IF e.gsi \notin DOMAIN table \/ e.irq >= NUM_IRQ THEN table
    ELSE [table EXCEPT ![e.gsi].trg = e.trg = "level" \/ (e.trg = "conforming" /\ e.irq = w.sci)]

\* Gsi::setup
GsiSetup == [g \in w.gsis |-> [pin |-> -1, trg |-> g >= NUM_IRQ]]

\* Acpi::setup: without an override for it, one for the SCI is made up
Overrides == LET o == OfType("intr") IN
    IF \E i \in DOMAIN o : o[i].irq = w.sci /\ o[i].gsi \in w.gsis THEN o
    ELSE Append(o, [type |-> "intr", irq |-> w.sci, gsi |-> w.sci, trg |-> "conforming"])

Setup(c) ==
    /\ At(c, "setup")
    /\ id' = FoldLeft(ParseLapic, <<>>, OfType("lapic") \o OfType("x2apic"))
    /\ gsi' = FoldLeft(ParseIntr, FoldLeft(ParseIoapic, GsiSetup, OfType("ioapic")), Overrides)
    /\ acpi' = TRUE
    /\ Goto(c, "ptab")
    /\ UNCHANGED <<w, boot_lock, page, backup, cr3, barrier, current, power, clock, irq>>

-----------------------------------------------------------------------------
(* start.S: a CPU that is started jumps to AP_BOOT_PADDR.                  *)

ApStart(c) ==
    /\ At(c, "sipi")
    /\ Goto(c, IF page = "code" THEN "spin" ELSE "lost")
    /\ UNCHANGED <<w, id, gsi, start, barrier, current, power, clock, irq>>


\* xchg
TakeBootLock(c) ==
    /\ At(c, "spin") /\ boot_lock # 0
    /\ boot_lock' = 0
    /\ Goto(c, "ptab")
    /\ UNCHANGED <<w, id, gsi, page, backup, acpi, cr3, barrier, current, power, clock, irq>>

\* kern_ptab_setup, on the boot stack
PtabSetup(c) ==
    /\ At(c, "ptab")
    /\ cr3' = IF Known(c) THEN cr3 \cup {c} ELSE cr3
    /\ acpi' = (acpi \/ (Lookup(c) = 1 /\ c \in cr3))
    /\ Goto(c, "bootstrap")
    /\ UNCHANGED <<w, id, gsi, boot_lock, page, backup, barrier, current, power, clock, irq>>

-----------------------------------------------------------------------------
(* bootstrap                                                               *)

Resumed(c) == c \in current

\* Ioapic::resume: all pins but the last
Restored == IF gsi[w.gsi].pin < MAXPIN THEN saved ELSE irt

Bootstrap(c) ==
    /\ At(c, "bootstrap")
    /\ IF Resumed(c) /\ c = w.bsp
       THEN barrier' = 0 /\ irt' = Restored
       ELSE UNCHANGED <<barrier, irt>>
    /\ Goto(c, "init")
    /\ UNCHANGED <<w, id, gsi, start, current, power, clock, irr, line, drv, cnt, events>>

(* Lapic::ap_code_manage                                                   *)
Prepare == IF backup = "none" THEN page' = "code" /\ backup' = page ELSE UNCHANGED <<page, backup>>
Cleanup == IF backup = "none" THEN UNCHANGED <<page, backup>> ELSE page' = backup /\ backup' = "none"


(* Cpu::init, up to Lapic::init                                            *)
CpuInit(c) ==
    /\ At(c, "init")
    /\ IF c = w.bsp /\ ~Resumed(c) THEN Prepare ELSE UNCHANGED <<page, backup>>
    /\ Goto(c, IF c = w.bsp THEN "wake" ELSE "inc")
    /\ UNCHANGED <<w, id, gsi, boot_lock, acpi, cr3, barrier, current, power, clock, irq>>

(* Lapic::init of the boot processor: INIT to all others, then SIPI        *)
LapicInit(c) ==
    /\ At(c, "wake")
    /\ cpu' = [d \in Cpu |-> IF d = c THEN [cpu[d] EXCEPT !.pc = "inc"]
                             ELSE [Fresh EXCEPT !.pc = IF online > 1 THEN "sipi" ELSE "off"]]
    /\ tm' = [d \in Cpu |-> IF d # c THEN [tm[d] EXCEPT !.armed = Never, !.pending = FALSE]
                            ELSE IF w.bus THEN [tm[d] EXCEPT !.armed = Never] ELSE tm[d]]
    /\ irr' = irr \cap {c}
    /\ UNCHANGED <<w, id, gsi, start, barrier, current, power, tsc, times, irt, line, drv, cnt, events>>

(* The end of Cpu::init.  boot_lock++ is a load and a store; a CPU that is *)
(* not in the table stops after it.                                        *)
LoadBootLock(c) ==
    /\ At(c, "inc")
    /\ cpu' = [cpu EXCEPT ![c].pc = "store", ![c].tmp = boot_lock]
    /\ UNCHANGED <<w, id, gsi, start, barrier, current, power, clock, irq>>

StoreBootLock(c) ==
    /\ At(c, "store")
    /\ boot_lock' = cpu[c].tmp + 1
    /\ Goto(c, IF Known(c) THEN "arrive" ELSE "shut")
    /\ UNCHANGED <<w, id, gsi, page, backup, acpi, cr3, barrier, current, power, clock, irq>>

(* The barrier.  The first time, the CPU has got its idle EC before it.    *)
Arrive(c) ==
    /\ At(c, "arrive")
    /\ barrier' = barrier + 1
    /\ Goto(c, IF Resumed(c) THEN "again" ELSE "first")
    /\ current' = current \cup {c}
    /\ UNCHANGED <<w, id, gsi, start, power, clock, irq>>

PassFirst(c) ==
    /\ At(c, "first") /\ barrier = online
    /\ tsc' = [tsc EXCEPT ![c] = 0]
    /\ IF c = w.bsp THEN Cleanup ELSE UNCHANGED <<page, backup>>
    /\ Goto(c, "run")
    /\ UNCHANGED <<w, id, gsi, boot_lock, acpi, cr3, barrier, current, power, tm, times, irq>>

PassAgain(c) ==
    /\ At(c, "again") /\ barrier = online
    /\ tsc' = [tsc EXCEPT ![c] = resume_time]
    /\ tm' = [tm EXCEPT ![c] = Sync(@, resume_time, w.bus)]
    /\ IF c = w.bsp THEN Cleanup ELSE UNCHANGED <<page, backup>>
    /\ Goto(c, "run")
    /\ UNCHANGED <<w, id, gsi, boot_lock, acpi, cr3, barrier, current, power, times, irq>>

-----------------------------------------------------------------------------
(* sys_misc and Acpi::suspend: the IOAPIC's entries are saved, then the    *)
(* other CPUs are stopped, one after the other.                            *)

\* The program that suspends runs long after a CPU beyond NUM_CPU has stopped.
Settled == \A c \in Cpu : Known(c) \/ cpu[c].pc \in {"off", "shut", "lost"}

\* Ioapic::suspend: all pins but the last
Saved == IF gsi[w.gsi].pin < MAXPIN THEN irt ELSE saved

Suspend(c) ==
    /\ At(c, "run") /\ c = w.caller /\ sleeps > 0 /\ Settled
    /\ sleeps' = sleeps - 1
    /\ saved' = Saved
    /\ IF w.sleep = "none" THEN UNCHANGED cpu
       ELSE cpu' = [cpu EXCEPT ![c].pc = "hlt", ![c].hlt = 1, ![c].ok = TRUE]
    /\ UNCHANGED <<w, id, gsi, start, barrier, current, late, resume_time, clock, irq>>

Target(c) == id[cpu[c].hlt]

HltSend(c) ==
    /\ At(c, "hlt") /\ cpu[c].hlt <= online
    /\ cpu' = IF Target(c) = c THEN [cpu EXCEPT ![c].hlt = @ + 1]
              ELSE [cpu EXCEPT ![c].pc = "hltwait", ![Target(c)].ipi = TRUE]
    /\ UNCHANGED <<w, id, gsi, start, barrier, current, power, clock, irq>>

\* The other CPU has counted the IPI, or 500 ms are over.
HltWait(c, timeout) ==
    /\ At(c, "hltwait") /\ cpu[Target(c)].ipi = timeout
    /\ cpu' = [cpu EXCEPT ![c].pc = "hlt", ![c].hlt = @ + 1, ![c].ok = @ /\ ~timeout]
    /\ UNCHANGED <<w, id, gsi, start, barrier, current, power, clock, irq>>

\* Lapic::ipi_vector, Ec::hlt_handler
TakeHlt(c) ==
    /\ At(c, "run") /\ cpu[c].ipi
    /\ cpu' = [cpu EXCEPT ![c].pc = "shut", ![c].ipi = FALSE]
    /\ UNCHANGED <<w, id, gsi, start, barrier, current, power, clock, irq>>

HltEnd(c) ==
    /\ At(c, "hlt") /\ cpu[c].hlt > online
    /\ IF cpu[c].ok
       THEN resume_time' = tsc[c] /\ Prepare /\ Goto(c, "asleep")
       ELSE Goto(c, "run") /\ UNCHANGED <<resume_time, page, backup>>
    /\ UNCHANGED <<w, id, gsi, boot_lock, acpi, cr3, barrier, current, saved, late, sleeps, clock, irq>>

\* S3 loses the state of CPUs, clocks and IOAPIC; the boot processor wakes
\* up at the waking vector.
WakeS3(c) ==
    /\ At(c, "asleep") /\ w.sleep = "S3"
    /\ cpu' = [d \in Cpu |-> IF d = w.bsp THEN [Fresh EXCEPT !.pc = "sipi"] ELSE Fresh]
    /\ tsc' = [d \in Cpu |-> 0]
    /\ tm' = [d \in Cpu |-> [tm[d] EXCEPT !.armed = Never, !.pending = FALSE]]
    /\ irt' = Masked /\ irr' = {} /\ acpi' = FALSE
    /\ UNCHANGED <<w, id, gsi, boot_lock, page, backup, cr3, barrier, current, power, times, line, drv, cnt, events>>

\* The wake-up bit is set, or 5 s are over.
WakeS1(c) ==
    /\ At(c, "asleep") /\ w.sleep = "S1"
    /\ Goto(c, "bootstrap")
    /\ UNCHANGED <<w, id, gsi, start, barrier, current, power, clock, irq>>

-----------------------------------------------------------------------------
(* Timeouts                                                                *)

Running == id # <<>> /\ \A c \in Range(id) : At(c, "run")

Tick ==
    /\ Running /\ tsc[w.bsp] < w.ticks
    /\ tsc' = [c \in Cpu |-> tsc[c] + 1]
    /\ UNCHANGED <<w, id, gsi, start, barrier, current, cpu, power, tm, times, irq>>

SetTimeout(c, t) ==
    /\ At(c, "run") /\ times > 0 /\ t > tsc[c]
    /\ tm' = [tm EXCEPT ![c] = Enqueue(@, t, tsc[c], w.bus)]
    /\ times' = times - 1
    /\ UNCHANGED <<w, id, gsi, start, barrier, current, cpu, power, tsc, irq>>

CancelTimeout(c, i) ==
    /\ At(c, "run") /\ i \in DOMAIN tm[c].list
    /\ tm' = [tm EXCEPT ![c] = Dequeue(@, i, tsc[c], w.bus)]
    /\ UNCHANGED <<w, id, gsi, start, barrier, current, cpu, power, tsc, times, irq>>

\* The timer fires, whatever the CPU does (unless it is off).
Fire(c) ==
    /\ tm[c].armed # Never /\ tm[c].armed <= tsc[c] /\ ~At(c, "off")
    /\ tm' = [tm EXCEPT ![c].armed = Never, ![c].pending = TRUE]
    /\ UNCHANGED <<w, id, gsi, start, barrier, current, cpu, power, tsc, times, irq>>

LvtVector(c) ==
    /\ At(c, "run") /\ tm[c].pending
    /\ tm' = [tm EXCEPT ![c] = HandleTimer(@, tsc[c], w.bus)]
    /\ UNCHANGED <<w, id, gsi, start, barrier, current, cpu, power, tsc, times, irq>>

-----------------------------------------------------------------------------
(* The interrupt                                                           *)

Level == gsi[w.gsi].trg
Suspending == \E c \in Cpu : cpu[c].pc \in {"hlt", "hltwait"}
kept == <<w, id, gsi, start, barrier, current, saved, resume_time, sleeps, clock>>

\* Gsi::set, Gsi::mask and Gsi::unmask
Set(cpuid) == [dest |-> cpuid, masked |-> FALSE]
Mask(e) == [e EXCEPT !.masked = TRUE]
Unmask(e) == [e EXCEPT !.masked = FALSE]

\* sys_assign_gsi
Assign(c) ==
    /\ At(c, "run") /\ c = w.home /\ drv = "new" /\ gsi[w.gsi].pin >= 0
    /\ irt' = Set(w.dest) /\ late' = Suspending
    /\ drv' = "work"
    /\ UNCHANGED <<kept, cpu, irr, line, cnt, events>>

\* sys_sm_ctrl with the semaphore of the interrupt: dn() without unmask()
DownOnly(c) ==
    /\ At(c, "run") /\ c = w.home /\ drv = "work"
    /\ Goto(c, "down")
    /\ UNCHANGED <<kept, late, irt, irr, line, drv, cnt, events>>

\* sys_sm_ctrl with the semaphore of the interrupt: Gsi::unmask, then Sm::dn
Down(c) ==
    /\ At(c, "run") /\ c = w.home /\ drv = "work"
    /\ irt' = Unmask(irt) /\ late' = Suspending
    /\ Goto(c, "down")
    /\ UNCHANGED <<kept, irr, line, drv, cnt, events>>

Dn(c) ==
    /\ At(c, "down")
    /\ IF cnt > 0 THEN cnt' = cnt - 1 /\ UNCHANGED drv ELSE drv' = "wait" /\ UNCHANGED cnt
    /\ Goto(c, "run")
    /\ UNCHANGED <<kept, late, irt, irr, line, events>>

\* Gsi::vector masks an interrupt that is level triggered, ...
Vector(c) ==
    /\ At(c, "run") /\ c \in irr
    /\ irr' = irr \ {c}
    /\ IF Level THEN irt' = Mask(irt) /\ late' = Suspending ELSE UNCHANGED <<irt, late>>
    /\ Goto(c, "gsi")
    /\ UNCHANGED <<kept, line, drv, cnt, events>>

\* ... and submits to the semaphore.
Submit(c) ==
    /\ At(c, "gsi")
    /\ IF drv = "wait" THEN drv' = "work" /\ UNCHANGED cnt ELSE cnt' = cnt + 1 /\ UNCHANGED drv
    /\ Goto(c, "run")
    /\ UNCHANGED <<kept, late, irt, irr, line, events>>

\* The device; the IOAPIC delivers a level until it is told the end of it.
Raise ==
    /\ events > 0 /\ ~line /\ drv # "new" /\ events' = events - 1
    /\ line' = Level
    /\ irr' = IF ~Level /\ ~irt.masked THEN irr \cup {irt.dest} ELSE irr
    /\ UNCHANGED <<kept, late, cpu, irt, drv, cnt>>

Deliver ==
    /\ line /\ ~irt.masked /\ irr = {} /\ \A c \in Cpu : ~At(c, "gsi")
    /\ irr' = {irt.dest}
    /\ UNCHANGED <<kept, late, cpu, irt, line, drv, cnt, events>>

Service ==
    /\ drv = "work" /\ line /\ At(w.home, "run")
    /\ line' = FALSE
    /\ UNCHANGED <<kept, late, cpu, irt, irr, drv, cnt, events>>

-----------------------------------------------------------------------------

Boot(c) ==
    \/ Setup(c) \/ ApStart(c) \/ TakeBootLock(c) \/ PtabSetup(c) \/ Bootstrap(c) \/ CpuInit(c) \/ LapicInit(c)
    \/ LoadBootLock(c) \/ StoreBootLock(c) \/ Arrive(c) \/ PassFirst(c) \/ PassAgain(c)

Stop(c) == HltSend(c) \/ HltWait(c, FALSE) \/ HltWait(c, TRUE) \/ HltEnd(c) \/ WakeS3(c) \/ WakeS1(c)

Kernel(c) == Boot(c) \/ Stop(c) \/ Dn(c) \/ Submit(c)

Next ==
    \/ \E c \in Cpu :
          \/ Kernel(c) \/ TakeHlt(c) \/ Suspend(c)
          \/ \E t \in w.at : SetTimeout(c, t)
          \/ \E i \in 1 .. w.times : CancelTimeout(c, i)
          \/ Fire(c) \/ LvtVector(c)
          \/ Assign(c) \/ Down(c) \/ Vector(c)
    \/ Tick \/ Raise \/ Deliver \/ Service

(* Every CPU goes on with what it does in the kernel, a machine that       *)
(* sleeps wakes up, and a CPU that returns to user mode again and again    *)
(* takes a pending IPI at last.                                            *)
Spec == /\ Init /\ [][Next]_vars
        /\ \A c \in Id : WF_vars(c \in Cpu /\ Kernel(c)) /\ SF_vars(c \in Cpu /\ TakeHlt(c))

-----------------------------------------------------------------------------



(* No timeout is missed: the timer of a CPU in operation will fire no      *)
(* later than the first timeout asks for, or its interrupt is pending;     *)
(* despite the timer's width, cancelled timeouts and a suspend.            *)
TimerArmed ==
    \A c \in Cpu : At(c, "run") /\ tm[c].list # <<>> =>
        \/ tm[c].pending
        \/ /\ tm[c].armed # Never
           /\ tm[c].armed <= RATIO + IF tm[c].list[1] > tsc[c] THEN tm[c].list[1] ELSE tsc[c]

(* A driver that waits for its interrupt will hear of it: its pin is not   *)
(* masked.  Two cases are excepted, see the hazards: an entry that changed *)
(* after Ioapic::suspend saved it, and the IOAPIC's last pin.              *)
DriverHeard == Running /\ drv = "wait" /\ ~late /\ gsi[w.gsi].pin < MAXPIN => ~irt.masked
=============================================================================
