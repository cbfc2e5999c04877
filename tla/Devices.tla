------------------------------ MODULE Devices ------------------------------
(***************************************************************************)
(* Devices of protection domains.  An IOMMU unit translates what a device  *)
(* reads and writes through the page table of the domain the device is     *)
(* assigned to: it looks the device up in a table in memory (Intel: the    *)
(* context table, AMD: the device table), walks the domain's page table    *)
(* and caches both.  The kernel keeps the table, and must not free a page  *)
(* table that a unit can still walk: a domain notes the devices assigned   *)
(* to it and is referenced once for each (Pd::assign_rid).                 *)
(*                                                                         *)
(* At boot the ACPI table is parsed entry by entry; then CPUs assign       *)
(* devices, change mappings and destroy domains, while devices work.  A    *)
(* unit answers an invalidation before the CPU's wait for it times out.    *)
(***************************************************************************)
EXTENDS Iommu

CONSTANTS
    Cpu,
    RIDS,      \* devices a domain can note, 7 in the code
    NFR,       \* faults a unit can log before it overflows
    Workloads

VARIABLES
    w,         \* the machine and what is done with it
    boot,      \* entries of the ACPI table parsed so far, or -1
    pci, ioa,  \* Pci::list and Ioapic::list
    unit,      \* Dmar::list or Amd::list
    dte,       \* Dmar::ctx or Amd::dtb, by requester id
    irt,       \* Dmar::irt, by interrupt
    pd,        \* protection domains; 0 is Pd::kern
    doms,      \* free domain identifiers (dom_alloc)
    cpu,       \* what each CPU is doing
    streak,    \* faults of a device in successive runs of the handler
    ops

vars == <<w, boot, pci, ioa, unit, dte, irt, pd, doms, cpu, streak, ops>>

Rid == w.rids
Pd == w.pds
Running == boot = -1
Idle == [at |-> "idle"]
NoEntry == [v |-> FALSE, tr |-> FALSE, pd |-> -1, dom |-> 0, lev |-> 0, alias |-> 0, it |-> FALSE, ic |-> FALSE, vecs |-> {}]
NoCtx == [pd |-> -1, dom |-> 0]
NoRids == [i \in 1 .. RIDS |-> 0]

(* A PD: `cap' while capabilities to it exist; `st' until its page table   *)
(* is freed; `map' the frame it maps, 0 for none; `grace' the CPUs the     *)
(* destruction still waits for; `missed' when a revocation came between    *)
(* the context of a device and the note of it.                             *)
NewPd(dom) == [st |-> "live", cap |-> TRUE, ref |-> 1, rids |-> NoRids, dom |-> dom, map |-> 0, grace |-> {}, missed |-> FALSE]
Unborn == [NewPd(0) EXCEPT !.st = "none", !.cap = FALSE, !.ref = 0]

NewUnit(e) ==
    [valid |-> e.valid, lev |-> e.lev, on |-> FALSE, lock |-> -1, masked |-> FALSE, info |-> NoFaults,
     log |-> <<>>, over |-> FALSE, cached |-> [r \in Rid |-> NoCtx], tlb |-> {}]

Init ==
    /\ w \in Workloads
    /\ boot = 0
    /\ pci = Enumerate(w.bus, 1, 1, 0)
    /\ ioa = [i \in DOMAIN w.ioapics |-> [id |-> w.ioapics[i], rid |-> 0, iommu |-> 0]]
    /\ unit = <<>>
    /\ dte = [r \in Rid |-> NoEntry]
    /\ irt = [g \in w.gsis |-> 0]
    /\ pd = [p \in Pd \cup {0} |-> IF p = 0 THEN NewPd(1) ELSE Unborn]
    /\ doms = 2 .. w.doms
    /\ cpu = [c \in Cpu |-> Idle]
    /\ streak = <<>>
    /\ ops = 0

Kernel == <<w, boot, pci, ioa>>
Hardware == <<unit, dte, irt>>
-----------------------------------------------------------------------------

AddRid(x, r) ==
    LET free == {i \in 1 .. RIDS : x.rids[i] = 0}
    IN  IF \E i \in 1 .. RIDS : x.rids[i] = r THEN x
        ELSE IF free = {} THEN [x EXCEPT !.ref = @ + 1]
        ELSE [x EXCEPT !.ref = @ + 1, !.rids[CHOOSE i \in free : \A j \in free : i <= j] = r]

DelRcu(x) == IF x.ref = 1 THEN x ELSE [x EXCEPT !.ref = @ - 1]

DropRid(x, i) == IF x.rids[i] = 0 THEN x ELSE DelRcu([x EXCEPT !.rids[i] = 0])

DropAll(x) == FoldLeft(LAMBDA y, i : DropRid(y, i), x, [i \in 1 .. RIDS |-> i])

(***************************************************************************)
(* What the units are asked to forget: everything (Intel, on assignment    *)
(* and release), what belongs to a domain (FLUSH_BY_DID), a device's table *)
(* entry (AMD flush_dte) or the translations of a domain (AMD flush_pgt).  *)
(***************************************************************************)
FlushGlobal(u) == [u EXCEPT !.cached = [r \in Rid |-> NoCtx], !.tlb = {}]

FlushByDid(u, d) ==
    [u EXCEPT !.cached = [r \in Rid |-> IF @[r].dom = d THEN NoCtx ELSE @[r]], !.tlb = {t \in @ : t.dom # d}]

FlushDte(u, r) == [u EXCEPT !.cached[r] = NoCtx]

FlushPages(u, d) == [u EXCEPT !.tlb = {t \in @ : t.dom # d}]

Flush(u, d) == IF w.kind = "dmar" THEN FlushByDid(u, d) ELSE FlushPages(u, d)

(* enable_events: reporting is on again, and an overflow is acknowledged.  *)
EnableEvents(u) == [u EXCEPT !.masked = FALSE, !.over = FALSE]

(* Dmar::assign writes the context; Amd::release (Dte) and the rest of     *)
(* Amd::assign write the device table entry.                               *)
Context(p, u) == [NoEntry EXCEPT !.v = TRUE, !.tr = TRUE, !.pd = p, !.dom = pd[p].dom, !.lev = u.lev]

Released(e) == [e EXCEPT !.tr = FALSE, !.pd = -1, !.alias = 0, !.dom = 0, !.ic = FALSE, !.vecs = {}]

Granted(e, p) == [e EXCEPT !.v = TRUE, !.tr = TRUE, !.pd = p, !.dom = pd[p].dom]
-----------------------------------------------------------------------------
(***************************************************************************)
(* Boot: Acpi_table_dmar::parse, Acpi_table_ivrs::parse, one entry a step. *)
(***************************************************************************)
Next1 == w.table[boot + 1]
Parsing(type) == boot >= 0 /\ boot < Len(w.table) /\ Next1.type = type

(* A remapping unit (Dmar::Dmar, Acpi_dmar::parse).  One whose registers   *)
(* do not answer stays in the list and serves nothing.                     *)
ParseDmar ==
    /\ Parsing("dmar")
    /\ LET u == Len(unit) + 1
           s == IF Next1.all THEN ClaimAll(pci, u) ELSE pci
           r == Scopes([pci |-> s, ioa |-> ioa], u, Next1.scopes)
       IN  /\ unit' = Append(unit, NewUnit(Next1))
           /\ streak' = Append(streak, [d \in Rid |-> 0])
           /\ pci' = IF Next1.valid THEN r.pci ELSE pci
           /\ ioa' = IF Next1.valid THEN r.ioa ELSE ioa
           /\ doms' = IF Next1.valid THEN ReserveId(doms, Next1.doms) ELSE doms
    /\ boot' = boot + 1
    /\ UNCHANGED <<w, dte, irt, pd, cpu, ops>>

(* Reserved memory (Acpi_rmrr::parse): its device is assigned to the       *)
(* kernel's domain, which maps the region.                                 *)
ParseRmrr ==
    /\ Parsing("rmrr")
    /\ LET r == Next1.rid
           u == FindIommu(pci, r)
       IN  IF u = 0
           THEN UNCHANGED <<unit, dte, pd>>
           ELSE /\ dte' = [dte EXCEPT ![r] = Context(0, unit[u])]
                /\ unit' = [unit EXCEPT ![u] = FlushGlobal(@)]
                /\ pd' = [pd EXCEPT ![0] = [AddRid(@, r) EXCEPT !.map = 1]]
    /\ boot' = boot + 1
    /\ UNCHANGED <<w, pci, ioa, irt, doms, cpu, streak, ops>>

(* An AMD unit (Acpi_table_ivrs::parse, Acpi_ivhd::parse).  The old format *)
(* is skipped when the table has the new one for the same unit.            *)
ParseIvhd ==
    /\ Parsing("ivhd")
    /\ LET u == Len(unit) + 1
           r == DeviceEntries([pci |-> pci, ioa |-> ioa, dte |-> dte, from |-> NoRange], u, Next1.entries)
           skip == ~Next1.new /\ w.newfmt /\ \E i \in DOMAIN w.table : w.table[i].new /\ w.table[i].id = Next1.id
       IN  IF skip
           THEN UNCHANGED <<unit, streak, pci, ioa, dte>>
           ELSE /\ unit' = Append(unit, NewUnit(Next1))
                /\ streak' = Append(streak, [d \in Rid |-> 0])
                /\ pci' = r.pci
                /\ ioa' = r.ioa
                /\ dte' = r.dte
    /\ boot' = boot + 1
    /\ UNCHANGED <<w, irt, pd, doms, cpu, ops>>

(* Dmar::enable initialises the units of the list and stops at the first   *)
(* one that does not answer; AMD units are started one by one.             *)
DmarInit(u) == [u EXCEPT !.on = TRUE, !.masked = FALSE]
AmdStart(u) == [u EXCEPT !.on = TRUE, !.masked = FALSE]

Enable ==
    /\ boot = Len(w.table)
    /\ unit' = [u \in DOMAIN unit |-> IF w.kind = "amd" THEN AmdStart(unit[u])
                                      ELSE IF \A v \in 1 .. u : unit[v].valid THEN DmarInit(unit[u]) ELSE unit[u]]
    /\ boot' = -1
    /\ UNCHANGED <<w, pci, ioa, dte, irt, pd, doms, cpu, streak, ops>>
-----------------------------------------------------------------------------
Spend == Running /\ ops < w.ops /\ ops' = ops + 1
Start(c, op) == cpu[c] = Idle /\ cpu' = [cpu EXCEPT ![c] = op]

(* A CPU that finishes passes a quiescent state: no destruction that began *)
(* while it was busy waits for it any longer.                              *)
Finish(c, ds) ==
    /\ cpu' = [cpu EXCEPT ![c] = Idle]
    /\ pd' = [p \in DOMAIN ds |-> [ds[p] EXCEPT !.grace = @ \ {c}]]

Go(c, op) == cpu' = [cpu EXCEPT ![c] = op]

CreatePd(p) ==
    /\ Spend /\ pd[p].st = "none"
    /\ pd' = [pd EXCEPT ![p] = NewPd(AllocId(doms))]
    /\ doms' = doms \ {AllocId(doms)}
    /\ UNCHANGED <<Kernel, Hardware, cpu, streak>>

(* A frame is delegated to p for use by devices: p's table maps it.        *)
Delegate(p, f) ==
    /\ Spend /\ pd[p].cap /\ pd[p].map = 0
    /\ pd' = [pd EXCEPT ![p].map = f]
    /\ UNCHANGED <<Kernel, Hardware, doms, cpu, streak>>

(* sys_assign_pci: the domain needs an identifier, the device a unit.      *)
AssignPci(c, p, r) ==
    /\ Spend /\ pd[p].cap /\ pd[p].dom # 0 /\ r \in w.may[p] /\ FindIommu(pci, r) # 0
    /\ Start(c, [at |-> "assign", p |-> p, r |-> r, u |-> FindIommu(pci, r)])
    /\ UNCHANGED <<Kernel, Hardware, pd, doms, streak>>

At(c, at) == cpu[c].at = at
Locked(c, u) == [unit[u] EXCEPT !.lock = c]
Unlocked(u) == [u EXCEPT !.lock = -1]
Taken(u) == unit[u].lock # -1

(***************************************************************************)
(* Dmar::assign: the context is written and the unit flushed under the     *)
(* unit's lock, then the domain notes the device.                          *)
(***************************************************************************)
DmarSet(c) ==
    LET o == cpu[c] IN
    /\ At(c, "assign") /\ w.kind = "dmar" /\ ~Taken(o.u)
    /\ dte' = [dte EXCEPT ![o.r] = Context(o.p, unit[o.u])]
    /\ unit' = [unit EXCEPT ![o.u] = Locked(c, o.u)]
    /\ Go(c, [o EXCEPT !.at = "flush"])
    /\ UNCHANGED <<Kernel, irt, pd, doms, streak, ops>>

DmarFlush(c) ==
    LET o == cpu[c] IN
    /\ At(c, "flush")
    /\ unit' = [unit EXCEPT ![o.u] = FlushGlobal(@)]
    /\ Go(c, [o EXCEPT !.at = "note"])
    /\ UNCHANGED <<Kernel, dte, irt, pd, doms, streak, ops>>

DmarNote(c) ==
    LET o == cpu[c] IN
    /\ At(c, "note")
    /\ Finish(c, [pd EXCEPT ![o.p] = AddRid(@, o.r)])
    /\ unit' = [unit EXCEPT ![o.u] = [Unlocked(@) EXCEPT !.masked = FALSE]]
    /\ UNCHANGED <<Kernel, dte, irt, doms, streak, ops>>

(***************************************************************************)
(* Amd::assign: an alias is refused; a device of another domain is         *)
(* released first, and the domain drops the devices it has noted; then     *)
(* the entry is written and the unit flushed.                              *)
(***************************************************************************)
AmdTake(c) ==
    LET o == cpu[c]
        e == dte[o.r]
        u == EnableEvents(unit[o.u])
    IN  /\ At(c, "assign") /\ w.kind = "amd" /\ ~Taken(o.u)
        /\ IF e.alias # 0
           THEN Finish(c, pd) /\ UNCHANGED <<unit, dte>>
           ELSE /\ Go(c, [o EXCEPT !.at = "write"])
                /\ IF e.pd = o.p
                   THEN /\ unit' = [unit EXCEPT ![o.u] = [u EXCEPT !.lock = c]]
                        /\ UNCHANGED <<dte, pd>>
                   ELSE /\ unit' = [unit EXCEPT ![o.u] = [FlushDte(u, o.r) EXCEPT !.lock = c]]
                        /\ dte' = [dte EXCEPT ![o.r] = Released(@)]
                        /\ pd' = [pd EXCEPT ![o.p] = AddRid(DropAll(@), o.r)]
        /\ UNCHANGED <<Kernel, irt, doms, streak, ops>>

AmdWrite(c) ==
    LET o == cpu[c] IN
    /\ At(c, "write")
    /\ dte' = [dte EXCEPT ![o.r] = Granted(@, o.p)]
    /\ Go(c, [o EXCEPT !.at = "sync"])
    /\ UNCHANGED <<Kernel, unit, irt, pd, doms, streak, ops>>

AmdSync(c) ==
    LET o == cpu[c] IN
    /\ At(c, "sync")
    /\ unit' = [unit EXCEPT ![o.u] = Unlocked(FlushPages(FlushDte(@, o.r), pd[o.p].dom))]
    /\ Finish(c, pd)
    /\ UNCHANGED <<Kernel, dte, irt, doms, streak, ops>>
-----------------------------------------------------------------------------
(***************************************************************************)
(* Pd::revoke and rev_crd: the mapping is taken out of the table, then     *)
(* flush_pgt goes through the devices noted, one slot a step, and flushes  *)
(* the domain at the unit of each.  `then' is what follows.                *)
(***************************************************************************)
Unnoted(p) == \E d \in Cpu : cpu[d].at \in {"flush", "note"} /\ cpu[d].p = p

Revoke(c, p) ==
    /\ Spend /\ pd[p].cap /\ pd[p].map # 0
    /\ Start(c, [at |-> "pages", p |-> p, i |-> 1, then |-> "end"])
    /\ pd' = [pd EXCEPT ![p].map = 0, ![p].missed = @ \/ Unnoted(p)]
    /\ UNCHANGED <<Kernel, Hardware, doms, streak>>

UnitOf(r) == IF w.kind = "dmar" THEN FindIommu(pci, r) ELSE Lookup(pci, ioa, r)

FlushSlot(c) ==
    LET o == cpu[c]
        r == pd[o.p].rids[o.i]
    IN  /\ At(c, "pages") /\ o.i <= RIDS
        /\ r # 0 => ~Taken(UnitOf(r))
        /\ unit' = IF r = 0 THEN unit ELSE [unit EXCEPT ![UnitOf(r)] = Flush(@, pd[o.p].dom)]
        /\ Go(c, [o EXCEPT !.i = @ + 1])
        /\ UNCHANGED <<Kernel, dte, irt, pd, doms, streak, ops>>

FlushEnd(c) ==
    LET o == cpu[c] IN
    /\ At(c, "pages") /\ o.i > RIDS
    /\ IF o.then = "end" THEN Finish(c, pd)
       ELSE Go(c, [o EXCEPT !.at = "drop", !.i = 1]) /\ UNCHANGED pd
    /\ UNCHANGED <<Kernel, Hardware, doms, streak, ops>>

(***************************************************************************)
(* Destruction.  Rcu::call runs Pd::pre_free: mappings are revoked, then   *)
(* for each device noted the note and its reference are dropped and the    *)
(* units, one after the other, release the device.  Pd::free drops the     *)
(* last reference after a grace period, and ~Pd runs pre_free once more.   *)
(***************************************************************************)
Destroy(c, p) ==
    /\ Spend /\ pd[p].cap
    /\ Start(c, [at |-> "pages", p |-> p, i |-> 1, then |-> "rcu"])
    /\ pd' = [pd EXCEPT ![p].map = 0, ![p].cap = FALSE, ![p].missed = @ \/ Unnoted(p)]
    /\ UNCHANGED <<Kernel, Hardware, doms, streak>>

DropSlot(c) ==
    LET o == cpu[c]
        r == pd[o.p].rids[o.i]
    IN  /\ At(c, "drop") /\ o.i <= RIDS
        /\ pd' = [pd EXCEPT ![o.p] = DropRid(@, o.i)]
        /\ Go(c, IF r = 0 THEN [o EXCEPT !.i = @ + 1]
                 ELSE [at |-> "release", p |-> o.p, i |-> o.i, then |-> o.then, r |-> r, u |-> 1])
        /\ UNCHANGED <<Kernel, Hardware, doms, streak, ops>>

(* One unit of the list, under its lock: Dmar::release and Amd::release    *)
(* look whether the entry is still the domain's.                           *)
DmarRelease(c) ==
    LET o == cpu[c]
        e == dte[o.r]
        hit == unit[o.u].valid /\ e.tr /\ e.pd = o.p /\ e.lev = unit[o.u].lev
    IN  /\ At(c, "release") /\ w.kind = "dmar" /\ o.u <= Len(unit)
        /\ unit[o.u].valid => ~Taken(o.u)
        /\ Go(c, [o EXCEPT !.u = @ + 1])
        /\ IF hit
           THEN /\ unit' = [unit EXCEPT ![o.u] = FlushGlobal(@)]
                /\ dte' = [dte EXCEPT ![o.r] = NoEntry]
                /\ irt' = [g \in DOMAIN irt |-> IF irt[g] = o.r THEN 0 ELSE irt[g]]
           ELSE UNCHANGED <<unit, dte, irt>>
        /\ UNCHANGED <<Kernel, pd, doms, streak, ops>>

AmdRelease(c) ==
    LET o == cpu[c] IN
    /\ At(c, "release") /\ w.kind = "amd" /\ o.u <= Len(unit) /\ ~Taken(o.u)
    /\ Go(c, [o EXCEPT !.u = @ + 1])
    /\ IF dte[o.r].pd = o.p
       THEN /\ unit' = [unit EXCEPT ![o.u] = FlushDte(@, o.r)]
            /\ dte' = [dte EXCEPT ![o.r] = Released(@)]
       ELSE UNCHANGED <<unit, dte>>
    /\ UNCHANGED <<Kernel, irt, pd, doms, streak, ops>>

ReleaseEnd(c) ==
    LET o == cpu[c] IN
    /\ At(c, "release") /\ o.u > Len(unit)
    /\ Go(c, [at |-> "drop", p |-> o.p, i |-> o.i + 1, then |-> o.then])
    /\ UNCHANGED <<Kernel, Hardware, pd, doms, streak, ops>>

(* The end of pre_free: the domain is queued, or its tables are freed and  *)
(* its identifier is released (~Pd, ~Space_mem).                           *)
PreFreeEnd(c) ==
    LET o == cpu[c] IN
    /\ At(c, "drop") /\ o.i > RIDS
    /\ IF o.then = "rcu"
       THEN /\ Finish(c, [pd EXCEPT ![o.p].st = "queued", ![o.p].grace = {d \in Cpu : cpu[d] # Idle}])
            /\ UNCHANGED doms
       ELSE /\ Finish(c, [pd EXCEPT ![o.p].st = "freed"])
            /\ doms' = doms \cup ({pd[o.p].dom} \ {0})
    /\ UNCHANGED <<Kernel, Hardware, streak, ops>>

Free(c, p) ==
    /\ Running /\ pd[p].st = "queued" /\ pd[p].grace = {} /\ cpu[c] = Idle
    /\ IF pd[p].ref = 1
       THEN /\ pd' = [pd EXCEPT ![p].ref = 0, ![p].st = "dying"]
            /\ Go(c, [at |-> "pages", p |-> p, i |-> 1, then |-> "delete"])
       ELSE /\ pd' = [pd EXCEPT ![p].ref = @ - 1, ![p].st = "kept"]
            /\ UNCHANGED cpu
    /\ UNCHANGED <<Kernel, Hardware, doms, streak, ops>>
-----------------------------------------------------------------------------
(***************************************************************************)
(* Interrupts of devices (Dmar::set_irt, Amd::set_irt): interrupt g of r.  *)
(***************************************************************************)
DmarSetIrt(g, r) ==
    /\ Spend /\ w.kind = "dmar"
    /\ irt' = [irt EXCEPT ![g] = r]
    /\ UNCHANGED <<Kernel, unit, dte, pd, doms, cpu, streak>>

AmdSetIrt(g, r) ==
    /\ Spend /\ w.kind = "amd" /\ UnitOf(r) # 0 /\ ~Taken(UnitOf(r))
    /\ dte' = [dte EXCEPT ![r].vecs = @ \cup {g}, ![r].it = TRUE, ![r].ic = TRUE]
    /\ unit' = [unit EXCEPT ![UnitOf(r)] = FlushDte(@, r)]
    /\ UNCHANGED <<Kernel, irt, pd, doms, cpu, streak>>

(***************************************************************************)
(* The hardware (external).  A device that reads or writes uses what its   *)
(* unit has cached, and fills the caches from the tables in memory; what   *)
(* is not mapped is a fault.                                               *)
(***************************************************************************)
Effective(u, r) ==
    IF unit[u].cached[r] # NoCtx THEN unit[u].cached[r]
    ELSE IF dte[r].tr THEN [pd |-> dte[r].pd, dom |-> dte[r].dom] ELSE NoCtx

Logged(u, r) ==
    IF ~w.faults \/ (w.kind = "amd" /\ u.masked) THEN u
    ELSE IF Len(u.log) < NFR THEN [u EXCEPT !.log = Append(@, r)] ELSE [u EXCEPT !.over = TRUE]

Dma(r) ==
    LET u == FindIommu(pci, r)
        x == Effective(u, r)
    IN  /\ Running /\ r \in w.dma /\ u # 0 /\ unit[u].on
        /\ unit' = [unit EXCEPT ![u] =
              IF x = NoCtx THEN Logged(@, r)
              ELSE IF pd[x.pd].map = 0 THEN Logged([@ EXCEPT !.cached[r] = x], r)
              ELSE [@ EXCEPT !.cached[r] = x, !.tlb = @ \cup {[dom |-> x.dom, pd |-> x.pd, frame |-> pd[x.pd].map]}]]
        /\ UNCHANGED <<Kernel, dte, irt, pd, doms, cpu, streak, ops>>

(***************************************************************************)
(* The fault interrupt (Interface::vector): the handler of every unit      *)
(* reports what is logged, or stops reporting.                             *)
(***************************************************************************)
DmarFaults(u) ==
    LET s == Report(u.info, u.log)
    IN  IF u.log = <<>> /\ ~u.over THEN u
        ELSE [u EXCEPT !.info = UpdateReporting(s.info, s.off), !.masked = @ \/ s.off, !.log = <<>>, !.over = FALSE]

AmdFaults(u) ==
    LET s == Report(u.info, u.log)
        v == [u EXCEPT !.info = UpdateReporting(s.info, s.off), !.log = <<>>]
    IN  IF u.masked THEN u ELSE IF s.off THEN [v EXCEPT !.masked = TRUE] ELSE EnableEvents(v)

Times(log, r) == Cardinality({i \in DOMAIN log : log[i] = r})

Counted(u, n) ==
    [r \in Rid |-> IF Report(u.info, u.log).off \/ Times(u.log, r) = 0 THEN 0 ELSE n[r] + Times(u.log, r)]

FaultVector ==
    /\ Running
    /\ \E u \in DOMAIN unit : ~unit[u].masked /\ (unit[u].log # <<>> \/ unit[u].over)
    /\ unit' = [u \in DOMAIN unit |-> IF ~unit[u].valid THEN unit[u]
                                      ELSE IF w.kind = "dmar" THEN DmarFaults(unit[u]) ELSE AmdFaults(unit[u])]
    /\ streak' = [u \in DOMAIN unit |-> IF unit[u].info # unit'[u].info \/ unit[u].log # <<>>
                                        THEN Counted(unit[u], streak[u]) ELSE streak[u]]
    /\ UNCHANGED <<Kernel, dte, irt, pd, doms, cpu, ops>>

Next ==
    \/ ParseDmar \/ ParseRmrr \/ ParseIvhd \/ Enable
    \/ \E p \in Pd : CreatePd(p) \/ \E f \in w.frames : Delegate(p, f)
    \/ \E c \in Cpu, p \in Pd :
          \/ Revoke(c, p) \/ Destroy(c, p) \/ Free(c, p)
          \/ \E r \in Rid : AssignPci(c, p, r)
    \/ \E c \in Cpu :
          \/ DmarSet(c) \/ DmarFlush(c) \/ DmarNote(c) \/ AmdTake(c) \/ AmdWrite(c) \/ AmdSync(c)
          \/ FlushSlot(c) \/ FlushEnd(c) \/ DropSlot(c)
          \/ DmarRelease(c) \/ AmdRelease(c) \/ ReleaseEnd(c) \/ PreFreeEnd(c)
    \/ \E g \in w.gsis, r \in Rid : DmarSetIrt(g, r) \/ AmdSetIrt(g, r)
    \/ \E r \in Rid : Dma(r)
    \/ FaultVector

Spec == Init /\ [][Next]_vars
-----------------------------------------------------------------------------
(***************************************************************************)
(* A unit never walks a page table that is freed, and never uses what it   *)
(* has cached of another domain: as long as an entry in memory or in a     *)
(* unit's caches leads a device to a domain, that domain's table exists    *)
(* (Pd::assign_rid: "dmar has a physical pointer into our dpt              *)
(* pagetable"), and the translations cached under its identifier are its   *)
(* own and, once the revocation that removed a mapping is done, no longer  *)
(* that mapping.  The exception is a revocation that comes while the       *)
(* device is being assigned: Dmar::assign writes the context before the    *)
(* domain notes the device, and flush_pgt goes by the notes.               *)
(***************************************************************************)
Revoking(p) == \E c \in Cpu : cpu[c].at = "pages" /\ cpu[c].p = p


(***************************************************************************)
(* Reporting faults is bounded (Interface::disable_reporting): a device    *)
(* that faults in run after run of the handler is reported COUNT times,    *)
(* then the unit is silent.  Every run starts from counts that say how     *)
(* often each device was reported since it last was quiet.                 *)
(***************************************************************************)
FaultsBounded == \A u \in DOMAIN unit : \A r \in Rid : streak[u][r] <= COUNT

(***************************************************************************)
(* Once the tables are parsed, every function on the bus has the unit the  *)
(* tables mean for it: the last one that lists the function or a bridge    *)
(* above it, or else the first that takes all the others.  The bridges     *)
(* above are those of the bus, not of the order and the depths in the list *)
(* that claim_dev goes by (Pci::init, Acpi_dmar::parse).                   *)
(***************************************************************************)
BusOf(r) == CHOOSE b \in DOMAIN w.bus : \E k \in DOMAIN w.bus[b] : w.bus[b][k].rid = r

RECURSIVE Above(_, _)
Above(b, d) ==
    IF b = 1 \/ d = 0 THEN {}
    ELSE UNION {{x.rid} \cup Above(BusOf(x.rid), d - 1) : x \in {y \in UNION {Range(w.bus[k]) : k \in DOMAIN w.bus} : y.bridge = b}}

Meant(r) ==
    LET lists(e) == \E i \in DOMAIN e.scopes : e.scopes[i].type \in {1, 2} /\ e.scopes[i].rid \in {r} \cup Above(BusOf(r), Len(w.bus))
        units    == SelectSeq(w.table, LAMBDA e : e.type = "dmar")
        named    == {u \in DOMAIN units : units[u].valid /\ lists(units[u])}
        others   == {u \in DOMAIN units : units[u].valid /\ units[u].all}
    IN  IF named # {} THEN CHOOSE u \in named : \A v \in named : v <= u
        ELSE IF others # {} THEN CHOOSE u \in others : \A v \in others : u <= v ELSE 0

ServedAsListed == Running /\ w.kind = "dmar" => \A i \in DOMAIN pci : pci[i].iommu = Meant(pci[i].rid)
=============================================================================
