------------------------------- MODULE Iommu -------------------------------
(***************************************************************************)
(* The parts of the IOMMU drivers that only compute: the list of PCI       *)
(* functions and which unit serves each of them (pci.cpp), the ACPI tables *)
(* that say so (acpi_dmar.cpp, acpi_ivrs.cpp), identifiers of domains      *)
(* (bit_alloc.hpp), and the heuristic that stops a unit from reporting     *)
(* faults (iommu.hpp).                                                     *)
(***************************************************************************)
EXTENDS Integers, Sequences, FiniteSets, SequencesExt

CONSTANTS
    FN,       \* functions of a PCI device, 8 in the code
    SLOTS,    \* devices a unit counts faults of, 4 in the code
    COUNT     \* faults of one device that are reported, 8 in the code

(***************************************************************************)
(* Pci::init: the functions of bus b from function k on, at depth l.  A    *)
(* bridge is followed at once, and the functions after the first of a      *)
(* device that has only one are skipped.  A bus is a sequence of functions *)
(* (rid = 0: nothing answers), a bridge names its secondary bus.           *)
(***************************************************************************)
RECURSIVE Enumerate(_, _, _, _)
Enumerate(bus, b, k, l) ==
    IF k > Len(bus[b]) THEN <<>>
    ELSE IF bus[b][k].rid = 0 THEN Enumerate(bus, b, k + 1, l)
    ELSE <<[rid |-> bus[b][k].rid, lev |-> l, iommu |-> 0]>>
         \o (IF bus[b][k].bridge # 0 THEN Enumerate(bus, bus[b][k].bridge, 1, l + 1) ELSE <<>>)
         \o Enumerate(bus, b, IF (k - 1) % FN = 0 /\ ~bus[b][k].multi THEN k + FN ELSE k + 1, l)

FindDev(pci, r) == {i \in DOMAIN pci : pci[i].rid = r /\ \A j \in 1 .. i - 1 : pci[j].rid # r}

FindIommu(pci, r) == LET s == FindDev(pci, r) IN IF s = {} THEN 0 ELSE pci[CHOOSE i \in s : TRUE].iommu

(* claim_all: unit u serves every function nobody has claimed yet.         *)
ClaimAll(pci, u) == [i \in DOMAIN pci |-> IF pci[i].iommu = 0 THEN [pci[i] EXCEPT !.iommu = u] ELSE pci[i]]

(* claim_dev: unit u serves r and, unless `single', what lies below r: the *)
(* functions that follow it in the list at a greater depth.                *)
Below(pci, i, k) == k > i /\ \A j \in i + 1 .. k : pci[j].lev > pci[i].lev

ClaimDev(pci, u, r, single) ==
    [k \in DOMAIN pci |-> IF \E i \in FindDev(pci, r) : k = i \/ (~single /\ Below(pci, i, k))
                          THEN [pci[k] EXCEPT !.iommu = u] ELSE pci[k]]

(* Ioapic::claim_dev: the first I/O APIC with this id and no requester id. *)
ClaimIoapic(ioa, r, id, u) ==
    LET s == {i \in DOMAIN ioa : ioa[i].rid = 0 /\ ioa[i].id = id}
    IN  IF s = {} THEN ioa
        ELSE [ioa EXCEPT ![CHOOSE i \in s : \A j \in s : i <= j] = [id |-> id, rid |-> r, iommu |-> u]]

(* Amd::lookup: the unit of a PCI function, or of an I/O APIC's requester  *)
(* id that is not on the PCI bus.                                          *)
Lookup(pci, ioa, r) ==
    IF FindIommu(pci, r) # 0 THEN FindIommu(pci, r)
    ELSE FoldLeft(LAMBDA u, a : IF a.rid = r THEN a.iommu ELSE u, 0, ioa)

(***************************************************************************)
(* Acpi_dmar::parse: device scopes of unit u.                              *)
(***************************************************************************)
Scopes(st, u, scopes) ==
    FoldLeft(LAMBDA s, x : CASE x.type \in {1, 2} -> [s EXCEPT !.pci = ClaimDev(@, u, x.rid, FALSE)]
                             [] x.type = 3 -> [s EXCEPT !.ioa = ClaimIoapic(@, x.rid, x.id, u)]
                             [] OTHER -> s,
             st, scopes)

(***************************************************************************)
(* Acpi_ivhd::parse: device entries of unit u.  A range starts with one    *)
(* entry and is served when its end comes.  The table gets an entry for    *)
(* every id of the range; the unit serves all but the last, and only the   *)
(* first becomes an alias.                                                 *)
(***************************************************************************)
NoRange == [rid |-> -1, eff |-> 0]

Listed(dte, lo, hi) ==
    [r \in DOMAIN dte |-> IF r \in lo .. hi THEN [dte[r] EXCEPT !.v = TRUE] ELSE dte[r]]

Alias(dte, r, eff) == [dte EXCEPT ![r].v = TRUE, ![r].alias = eff]

RangeEnd(s, u, hi) ==
    IF s.from.rid = -1 \/ s.from.rid > hi THEN s
    ELSE [s EXCEPT !.pci = FoldLeft(LAMBDA p, r : ClaimDev(p, u, r, TRUE), @, [k \in 1 .. hi - s.from.rid |-> s.from.rid + k - 1]),
                   !.dte = IF s.from.eff # 0 /\ s.from.rid < hi THEN Alias(Listed(@, s.from.rid, hi), s.from.rid, s.from.eff)
                           ELSE Listed(@, s.from.rid, hi),
                   !.from = NoRange]

One(s, u, r) == [s EXCEPT !.dte = Listed(@, r, r), !.pci = ClaimDev(@, u, r, TRUE)]

DeviceEntry(s, u, x) ==
    CASE x.type \in {"one", "ext one"} -> One(s, u, x.rid)
      [] x.type = "alias one"          -> [One(s, u, x.rid) EXCEPT !.dte = Alias(@, x.rid, x.eff)]
      [] x.type = "all"                -> [s EXCEPT !.dte = [r \in DOMAIN @ |-> [@[r] EXCEPT !.v = TRUE]], !.pci = ClaimAll(@, u)]
      [] x.type = "start"              -> [s EXCEPT !.from = [rid |-> x.rid, eff |-> 0]]
      [] x.type = "ext start"          -> [s EXCEPT !.from.rid = x.rid]
      [] x.type = "alias start"        -> [s EXCEPT !.from = [rid |-> x.rid, eff |-> x.eff]]
      [] x.type = "end"                -> RangeEnd(s, u, x.rid)
      [] x.type = "ioapic"             -> [s EXCEPT !.dte = Listed(@, x.rid, x.rid), !.ioa = ClaimIoapic(@, x.rid, x.id, u)]
      [] OTHER                         -> s

DeviceEntries(st, u, entries) == FoldLeft(LAMBDA s, x : DeviceEntry(s, u, x), st, entries)

(***************************************************************************)
(* Bit_alloc: the lowest free identifier, or 0 when all are taken.         *)
(***************************************************************************)
AllocId(free) == IF free = {} THEN 0 ELSE CHOOSE d \in free : \A e \in free : d <= e
ReserveId(free, start) == {d \in free : d < start}

(***************************************************************************)
(* Interface::disable_reporting and update_reporting.                      *)
(***************************************************************************)
NoFaults == [i \in 1 .. SLOTS |-> [rid |-> 0, count |-> 0, changed |-> FALSE]]

Slot(info, r) ==
    LET mine == {i \in 1 .. SLOTS : info[i].count # 0 /\ info[i].rid = r}
        free == {i \in 1 .. SLOTS : info[i].count = 0}
        s    == IF mine # {} THEN mine ELSE free
    IN  IF s = {} THEN 0 ELSE CHOOSE i \in s : \A j \in s : i <= j

DisableReporting(info, r) ==
    LET i == Slot(info, r)
        n == IF i = 0 THEN info
             ELSE [info EXCEPT ![i] = [rid |-> r, count |-> IF @.count # 0 THEN @.count + 1 ELSE 1, changed |-> TRUE]]
    IN  [info |-> n, off |-> i = 0 \/ n[i].count > COUNT]

ForgetCounts(info, disabled) == NoFaults

UpdateReporting(info, disabled) ==
    [i \in 1 .. SLOTS |->
        IF info[i].changed /\ ~disabled THEN [info[i] EXCEPT !.changed = FALSE]
        ELSE [info[i] EXCEPT !.changed = FALSE, !.count = 0]]

(* The faults of one run of the handler, in order, until one is too many.  *)
Report(info, faults) ==
    FoldLeft(LAMBDA s, r : IF s.off THEN s ELSE DisableReporting(s.info, r), [info |-> info, off |-> FALSE], faults)
=============================================================================
