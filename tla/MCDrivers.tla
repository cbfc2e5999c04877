----------------------------- MODULE MCDrivers ------------------------------
(***************************************************************************)
(* What a driver uses: devices behind an IOMMU, and the signals that its   *)
(* interrupts become.  The specifications share nothing; one of them,      *)
(* side, takes steps, the other stays as it is (Signal's variables are     *)
(* then all 0).                                                            *)
(***************************************************************************)
EXTENDS Devices, TLC

CONSTANT Sides      \* which of them to check

VARIABLE side

-----------------------------------------------------------------------------
(* Devices: small PCI trees under one or two units.                        *)

Fn(r) == [rid |-> r, bridge |-> 0, multi |-> FALSE]
None == Fn(0)
Multi(r) == [Fn(r) EXCEPT !.multi = TRUE]
Bridge(r, b) == [Fn(r) EXCEPT !.bridge = b]
Flat == <<<<Fn(1), Fn(9), Fn(2), None>>>>
Tree == <<<<Bridge(1, 2), Fn(9), Multi(3), Fn(4)>>, <<Fn(2)>>>>

Dmar(all, lev, scopes) == [type |-> "dmar", valid |-> TRUE, all |-> all, lev |-> lev, doms |-> 9, scopes |-> scopes]
Scope(t, r) == [type |-> t, rid |-> r, id |-> 1]
Rmrr(r) == [type |-> "rmrr", rid |-> r]
Ivhd(new, entries) == [type |-> "ivhd", valid |-> TRUE, lev |-> 0, new |-> new, id |-> 1, entries |-> entries]
Dev(t, r) == [type |-> t, rid |-> r, eff |-> 3, id |-> 1]

(* One Intel unit: a device of two domains; a domain that gets the         *)
(* identifier of another; more devices than a domain can note.             *)
Intel == [kind |-> "dmar", rids |-> {1, 2}, pds |-> {1, 2}, bus |-> Flat, ioapics |-> <<1>>, gsis |-> {}, doms |-> 3,
          table |-> <<Dmar(TRUE, 1, <<>>)>>, newfmt |-> FALSE, may |-> [p \in {1, 2} |-> {1}], dma |-> {1}, ops |-> 6,
          frames |-> {1}, faults |-> FALSE]
OneIntel ==
    {Intel, [Intel EXCEPT !.doms = 2],
     [Intel EXCEPT !.rids = 1 .. 4, !.bus = Tree, !.pds = {1}, !.may = [p \in {1} |-> 2 .. 4], !.dma = {4}, !.ops = 5]}

(* Two Intel units that differ in the depth of the tables, one of them for *)
(* what is below a bridge, and a third that does not answer.               *)
TwoIntel ==
    {[Intel EXCEPT !.rids = 1 .. 4, !.bus = Tree, !.ops = 5, !.may = [p \in {1, 2} |-> {2, 3}], !.dma = {2, 3}, !.gsis = {1},
                   !.table = t, !.pds = {1}] :
        t \in {<<Dmar(FALSE, 1, <<Scope(2, 1), Scope(3, 7)>>), Dmar(TRUE, 2, <<>>), Rmrr(4),
                 [Dmar(TRUE, 1, <<>>) EXCEPT !.valid = FALSE]>>,
               <<Dmar(TRUE, 1, <<>>), [Dmar(FALSE, 2, <<Scope(1, 1), Scope(4, 3)>>) EXCEPT !.doms = 3], Rmrr(8)>>}}

(* One AMD unit; a domain has one device at a time.                        *)
Amd == [Intel EXCEPT !.kind = "amd", !.table = <<Ivhd(FALSE, <<Dev("one", 1), Dev("alias one", 2), Dev("ioapic", 3)>>)>>,
                     !.rids = 1 .. 3]
OneAmd ==
    {Amd,
     [Amd EXCEPT !.may = [p \in {1, 2} |-> {p}], !.gsis = {1}, !.ops = 5, !.newfmt = TRUE,
                 !.table = <<Ivhd(FALSE, <<>>),
                             Ivhd(TRUE, <<Dev("start", 1), Dev("end", 3), Dev("ext start", 3), Dev("end", 1), Dev("reserved", 0)>>)>>],
     [Amd EXCEPT !.may = [p \in {1, 2} |-> {p}], !.ops = 5,
                 !.table = <<Ivhd(FALSE, <<Dev("all", 0), Dev("alias start", 2), Dev("end", 3), Dev("ext one", 3)>>)>>]}

(* Faults of up to three devices.                                          *)
Faulty ==
    {[k EXCEPT !.faults = TRUE, !.pds = {1}, !.dma = 1 .. 3, !.rids = 1 .. 3, !.ops = 2, !.bus = <<<<Fn(1), None, Multi(2), Fn(3)>>>>] :
        k \in {Intel, [Amd EXCEPT !.table = <<Ivhd(FALSE, <<Dev("all", 0)>>)>>]}}

Devs == OneIntel \cup TwoIntel \cup OneAmd \cup Faulty

(* One AMD unit and a domain that is given a second device.                *)
DevsSecond == {[Amd EXCEPT !.pds = {1}, !.may = [p \in {1} |-> {1, 3}], !.dma = {1},
                           !.bus = <<<<Fn(1), None, Fn(3)>>>>, !.table = <<Ivhd(FALSE, <<Dev("all", 0)>>)>>]}

(* Two Intel units with tables of the same depth.                          *)
DevsUnits == {[Intel EXCEPT !.rids = 1 .. 4, !.bus = Tree, !.may = [p \in {1} |-> {3}], !.dma = {3}, !.pds = {1},
                            !.table = <<Dmar(FALSE, 1, <<Scope(2, 1)>>), Dmar(TRUE, 1, <<>>)>>]}

-----------------------------------------------------------------------------
(* Signal: threads that are alike.                                         *)

CONSTANTS Thread, Kern, User, Null, Sinks, Targets, Zero, Calls

VARIABLES sm, counter, lock, ecs, sis, chain_lock, pc, self, to, s_c, kern, again, calls

signal == <<sm, counter, lock, ecs, sis, chain_lock, pc, self, to, s_c, kern, again, calls>>

S == INSTANCE Signal WITH None <- Null, c <- s_c

Symmetry == Permutations(Thread)

-----------------------------------------------------------------------------

MCInit ==
    /\ side \in Sides
    /\ Init /\ (side # "devices" => w = Intel)
    /\ IF side = "signal" THEN S!Init
       ELSE /\ sm = 0 /\ counter = 0 /\ lock = 0 /\ ecs = 0 /\ sis = 0 /\ chain_lock = 0 /\ pc = 0 /\ self = 0
            /\ to = 0 /\ s_c = 0 /\ kern = 0 /\ again = 0 /\ calls = 0

MCNext ==
    \/ side = "devices" /\ Next /\ UNCHANGED <<side, signal>>
    \/ side = "signal" /\ S!Next /\ UNCHANGED <<side, vars>>

MCSpec == MCInit /\ [][MCNext]_<<side, vars, signal>>

-----------------------------------------------------------------------------


(* No thread sleeps at a semaphore while a unit or a signal is there.      *)
NoSleeper == side = "signal" => S!NoSleeper

(* A signal is linked at most once (Si has one pair of pointers).          *)
LinkedOnce == side = "signal" => S!LinkedOnce
=============================================================================
