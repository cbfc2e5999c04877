------------------------------ MODULE MCGuests ------------------------------
(***************************************************************************)
(* Virtual machines: the page tables and TLBs, and the virtual CPU.  The   *)
(* specifications share nothing; one of them, side, takes steps, the other *)
(* stays as it is (Vcpu's variables are then all 0).                       *)
(***************************************************************************)
EXTENDS Mapping

CONSTANT Sides      \* which of them to check

VARIABLE side

-----------------------------------------------------------------------------
(* Mapping: domains with few pages, some with the same tables on two CPUs, *)
(* some with a guest.                                                      *)

Node(b, o, ph, sub) == [b |-> b, o |-> o, ph |-> ph, a |-> {"r", "w"}, sub |-> sub]

Plain == [did |-> [p \in {1} |-> "own"], pcid |-> TRUE, cpus |-> [p \in {1} |-> {0}], grow |-> [p \in {1} |-> {}],
          users |-> {1}, vms |-> {}, guest |-> 0, first |-> [at |-> 0], rewrites |-> {}, touched |-> {}, errs |-> {},
          ord |-> 3, oom |-> FALSE, ops |-> 4, pages |-> {0}, nodes |-> [p \in {1} |-> {Node(0, 0, 32, {})}],
          parent |-> [p \in {1} |-> 0], rights |-> {{"r", "w"}}, mortal |-> {}, cached |-> {}]

(* Shapes of tables.                                                       *)
Shapes == {[Plain EXCEPT !.ord = o, !.oom = TRUE, !.pages = {0, 1, 2, 4, 8, 16, 100},
                         !.nodes = [p \in {1} |-> {Node(0, 0, 33, {}), Node(2, 1, 34, {}), Node(0, 2, 32, {"guest"}),
                                                   Node(0, 3, 32, {"guest"}), Node(0, 4, 64, {}), Node(100, 2, 36, {})}],
                         !.rights = {{"r", "w"}, {"w"}}] : o \in {3, 5}}

(* Caches: one domain on two CPUs; a parent and its child with and without *)
(* identifiers, on the same CPUs or not; capability pages; nested tables.  *)
Both == {0, 1}
Page == Node(0, 0, 32, {})
One == [Plain EXCEPT !.cpus = [p \in {1} |-> Both], !.cached = {0}, !.ops = 3, !.rights = {{"w"}, {"r", "w"}}]
Two == [Plain EXCEPT !.did = [p \in {1, 2} |-> "own"], !.cpus = [p \in {1, 2} |-> Both], !.users = {2},
                     !.nodes = [p \in {1, 2} |-> IF p = 2 THEN {Page} ELSE {}], !.parent = [p \in {1, 2} |-> p - 1],
                     !.grow = [p \in {1, 2} |-> {}], !.cached = {0}, !.ops = 2]
Caches ==
    {One,
     [Two EXCEPT !.did = [p \in {1, 2} |-> "none"], !.cpus = [p \in {1, 2} |-> {0}], !.users = {1, 2},
                 !.nodes = [p \in {1, 2} |-> {Page}]],
     [Two EXCEPT !.pcid = FALSE, !.cpus = [p \in {1, 2} |-> IF p = 1 THEN {0} ELSE {}],
                 !.grow = [p \in {1, 2} |-> IF p = 2 THEN {1} ELSE {}], !.mortal = {2}, !.ops = 3],
     [One EXCEPT !.pages = {248}, !.cached = {248}, !.nodes = [p \in {1} |-> {}], !.ops = 2],
     [One EXCEPT !.nodes = [p \in {1} |-> {Node(0, 0, 32, {"guest"})}], !.vms = {1}, !.users = {}]}

(* A guest with a vTLB: directory entry 0 is a table, entry 1 a large page.*)
E(a, gfn) == [a |-> a, gfn |-> gfn]
Dir(a, gfn, tab) == [a |-> a, gfn |-> gfn, tab |-> tab]
Rw == {"P", "W", "U"}
GuestTables(a, gfn, wp, next, big) ==
    [pg |-> TRUE, wp |-> wp, pge |-> TRUE, at |-> 0,
     dir |-> [d \in {0, 1} |->
                IF d = 1 THEN Dir(Rw \cup {"S"}, big, <<>>)
                ELSE Dir(Rw, 0, [k \in 0 .. 3 |-> IF k = 0 THEN E(a, gfn) ELSE IF k = 1 THEN E(next, 1) ELSE E({}, 0)])]]
Guests ==
    LET Guest1 == [Plain EXCEPT !.guest = 1, !.vms = {1}, !.users = {}, !.errs = {{}},
                                !.nodes = [p \in {1} |-> {Node(0, 3, 32, {"guest"})}]]
    IN  {[Guest1 EXCEPT !.first = GuestTables(Rw, 2, TRUE, {}, 4), !.ops = 5,
                        !.rewrites = {GuestTables(Rw \cup {"G"}, 2, TRUE, {}, 4), GuestTables({"P"}, 3, FALSE, {}, 0)},
                        !.touched = {0, 4, 6}, !.errs = {{}, {"W"}, {"U"}}, !.rights = {{"w"}, {"r", "w"}}],
         [Guest1 EXCEPT !.first = GuestTables(Rw \cup {"G"}, 2, TRUE, Rw, 4), !.ops = 7, !.touched = {0, 1},
                        !.rewrites = {GuestTables(Rw, 3, TRUE, Rw, 4)}, !.rights = {}]}

MCFrames == 1 .. 30

MCWorkloads == Shapes \cup Caches \cup Guests

-----------------------------------------------------------------------------
(* Vcpu: every machine, with users that write control registers, that use  *)
(* the FPU, that inject events, and that set XCR0 and the TSC offset.      *)

CONSTANTS VtlbRoot, NoTlb, NoEvent, PF

VARIABLES m, r, at, cur, utcb, xcr, fp, ipi, rke, want, owed

vcpu == <<m, r, at, cur, utcb, xcr, fp, ipi, rke, want, owed>>

\* fpu_lazy matters where the FPU is used.
Uses(u, c0, c3, c4, x, e, t, f, rc) ==
    [svm : BOOLEAN, ept : BOOLEAN, urg : u, lazy : {f, FALSE},
     cr0 : {c0}, cr3 : {c3}, cr4 : {c4}, xcr : {x}, events : {e}, mtds : {t}, fpu : {f}, rec : {rc}]

Off == {"PE"}
On == {"PE", "PG"}
OnTs == {"PE", "PG", "TS"}

Machines ==
    \* paging, long mode, virtual TLB
    Uses(BOOLEAN, {{}, On}, {0, 1}, {{}, {"PAE"}}, {}, {}, {{"CR"}, {"EFER"}}, FALSE, FALSE)
    \* FPU and TS
    \cup Uses(BOOLEAN, {Off, On, OnTs}, {0}, {{}}, {}, {}, {{"CR"}, {"FPU"}}, TRUE, FALSE)
    \* events and recall
    \cup Uses({FALSE}, {On, Off}, {0}, {{}}, {}, {"EXT", "NMI"}, {{"CR", "INJ"}, {"INJ"}}, FALSE, TRUE)
    \* XCR0, TSC and state
    \cup Uses(BOOLEAN, {On}, {0}, {{}}, {{"SSE"}, {"AVX512"}}, {}, {{"TSC", "XSAVE"}, {"STATE"}}, FALSE, FALSE)

V == INSTANCE Vcpu WITH Systems <- Machines, Empty <- NoTlb

-----------------------------------------------------------------------------

MCInit ==
    /\ side \in Sides
    /\ Init /\ (side # "mapping" => w = One)
    /\ IF side = "vcpu" THEN V!Init
       ELSE /\ m = 0 /\ r = 0 /\ at = 0 /\ cur = 0 /\ utcb = 0 /\ xcr = 0 /\ fp = 0 /\ ipi = 0 /\ rke = 0 /\ want = 0
            /\ owed = 0

MCNext ==
    \/ side = "mapping" /\ Next /\ UNCHANGED <<side, vcpu>>
    \/ side = "vcpu" /\ V!Next /\ UNCHANGED <<side, vars>>

MCSpec == MCInit /\ [][MCNext]_<<side, vars, vcpu>>

-----------------------------------------------------------------------------

(* The guest sees the registers it would see on a machine of its own.      *)
GuestSeesIdeal == side = "vcpu" => V!GuestSeesIdeal

(* The virtual TLB is that of the guest's current paging mode and table.   *)
VtlbContext == side = "vcpu" => V!VtlbContext


(* A guest that is recalled does not run on: an interrupt ends its run     *)
(* (Ec::sys_ec_ctrl).                                                      *)
RecallNotLost == side = "vcpu" => V!RecallNotLost

(* A context computes with its own FPU state (Ec::handle_exc_nm).          *)
OwnFpuState == side = "vcpu" => V!OwnFpuState

(* XCR0 and the TSC offset are the guest's while it runs, the host's else. *)
WorldSwitched == side = "vcpu" => V!WorldSwitched
=============================================================================
