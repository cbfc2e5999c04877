------------------------------ MODULE CpuRegs -------------------------------
(***************************************************************************)
(* Registers of a virtual CPU: class Cpu_regs (regs.hpp, regs.cpp).        *)
(*                                                                         *)
(* The guest must see the control registers it wrote, while the hardware   *)
(* runs with bits forced on: paging for the virtual TLB, TS while another  *)
(* context owns the FPU.  m says what the machine has: svm (otherwise      *)
(* VMX), ept (EPT or NPT), urg (unrestricted guest), lazy (fpu_lazy).      *)
(* A virtual CPU is a record r:                                            *)
(*   g0 g3 g4   control registers in the VMCS or VMCB                      *)
(*   s0 s3 s4   shadows; on VMX s0 and s4 are also the read shadows        *)
(*   m0 m4      VMCS guest/host masks                                      *)
(*   efer g64   guest EFER and the entry control IA-32e mode guest         *)
(*   nst fpu    nst_on, fpu_on                                             *)
(*   exc ctl    intercepted exceptions, other intercepts and windows       *)
(*   tlb        the context the virtual TLB was filled in, or Empty        *)
(*   ent idt    event to inject at entry, event cut short by the last exit *)
(*   portal     dst_portal                                                 *)
(*   state      the register groups that are copied as they are            *)
(*   xcr        gst_xsv, the guest's XCR0                                  *)
(*   tsc        tsc_offset is the offset the hardware uses                  *)
(*   hzd        hazards                                                    *)
(* Registers are sets of bits.                                             *)
(***************************************************************************)
EXTENDS Integers, FiniteSets

CONSTANTS VtlbRoot,     \* physical address of the virtual TLB's page table
          Empty,        \* a virtual TLB without entries
          NoEvent       \* no event: the valid bit is clear

FixCr0Set(m) == IF m.svm \/ m.urg THEN {} ELSE {"PE", "PG"}
FixCr0Clr(m) == IF m.svm THEN {} ELSE {"CD"}

Cr0Set(m, r) ==
    FixCr0Set(m) \cup (IF r.nst THEN {} ELSE {"PG", "WP", "PE"})
                 \cup (IF r.fpu THEN {} ELSE {"TS"})
Cr0Msk(m, r) == FixCr0Clr(m) \cup Cr0Set(m, r)
Cr4Set(m, r) == IF r.nst THEN {} ELSE {"PSE", "PAE"}
Cr4Msk(m, r) == Cr4Set(m, r) \cup IF r.nst THEN {} ELSE {"PGE"}

GetCr0(m, r) == (r.g0 \ Cr0Msk(m, r)) \cup (r.s0 \cap Cr0Msk(m, r))
GetCr3(m, r) == IF r.nst THEN r.g3 ELSE r.s3
GetCr4(m, r) == (r.g4 \ Cr4Msk(m, r)) \cup (r.s4 \cap Cr4Msk(m, r))

SetCr0(m, r, v) ==
    [r EXCEPT !.g0 = (v \ (Cr0Msk(m, r) \ {"PE"})) \cup (Cr0Set(m, r) \ {"PE"}), !.s0 = v]
SetCr3(m, r, v) == IF r.nst THEN [r EXCEPT !.g3 = v] ELSE [r EXCEPT !.s3 = v]
SetCr4(m, r, v) == [r EXCEPT !.g4 = (v \ Cr4Msk(m, r)) \cup Cr4Set(m, r), !.s4 = v]

SetExc(r) ==
    [r EXCEPT !.exc = (IF r.nst THEN {} ELSE {"PF"}) \cup (IF r.fpu THEN {} ELSE {"NM"})]

\* svm_set_cpu_ctrl0 and vmx_set_cpu_ctrl0/1; the CR0 and CR4 intercepts of
\* SVM cover reads and writes of the whole register.
SvmSetCtrl(m, r, val) ==
    LET on == (IF Cr0Msk(m, r) = {} THEN {} ELSE {"CR0"})
              \cup (IF Cr4Msk(m, r) = {} THEN {} ELSE {"CR4"})
              \cup (IF r.nst THEN {} ELSE {"CR3", "INVLPG"})
    IN  [r EXCEPT !.ctl = (val \ {"CR0", "CR3", "CR4", "INVLPG"}) \cup on]
VmxSetCtrl(m, r, val) ==
    [r EXCEPT !.ctl = IF r.nst THEN val \ {"CR3", "INVLPG"} ELSE val \cup {"CR3", "INVLPG"}]
SetCtrl(m, r, val) == IF m.svm THEN SvmSetCtrl(m, r, val) ELSE VmxSetCtrl(m, r, val)

SetMasks(m, r) == IF m.svm THEN r ELSE [r EXCEPT !.m0 = Cr0Msk(m, r), !.m4 = Cr4Msk(m, r)]

\* nst_ctrl: switch between nested paging and the virtual TLB.
NstCtrl(m, r, on) ==
    LET a == [r EXCEPT !.nst = m.ept /\ on]
        b == SetCr4(m, SetCr3(m, SetCr0(m, a, GetCr0(m, r)), GetCr3(m, r)), GetCr4(m, r))
        c == SetMasks(m, SetExc(SetCtrl(m, b, b.ctl)))
    IN  IF c.nst THEN c ELSE [c EXCEPT !.g3 = VtlbRoot]

\* fpu_ctrl.  Mutant: TS keeps the value the hardware had.
FpuCtrlRaw(m, r, on) ==
    LET b == SetCr0(m, [r EXCEPT !.fpu = on], r.g0)
    IN  IF m.svm THEN SvmSetCtrl(m, SetExc(b), b.ctl) ELSE [SetExc(b) EXCEPT !.m0 = Cr0Msk(m, b)]
FpuCtrl(m, r, on) ==
    LET b == SetCr0(m, [r EXCEPT !.fpu = on], GetCr0(m, r))
    IN  IF m.svm THEN SvmSetCtrl(m, SetExc(b), b.ctl) ELSE [SetExc(b) EXCEPT !.m0 = Cr0Msk(m, b)]

SvmUpdateShadows(m, r) ==
    [r EXCEPT !.s0 = GetCr0(m, r), !.s3 = GetCr3(m, r), !.s4 = GetCr4(m, r)]

WriteEfer(m, r, v) ==
    [r EXCEPT !.efer = v, !.g64 = IF m.svm THEN @ ELSE "LMA" \in v]

\* tlb_flush of everything or of what is not global.
TlbFlush(r) == [r EXCEPT !.tlb = Empty]

Toggled(old, new, bits) == ((old \ new) \cup (new \ old)) \cap bits # {}

\* write_cr, by register.
WriteCr3(m, r, v) == SetCr3(m, IF r.nst THEN r ELSE TlbFlush(r), v)

WriteCr0(m, r, v) ==
    LET old == GetCr0(m, r)
        a == IF ~r.nst /\ Toggled(old, v, {"PG", "WP", "PE"}) THEN TlbFlush(r) ELSE r
        b == SetCr0(m, a, v)
        c == IF m.urg THEN b ELSE NstCtrl(m, b, "PG" \in v)
        lma == IF "PG" \in v /\ "LME" \in c.efer THEN {"LMA"} ELSE {}
    IN  IF Toggled(old, v, {"PG"}) THEN WriteEfer(m, c, (c.efer \ {"LMA"}) \cup lma) ELSE b

WriteCr4(m, r, v) ==
    LET a == IF ~r.nst /\ Toggled(GetCr4(m, r), v, {"PGE", "PAE", "PSE"}) THEN TlbFlush(r) ELSE r
    IN  SetCr4(m, a, v)

\* What the virtual TLB's walk of the guest page table depends on.
Context(r) == <<r.s0 \cap {"PG", "WP"}, r.s3, r.s4 \cap {"PSE", "PAE", "PGE"}>>
=============================================================================
