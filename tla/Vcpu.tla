-------------------------------- MODULE Vcpu --------------------------------
(***************************************************************************)
(* A virtual CPU, its monitor and the FPU they share: ec_vmx.cpp,          *)
(* ec_svm.cpp, ec_exc.cpp, the return paths of ec.cpp and the virtual CPU  *)
(* operations of sys_ec_ctrl.                                              *)
(*                                                                         *)
(* One physical CPU runs the virtual CPU V, the monitor M that its exits   *)
(* are sent to, and a thread S that reads and writes V's state by system   *)
(* call while V is preempted.  A thread on another CPU recalls V.  The     *)
(* guest executes any of the instructions below; M and S write any of the  *)
(* values the constants offer, and hand back an event they were shown.     *)
(***************************************************************************)
EXTENDS UtcbState

CONSTANTS Systems,      \* machines and what their users do, see m
          PF            \* the page fault the kernel injects

V == "V"
M == "M"
S == "S"
Ecs == {V, M, S}

VARIABLES
    m,          \* the machine: svm, ept, urg, lazy; and what its users do:
                \* values cr0, cr3, cr4, xcr, events, items transferred mtds,
                \* whether they use the FPU and recall V: fpu, rec
    r,          \* the registers of V
    at,         \* V: ready (to resume), enter, guest, portal
    cur,        \* Ec::current of this CPU
    utcb,       \* M's UTCB after an exit; S's after it read the state
    xcr,        \* XCR0 of this CPU
    fp,         \* the FPU: owner, hw (whose values it holds), saved, ts, hzd
    ipi,        \* VEC_IPI_RKE is pending on this CPU
    rke,        \* the recalling thread: idle, set, check
    want,       \* what the guest has a right to see: cr0, cr3, cr4, efer, state
    owed        \* the event that is to be delivered to the guest

vars == <<m, r, at, cur, utcb, xcr, fp, ipi, rke, want, owed>>

Nothing == [i \in {} |-> TRUE]

\* Unrestricted guests need EPT; SVM has no other.
Possible(x) == (x.urg /\ ~x.svm => x.ept) /\ (x.svm => x.urg)

-----------------------------------------------------------------------------
(* The FPU.                                                                *)

\* Registers of V after the FPU is given to or taken from execution context e.
FpuSwitch(reg, e, on) == IF e = V /\ m.lazy THEN FpuCtrl(m, reg, on) ELSE reg

\* Fpu::save and Fpu::load for e: the image is fresh until e uses the FPU.
SavedIn(f, e) == [f EXCEPT !.saved[e] = IF f.hw = e THEN "fresh" ELSE "old"]
LoadedFrom(f, e) == [f EXCEPT !.hw = IF f.saved[e] = "old" THEN "junk" ELSE e]

Enable(f) == [f EXCEPT !.ts = FALSE, !.hzd = TRUE]
Disable(f) == [f EXCEPT !.ts = TRUE, !.hzd = FALSE]

\* claim_fpu, when execution context e becomes current.
ClaimFpu(f, e) ==
    IF m.lazy THEN f
    ELSE [LoadedFrom(SavedIn([f EXCEPT !.ts = FALSE, !.hzd = FALSE], cur), e) EXCEPT !.owner = e]

\* handle_hazard, HZD_FPU, on the way to user mode of e.
CheckFpu(f, e) == IF f.hzd /\ e # f.owner THEN Disable(f) ELSE f

\* handle_exc_nm for the current context e: <<registers of V, FPU>>.
\* Mutant: the previous owner's values are not saved.
HandleNmNoSave(reg, f, e) ==
    IF e = f.owner
    THEN <<IF e = V /\ ~reg.fpu THEN FpuCtrl(m, reg, TRUE) ELSE reg, Enable(f)>>
    ELSE <<FpuSwitch(IF f.owner = V THEN FpuSwitch(reg, V, FALSE) ELSE reg, e, TRUE),
           [LoadedFrom(Enable(f), e) EXCEPT !.owner = e]>>
HandleNm(reg, f, e) ==
    IF e = f.owner
    THEN <<IF e = V /\ ~reg.fpu THEN FpuCtrl(m, reg, TRUE) ELSE reg, Enable(f)>>
    ELSE LET g == IF f.owner = "none" THEN Enable(f) ELSE SavedIn(Enable(f), f.owner)
             a == IF f.owner = V THEN FpuSwitch(reg, V, FALSE) ELSE reg
         IN  <<FpuSwitch(a, e, TRUE), [LoadedFrom(g, e) EXCEPT !.owner = e]>>

\* export_fpu_data and import_fpu_data of V for items u.
Export(reg, f, u) ==
    IF Sent(u, "FPU") /\ m.lazy /\ f.owner = V
    THEN <<FpuCtrl(m, reg, FALSE), Disable(SavedIn(Enable(f), V))>>
    ELSE <<reg, f>>
Import(reg, f, u) ==
    LET g == [f EXCEPT !.saved[V] = "fresh"]
    IN  IF ~Sent(u, "FPU") THEN <<reg, f>>
        ELSE IF m.lazy /\ f.owner = V THEN <<FpuCtrl(m, reg, TRUE), Disable([Enable(g) EXCEPT !.hw = V])>>
        ELSE <<reg, [g EXCEPT !.hw = IF @ = V THEN "junk" ELSE @]>>

\* e uses the FPU.
Used(f, e) == [f EXCEPT !.saved[e] = "old"]

-----------------------------------------------------------------------------

\* The constructor, and the first message to the monitor (VM_EXIT_STARTUP).
Init ==
    /\ m \in {x \in Systems : Possible(x)}
    /\ r = NstCtrl(m, [g0 |-> {}, g3 |-> 0, g4 |-> {}, s0 |-> {}, s3 |-> 0, s4 |-> {}, m0 |-> {}, m4 |-> {},
                       efer |-> {}, g64 |-> FALSE, nst |-> FALSE, fpu |-> ~m.lazy, exc |-> {}, ctl |-> {},
                       tlb |-> Empty, ent |-> NoEvent, idt |-> NoEvent, portal |-> "startup", state |-> 0,
                       xcr |-> {"X87"}, tsc |-> TRUE, hzd |-> {}], m.urg)
    /\ at = "portal" /\ cur = M
    /\ utcb \in {Load(m, r, t) : t \in m.mtds}
    /\ xcr = HostXcr
    /\ fp = [owner |-> IF m.lazy THEN "none" ELSE M, hw |-> IF m.lazy THEN "junk" ELSE M,
             saved |-> [e \in Ecs |-> "init"], ts |-> m.lazy, hzd |-> FALSE]
    /\ ipi = FALSE /\ rke = "idle"
    /\ want = [cr0 |-> {}, cr3 |-> 0, cr4 |-> {}, efer |-> {}, state |-> 0]
    /\ owed = NoEvent

-----------------------------------------------------------------------------
(* Ways out of an exit.                                                    *)

\* The hardware's part of an exit, and the first lines of handle_vmx and
\* handle_svm: host XCR0, and on VMX a host CR0 with TS set.
Exited(f) == IF m.svm THEN f ELSE [f EXCEPT !.ts = TRUE, !.hzd = FALSE]
HostXsv == xcr' = IF r.xcr = HostXcr THEN xcr ELSE HostXcr

\* Back to the guest: ret_user_vmresume or ret_user_vmrun is next.
Back(reg, f) == r' = reg /\ fp' = f /\ at' = "ready" /\ UNCHANGED <<cur, utcb>>

\* send_msg, recv_kern and the return to M with the items mtd.
SendMsg(reg, f, portal) ==
    \E mtd \in m.mtds :
        LET a == [reg EXCEPT !.portal = portal]
            u == Load(m, a, mtd)
            x == Export(a, ClaimFpu(f, M), u)
        IN  /\ r' = x[1] /\ fp' = CheckFpu(x[2], M)
            /\ utcb' = u /\ at' = "portal" /\ cur' = M

-----------------------------------------------------------------------------
(* What the guest does.  An instruction that is not intercepted takes      *)
(* effect in the hardware.                                                 *)

InGuest == at = "guest" /\ cur = V
NoSwitch == UNCHANGED <<at, cur, utcb>>
Other == UNCHANGED <<m, ipi, rke>>

LmaOf(efer, cr0) == (efer \ {"LMA"}) \cup IF "PG" \in cr0 /\ "LME" \in efer THEN {"LMA"} ELSE {}
GuestWrites(v0, v3, v4) ==
    want' = [want EXCEPT !.cr0 = v0, !.cr3 = v3, !.cr4 = v4, !.efer = LmaOf(@, v0)]

\* The write takes effect without an exit.
Direct(reg) == r' = reg /\ UNCHANGED <<fp, xcr>> /\ NoSwitch

\* The hardware updates EFER.LMA, and on VMX the entry control with it, when
\* paging is not intercepted.
DirectCr0(v) ==
    LET e == LmaOf(r.efer, v)
    IN  Direct([r EXCEPT !.g0 = (@ \cap r.m0) \cup (v \ r.m0), !.efer = e,
                         !.g64 = IF m.svm THEN @ ELSE "LMA" \in e])

\* svm_cr reads the shadows from the VMCB first.
Shadowed == IF m.svm THEN SvmUpdateShadows(m, r) ELSE r

\* vmx_cr asks the monitor to reload the PDPTE registers.
NeedsPdpte(new, is3) ==
    /\ ~m.svm /\ new.nst
    /\ {"PE", "PG"} \subseteq GetCr0(m, new) /\ "PAE" \in GetCr4(m, new)
    /\ \/ is3
       \/ Toggled(GetCr0(m, r), GetCr0(m, new), {"CD", "PG"})
       \/ Toggled(GetCr4(m, r), GetCr4(m, new), {"PAE", "PGE", "PSE"})

\* vmx_cr and svm_cr after write_cr.
WriteExit(new, is3) ==
    /\ HostXsv
    /\ IF NeedsPdpte(new, is3) THEN SendMsg(new, Exited(fp), "cr") ELSE Back(new, Exited(fp))

\* handle_svm: under nested paging the monitor emulates the access.
SendCr == m.svm /\ r.nst /\ HostXsv /\ SendMsg(r, Exited(fp), "cr") /\ UNCHANGED want

HitsCr0(v) == IF m.svm THEN "CR0" \in r.ctl ELSE Toggled(v, r.s0, r.m0)
HitsCr4(v) == IF m.svm THEN "CR4" \in r.ctl ELSE Toggled(v, r.s4, r.m4)

MovToCr0(v) ==
    /\ InGuest /\ Other /\ UNCHANGED owed
    /\ \/ HitsCr0(v) /\ SendCr
       \/ /\ GuestWrites(v, want.cr3, want.cr4)
          /\ \/ ~HitsCr0(v) /\ DirectCr0(v)
             \/ HitsCr0(v) /\ ~(m.svm /\ r.nst) /\ WriteExit(WriteCr0(m, Shadowed, v), FALSE)

MovToCr3(v) ==
    /\ InGuest /\ Other /\ UNCHANGED owed
    /\ GuestWrites(want.cr0, v, want.cr4)
    /\ \/ "CR3" \notin r.ctl /\ Direct([r EXCEPT !.g3 = v])
       \/ "CR3" \in r.ctl /\ WriteExit(WriteCr3(m, Shadowed, v), TRUE)

MovToCr4(v) ==
    /\ InGuest /\ Other /\ UNCHANGED owed
    /\ GuestWrites(want.cr0, want.cr3, v)
    /\ \/ ~HitsCr4(v) /\ Direct([r EXCEPT !.g4 = (@ \cap r.m4) \cup (v \ r.m4)])
       \/ HitsCr4(v) /\ WriteExit(WriteCr4(m, Shadowed, v), FALSE)

\* CLTS exits when TS is intercepted and, on VMX, set in the read shadow.
Clts ==
    /\ InGuest /\ Other /\ UNCHANGED owed
    /\ \/ m.svm /\ "CR0" \in r.ctl /\ SendCr
       \/ /\ GuestWrites(want.cr0 \ {"TS"}, want.cr3, want.cr4)
          /\ \/ /\ IF m.svm THEN "CR0" \in r.ctl /\ ~r.nst ELSE "TS" \in r.m0 \cap r.s0
                /\ WriteExit(WriteCr0(m, Shadowed, GetCr0(m, Shadowed) \ {"TS"}), FALSE)
             \/ /\ IF m.svm THEN "CR0" \notin r.ctl ELSE "TS" \notin r.m0 \cap r.s0
                /\ Direct(IF "TS" \in r.m0 THEN r ELSE [r EXCEPT !.g0 = @ \ {"TS"}])

\* vmx_invlpg flushes an address, svm_invlpg everything.
Invlpg ==
    /\ InGuest /\ Other /\ UNCHANGED <<owed, want>>
    /\ "INVLPG" \in r.ctl
    /\ HostXsv
    /\ Back(IF m.svm THEN TlbFlush(Shadowed) ELSE r, Exited(fp))

\* vmx_exception and svm_exception inject an event that was cut short again;
\* SVM leaves out NMIs.
\* Mutant: the event is left to the monitor, as under nested paging.
Reinjects(reg) == ~m.svm \/ reg.idt # "NMI"
Reinjected(reg) == IF Reinjects(reg) THEN [reg EXCEPT !.ent = reg.idt] ELSE reg

\* #NM while TS is forced on: vmx_exception and svm_exception take the FPU.
GuestUsesFpu ==
    /\ InGuest /\ m.fpu /\ Other /\ UNCHANGED <<owed, want>>
    /\ \/ /\ "TS" \notin r.g0
          /\ fp' = Used(fp, V) /\ UNCHANGED <<r, xcr>> /\ NoSwitch
       \/ /\ "TS" \in r.g0 /\ "NM" \in r.exc
          /\ HostXsv
          /\ LET x == HandleNm(r, Exited(fp), V) IN Back(x[1], x[2])

\* Vtlb::miss after a page fault exit that left registers reg: the guest's
\* tables map the page and it is filled in, the host maps nothing there and
\* the monitor is told, or the guest gets the fault itself.
Miss(reg) ==
    /\ HostXsv
    /\ \/ Back([reg EXCEPT !.tlb = Context(reg)], Exited(fp)) /\ owed' = IF Reinjects(reg) THEN reg.idt ELSE NoEvent
       \/ SendMsg(reg, Exited(fp), "ept") /\ owed' = reg.idt
       \/ Back([reg EXCEPT !.ent = PF], Exited(fp)) /\ owed' = PF

GuestPageFault ==
    /\ InGuest /\ Other /\ UNCHANGED want
    /\ "PF" \in r.exc
    /\ Miss(r)

\* An exit the kernel leaves to the monitor; under nested paging, a fault.
GuestExit ==
    /\ InGuest /\ Other /\ UNCHANGED <<owed, want>>
    /\ HostXsv
    /\ SendMsg(r, Exited(fp), "other")

\* vmx_extint, and 0x60 of handle_svm: VEC_IPI_RKE or another interrupt.
GuestInterrupted ==
    /\ InGuest /\ UNCHANGED <<m, rke, owed, want>>
    /\ ipi' = FALSE
    /\ HostXsv
    /\ Back([r EXCEPT !.portal = "recall"], Exited(fp))

GuestRuns(v) ==
    /\ InGuest /\ Other /\ UNCHANGED owed
    /\ want' = [want EXCEPT !.state = v]
    /\ Direct([r EXCEPT !.state = v])

-----------------------------------------------------------------------------
(* ret_user_vmresume and ret_user_vmrun.                                   *)

Ready == at = "ready" /\ cur = V

\* HZD_SCHED: another context is scheduled.
Preempted ==
    /\ Ready /\ UNCHANGED <<m, r, at, xcr, rke, ipi, want, owed>>
    /\ cur' = S /\ utcb' = Nothing
    /\ fp' = CheckFpu(ClaimFpu(fp, S), S)

\* HZD_RECALL.
Recalled ==
    /\ Ready /\ UNCHANGED <<m, xcr, rke, ipi, want, owed>>
    /\ "RECALL" \in r.hzd
    /\ SendMsg([r EXCEPT !.hzd = @ \ {"RECALL"}], fp, "recall")

\* Mutant: HZD_RECALL is missing from the hazards that are looked at.
CheckedAnyway ==
    /\ Ready /\ UNCHANGED <<m, cur, utcb, xcr, fp, rke, ipi, want, owed>>
    /\ r' = IF "TSC" \in r.hzd THEN [r EXCEPT !.tsc = TRUE, !.hzd = @ \ {"TSC"}] ELSE r
    /\ at' = "enter"
\* No hazard, or HZD_TSC, which writes the TSC offset.
Checked ==
    /\ Ready /\ UNCHANGED <<m, cur, utcb, xcr, fp, rke, ipi, want, owed>>
    /\ "RECALL" \notin r.hzd
    /\ r' = IF "TSC" \in r.hzd THEN [r EXCEPT !.tsc = TRUE, !.hzd = @ \ {"TSC"}] ELSE r
    /\ at' = "enter"

Entering == at = "enter" /\ cur = V

\* VMX rejects a guest with paging and no protection; SVM runs it.
Invalid == ~m.svm /\ "PG" \in r.g0 /\ "PE" \notin r.g0

Enter ==
    /\ Entering /\ ~Invalid /\ Other /\ UNCHANGED <<fp, cur, utcb, want>>
    /\ xcr' = r.xcr
    /\ at' = "guest" /\ owed' = IF r.ent = NoEvent THEN owed ELSE NoEvent
    /\ r' = [r EXCEPT !.ent = NoEvent, !.idt = NoEvent]

EnterFails ==
    /\ Entering /\ Invalid /\ Other /\ UNCHANGED <<xcr, want, owed>>
    /\ SendMsg(r, Exited(fp), "invalid")

\* Delivery of the event faults, in the virtual TLB or the nested page table.
EnterFaults ==
    /\ Entering /\ ~Invalid /\ r.ent # NoEvent /\ Other /\ UNCHANGED want
    /\ LET x == [r EXCEPT !.idt = r.ent, !.ent = NoEvent]
       IN  \/ ~r.nst /\ Miss(Reinjected(x))
           \/ r.nst /\ HostXsv /\ SendMsg(x, Exited(fp), "ept") /\ UNCHANGED owed

-----------------------------------------------------------------------------
(* Monitor and thread.                                                     *)

User == cur \in {M, S}

UserUsesFpu ==
    /\ User /\ m.fpu /\ Other /\ UNCHANGED <<xcr, want, owed>> /\ NoSwitch
    /\ IF fp.ts THEN LET x == HandleNm(r, fp, cur) IN r' = x[1] /\ fp' = CheckFpu(x[2], cur)
                ELSE r' = r /\ fp' = Used(fp, cur)

\* The values a monitor that was shown u sends for item i: EFER consistent
\* with the control registers, another event only when none is due.
Values(i, u) ==
    CASE i = "STATE" -> {0, 1}
      [] i = "CR"    -> m.cr0 \X m.cr3 \X m.cr4
      [] i = "EFER"  -> {{}, {"LME"}}
      [] i = "INJ"   -> IF u["INJ"] = NoEvent THEN m.events \cup {NoEvent} ELSE {u["INJ"]}
      [] i = "XSAVE" -> m.xcr
      [] OTHER       -> {TRUE}
ValuesIf(i, mtd, u) == IF i \in mtd THEN Values(i, u) ELSE {FALSE}

\* The state x is written: save_vmx or save_svm, then import_fpu_data.
Written(x) == Import(Save(m, r, x), fp, x)

Replies(u) ==
    UNION { { [i \in mtd |-> CASE i = "STATE" -> st [] i = "CR" -> cr [] i = "INJ" -> inj
                               [] i = "XSAVE" -> xs [] i = "EFER" -> LmaOf(ef, (IF "CR" \in mtd THEN cr ELSE <<want.cr0>>)[1])
                               [] OTHER -> TRUE] :
              st \in ValuesIf("STATE", mtd, u), cr \in ValuesIf("CR", mtd, u), inj \in ValuesIf("INJ", mtd, u),
              xs \in ValuesIf("XSAVE", mtd, u), ef \in ValuesIf("EFER", mtd, u) } :
            mtd \in {t \in m.mtds : "INJ" \in t => Sent(u, "INJ")} }

\* What the guest has a right to see after a monitor wrote x.
Wanted(x) ==
    LET a == IF Sent(x, "CR") THEN [want EXCEPT !.cr0 = x["CR"][1], !.cr3 = x["CR"][2], !.cr4 = x["CR"][3],
                                                !.efer = LmaOf(@, x["CR"][1])] ELSE want
        b == IF Sent(x, "EFER") THEN [a EXCEPT !.efer = x["EFER"]] ELSE a
    IN  IF Sent(x, "STATE") THEN [b EXCEPT !.state = x["STATE"]] ELSE b

\* What is due to be delivered after a monitor wrote x.
Owed(x, reg) == IF Sent(x, "INJ") THEN x["INJ"] ELSE reg.ent

\* sys_reply: V becomes current.
Reply ==
    /\ cur = M /\ at = "portal" /\ Other /\ UNCHANGED xcr
    /\ \E x \in Replies(utcb) :
        /\ r' = Written(x)[1] /\ fp' = ClaimFpu(Written(x)[2], V)
        /\ want' = Wanted(x) /\ owed' = Owed(x, r)
    /\ at' = "ready" /\ cur' = V /\ utcb' = Nothing

\* EC_GET_VCPU_STATE and EC_SET_VCPU_STATE, on V while it is preempted.
GetState ==
    /\ cur = S /\ at = "ready" /\ Other /\ UNCHANGED <<at, cur, xcr, want, owed>>
    /\ \E mtd \in m.mtds :
        LET x == Export([r EXCEPT !.hzd = @ \cup {"RECALL"}], fp, [i \in mtd |-> TRUE])
        IN  /\ utcb' = Load(m, r, mtd)
            /\ r' = x[1] /\ fp' = CheckFpu(x[2], S)

SetState(recall) ==
    /\ cur = S /\ at = "ready" /\ Other /\ UNCHANGED <<at, cur, xcr>>
    /\ \E x \in Replies(utcb) :
        /\ r' = [Written(x)[1] EXCEPT !.hzd = IF recall THEN @ ELSE @ \ {"RECALL"}, !.portal = "recall"]
        /\ fp' = CheckFpu(Written(x)[2], S)
        /\ want' = Wanted(x) /\ owed' = Owed(x, r)
    /\ utcb' = Nothing

\* A user-mode context is preempted by another one that can run.
Schedule(e) ==
    /\ User /\ e # cur /\ UNCHANGED <<m, r, at, xcr, rke, ipi, want, owed>>
    /\ e = IF cur = M THEN S ELSE IF at = "portal" THEN M ELSE V
    /\ fp' = IF e = V THEN ClaimFpu(fp, e) ELSE CheckFpu(ClaimFpu(fp, e), e)
    /\ cur' = e
    /\ utcb' = IF at = "portal" THEN utcb ELSE Nothing

\* VEC_IPI_RKE while something else runs.
TakeIpi == User /\ ipi /\ ipi' = FALSE /\ UNCHANGED <<m, r, at, cur, utcb, xcr, fp, rke, want, owed>>

\* EC_RECALL on another CPU: test the hazard, set it, test Ec::current.
RecallStart ==
    /\ m.rec /\ rke = "idle" /\ "RECALL" \notin r.hzd
    /\ rke' = "set" /\ UNCHANGED <<m, r, at, cur, utcb, xcr, fp, ipi, want, owed>>
RecallSet ==
    /\ rke = "set" /\ rke' = "check" /\ r' = [r EXCEPT !.hzd = @ \cup {"RECALL"}]
    /\ UNCHANGED <<m, at, cur, utcb, xcr, fp, ipi, want, owed>>
RecallCheck ==
    /\ rke = "check" /\ rke' = "idle" /\ ipi' = (ipi \/ cur = V)
    /\ UNCHANGED <<m, r, at, cur, utcb, xcr, fp, want, owed>>

GuestStep ==
    \/ \E v \in m.cr0 : MovToCr0(v)
    \/ \E v \in m.cr3 : MovToCr3(v)
    \/ \E v \in m.cr4 : MovToCr4(v)
    \/ \E v \in {0, 1} : GuestRuns(v)
    \/ Clts \/ Invlpg \/ GuestUsesFpu \/ GuestPageFault \/ GuestExit \/ GuestInterrupted

Next ==
    \/ GuestStep
    \/ Preempted \/ Recalled \/ Checked \/ Enter \/ EnterFails \/ EnterFaults
    \/ UserUsesFpu \/ Reply \/ GetState
    \/ \E b \in BOOLEAN : SetState(b)
    \/ \E e \in Ecs : Schedule(e)
    \/ TakeIpi \/ RecallStart \/ RecallSet \/ RecallCheck

Spec == Init /\ [][Next]_vars

-----------------------------------------------------------------------------
(* What the guest reads, with and without an exit.                         *)

ReadCr0 == IF m.svm THEN IF "CR0" \in r.ctl THEN GetCr0(m, r) ELSE r.g0
                    ELSE (r.g0 \ r.m0) \cup (r.s0 \cap r.m0)
ReadCr3 == IF "CR3" \in r.ctl THEN GetCr3(m, r) ELSE r.g3
ReadCr4 == IF m.svm THEN IF "CR4" \in r.ctl THEN GetCr4(m, r) ELSE r.g4
                    ELSE (r.g4 \ r.m4) \cup (r.s4 \cap r.m4)

\* The guest reads the control registers, EFER and state that it or its
\* monitor wrote last, whatever the kernel forced on for the virtual TLB and
\* the FPU since (get_cr0 to set_cr4, nst_ctrl, fpu_ctrl, write_cr,
\* write_efer), and a monitor is shown the same.
GuestSeesIdeal ==
    /\ <<ReadCr0, ReadCr3, ReadCr4, r.efer, r.state>> = <<want.cr0, want.cr3, want.cr4, want.efer, want.state>>
    /\ m.svm \/ r.g64 = ("LMA" \in r.efer)
    /\ Sent(utcb, "CR") => utcb["CR"] = <<want.cr0, want.cr3, want.cr4>>
    /\ Sent(utcb, "EFER") => utcb["EFER"] = want.efer

\* While the guest runs on the virtual TLB, the TLB holds nothing that was
\* filled in under other control registers than the guest's present ones
\* (the flushes of write_cr).
VtlbContext ==
    InGuest /\ ~r.nst =>
        /\ r.g3 = VtlbRoot
        /\ r.tlb \in {Empty, <<want.cr0 \cap {"PG", "WP"}, want.cr3, want.cr4 \cap {"PSE", "PAE", "PGE"}>>}


\* A recall reaches the monitor: the guest runs with HZD_RECALL set only while
\* an interrupt that ends its run is pending or about to be sent (EC_RECALL).
RecallNotLost == InGuest /\ "RECALL" \in r.hzd => ipi \/ rke = "check"

\* A context that can use the FPU without a trap finds its own values in it
\* (handle_exc_nm, claim_fpu, HZD_FPU, import_fpu_data, export_fpu_data);
\* without fpu_lazy no user context traps.
OwnFpuState ==
    /\ InGuest /\ "TS" \notin r.g0 => fp.hw = V
    /\ User /\ ~fp.ts => fp.hw = cur
    /\ User /\ ~m.lazy => ~fp.ts

\* The guest runs with its own XCR0, which XSETBV accepts, and with the TSC
\* offset it was given; user contexts run with the host's XCR0.
WorldSwitched ==
    /\ InGuest => xcr = r.xcr /\ LegalXcr(xcr) /\ r.tsc
    /\ User => xcr = HostXcr
=============================================================================
