----------------------------- MODULE UtcbState ------------------------------
(***************************************************************************)
(* Moving a virtual CPU's state to and from a UTCB: utcb.cpp, mtd.hpp.     *)
(*                                                                         *)
(* A message transfer descriptor is a set of items.  STATE stands for the  *)
(* groups that are copied as they are, in both directions and for both     *)
(* machines (general-purpose registers, segments, descriptor tables, DR7,  *)
(* SYSENTER and SYSCALL registers, TPR, PDPTE); QUAL is only read by the   *)
(* monitor and left out.  A UTCB is a function from the items transferred. *)
(***************************************************************************)
EXTENDS CpuRegs

Items == {"STATE", "CR", "EFER", "INJ", "TSC", "XSAVE", "FPU"}

Components == {"X87", "SSE", "AVX", "AVX512"}
HostXcr == {"X87", "SSE", "AVX"}

\* constrain_xcr.
ConstrainXcr(v) ==
    LET a == IF "AVX512" \in v THEN v \cup {"AVX"} ELSE v
        b == IF "AVX" \in a THEN a \cup {"SSE"} ELSE a
    IN  HostXcr \cap (b \cup {"X87"})

\* A value XSETBV accepts.
LegalXcr(v) ==
    "X87" \in v /\ ("AVX" \in v => "SSE" \in v) /\ ("AVX512" \in v => "AVX" \in v) /\ v \subseteq HostXcr

Shown(r) == IF r.portal \in {"invalid", "recall"} THEN r.ent ELSE r.idt

\* load_vmx and load_svm.
LoadVmx(m, r, mtd) ==
    [i \in mtd |->
        CASE i = "STATE" -> r.state
          [] i = "CR"    -> <<GetCr0(m, r), GetCr3(m, r), GetCr4(m, r)>>
          [] i = "EFER"  -> r.efer
          [] i = "INJ"   -> Shown(r)
          [] i = "XSAVE" -> r.xcr
          [] OTHER       -> TRUE]
LoadSvm(m, r, mtd) == LoadVmx(m, r, mtd)
Load(m, r, mtd) == IF m.svm THEN LoadSvm(m, r, mtd) ELSE LoadVmx(m, r, mtd)

Sent(u, i) == i \in DOMAIN u

\* The groups in the order save_vmx and save_svm write them.
SaveCr(m, r, u) ==
    IF Sent(u, "CR") THEN WriteCr4(m, WriteCr3(m, WriteCr0(m, r, u["CR"][1]), u["CR"][2]), u["CR"][3]) ELSE r
SaveInj(m, r, u) == IF Sent(u, "INJ") THEN [r EXCEPT !.ent = u["INJ"]] ELSE r

\* add_tsc_offset.
SaveTsc(r, u) == IF Sent(u, "TSC") THEN [r EXCEPT !.tsc = FALSE, !.hzd = @ \cup {"TSC"}] ELSE r
SaveXsave(r, u) == IF Sent(u, "XSAVE") THEN [r EXCEPT !.xcr = ConstrainXcr(u["XSAVE"])] ELSE r
SaveEfer(m, r, u) == IF Sent(u, "EFER") THEN WriteEfer(m, r, u["EFER"]) ELSE r

SaveVmx(m, r, u) ==
    LET a == IF Sent(u, "STATE") THEN [r EXCEPT !.state = u["STATE"]] ELSE r
        b == SaveEfer(m, SaveXsave(SaveTsc(SaveInj(m, SaveCr(m, a, u), u), u), u), u)
    IN  [b EXCEPT !.portal = "recall"]
SaveSvm(m, r, u) == SaveVmx(m, r, u)
Save(m, r, u) == IF m.svm THEN SaveSvm(m, r, u) ELSE SaveVmx(m, r, u)
=============================================================================
