-------------------------------- MODULE Xcpu --------------------------------
(***************************************************************************)
(* Calls to a portal on another CPU (syscall.cpp, ec.cpp), the calls for   *)
(* more memory (oom.cpp), and the lifetime of the objects they need        *)
(* (refptr.hpp, sc.cpp, ec.hpp).                                           *)
(*                                                                         *)
(* The caller A, on CPU 0 with the scheduling context a, has a clone of    *)
(* itself, X with S, make the call on the portal's CPU, and waits on a     *)
(* semaphore of that call.  The clone is kept for the next call, to        *)
(* whatever CPU.  A call for more memory uses a clone of its own, O with   *)
(* P.  When the capabilities of a and A are revoked, all of it must go.    *)
(*                                                                         *)
(* A CPU in user mode or idle holds no pointer from before: the grace      *)
(* period of an object (module Rcu) is over when every CPU that was in the *)
(* kernel when Rcu::call was called has left it.  How threads wait on a    *)
(* semaphore is the subject of Semaphore; here, dn and up are one step.    *)
(***************************************************************************)
EXTENDS Integers, FiniteSets

CONSTANTS Remote,     \* CPUs of portals; the caller's is 0
          Sms,        \* identifiers of semaphores
          Workloads   \* [calls, ooms, dies, again: how often; oom: the CPU of
                      \*  the portal for more memory; revoke, mid: are the
                      \*  capabilities revoked, also in the middle of a call]

VARIABLES
    w,                \* the workload
    cpu,              \* of each CPU: where it is, for whom (X or O), sm to wake
    pt, status,       \* of A, X and O: the portal's CPU, the status (ARG_1)
    ec,               \* of X and O: cont, xcpu_sm
    a_cont, a_sm,     \* A's cont and xcpu_sm
    dead,             \* the CPUs whose handler has died
    g,                \* the objects: references, RCU, places of the SCs, sms
    n                 \* budgets

vars == <<w, cpu, pt, status, ec, a_cont, a_sm, dead, g, n>>

Cpu == {0} \cup Remote
None == "none"
Clone == {"X", "O"}
ScOf(x) == IF x = "X" THEN "S" ELSE IF x = "O" THEN "P" ELSE "a"
EcOf(s) == IF s = "S" THEN "X" ELSE IF s = "P" THEN "O" ELSE "A"

Quiescent == {"idle", "user", "handler"}
Kernel(k) == {c \in Cpu : k[c].pc \notin Quiescent}

Init ==
    /\ w \in Workloads
    /\ cpu = [c \in Cpu |-> [pc |-> IF c = 0 THEN "user" ELSE "idle", ec |-> None, sm |-> None]]
    /\ pt = [x \in {"A"} \cup Clone |-> 0] /\ status = [x \in {"A"} \cup Clone |-> "SUCCESS"]
    /\ ec = [x \in Clone |-> [cont |-> "dead", sm |-> None]]
    /\ a_cont = "user" /\ a_sm = None
    /\ dead = {}
    /\ g = [ref |-> [o \in {"A", "a", "X", "S", "O", "P"} |-> CASE o = "A" -> 3 [] o = "a" -> 2 [] OTHER -> 0],
            live |-> {"A", "a"}, held |-> {}, rcu |-> {}, stale |-> FALSE,
            sc |-> [s \in {"a", "S", "P"} |-> [cpu |-> 0, at |-> IF s = "a" THEN {<<"current", 0>>} ELSE {}, disable |-> FALSE]],
            sm |-> [k \in Sms |-> [live |-> FALSE, counter |-> 0, waits |-> FALSE]]]
    /\ n = [calls |-> w.calls, ooms |-> w.ooms, dies |-> w.dies, again |-> w.again, revoke |-> IF w.revoke THEN 2 ELSE 0]

-----------------------------------------------------------------------------
(* References and RCU                                                      *)

AddRef(f, o) == [f EXCEPT !.ref[o] = @ + 1]

\* Rcu_list::enqueue: an object that is in a list stays where it is.
Queued(f, o, c, k) ==
    IF \E e \in f.rcu : e.o = o THEN f
    ELSE [f EXCEPT !.rcu = @ \cup {[o |-> o, cpu |-> c, wait |-> Kernel(k)]}]

\* (Mutant: the clone's SC stays.)
PreFreeEc(f, c, k) == [(IF "X" \in f.held THEN Queued(f, "X", c, k) ELSE f) EXCEPT !.held = {}]

\* Ec::pre_free of the caller: its clone goes with it.
PreFree(f, c, k) ==
    LET f1 == IF "X" \in f.held THEN Queued(f, "X", c, k) ELSE f
        f2 == IF "S" \in f.held THEN Queued(f1, "S", c, k) ELSE f1
    IN  [f2 EXCEPT !.held = {}]

\* Rcu::call
RcuCall(f, o, c, k) == Queued(IF o = "A" THEN PreFree(f, c, k) ELSE f, o, c, k)

\* Refcount::del_rcu, and Rcu::call if it was the last reference
DelRcu(f, o, c, k) == IF f.ref[o] = 1 THEN RcuCall(f, o, c, k) ELSE [f EXCEPT !.ref[o] = @ - 1]

Destroyed(f, o) == [f EXCEPT !.live = @ \ {o}, !.ref[o] = 0]

\* Sc::remote_enqueue and Sc::ready_enqueue, without the reference
Enqueue(f, s, c) ==
    [f EXCEPT !.sc[s].at = @ \cup {<<IF f.sc[s].cpu = c THEN "ready" ELSE "rq", f.sc[s].cpu>>}]

\* Ec::release: a waiting SC that has lost its other references is freed
Released(f, c, k) ==
    LET f1 == [f EXCEPT !.sc["a"].at = @ \ {<<"blocked", 0>>}]
    IN  IF f.ref["a"] = 1 THEN RcuCall(f1, "a", c, k) ELSE Enqueue(f1, "a", c)

\* Sm::up
Up(f, s, c, k) ==
    IF f.sm[s].waits THEN DelRcu(Released([f EXCEPT !.sm[s].waits = FALSE], c, k), "A", c, k)
    ELSE [f EXCEPT !.sm[s].counter = @ + 1]

\* The CPUs that have left the kernel
Quiet(f, k) == [f EXCEPT !.rcu = {[e EXCEPT !.wait = @ \cap Kernel(k)] : e \in @}]

Goto(c, l) == [cpu EXCEPT ![c].pc = l]
Step(f, k) == cpu' = k /\ g' = Quiet(f, k)

-----------------------------------------------------------------------------
(* RCU callbacks                                                           *)

\* Ec::~Ec: an EC that still has an xcpu_sm wakes it.
DestroyEc(f, o, c) ==
    LET sm == IF o = "A" THEN a_sm ELSE ec[o].sm
        f1 == Destroyed(IF sm = None THEN f ELSE Up([f EXCEPT !.stale = TRUE], sm, c, cpu), o)
    IN  IF o = "A" THEN PreFree(f1, c, cpu) ELSE DelRcu(f1, "A", c, cpu)

\* Ec::free
FreeEc(f, o, c) == IF f.ref[o] > 1 THEN [f EXCEPT !.ref[o] = @ - 1] ELSE DestroyEc(f, o, c)

\* (Mutant: the SC is sent whoever else has it.)
RemoveBusy(f, s, c) ==
    IF f.sc[s].cpu = c THEN [f EXCEPT !.ref[s] = @ - 1] ELSE Enqueue([f EXCEPT !.sc[s].disable = TRUE], s, c)

\* Sc::remove: an SC of another CPU is sent there to be freed.
Remove(f, s, c) ==
    IF f.sc[s].cpu = c THEN [f EXCEPT !.ref[s] = @ - 1]
    ELSE IF f.ref[s] > 1 THEN [f EXCEPT !.ref[s] = @ - 1]
    ELSE Enqueue([f EXCEPT !.sc[s].disable = TRUE], s, c)

\* Sc::free, Sc::free_xcpu
FreeSc(f, s, c) ==
    LET f1 == Remove(f, s, c)
    IN  IF f1.ref[s] > 0 THEN f1 ELSE DelRcu(Destroyed(f1, s), EcOf(s), c, cpu)

FreeSm(f, s) == [f EXCEPT !.sm[s].live = FALSE]

Invoke(e) ==
    /\ e.wait = {} /\ cpu[e.cpu].pc \in Quiescent
    /\ LET f == [g EXCEPT !.rcu = @ \ {e}]
       IN  g' = IF e.o \in Sms THEN FreeSm(f, e.o)
                ELSE IF e.o \in {"a", "S", "P"} THEN FreeSc(f, e.o, e.cpu)
                ELSE FreeEc(f, e.o, e.cpu)
    /\ a_sm' = IF "A" \in g.live \ g'.live THEN None ELSE a_sm
    /\ ec' = [x \in Clone |-> IF x \in g.live \ g'.live THEN [cont |-> "dead", sm |-> None] ELSE ec[x]]
    /\ UNCHANGED <<w, cpu, pt, status, a_cont, dead, n>>

-----------------------------------------------------------------------------
(* The caller                                                              *)

Running == <<"current", 0>> \in g.sc["a"].at
NewSm == CHOOSE k \in Sms : ~g.sm[k].live

\* Sm::Sm; Ec::Ec with rcap; Sc::Sc
WithSm(f) == [f EXCEPT !.sm[NewSm] = [live |-> TRUE, counter |-> 0, waits |-> FALSE]]
\* (Mutant: the clone has no reference to its caller.)
WithCloneOnly(f, x, c) ==
    [f EXCEPT !.live = @ \cup {x, ScOf(x)}, !.ref[x] = 2, !.ref[ScOf(x)] = 1,
              !.sc[ScOf(x)] = [cpu |-> c, at |-> {}, disable |-> FALSE]]

WithClone(f, x, c) ==
    [f EXCEPT !.live = @ \cup {x, ScOf(x)}, !.ref["A"] = @ + 1, !.ref[x] = 2, !.ref[ScOf(x)] = 1,
              !.sc[ScOf(x)] = [cpu |-> c, at |-> {}, disable |-> FALSE]]

\* Ec::xcpu_clone
CloneEc(x, cont) == ec' = [ec EXCEPT ![x] = [cont |-> cont, sm |-> NewSm]]

\* Sc::xcpu_clone
Cloned(f, c) == [f EXCEPT !.sc["S"].cpu = c, !.sc["S"].disable = FALSE]

Call(c) ==
    /\ cpu[0].pc = "user" /\ Running /\ n.calls > 0
    /\ n' = [n EXCEPT !.calls = @ - 1]
    /\ pt' = [pt EXCEPT !["A"] = c]
    /\ status' = [status EXCEPT !["A"] = "SUCCESS"]
    /\ Step(g, Goto(0, "call"))
    /\ UNCHANGED <<w, ec, a_cont, a_sm, dead>>

\* Ec::sys_call at home: a portal that does not exist (its selector is lost)
BadPortal ==
    /\ cpu[0].pc = "call" /\ pt["A"] = 0
    /\ Step(g, Goto(0, "user"))
    /\ UNCHANGED <<w, pt, status, ec, a_cont, a_sm, dead, n>>

\* Ec::sys_xcpu_call, up to the SC's reference
SysXcpuCall ==
    /\ cpu[0].pc = "call" /\ pt["A"] # 0 /\ \E k \in Sms : ~g.sm[k].live
    /\ IF "S" \in g.held /\ g.ref["S"] # 1
       THEN /\ Step(g, Goto(0, "user"))
            /\ UNCHANGED <<ec, a_sm, a_cont, pt, status>>
       ELSE /\ Step([AddRef(IF "S" \in g.held THEN Cloned(WithSm(g), pt["A"]) ELSE WithClone(WithSm(g), "X", pt["A"]), "S")
                       EXCEPT !.held = {"X", "S"}], [cpu EXCEPT ![0].pc = "enqueue", ![0].ec = "X"])
            /\ CloneEc("X", "sys_call")
            /\ pt' = [pt EXCEPT !["X"] = pt["A"]] /\ status' = [status EXCEPT !["X"] = status["A"]]
            /\ a_sm' = NewSm /\ a_cont' = "ret_xcpu_reply"
    /\ UNCHANGED <<w, dead, n>>

\* Ec::oom_xcpu, up to Sc::remote_enqueue
OomXcpu ==
    /\ Step(WithClone(WithSm(g), "O", w.oom), [cpu EXCEPT ![0].pc = "enqueue", ![0].ec = "O"])
    /\ CloneEc("O", "sys_xcpu_call_oom")
    /\ pt' = [pt EXCEPT !["O"] = w.oom]
    /\ a_sm' = NewSm /\ a_cont' = "ret_xcpu_reply_oom"
    /\ UNCHANGED <<w, status, dead>>

\* Ec::oom_call_cpu, from Ec::sys_call
OomCallCpu ==
    /\ cpu[0].pc = "call" /\ pt["A"] # 0 /\ \E k \in Sms : ~g.sm[k].live
    /\ n.ooms > 0 /\ {"O", "P"} \cap g.live = {}
    /\ n' = [n EXCEPT !.ooms = @ - 1]
    /\ OomXcpu

RemoteEnqueue ==
    /\ cpu[0].pc = "enqueue"
    /\ Step(Enqueue(AddRef(g, ScOf(cpu[0].ec)), ScOf(cpu[0].ec), 0), Goto(0, "dn"))
    /\ UNCHANGED <<w, pt, status, ec, a_cont, a_sm, dead, n>>

\* Sm::dn: A waits in the semaphore, its SC in A.
Dn ==
    /\ cpu[0].pc = "dn"
    /\ LET f == [g EXCEPT !.sm[a_sm].waits = TRUE, !.sc["a"].at = {<<"blocked", 0>>}]
       IN  IF g.sm[a_sm].counter > 0
           THEN Step([g EXCEPT !.sm[a_sm].counter = @ - 1], Goto(0, a_cont))
           ELSE Step(DelRcu(AddRef(f, "A"), "A", 0, cpu), Goto(0, "idle"))
    /\ UNCHANGED <<w, pt, status, ec, a_cont, a_sm, dead, n>>

\* Ec::ret_xcpu_reply: a status other than success repeats the call.
RetXcpuReply ==
    /\ cpu[0].pc = "ret_xcpu_reply"
    /\ Step(RcuCall(g, a_sm, 0, cpu), Goto(0, IF status["A"] = "SUCCESS" THEN "user" ELSE "call"))
    /\ status' = [status EXCEPT !["A"] = "SUCCESS"]
    /\ a_sm' = None /\ a_cont' = "user"
    /\ UNCHANGED <<w, pt, ec, dead, n>>

\* Ec::ret_xcpu_reply_oom
RetXcpuReplyOom ==
    /\ cpu[0].pc = "ret_xcpu_reply_oom"
    /\ Step(RcuCall(g, a_sm, 0, cpu), Goto(0, "call"))
    /\ a_sm' = None /\ a_cont' = "user"
    /\ UNCHANGED <<w, pt, status, ec, dead, n>>

-----------------------------------------------------------------------------
(* Scheduling                                                              *)

\* Sc::rrq_handler
RrqHandler(c, s) ==
    /\ cpu[c].pc \in Quiescent /\ <<"rq", c>> \in g.sc[s].at
    /\ LET f == [g EXCEPT !.sc[s].at = @ \ {<<"rq", c>>}]
       IN  g' = Quiet(IF f.sc[s].disable /\ s = "a" THEN DelRcu(f, s, c, cpu) ELSE Enqueue(f, s, c), cpu)
    /\ UNCHANGED <<w, cpu, pt, status, ec, a_cont, a_sm, dead, n>>

\* Sc::schedule to an SC that is ready, Ec::activate, Ec::make_current
Dispatch(c, s) ==
    /\ cpu[c].pc = "idle" /\ <<"ready", c>> \in g.sc[s].at
    /\ LET f == AddRef([g EXCEPT !.sc[s].at = (@ \ {<<"ready", c>>}) \cup {<<"current", c>>}], EcOf(s))
       IN  Step(f, [cpu EXCEPT ![c].pc = IF s = "a" THEN a_cont ELSE ec[EcOf(s)].cont, ![c].ec = EcOf(s)])
    /\ UNCHANGED <<w, pt, status, ec, a_cont, a_sm, dead, n>>

\* Sc::schedule of a current SC that is disabled
Deschedule ==
    /\ cpu[0].pc = "user" /\ Running /\ g.sc["a"].disable
    /\ Step(DelRcu(DelRcu([g EXCEPT !.sc["a"].at = @ \ {<<"current", 0>>}], "a", 0, cpu), "A", 0, cpu), Goto(0, "idle"))
    /\ UNCHANGED <<w, pt, status, ec, a_cont, a_sm, dead, n>>

-----------------------------------------------------------------------------
(* The clone                                                               *)

\* Ec::sys_call of the clone: the handler runs in user mode; or there is no
\* memory, or the handler is dead.
CloneCall(c) ==
    /\ cpu[c].pc = "sys_call" /\ c \notin dead
    /\ ec' = [ec EXCEPT !["X"].cont = "xcpu_return"]
    /\ Step(g, Goto(c, "handler"))
    /\ UNCHANGED <<w, pt, status, a_cont, a_sm, dead, n>>

CloneOom(c) ==
    /\ cpu[c].pc = "sys_call" /\ n.again > 0
    /\ n' = [n EXCEPT !.again = @ - 1]
    /\ status' = [status EXCEPT !["X"] = "QUO_OOM"]
    /\ Step(g, Goto(c, "xcpu_return"))
    /\ UNCHANGED <<w, pt, ec, a_cont, a_sm, dead>>

\* Ec::sys_finish: the status takes the place of the portal's selector.
Finished(s) == status' = [status EXCEPT !["X"] = s] /\ pt' = [pt EXCEPT !["X"] = 0]

CloneFails(c) ==
    /\ cpu[c].pc = "sys_call" /\ c \in dead
    /\ Finished("COM_TIM")
    /\ Step(g, Goto(c, "xcpu_return"))
    /\ UNCHANGED <<w, ec, a_cont, a_sm, dead, n>>

\* Ec::sys_reply, Ec::reply: the clone goes on with its cont
Reply(c) ==
    /\ cpu[c].pc = "handler"
    /\ Step(g, Goto(c, ec[cpu[c].ec].cont))
    /\ UNCHANGED <<w, pt, status, ec, a_cont, a_sm, dead, n>>

\* Ec::sys_reply with a semaphore, after the wait in it: the call is to be
\* repeated
ReplyAgain(c) ==
    /\ cpu[c].pc = "handler" /\ cpu[c].ec = "X" /\ n.again > 0
    /\ n' = [n EXCEPT !.again = @ - 1]
    /\ status' = [status EXCEPT !["X"] = "BAD_HYP"]
    /\ Step(g, Goto(c, "xcpu_return"))
    /\ UNCHANGED <<w, pt, ec, a_cont, a_sm, dead>>

\* Ec::die of the handler
Die(c) ==
    /\ cpu[c].pc = "handler" /\ cpu[c].ec = "X" /\ n.dies > 0
    /\ n' = [n EXCEPT !.dies = @ - 1]
    /\ dead' = dead \cup {c}
    /\ Finished("COM_ABT")
    /\ Step(g, Goto(c, "xcpu_return"))
    /\ UNCHANGED <<w, ec, a_cont, a_sm>>

\* Ec::xcpu_revert: the caller has the clone's registers.
XcpuRevert ==
    /\ status' = [status EXCEPT !["A"] = status["X"]] /\ pt' = [pt EXCEPT !["A"] = pt["X"]]
    /\ ec' = [ec EXCEPT !["X"] = [cont |-> "dead", sm |-> None]]

\* (Mutant: the semaphore is read after it has been reset.)
XcpuReturnReset(c) ==
    /\ cpu[c].pc = "xcpu_return"
    /\ XcpuRevert
    /\ Step(IF g.ref["S"] = 1 THEN g ELSE [g EXCEPT !.ref["S"] = @ - 1], Goto(c, "suspend"))
    /\ UNCHANGED <<w, a_cont, a_sm, dead, n>>

\* Ec::xcpu_return up to Sc::schedule_wo_activate
XcpuReturn(c) ==
    /\ cpu[c].pc = "xcpu_return"
    /\ XcpuRevert
    /\ Step(IF g.ref["S"] = 1 THEN g ELSE [g EXCEPT !.ref["S"] = @ - 1], [cpu EXCEPT ![c].pc = "suspend", ![c].sm = ec["X"].sm])
    /\ UNCHANGED <<w, a_cont, a_sm, dead, n>>

\* Sc::schedule_wo_activate
Suspend(c) ==
    /\ cpu[c].pc = "suspend"
    /\ Step(DelRcu([g EXCEPT !.sc["S"].at = @ \ {<<"current", c>>}], "S", c, cpu), Goto(c, "up"))
    /\ UNCHANGED <<w, pt, status, ec, a_cont, a_sm, dead, n>>

\* The rest of Ec::xcpu_return: the caller is woken ...
Wake(c) ==
    /\ cpu[c].pc = "up"
    /\ Step(IF cpu[c].sm = None THEN g ELSE Up(g, cpu[c].sm, c, cpu), [cpu EXCEPT ![c].pc = "leave", ![c].sm = None])
    /\ UNCHANGED <<w, pt, status, ec, a_cont, a_sm, dead, n>>

\* ... and the next EC made current
Leave(c) ==
    /\ cpu[c].pc = "leave"
    /\ Step(DelRcu(g, cpu[c].ec, c, cpu), [cpu EXCEPT ![c].pc = "idle", ![c].ec = None])
    /\ UNCHANGED <<w, pt, status, ec, a_cont, a_sm, dead, n>>

\* Ec::oom_call
OomCall(c) ==
    /\ ec' = [ec EXCEPT !["O"].cont = "oom_xcpu_return"]
    /\ Step(g, Goto(c, "handler"))
    /\ UNCHANGED <<w, pt, status, a_cont, a_sm, dead, n>>

SysXcpuCallOom(c) == cpu[c].pc = "sys_xcpu_call_oom" /\ OomCall(c)

\* Ec::oom_xcpu_return, up to Sm::up
OomXcpuReturn(c) ==
    /\ cpu[c].pc = "oom_xcpu_return"
    /\ ec' = [ec EXCEPT !["O"] = [cont |-> "dead", sm |-> None]]
    /\ Step(RcuCall(RcuCall(g, "O", c, cpu), "P", c, cpu), [cpu EXCEPT ![c].pc = "oom_up", ![c].sm = ec["O"].sm])
    /\ UNCHANGED <<w, pt, status, a_cont, a_sm, dead, n>>

OomWake(c) ==
    /\ cpu[c].pc = "oom_up"
    /\ Step(Up(g, cpu[c].sm, c, cpu), [cpu EXCEPT ![c].pc = "schedule", ![c].sm = None])
    /\ UNCHANGED <<w, pt, status, ec, a_cont, a_sm, dead, n>>

\* Ec::dead, Ec::die, Ec::reply: a clone that is sent to its CPU to be freed
DieClone(c) ==
    /\ cpu[c].pc = "dead"
    /\ a_cont' = IF a_cont = "user" THEN "sys_finish" ELSE "dead"
    /\ Step(g, Goto(c, "schedule"))
    /\ UNCHANGED <<w, pt, status, ec, a_sm, dead, n>>

\* Sc::schedule (true)
Schedule(c) ==
    /\ cpu[c].pc = "schedule"
    /\ LET s == ScOf(cpu[c].ec)
       IN  Step(DelRcu([g EXCEPT !.sc[s].at = @ \ {<<"current", c>>}], s, c, cpu), Goto(c, "leave"))
    /\ UNCHANGED <<w, pt, status, ec, a_cont, a_sm, dead, n>>

-----------------------------------------------------------------------------
(* Revocation, by a program on another CPU: first of the SC (Sc::pre_free) *)
(* and, when it has stopped, of the EC.                                    *)

RevokeSc ==
    /\ n.revoke = 2
    /\ n' = [n EXCEPT !.revoke = 1]
    /\ \E c \in Remote : g' = Quiet(RcuCall([g EXCEPT !.sc["a"].disable = TRUE], "a", c, cpu), cpu)
    /\ UNCHANGED <<w, cpu, pt, status, ec, a_cont, a_sm, dead>>

RevokeEc ==
    /\ n.revoke = 1 /\ g.sc["a"].at \subseteq {<<"blocked", 0>>} /\ (w.mid \/ a_sm = None)
    /\ n' = [n EXCEPT !.revoke = 0]
    /\ \E c \in Remote : g' = Quiet(RcuCall(g, "A", c, cpu), cpu)
    /\ UNCHANGED <<w, cpu, pt, status, ec, a_cont, a_sm, dead>>

-----------------------------------------------------------------------------

Home == BadPortal \/ SysXcpuCall \/ RemoteEnqueue \/ Dn \/ RetXcpuReply \/ RetXcpuReplyOom \/ Deschedule

Away(c) ==
    \/ CloneCall(c) \/ CloneFails(c) \/ XcpuReturn(c) \/ Suspend(c) \/ Wake(c) \/ Leave(c)
    \/ SysXcpuCallOom(c) \/ OomXcpuReturn(c) \/ OomWake(c) \/ DieClone(c) \/ Schedule(c) \/ Reply(c)

Runs(c) == \E s \in {"a", "S", "P"} : RrqHandler(c, s) \/ Dispatch(c, s)

Next ==
    \/ Home \/ OomCallCpu \/ RevokeSc \/ RevokeEc
    \/ \E c \in Remote : Call(c) \/ Away(c) \/ CloneOom(c) \/ ReplyAgain(c) \/ Die(c)
    \/ \E c \in Cpu : Runs(c)
    \/ \E e \in g.rcu : Invoke(e)

(* CPUs go on in the kernel and dispatch what is ready, handlers reply,    *)
(* grace periods end, and a revocation that has begun is finished.         *)
Spec ==
    /\ Init /\ [][Next]_vars
    /\ WF_vars(Home) /\ \A c \in Remote : WF_vars(Away(c))
    /\ \A c \in Cpu : WF_vars(Runs(c))
    /\ WF_vars(\E e \in g.rcu : Invoke(e)) /\ WF_vars(RevokeEc)

-----------------------------------------------------------------------------

InUse == {cpu[c].ec : c \in {d \in Remote : cpu[d].ec # None}}

(* Nobody holds a pointer to an object that has been freed: a CPU to the   *)
(* EC and SC it runs and the semaphore it will wake, a queue to its SC, a  *)
(* clone to its caller and semaphore, an EC to its clone.                  *)
ObjectsAlive ==
    /\ InUse \cup g.held \subseteq g.live
    /\ \A s \in {"a", "S", "P"} : g.sc[s].at # {} => {s, EcOf(s)} \subseteq g.live
    /\ \A c \in Remote : cpu[c].sm # None => g.sm[cpu[c].sm].live
    /\ \A x \in Clone \cap g.live : "A" \in g.live /\ (ec[x].sm # None => g.sm[ec[x].sm].live)
    /\ \A e \in g.rcu : e.o \in g.live \/ e.o \in Sms

(* The clone is in one place: when the caller uses it again, for a call to *)
(* another CPU, no CPU runs it any more or has it in a queue.              *)
CloneExclusive == \A s \in {"a", "S", "P"} : Cardinality(g.sc[s].at) <= 1

(* A call ends: the caller returns to user mode, whatever the calls for    *)
(* more memory, repeated calls and dying handlers in between; unless it is *)
(* revoked.                                                                *)
CallReturns == [](cpu[0].pc = "call" => <>(cpu[0].pc = "user" \/ g.sc["a"].disable))

(* When the capabilities of a caller and its SC have been revoked, they    *)
(* are freed, and the clones and semaphores of its calls too.              *)
AllFreed == [](w.revoke /\ n.revoke = 0 => <>(g.live = {} /\ \A k \in Sms : ~g.sm[k].live))

(* "should never happen, Ec have to pass xcpu_return" (ec.cpp): no EC is   *)
(* destroyed that still has the semaphore of a call.                       *)
PassedReturn == ~g.stale
=============================================================================
