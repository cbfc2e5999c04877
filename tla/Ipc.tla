-------------------------------- MODULE Ipc ---------------------------------
(***************************************************************************)
(* Message passing and scheduling on one CPU: portal calls, exception      *)
(* messages, replies, helping and time donation (syscall.cpp, ec.hpp), the *)
(* death of an Ec (ec.cpp), and the ready list (sc.cpp).                   *)
(*                                                                         *)
(* A global Ec has one Sc, and the two are one value here; a local Ec is a *)
(* server without an Sc, it runs on the Sc of whoever waits for it.  The   *)
(* kernel runs with interrupts disabled and never on two stacks, so one    *)
(* variable, at, says where this CPU is:                                   *)
(*   "cont"      make_current() has jumped to the continuation of cur;     *)
(*   "exit"      cur is in ret_user_sysexit;                               *)
(*   "user"      cur is in user mode, or the CPU is idle;                  *)
(*   "help"      cur is at the preemption point of help (act);             *)
(*   "activate"  in Ec::activate of act;                                   *)
(*   "suspend", "requeue", "yield"                                         *)
(*               in Sc::schedule (true), (false, true), (false, false).    *)
(* Interrupts are taken in "user" and in "help".  The semaphore an Ec      *)
(* blocks on, and the counter that decides whether it does, are left open  *)
(* (module Semaphore has them), as are messages and register contents.     *)
(***************************************************************************)
EXTENDS Integers, Sequences, FiniteSets, SequencesExt

CONSTANTS Global,   \* Ecs with an Sc
          Local,    \* Ecs without one
          Idle,     \* the idle Ec with its Sc
          None,     \* nullptr
          Prio,     \* Prio[s]: the priority of an Sc
          Budget,   \* Sc::budget, in calls of the scheduler
          MayCall,  \* MayCall[e]: the servers e has portals of
          Calls     \* bound: system calls and exceptions

SC == Global \cup {Idle}
EC == SC \cup Local

ASSUME IpcAssumption ==
    /\ Global \cap Local = {} /\ Idle \notin Global \cup Local /\ None \notin EC
    /\ IsFiniteSet(EC)
    /\ Prio \in [SC -> Nat] /\ Prio[Idle] = 0 /\ \A g \in Global : Prio[g] > 0
    /\ MayCall \in [Global \cup Local -> SUBSET Local]
    /\ Budget \in Nat \ {0} /\ Calls \in Nat

VARIABLES
    cur, scur, at, act,     \* Ec::current, Sc::current, where the CPU is
    cont,                   \* Ec::cont
    partner, rcap,          \* the links of a call: to the server, to the caller
    tgt, blk,               \* of the last call: server, not DISABLE_BLOCKING
    ctr_link,               \* Sc::ctr_link
    blocked,                \* the Ecs in the queue of a semaphore
    queue,                  \* of each Ec: the Scs that block_sc() put aside
    list, prio_top,         \* the ready list
    left, expired,          \* Sc::left, and whether the budget timeout fired
    hazard,                 \* HZD_SCHED
    rq,                     \* Sc::rq.queue: what other CPUs made ready
    state,                  \* of each Sc: "new", "live", "disabled", "unreferenced"
    donated,                \* history: has an Ec donated its Sc?
    calls                   \* what is left of Calls

links == <<partner, rcap, ctr_link>>
request == <<tgt, blk>>
ready == <<list, prio_top, left>>
waiting == <<blocked, queue, rq>>
vars == <<cur, scur, at, act, cont, links, request, waiting, ready, expired, hazard,
          state, donated, calls>>

Disabled(s) == state[s] \in {"disabled", "unreferenced"}

Prios == {Prio[s] : s \in SC}
Top == CHOOSE p \in Prios : \A q \in Prios : q <= p

Init ==
    /\ cur = Idle /\ scur = Idle /\ at = "cont" /\ act = Idle
    /\ cont = [e \in EC |-> CASE e \in Global -> "send_msg"
                              [] e \in Local  -> "null"
                              [] e = Idle     -> "idle"]
    /\ partner = [e \in EC |-> None] /\ rcap = [e \in EC |-> None] /\ ctr_link = 0
    /\ tgt \in {t \in [EC -> Local \cup {None}] :
                    /\ \A g \in Global : t[g] \in MayCall[g]
                    /\ \A e \in EC \ Global : t[e] = None}
    /\ blk = [e \in EC |-> TRUE]
    /\ blocked = {} /\ queue = [e \in EC |-> <<>>]
    /\ rq = <<>>
    /\ list = [p \in 0..Top |-> <<>>] /\ prio_top = 0
    /\ left = [s \in SC |-> IF s = Idle THEN Budget ELSE 0] /\ expired = FALSE
    /\ hazard = FALSE
    /\ state = [s \in SC |-> IF s = Idle THEN "live" ELSE "new"] /\ donated = FALSE /\ calls = Calls

-----------------------------------------------------------------------------
(* The ready list.                                                         *)

\* Where Sc::ready_enqueue puts s: first if it has budget left that is to
\* be used, else last.
Enqueued(l, s, first) ==
    [l EXCEPT ![Prio[s]] = IF first THEN <<s>> \o @ ELSE Append(@, s)]

\* Sc::ready_enqueue of every Sc of a sequence, on behalf of an interrupt
\* or of Ec::release.
ReadyEnqueue(ss) ==
    /\ list' = FoldLeft(LAMBDA l, s : Enqueued(l, s, left[s] > 0), list, ss)
    /\ prio_top' = CHOOSE p \in {prio_top} \cup {Prio[s] : s \in ToSet(ss)} :
                       \A q \in {prio_top} \cup {Prio[s] : s \in ToSet(ss)} : q <= p
    /\ hazard' = (hazard \/ \E s \in ToSet(ss) :
                                \/ Prio[s] > Prio[scur]
                                \/ s # scur /\ Prio[s] = Prio[scur] /\ left[s] > 0)
    /\ left' = [s \in SC |-> IF s \in ToSet(ss) /\ left[s] = 0 THEN Budget ELSE left[s]]

\* The highest priority of a list that is not empty, from p downwards.
HighestFrom(l, p) ==
    CHOOSE q \in 0..p : /\ l[q] # <<>> \/ q = 0
                        /\ \A r \in (q + 1)..p : l[r] = <<>>

\* The call of Ec::activate for e.
Enter(e) == at' = "activate" /\ act' = e /\ ctr_link' = 0

\* Sc::schedule_wo_activate: one round of its loop.  Time has passed, so the
\* budget of the Sc that stops is smaller; nothing of it is left if its
\* timeout fired.  (The list of the highest priority is not empty: that is
\* asserted.)
Schedule ==
    /\ at \in {"suspend", "requeue", "yield"}
    /\ \E rest \in IF expired THEN {0} ELSE 0..(left[scur] - 1) :
       LET drop == at = "suspend" \/ (Disabled(scur) /\ scur = cur)
           full == IF drop THEN list ELSE Enqueued(list, scur, at = "requeue" /\ rest > 0)
           top  == IF ~drop /\ Prio[scur] > prio_top THEN Prio[scur] ELSE prio_top
           less == [full EXCEPT ![top] = Tail(@)] IN
       /\ left' = [left EXCEPT ![scur] = IF ~drop /\ rest = 0 THEN Budget ELSE rest]
       /\ list' = less
       /\ prio_top' = HighestFrom(less, top)
       /\ \E next \in SC :
              /\ full[top] # <<>> /\ next = Head(full[top])
              /\ scur' = next
              /\ IF Disabled(next) /\ next = cur THEN at' = "suspend" /\ UNCHANGED <<act, ctr_link>>
                 ELSE Enter(next)
    /\ expired' = FALSE /\ hazard' = FALSE
    /\ UNCHANGED <<cur, cont, partner, rcap, request, waiting, state, donated, calls>>

-----------------------------------------------------------------------------
(* Execution contexts.                                                     *)

\* What the steps of an Ec in the kernel leave alone.
kept == <<scur, rq, ready, expired, hazard, state>>

\* Ec::activate: follow the call chain, counting its links, ...
ActivateNext ==
    /\ at = "activate" /\ partner[act] # None
    /\ act' = partner[act] /\ ctr_link' = ctr_link + 1
    /\ UNCHANGED <<cur, at, cont, partner, rcap, request, blocked, queue, kept, donated, calls>>

\* ... and run the Ec at its end, or wait with it.
Activate ==
    /\ at = "activate" /\ partner[act] = None
    /\ IF act \in blocked \/ cont[act] = "null"
       THEN /\ queue' = [queue EXCEPT ![act] = Append(@, scur)]
            /\ at' = "suspend" /\ UNCHANGED cur
       ELSE cur' = act /\ at' = "cont" /\ UNCHANGED queue
    /\ UNCHANGED <<act, cont, links, request, blocked, kept, donated, calls>>

\* Ec::handle_hazard on the way to user mode: c is where to continue.  The
\* registers with the last call's arguments are user mode's again.
RetUser(c) ==
    /\ tgt' = [tgt EXCEPT ![cur] = None] /\ blk' = [blk EXCEPT ![cur] = TRUE]
    /\ IF hazard
       THEN cont' = [cont EXCEPT ![cur] = c] /\ at' = "requeue"
       ELSE at' = "user" /\ UNCHANGED cont

\* set_partner, and the continuations of both sides.
Link(t, callerCont, serverCont) ==
    /\ partner' = [partner EXCEPT ![cur] = t]
    /\ rcap' = [rcap EXCEPT ![t] = cur]
    /\ ctr_link' = ctr_link + 1
    /\ cont' = [cont EXCEPT ![cur] = callerCont, ![t] = serverCont]
    /\ cur' = t /\ at' = "cont"

\* The count of links is ignored: always on with the caller.
ReplyToCaller(conts, wait) ==
    LET ec == rcap[cur] IN
    /\ cont' = conts
    /\ IF cur \in Global THEN at' = "suspend" /\ UNCHANGED <<cur, act, links, blocked, queue>>
       ELSE IF ec = None THEN Enter(scur) /\ UNCHANGED <<cur, partner, rcap, blocked, queue>>
       ELSE /\ partner' = [partner EXCEPT ![ec] = None]
            /\ rcap' = [rcap EXCEPT ![cur] = None]
            /\ IF scur = ec /\ Disabled(scur)
               THEN at' = "suspend" /\ ctr_link' = ctr_link - 1 /\ UNCHANGED <<cur, act, blocked, queue>>
               ELSE IF wait
               THEN /\ blocked' = blocked \cup {ec}
                    /\ IF ctr_link = 0
                       THEN at' = "requeue" /\ UNCHANGED queue
                       ELSE at' = "suspend" /\ queue' = [queue EXCEPT ![ec] = Append(@, scur)]
                    /\ ctr_link' = ctr_link - 1
                    /\ UNCHANGED <<cur, act>>
               ELSE /\ at' = "cont" /\ cur' = ec /\ ctr_link' = ctr_link - 1 /\ UNCHANGED act
                    /\ UNCHANGED <<blocked, queue>>

\* Ec::reply of cur, whose caller's continuation conts already has; wait
\* says whether the semaphore of sys_reply makes the caller wait.  (Where
\* ctr_link wraps around it is not read again before Ec::activate sets it.)
Reply(conts, wait) ==
    LET ec == rcap[cur] IN
    /\ cont' = conts
    /\ IF cur \in Global THEN at' = "suspend" /\ UNCHANGED <<cur, act, links, blocked, queue>>
       ELSE IF ec = None THEN Enter(scur) /\ UNCHANGED <<cur, partner, rcap, blocked, queue>>
       ELSE /\ partner' = [partner EXCEPT ![ec] = None]
            /\ rcap' = [rcap EXCEPT ![cur] = None]
            /\ IF scur = ec /\ Disabled(scur)
               THEN at' = "suspend" /\ ctr_link' = ctr_link - 1 /\ UNCHANGED <<cur, act, blocked, queue>>
               ELSE IF wait
               THEN /\ blocked' = blocked \cup {ec}
                    /\ IF ctr_link = 0
                       THEN at' = "requeue" /\ UNCHANGED queue
                       ELSE at' = "suspend" /\ queue' = [queue EXCEPT ![ec] = Append(@, scur)]
                    /\ ctr_link' = ctr_link - 1
                    /\ UNCHANGED <<cur, act>>
               ELSE /\ IF ctr_link = 0
                       THEN Enter(scur) /\ UNCHANGED cur
                       ELSE at' = "cont" /\ cur' = ec /\ ctr_link' = ctr_link - 1 /\ UNCHANGED act
                    /\ UNCHANGED <<blocked, queue>>

\* Ec::die: the caller of cur gets COM_ABT, or dies as well.
Die ==
    LET ec == rcap[cur]
        own == [cont EXCEPT ![cur] = "dead"] IN
    Reply(IF ec = None THEN own
          ELSE [own EXCEPT ![ec] = IF cont[ec] = "sysexit" THEN "abort" ELSE "dead"], FALSE)

\* sys_call and send_msg: c is the function itself, the continuation of an
\* Ec that helps.
Send(t, c, blocking) ==
    \/ /\ cont[t] = "null"
       /\ IF c = "sys_call" THEN Link(t, "sysexit", "recv_user") ELSE Link(t, "iret", "recv_kern")
       /\ UNCHANGED <<act, blocked, queue>>
    \/ /\ cont[t] \notin {"null", "dead"} /\ blocking
       /\ cont' = [cont EXCEPT ![cur] = c]
       /\ at' = "help" /\ act' = t
       /\ UNCHANGED <<cur, links, blocked, queue>>
    \/ /\ cont[t] = "dead" \/ (cont[t] # "null" /\ ~blocking)
       /\ IF c = "sys_call" THEN at' = "exit" /\ UNCHANGED <<cur, act, cont, links, blocked, queue>>
          ELSE Die

-----------------------------------------------------------------------------
(* The continuations, as make_current() jumps to them.                     *)

\* sys_finish, ret_user_*, recv_user, recv_kern and idle.
Resume ==
    /\ \/ /\ at = "cont"
          /\ cont[cur] \in {"finish", "abort", "sysexit", "iret", "recv_user", "recv_kern", "idle"}
       \/ at = "exit"
    /\ RetUser(IF at = "cont" /\ cont[cur] \in {"iret", "idle"} THEN cont[cur] ELSE "sysexit")
    /\ UNCHANGED <<cur, act, links, blocked, queue, kept, donated, calls>>

\* sys_call or send_msg again, after helping or waiting.
SendAgain ==
    /\ at = "cont" /\ cont[cur] \in {"sys_call", "send_msg"}
    /\ Send(tgt[cur], cont[cur], blk[cur])
    /\ UNCHANGED <<request, kept, donated, calls>>

\* Ec::dead
Dead ==
    /\ at = "cont" /\ cont[cur] = "dead"
    /\ Die
    /\ UNCHANGED <<request, kept, donated, calls>>

\* The helper only makes way, it does not run the server.
HelpYields ==
    /\ at = "help"
    /\ at' = "requeue" /\ UNCHANGED <<act, ctr_link>>
    /\ UNCHANGED <<cur, cont, partner, rcap, request, blocked, queue, kept, donated, calls>>

\* Ec::help after the preemption point.
Help ==
    /\ at = "help"
    /\ IF hazard THEN at' = "requeue" /\ UNCHANGED <<act, ctr_link>> ELSE Enter(act)
    /\ UNCHANGED <<cur, cont, partner, rcap, request, blocked, queue, kept, donated, calls>>

-----------------------------------------------------------------------------
(* User mode.                                                              *)

InUser == at = "user" /\ cur # Idle /\ ~hazard /\ calls > 0

\* A portal call, or an exception.
UserSend ==
    /\ InUser
    /\ \E t \in MayCall[cur], c \in {"sys_call", "send_msg"}, b \in BOOLEAN :
           /\ c = "send_msg" => b
           /\ tgt' = [tgt EXCEPT ![cur] = t] /\ blk' = [blk EXCEPT ![cur] = b]
           /\ Send(t, c, b)
    /\ calls' = calls - 1
    /\ UNCHANGED <<kept, donated>>

\* sys_reply: with a semaphore the caller waits there first, and if it came
\* by sys_call it calls again.
UserReply ==
    /\ at = "user" /\ cur \in Global \cup Local /\ ~hazard
    /\ cur \in Local \/ calls > 0
    /\ \E sm, wait \in BOOLEAN :
           /\ wait => sm
           /\ sm => calls > 0
           /\ calls' = IF sm \/ cur \in Global THEN calls - 1 ELSE calls
           /\ LET ec == rcap[cur]
                  own == [cont EXCEPT ![cur] = "null"] IN
              Reply(IF sm /\ ec # None /\ cont[ec] = "sysexit"
                    THEN [own EXCEPT ![ec] = "sys_call"] ELSE own, wait)
    /\ UNCHANGED <<request, kept, donated>>

\* An exception without a handler.
UserDie ==
    /\ InUser
    /\ Die
    /\ calls' = calls - 1
    /\ UNCHANGED <<request, kept, donated>>

\* sys_sm_ctrl, down, of a semaphore whose counter is zero: dn and block_sc.
UserDown ==
    /\ InUser
    /\ cont' = [cont EXCEPT ![cur] = "finish"]
    /\ blocked' = blocked \cup {cur}
    /\ queue' = [queue EXCEPT ![cur] = Append(@, scur)]
    /\ at' = "suspend"
    /\ calls' = calls - 1
    /\ UNCHANGED <<cur, act, links, request, kept, donated>>

\* sys_ec_ctrl: yield and reschedule.
UserYield ==
    /\ InUser
    /\ cont' = [cont EXCEPT ![cur] = "finish"]
    /\ at' \in {"yield", "requeue"}
    /\ calls' = calls - 1
    /\ UNCHANGED <<cur, act, links, request, blocked, queue, kept, donated>>

\* An Ec that waits for a reply is run as well.
UserDonateUnchecked ==
    /\ InUser
    /\ \E e \in (Global \cup Local) \ (blocked \cup {cur}) :
           /\ cont[e] # "null"
           /\ cont' = [cont EXCEPT ![cur] = "finish"]
           /\ cur' = e /\ at' = "cont"
    /\ donated' = TRUE
    /\ calls' = calls - 1
    /\ UNCHANGED <<act, links, request, blocked, queue, kept>>

\* sys_ec_ctrl: run another Ec on this Sc.
UserDonate ==
    /\ InUser
    /\ \E e \in (Global \cup Local) \ (blocked \cup {cur}) :
           /\ cont[e] # "null" /\ partner[e] = None
           /\ cont' = [cont EXCEPT ![cur] = "finish"]
           /\ cur' = e /\ at' = "cont"
    /\ donated' = TRUE
    /\ calls' = calls - 1
    /\ UNCHANGED <<act, links, request, blocked, queue, kept>>

\* sys_revoke of the capability of an Sc: Sc::pre_free.
UserRevoke ==
    /\ InUser
    /\ \E s \in Global :
           /\ state[s] = "live"
           /\ state' = [state EXCEPT ![s] = "disabled"]
           /\ hazard' = (s = scur)
    /\ at' = "exit"
    /\ calls' = calls - 1
    /\ UNCHANGED <<cur, scur, act, cont, links, request, waiting, ready, expired, donated>>

-----------------------------------------------------------------------------
(* Interrupts.                                                             *)

Interruptible == at \in {"user", "help"}

\* Timeout_budget::trigger
BudgetTimeout ==
    /\ Interruptible /\ ~expired
    /\ expired' = TRUE /\ hazard' = TRUE
    /\ UNCHANGED <<cur, scur, at, act, cont, links, request, waiting, ready, state, donated, calls>>

\* Sm::up, Sm::timeout: Ec::release (c), here or, with the Scs then in
\* Sc::rq, on another CPU.
Release(e) ==
    /\ Interruptible /\ e \in blocked
    /\ \E here \in BOOLEAN, c \in {cont[e], "finish"} :
       LET keep == SelectSeq(queue[e], LAMBDA s : state[s] # "unreferenced" \/ partner[s] # None) IN
       /\ blocked' = blocked \ {e}
       /\ queue' = [queue EXCEPT ![e] = <<>>]
       /\ cont' = [cont EXCEPT ![e] = c]
       /\ IF here THEN ReadyEnqueue(keep) /\ UNCHANGED rq
          ELSE rq' = rq \o keep /\ UNCHANGED <<ready, hazard>>
    /\ UNCHANGED <<cur, scur, at, act, links, request, expired, state, donated, calls>>

\* A revoked Sc is dropped though a server works for its Ec.
RrqHandlerDrops ==
    /\ Interruptible /\ rq # <<>>
    /\ ReadyEnqueue(SelectSeq(rq, LAMBDA s : ~Disabled(s)))
    /\ rq' = <<>>
    /\ UNCHANGED <<cur, scur, at, act, cont, links, request, blocked, queue, expired, state, donated,
                   calls>>

\* Sc::rrq_handler
RrqHandler ==
    /\ Interruptible /\ rq # <<>>
    /\ ReadyEnqueue(SelectSeq(rq, LAMBDA s : ~Disabled(s) \/ partner[s] # None \/ rcap[s] # None))
    /\ rq' = <<>>
    /\ UNCHANGED <<cur, scur, at, act, cont, links, request, blocked, queue, expired, state, donated,
                   calls>>

\* sys_create_sc on another CPU: remote_enqueue.
CreateSc ==
    /\ Interruptible
    /\ \E s \in Global : /\ state[s] = "new"
                         /\ state' = [state EXCEPT ![s] = "live"]
                         /\ rq' = Append(rq, s)
    /\ UNCHANGED <<cur, scur, at, act, cont, links, request, blocked, queue, ready, expired, hazard,
                   donated, calls>>

\* Sc::free, a grace period after Sc::pre_free.
ScFree ==
    /\ Interruptible
    /\ \E s \in Global : state[s] = "disabled" /\ state' = [state EXCEPT ![s] = "unreferenced"]
    /\ UNCHANGED <<cur, scur, at, act, cont, links, request, waiting, ready, expired, hazard, donated,
                   calls>>

\* Return from an interrupt: ret_user_iret, or the loop of Ec::idle.
Preempt ==
    /\ at = "user" /\ hazard
    /\ RetUser(IF cur = Idle THEN "idle" ELSE "iret")
    /\ UNCHANGED <<cur, act, links, blocked, queue, kept, donated, calls>>

Kernel == Schedule \/ ActivateNext \/ Activate \/ Resume \/ SendAgain \/ Dead \/ Help \/ Preempt
User == UserSend \/ UserReply \/ UserDie \/ UserDown \/ UserYield \/ UserDonate \/ UserRevoke
Interrupt == BudgetTimeout \/ (\E e \in EC : Release(e)) \/ RrqHandler \/ CreateSc \/ ScFree
Next == Kernel \/ User \/ Interrupt

Spec == Init /\ [][Next]_vars

\* The kernel goes on, interrupts are delivered, a semaphore is given up in
\* the end.  A quantum is longer than the way through help(), so not every
\* pass ends at the preemption point, and a server replies if it runs often
\* enough: user code that is preempted goes on where it stopped.
FairSpec ==
    /\ Spec /\ WF_vars(Kernel) /\ SF_vars(RrqHandler) /\ SF_vars(~hazard /\ Help)
    /\ SF_vars(\E e \in Global \cup Local : Release(e))
    /\ SF_vars(cur \in Local /\ UserReply)

-----------------------------------------------------------------------------
(* Properties.                                                             *)

Conts == {"null", "sysexit", "iret", "recv_user", "recv_kern", "sys_call", "send_msg", "finish",
          "abort", "dead", "idle"}

\* The types of what calls are about.
LinkTypes ==
    /\ cur \in EC /\ scur \in SC /\ act \in EC
    /\ cont \in [EC -> Conts]
    /\ partner \in [EC -> EC \cup {None}] /\ rcap \in [EC -> EC \cup {None}]
    /\ tgt \in [EC -> Local \cup {None}] /\ blocked \subseteq EC

\* The types of the variables; what is left of a budget is part of it.
TypeOK ==
    /\ LinkTypes
    /\ at \in {"cont", "exit", "user", "help", "activate", "suspend", "requeue", "yield"}
    /\ ctr_link \in Int /\ blk \in [EC -> BOOLEAN]
    /\ queue \in [EC -> Seq(SC)] /\ rq \in Seq(SC)
    /\ list \in [0..Top -> Seq(SC)] /\ prio_top \in 0..Top
    /\ left \in [SC -> 0..Budget] /\ expired \in BOOLEAN /\ hazard \in BOOLEAN
    /\ state \in [SC -> {"new", "live", "disabled", "unreferenced"}]
    /\ donated \in BOOLEAN /\ calls \in 0..Calls

\* The links of a call agree: the server a caller waits for has it as its
\* caller and the other way round (what clr_partner asserts), only servers
\* are called, and a server is free (no continuation) exactly when nobody
\* waits for its reply: none is ever busy without a client, and a free one
\* waits for no other.
LinksAgree ==
    /\ \A e, p \in EC : partner[e] = p <=> rcap[p] = e
    /\ \A e \in EC : rcap[e] # None => e \in Local
    /\ \A s \in Local :
           /\ cont[s] = "null" => rcap[s] = None /\ partner[s] = None
           /\ rcap[s] = None => cont[s] \in {"null", "dead"} /\ partner[s] = None

\* Why LinksAgree is kept.  The Ec that runs, or that help() and activate()
\* are about to run, has no call of its own under way and, if it is a server
\* that lives, a client; so has an Ec that is blocked.  An Ec that is to
\* call again, or waits for a reply, still has its server in its registers,
\* and one that waits for a reply knows where to go on.
Running == at \in {"cont", "exit", "user", "help"}
LinksInv ==
    /\ LinkTypes /\ LinksAgree
    /\ Running => /\ partner[cur] = None /\ cur \notin blocked
                  /\ cur \in Local => rcap[cur] # None \/ (at = "cont" /\ cont[cur] = "dead")
    /\ at \in {"help", "activate"} /\ act \in Local => rcap[act] # None
    /\ \A e \in blocked : partner[e] = None /\ (e \in Local => rcap[e] # None)
    /\ \A e \in EC : \/ cont[e] \in {"sys_call", "send_msg"} /\ ~(e = cur /\ at \in {"user", "exit"})
                     \/ partner[e] # None
                     => tgt[e] \in Local
    /\ \A e \in EC : partner[e] # None => cont[e] # "null"

\* The Ec that n links of the call chain lead to from e.
Follow(e, n) ==
    LET f[i \in 0..n] == IF i = 0 THEN e
                         ELSE IF partner[f[i - 1]] = None THEN f[i - 1] ELSE partner[f[i - 1]]
    IN  f[n]

\* The loop of Ec::activate ends: a call chain is never a cycle, although
\* servers call each other.
ChainsEnd == \A e \in EC : partner[Follow(e, Cardinality(EC))] = None

\* What e waits for: the server it has called, or the busy one it helps.
WaitsFor(e) == IF partner[e] # None THEN {partner[e]}
               ELSE IF cont[e] \in {"sys_call", "send_msg"} THEN {tgt[e]} \ {None} ELSE {}

\* Everything e waits for, directly or not, and e itself.
Awaited(e) ==
    LET f[n \in 0..Cardinality(EC)] ==
            IF n = 0 THEN {e} ELSE f[n - 1] \cup UNION {WaitsFor(x) : x \in f[n - 1]}
    IN  f[Cardinality(EC)]

\* An Sc only ever runs its own Ec or an Ec its own one is waiting for: when
\* a server that was helped replies, ctr_link makes the CPU return to the
\* helper and not go on with a caller the Sc has nothing to do with.
RunsForItself == at \in {"cont", "exit", "user", "help"} /\ ~donated => cur \in Awaited(scur)

\* How many of the ready list, the remote queue, the queues of the Ecs and
\* the CPU hold s.  In Sc::schedule (true) the CPU has given it up.
Occurs(q, s) == Cardinality({i \in DOMAIN q : q[i] = s})
Places(s) == (IF s = scur /\ at # "suspend" THEN 1 ELSE 0)
             + Occurs(list[Prio[s]], s) + Occurs(rq, s)
             + MapThenSumSet(LAMBDA e : Occurs(queue[e], s), EC)

\* No Sc is queued twice, and none is lost: as long as its capability exists
\* and its Ec lives, or a server works for its Ec, revoked or not, it is
\* running, ready or waiting somewhere.  (A revoked Sc goes on until the
\* server has replied: the server must not be left behind half way.)
ScAccounted ==
    \A s \in SC :
        /\ Places(s) <= 1
        /\ ~donated /\ (partner[s] # None \/ (state[s] = "live" /\ cont[s] \notin {"dead", "null"}))
               => Places(s) = 1

\* block_sc() puts an Sc aside only with an Ec that is blocked and will be
\* released, or with a global Ec that has no continuation and never runs again.
AsideIsBlocked ==
    \A e \in EC : queue[e] # <<>> => e \in blocked \/ (e \in Global /\ cont[e] = "null")

\* User mode never runs while an Sc of higher priority is ready, and the
\* scheduler knows the highest priority.
TopPriority ==
    /\ at = "user" /\ ~hazard => \A p \in (Prio[scur] + 1)..Top : list[p] = <<>>
    /\ \A p \in (prio_top + 1)..Top : list[p] = <<>>

\* The servers that wait for each other in a circle: user code's own deadlock.
Circular == \E s \in Local : s \in UNION {Awaited(t) : t \in WaitsFor(s)}

\* A client of the highest priority that waits for a server gets on, whoever
\* called that server before: its Sc helps, so clients of lower priority,
\* which may never run, cannot hold it up.
TopIsServed ==
    \A g \in {h \in Global : Prio[h] = Top} :
        (WaitsFor(g) # {} /\ state[g] = "live")
            ~> (WaitsFor(g) = {} \/ state[g] # "live" \/ Circular \/ donated)

=============================================================================
