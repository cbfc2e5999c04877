----------------------------- MODULE IpcProofs ------------------------------
(***************************************************************************)
(* The links between callers and servers agree, for every set of clients,  *)
(* servers and portals, and every assignment of priorities.                *)
(***************************************************************************)
EXTENDS Ipc, TLAPS

(* Clients, servers and the idle Ec are different, and none is nullptr.    *)
LEMMA Kinds ==
    /\ Local \subseteq EC /\ SC \subseteq EC /\ Global \subseteq EC /\ Idle \in EC
    /\ \A e \in SC : e \notin Local
    /\ \A e \in EC : e # None /\ (e \in Local \/ e \in SC)
  BY IpcAssumption DEF EC, SC

(* When the kernel starts no call is under way.                            *)
LEMMA InitLinksInv == Init => LinksInv
<1> SUFFICES ASSUME Init PROVE LinksInv
  OBVIOUS
<1>1. LinkTypes
  BY Kinds, IpcAssumption DEF Init, LinkTypes, Conts, EC, SC
<1>2. LinksAgree
  BY Kinds, IpcAssumption DEF Init, LinksAgree, EC, SC
<1>3. \A e \in EC : cont[e] \in {"sys_call", "send_msg"} => tgt[e] \in Local
  BY Kinds, IpcAssumption DEF Init, EC, SC
<1>4. QED
  BY <1>1, <1>2, <1>3, Kinds DEF Init, LinksInv, Running, SC

(* set_partner, between an Ec that runs and a server that is free.         *)
LEMMA LinkStep ==
    ASSUME LinksInv, Running, cur \in Local => rcap[cur] # None,
           NEW t \in Local, cont[t] = "null",
           NEW a \in {"sysexit", "iret"}, NEW b \in {"recv_user", "recv_kern"},
           Link(t, a, b), tgt' = [tgt EXCEPT ![cur] = t],
           UNCHANGED <<scur, act, blocked>>
    PROVE  LinksInv'
<1> USE DEF LinksInv
<1>1. /\ cur \in EC /\ t \in EC /\ rcap[t] = None /\ partner[t] = None /\ partner[cur] = None
      /\ t # cur /\ t \notin blocked /\ cur \notin blocked
  BY Kinds DEF LinkTypes, LinksAgree, Running
<1>2. LinkTypes'
  BY <1>1, Kinds DEF LinkTypes, Link, Conts
<1>3. LinksAgree'
  <2>1. \A e, p \in EC : (partner[e] = p <=> rcap[p] = e)'
    BY <1>1, Kinds DEF LinkTypes, LinksAgree, Link
  <2>2. \A e \in EC : (rcap[e] # None => e \in Local)'
    BY <1>1, Kinds DEF LinkTypes, LinksAgree, Link
  <2>3. QED
    BY <1>1, <2>1, <2>2, Kinds DEF LinkTypes, LinksAgree, Link
<1>4. QED
  BY <1>1, <1>2, <1>3, Kinds DEF LinkTypes, Link, Running

(* Ec::reply, whatever becomes of the replying Ec and of its caller, as    *)
(* long as the caller is left with something to do.                        *)
LEMMA ReplyStep ==
    ASSUME LinksInv, Running,
           NEW c \in {"null", "dead"}, NEW d \in Conts \ {"null"}, NEW wait \in BOOLEAN,
           NEW conts, conts = IF rcap[cur] = None THEN [cont EXCEPT ![cur] = c]
                              ELSE [cont EXCEPT ![cur] = c, ![rcap[cur]] = d],
           Reply(conts, wait), scur' = scur,
           tgt' \in [EC -> Local \cup {None}], \A e \in EC \ {cur} : tgt'[e] = tgt[e]
    PROVE  LinksInv'
<1> USE DEF LinksInv
<1> DEFINE ec == rcap[cur]
<1>1. /\ cur \in EC /\ scur \in SC /\ cur \notin blocked /\ partner[cur] = None
      /\ ec # None => /\ ec \in EC /\ ec # cur /\ cur \in Local /\ partner[ec] = cur
                      /\ ec \notin blocked /\ (ec \in Local => rcap[ec] # None)
                      /\ tgt[ec] \in Local
  BY Kinds DEF LinkTypes, LinksAgree, Running
<1>2. conts \in [EC -> Conts] /\ conts[cur] = c /\ (ec # None => conts[ec] = d)
      /\ \A e \in EC \ {cur, ec} : conts[e] = cont[e]
  BY <1>1 DEF LinkTypes, Conts
<1>3. CASE cur \in Global \/ ec = None
  <2>1. /\ UNCHANGED <<cur, partner, rcap, blocked>> /\ cont' = conts
        /\ (at' = "suspend" /\ act' = act) \/ (at' = "activate" /\ act' = scur)
    BY <1>3 DEF Reply, Enter, links
  <2>2. ec = None /\ conts = [cont EXCEPT ![cur] = c]
    BY <1>1, <1>3, Kinds DEF SC
  <2>3. LinkTypes'
    BY <1>1, <1>2, <2>1, Kinds DEF LinkTypes
  <2>4. LinksAgree'
    BY <1>1, <1>2, <2>1, <2>2, Kinds DEF LinkTypes, LinksAgree
  <2>5. QED
    BY <1>1, <1>2, <2>1, <2>2, <2>3, <2>4, Kinds DEF LinkTypes, Running
<1>4. CASE cur \notin Global /\ ec # None
  <2>1. /\ partner' = [partner EXCEPT ![ec] = None] /\ rcap' = [rcap EXCEPT ![cur] = None]
        /\ cont' = conts
        /\ \/ at' \in {"suspend", "requeue"} /\ UNCHANGED <<cur, act>>
              /\ (blocked' = blocked \/ blocked' = blocked \cup {ec})
           \/ at' = "activate" /\ act' = scur /\ UNCHANGED <<cur, blocked>>
           \/ at' = "cont" /\ cur' = ec /\ UNCHANGED <<act, blocked>>
    BY <1>4 DEF Reply, Enter
  <2>2. LinkTypes'
    BY <1>1, <1>2, <1>4, <2>1, Kinds DEF LinkTypes
  <2>3. LinksAgree'
    BY <1>1, <1>2, <1>4, <2>1, Kinds DEF LinkTypes, LinksAgree
  <2>4. (Running => /\ partner[cur] = None /\ cur \notin blocked
                    /\ cur \in Local => rcap[cur] # None)'
    BY <1>1, <1>4, <2>1, Kinds DEF LinkTypes, Running
  <2>5. (at \in {"help", "activate"} /\ act \in Local => rcap[act] # None)'
    BY <1>1, <2>1, Kinds
  <2>6. \A e \in blocked' : (partner[e] = None /\ (e \in Local => rcap[e] # None))'
    BY <1>1, <1>4, <2>1, Kinds DEF LinkTypes
  <2>7. \A e \in EC : (\/ cont[e] \in {"sys_call", "send_msg"} /\ ~(e = cur /\ at \in {"user", "exit"})
                       \/ partner[e] # None
                       => tgt[e] \in Local)'
    BY <1>1, <1>2, <1>4, <2>1, Kinds DEF LinkTypes
  <2>8. \A e \in EC : (partner[e] # None => cont[e] # "null")'
    BY <1>1, <1>2, <1>4, <2>1, Kinds DEF LinkTypes
  <2>9. QED
    BY <2>2, <2>3, <2>4, <2>5, <2>6, <2>7, <2>8
<1>5. QED
  BY <1>3, <1>4

(* The death of the Ec that runs.                                          *)
LEMMA DieStep ==
    ASSUME LinksInv, Running, Die, scur' = scur,
           tgt' \in [EC -> Local \cup {None}], \A e \in EC \ {cur} : tgt'[e] = tgt[e]
    PROVE  LinksInv'
<1> DEFINE d == IF rcap[cur] # None /\ cont[rcap[cur]] = "sysexit" THEN "abort" ELSE "dead"
           conts == IF rcap[cur] = None THEN [cont EXCEPT ![cur] = "dead"]
                    ELSE [cont EXCEPT ![cur] = "dead", ![rcap[cur]] = d]
<1>1. /\ cur \in EC /\ cont \in [EC -> Conts]
      /\ rcap[cur] # None => rcap[cur] \in EC /\ rcap[cur] # cur
  BY Kinds DEF LinksInv, LinkTypes, LinksAgree, Running
<1>2. d \in Conts \ {"null"}
  BY DEF Conts
<1>3. Reply(conts, FALSE)
  <2>1. CASE rcap[cur] = None
    BY <2>1 DEF Die
  <2>2. CASE rcap[cur] # None
    <3>1. [[cont EXCEPT ![cur] = "dead"] EXCEPT ![rcap[cur]] =
               IF cont[rcap[cur]] = "sysexit" THEN "abort" ELSE "dead"] = conts
      BY <1>1, <2>2
    <3>2. QED
      BY <2>2, <3>1 DEF Die
  <2>3. QED
    BY <2>1, <2>2
<1>4. QED
  BY <1>2, <1>3, ReplyStep

(* sys_call and send_msg, by an Ec that runs and has not lost its client.  *)
LEMMA SendStep ==
    ASSUME LinksInv, Running, cur \in Local => rcap[cur] # None,
           NEW t \in Local, NEW c \in {"sys_call", "send_msg"}, NEW b,
           Send(t, c, b), tgt' = [tgt EXCEPT ![cur] = t], scur' = scur
    PROVE  LinksInv'
<1>1. CASE /\ cont[t] = "null"
           /\ IF c = "sys_call" THEN Link(t, "sysexit", "recv_user") ELSE Link(t, "iret", "recv_kern")
           /\ UNCHANGED <<act, blocked, queue>>
  BY <1>1, LinkStep
<1>2. CASE /\ cont[t] \notin {"null", "dead"} /\ b
           /\ cont' = [cont EXCEPT ![cur] = c]
           /\ at' = "help" /\ act' = t
           /\ UNCHANGED <<cur, links, blocked, queue>>
  BY <1>2, Kinds DEF LinksInv, LinkTypes, LinksAgree, Running, links, Conts
<1>3. CASE c = "sys_call" /\ at' = "exit" /\ UNCHANGED <<cur, act, cont, links, blocked, queue>>
  BY <1>3, Kinds DEF LinksInv, LinkTypes, LinksAgree, Running, links, Conts
<1>4. CASE Die
  <2>1. tgt' \in [EC -> Local \cup {None}] /\ \A e \in EC \ {cur} : tgt'[e] = tgt[e]
    BY DEF LinksInv, LinkTypes
  <2>2. QED
    BY <1>4, <2>1, DieStep
<1>5. QED
  BY <1>1, <1>2, <1>3, <1>4 DEF Send

(* The scheduler, and the loop of activate().                              *)
LEMMA SchedulerStep ==
    ASSUME LinksInv, Schedule \/ ActivateNext \/ Activate \/ Help
    PROVE  LinksInv'
<1>1. CASE Schedule
  <2>1. /\ UNCHANGED <<cur, cont, partner, rcap, tgt, blocked>>
        /\ scur' \in SC /\ at \notin {"user", "exit"}
        /\ (at' = "suspend" /\ act' = act) \/ (at' = "activate" /\ act' = scur')
    <3>1. at \notin {"user", "exit"} /\ UNCHANGED <<cur, cont, partner, rcap, tgt, blocked>>
      BY <1>1 DEF Schedule, request, waiting
    <3>2. PICK next \in SC :
              /\ scur' = next
              /\ IF Disabled(next) /\ next = cur THEN at' = "suspend" /\ UNCHANGED <<act, ctr_link>>
                 ELSE Enter(next)
      BY <1>1, Zenon DEF Schedule
    <3>3. QED
      BY <3>1, <3>2 DEF Enter
  <2>2. QED
    BY <2>1, Kinds DEF LinksInv, LinkTypes, LinksAgree, Running
<1>2. CASE ActivateNext
  BY <1>2, Kinds DEF ActivateNext, LinksInv, LinkTypes, LinksAgree, Running, links, request, kept
<1>3. CASE Activate
  BY <1>3, Kinds DEF Activate, LinksInv, LinkTypes, LinksAgree, Running, links, request, kept
<1>4. CASE Help
  BY <1>4, Kinds DEF Help, Enter, LinksInv, LinkTypes, LinksAgree, Running, request, kept
<1>5. QED
  BY <1>1, <1>2, <1>3, <1>4

(* The other steps of the kernel: the continuations and the way to user    *)
(* mode.                                                                   *)
LEMMA KernelStep ==
    ASSUME LinksInv, Resume \/ SendAgain \/ Dead \/ Preempt
    PROVE  LinksInv'
<1>1. CASE Resume \/ Preempt
  <2>1. /\ Running /\ (cur \in Local => rcap[cur] # None) /\ cur \in EC /\ partner[cur] = None
    BY <1>1 DEF Resume, Preempt, LinksInv, LinkTypes, Running
  <2>2. PICK c \in Conts \ {"null", "sys_call", "send_msg"} : RetUser(c)
    BY <1>1 DEF Resume, Preempt, Conts
  <2>3. /\ tgt' = [tgt EXCEPT ![cur] = None]
        /\ \/ cont' = [cont EXCEPT ![cur] = c] /\ at' = "requeue"
           \/ cont' = cont /\ at' = "user"
        /\ UNCHANGED <<cur, scur, act, partner, rcap, blocked>>
    BY <1>1, <2>2 DEF Resume, Preempt, RetUser, links, kept
  <2>4. QED
    BY <2>1, <2>3, Kinds DEF LinksInv, LinkTypes, LinksAgree, Running
<1>2. CASE SendAgain
  <2>1. /\ Running /\ cont[cur] \in {"sys_call", "send_msg"} /\ cur \in EC
        /\ tgt[cur] \in Local /\ (cur \in Local => rcap[cur] # None) /\ tgt \in [EC -> Local \cup {None}]
    BY <1>2 DEF SendAgain, LinksInv, LinkTypes, Running
  <2>2. /\ Send(tgt[cur], cont[cur], blk[cur]) /\ scur' = scur /\ tgt' = tgt
    BY <1>2 DEF SendAgain, request, kept
  <2>3. tgt' = [tgt EXCEPT ![cur] = tgt[cur]]
    BY <2>1, <2>2
  <2>4. QED
    BY <2>1, <2>2, <2>3, SendStep
<1>3. CASE Dead
  <2>1. Running /\ Die /\ scur' = scur /\ tgt' = tgt /\ tgt \in [EC -> Local \cup {None}]
    BY <1>3 DEF Dead, LinksInv, LinkTypes, Running, request, kept
  <2>2. QED
    BY <2>1, DieStep
<1>4. QED
  BY <1>1, <1>2, <1>3

(* What user mode asks for.                                                *)
LEMMA UserStep ==
    ASSUME LinksInv, User
    PROVE  LinksInv'
<1>1. /\ Running /\ at = "user" /\ cur \in EC /\ (cur \in Local => rcap[cur] # None)
      /\ partner[cur] = None /\ cur \notin blocked /\ tgt \in [EC -> Local \cup {None}]
      /\ cont \in [EC -> Conts]
  BY DEF User, UserSend, UserReply, UserDie, UserDown, UserYield, UserDonate, UserRevoke, InUser,
         LinksInv, LinkTypes, Running
<1>2. CASE UserSend
  <2>1. cur \in Global \cup Local
    BY <1>1, <1>2 DEF UserSend, InUser, EC, SC
  <2>2. PICK t \in MayCall[cur], c \in {"sys_call", "send_msg"}, b \in BOOLEAN :
             tgt' = [tgt EXCEPT ![cur] = t] /\ Send(t, c, b)
    BY <1>2 DEF UserSend
  <2>3. t \in Local /\ scur' = scur
    BY <1>2, <2>1, <2>2, IpcAssumption DEF UserSend, kept
  <2>4. QED
    BY <1>1, <2>2, <2>3, SendStep
<1>3. CASE UserReply
  <2> DEFINE own == [cont EXCEPT ![cur] = "null"]
             ec == rcap[cur]
  <2>1. PICK sm \in BOOLEAN, wait \in BOOLEAN :
            Reply(IF sm /\ ec # None /\ cont[ec] = "sysexit"
                  THEN [own EXCEPT ![ec] = "sys_call"] ELSE own, wait)
    BY <1>3 DEF UserReply
  <2> DEFINE d == IF sm /\ ec # None /\ cont[ec] = "sysexit" THEN "sys_call" ELSE cont[ec]
             conts == IF ec = None THEN own ELSE [cont EXCEPT ![cur] = "null", ![ec] = d]
  <2>2. ec # None => ec \in EC /\ ec # cur /\ cont[ec] # "null"
    BY <1>1, Kinds DEF LinksInv, LinkTypes, LinksAgree
  <2>3. scur' = scur /\ tgt' = tgt
    BY <1>3 DEF UserReply, request, kept
  <2>4. CASE ec = None
    <3>1. Reply(own, wait)
      BY <2>1, <2>4
    <3>2. own = IF rcap[cur] = None THEN [cont EXCEPT ![cur] = "null"]
                ELSE [cont EXCEPT ![cur] = "null", ![rcap[cur]] = "dead"]
      BY <2>4
    <3>3. "dead" \in Conts \ {"null"}
      BY DEF Conts
    <3>4. QED
      BY <1>1, <2>3, <3>1, <3>2, <3>3, ReplyStep
  <2>5. CASE ec # None
    <3>1. d \in Conts \ {"null"}
      BY <1>1, <2>2, <2>5 DEF Conts
    <3>2. conts = IF sm /\ ec # None /\ cont[ec] = "sysexit"
                  THEN [own EXCEPT ![ec] = "sys_call"] ELSE own
      BY <1>1, <2>2, <2>5
    <3>3. Reply(conts, wait)
      BY <2>1, <3>2
    <3>4. QED
      BY <1>1, <2>3, <2>5, <3>1, <3>3, ReplyStep
  <2>6. QED
    BY <2>4, <2>5
<1>4. CASE UserDie
  BY <1>1, <1>4, DieStep DEF UserDie, request, kept
<1>5. CASE UserDown
  BY <1>1, <1>5, Kinds
     DEF UserDown, LinksInv, LinkTypes, LinksAgree, Running, Conts, links, request, kept
<1>6. CASE UserYield
  BY <1>1, <1>6, Kinds
     DEF UserYield, LinksInv, LinkTypes, LinksAgree, Running, Conts, links, request, kept
<1>7. CASE UserDonate
  <2>1. PICK e \in EC \ {cur} :
             /\ e \notin blocked /\ cont[e] # "null" /\ partner[e] = None
             /\ cont' = [cont EXCEPT ![cur] = "finish"] /\ cur' = e /\ at' = "cont"
    BY <1>7, Kinds DEF UserDonate
  <2>2. UNCHANGED <<scur, act, partner, rcap, tgt, blocked>>
    BY <1>7 DEF UserDonate, links, request, kept
  <2>3. QED
    BY <1>1, <2>1, <2>2, Kinds DEF LinksInv, LinkTypes, LinksAgree, Running, Conts
<1>8. CASE UserRevoke
  BY <1>1, <1>8, Kinds
     DEF UserRevoke, LinksInv, LinkTypes, LinksAgree, Running, links, request, waiting
<1>9. QED
  BY <1>2, <1>3, <1>4, <1>5, <1>6, <1>7, <1>8 DEF User

(* Interrupts touch no call; they may end the wait of an Ec, with another  *)
(* continuation.                                                           *)
LEMMA InterruptStep ==
    ASSUME LinksInv, Interrupt
    PROVE  LinksInv'
<1>1. UNCHANGED <<cur, scur, at, act, partner, rcap, tgt>>
  BY DEF Interrupt, BudgetTimeout, Release, RrqHandler, CreateSc, ScFree, links, request
<1>2. CASE \E e \in EC : Release(e)
  <2>1. PICK e \in EC : Release(e)
    BY <1>2
  <2>2. e \in blocked /\ \E c \in {cont[e], "finish"} :
                             blocked' = blocked \ {e} /\ cont' = [cont EXCEPT ![e] = c]
    BY <2>1, Zenon DEF Release
  <2>3. QED
    BY <1>1, <2>2, Kinds DEF LinksInv, LinkTypes, LinksAgree, Running, Conts
<1>3. CASE BudgetTimeout \/ RrqHandler \/ CreateSc \/ ScFree
  <2>1. UNCHANGED <<cont, blocked>>
    BY <1>3 DEF BudgetTimeout, RrqHandler, CreateSc, ScFree, waiting
  <2>2. QED
    BY <1>1, <2>1 DEF LinksInv, LinkTypes, LinksAgree, Running
<1>4. QED
  BY <1>2, <1>3 DEF Interrupt

(* However calls, replies, deaths, donations, revocations and interrupts   *)
(* follow each other, the invariant of the links holds.                    *)
THEOREM IpcLinks == Spec => []LinksInv
<1>1. ASSUME LinksInv, [Next]_vars PROVE LinksInv'
  <2>1. CASE UNCHANGED vars
    <3>1. UNCHANGED <<cur, scur, at, act, cont, partner, rcap, tgt, blocked>>
      BY <2>1 DEF vars, links, request, waiting
    <3>2. QED
      BY <1>1, <3>1 DEF LinksInv, LinkTypes, LinksAgree, Running
  <2>2. CASE Next
    BY <1>1, <2>2, SchedulerStep, KernelStep, UserStep, InterruptStep DEF Next, Kernel
  <2>3. QED
    BY <1>1, <2>1, <2>2
<1>2. QED
  BY <1>1, InitLinksInv, PTL DEF Spec

(* What clr_partner asserts, and that a server is busy exactly when it has *)
(* a client: for every set of clients, servers and portals.                *)
THEOREM IpcLinksAgree == Spec => []LinksAgree
<1>1. LinksInv => LinksAgree
  BY DEF LinksInv
<1>2. QED
  BY <1>1, IpcLinks, PTL

=============================================================================
