------------------------------ MODULE Mapping ------------------------------
(***************************************************************************)
(* Address spaces and the caches of their translations.  A protection      *)
(* domain has a host table, one root per CPU that borrows from it, and a   *)
(* nested table for its guests (space_mem.cpp).  CPUs run its threads and  *)
(* virtual CPUs and cache what the tables say; delegation and revocation   *)
(* on one CPU change the tables under all of them, mark the CPUs whose     *)
(* caches may be stale (htlb, gtlb) and interrupt those that run there     *)
(* (shootdown).  A marked CPU flushes when it makes the domain current     *)
(* (Pd::make_current) or enters a guest (ret_user_vmresume).               *)
(*                                                                         *)
(* The workload w, chosen once, says which domains, ranges and guests a    *)
(* behaviour uses.                                                         *)
(***************************************************************************)
EXTENDS PageTable, Vtlb

CONSTANTS Cpu, SPC_LOCAL, CPU_LOCAL, Kernel, Workloads

VARIABLES w, T, nodes, cpus, htlb, gtlb, cpu, vt, g, seen, ops

vars == <<w, T, nodes, cpus, htlb, gtlb, cpu, vt, g, seen, ops>>

Pd == DOMAIN w.did
HptOf(p) == - (10 * p)
EptOf(p) == - (10 * p + 1)
LocOf(p, c) == - (10 * p + 2 + c)

NoSwitch == [at |-> "no"]
NoOp == [k |-> "no"]
NoNode == [b |-> 0, o |-> 0, ph |-> 0, a |-> {}, sub |-> {}]
Op(c) == cpu[c].op
Busy(p) == \E d \in Cpu : Op(d).k # "no" /\ Op(d).p = p

(* Space_mem::init: domain p gets a root on CPU c; the CPU's own part of   *)
(* the kernel is borrowed from the kernel's root.                          *)
SpaceInit(t, p, c) ==
    LET k == Walk(t, LocOf(p, c), CPU_LOCAL, 2, TRUE)
    IN  Put(k.T, k.f, k.i, Tab(Kernel))

Roots == {HptOf(p) : p \in Pd} \cup {EptOf(p) : p \in Pd} \cup {LocOf(p, c) : p \in Pd, c \in Cpu}
NoTables == [mem |-> [r \in Roots |-> [i \in {0} |-> Nil]], wild |-> FALSE]

(***************************************************************************)
(* Space_mem::update for node n of domain p: with rights to take away (r)  *)
(* it clears or demotes, otherwise it maps.  A host mapping must lie below *)
(* USER_ADDR.  `part' is the number of blocks of the host table that are   *)
(* done when memory runs out, or All.                                      *)
(***************************************************************************)
All == 2^(L * B)
Hosted(n) == n.b + 2^n.o <= USER_ADDR

EptUpdate(t, p, n, a, type) ==
    IF "guest" \in n.sub THEN UpdateAll(t, EptOf(p), n.b, n.o, n.ph, a, type, TRUE, w.ord, All).T ELSE t

LocUpdate(t, p, n, a) ==
    FoldLeft(LAMBDA U, c : IF At(U, LocOf(p, c), 0) = Nil THEN U
                           ELSE UpdateAll(U, LocOf(p, c), n.b, n.o, n.ph, a, "DF", FALSE, w.ord, All).T,
             t, SetToSeq(Cpu))

Localised(h, p, n, r, part) ==
    IF part # All THEN h
    ELSE [T |-> IF r # {} \/ h.flush THEN LocUpdate(h.T, p, n, n.a \ r) ELSE h.T, flush |-> r # {} \/ h.flush]

SpaceUpdate(t, p, n, r, part) ==
    LET type == IF r = {} THEN "UP" ELSE "DN"
        e    == EptUpdate(t, p, n, n.a \ r, type)
    IN  IF ~Hosted(n) THEN [T |-> e, flush |-> FALSE]
        ELSE Localised(UpdateAll(e, HptOf(p), n.b, n.o, n.ph, n.a \ r, type, FALSE, w.ord, part), p, n, r, part)

(***************************************************************************)
(* The guest's view, for the vTLB: the translation and the accesses that   *)
(* the guest's tables and the nested table grant for page v.               *)
(***************************************************************************)
GuestPd == w.guest
Peek == Lookup(T, HptOf(GuestPd), g.at).size # 0

Granted(t, gt, v) ==
    LET d  == gt.dir[v \div 2^GB]
        e  == IF "S" \in d.a THEN d ELSE d.tab[v % 2^GB]
        n  == IF "S" \in d.a THEN 2^GB ELSE 1
        a  == IF "S" \in d.a THEN d.a ELSE d.a \cap (e.a \cup {"D"})
        h  == Lookup(t, EptOf(GuestPd), (e.gfn - (e.gfn % n)) + (v % n))
        wr == "D" \in e.a /\ "w" \in h.a
    IN  IF "P" \notin d.a \/ "P" \notin e.a \/ h.size = 0 THEN {}
        ELSE {[h |-> h.p,
               acc |-> {"sR"} \cup (IF "U" \in a THEN {"uR"} ELSE {})
                       \cup (IF wr /\ {"U", "W"} \subseteq a THEN {"uW"} ELSE {})
                       \cup (IF wr /\ ("W" \in a \/ ~gt.wp) THEN {"sW"} ELSE {})]}

Accesses(fl) ==
    {"sR"} \cup (IF "U" \in fl THEN {"uR"} ELSE {}) \cup (IF "W" \in fl THEN {"sW"} ELSE {})
           \cup (IF {"U", "W"} \subseteq fl THEN {"uW"} ELSE {})

Virt == IF w.guest = 0 THEN {} ELSE 0 .. Whole - 1

(* What a TLB may hold for a page: every translation in force since the    *)
(* page was last flushed.  `gone' are the pages a step flushes.            *)
Seen(t, gt, gone) == [v \in DOMAIN seen |-> (IF v \in gone THEN {} ELSE seen[v]) \cup Granted(t, gt, v)]
Flushed(vs) == {v \in vs : ~Asleep(vt, v)}

Init ==
    /\ w \in Workloads
    /\ T = FoldLeft(LAMBDA t, x : SpaceInit(t, x[1], x[2]), NoTables,
                    SetToSeq({x \in Pd \X Cpu : x[2] \in w.cpus[x[1]]}))
    /\ nodes = [p \in Pd |-> {}]
    /\ cpus = w.cpus
    /\ htlb = [p \in Pd |-> Cpu]
    /\ gtlb = [p \in Pd |-> Cpu]
    /\ cpu = [c \in Cpu |-> [cur |-> 0, cr3 |-> 0, mode |-> "kern", sw |-> NoSwitch, hzd |-> TRUE, ipi |-> FALSE,
                             op |-> NoOp, tlb |-> {}, gt |-> {}, missed |-> {}]]
    /\ vt = IF w.guest = 0 THEN <<>> ELSE Blank
    /\ g = w.first
    /\ seen = [v \in Virt |-> {}]
    /\ ops = 0

Spend == ops < w.ops /\ ops' = ops + 1
Quiet(c) == cpu[c].mode = "kern" /\ cpu[c].sw = NoSwitch /\ Op(c) = NoOp
Tables == <<T, nodes, cpus>>
Guest == <<vt, g, seen>>
-----------------------------------------------------------------------------
(***************************************************************************)
(* Pd::make_current, in the steps other CPUs can come between: look at the *)
(* flush mark, publish the domain in `current', load the root.             *)
(***************************************************************************)
SwitchStart(c, p) ==
    /\ Quiet(c) /\ c \in cpus[p]
    /\ LET marked == c \in htlb[p]
           keep   == w.pcid /\ w.did[p] # "none"
       IN  /\ htlb' = IF marked THEN [htlb EXCEPT ![p] = @ \ {c}] ELSE htlb
           /\ cpu' = [cpu EXCEPT ![c].hzd = FALSE,
                                 ![c].sw = IF marked THEN [at |-> "publish", p |-> p, flush |-> TRUE]
                                           ELSE IF cpu[c].cur = p THEN NoSwitch
                                           ELSE [at |-> "publish", p |-> p, flush |-> ~keep]]
    /\ (c \in htlb[p] \/ cpu[c].cur # p \/ cpu[c].hzd)
    /\ UNCHANGED <<w, gtlb, ops, Tables, Guest>>

SwitchPublish(c) ==
    /\ cpu[c].sw.at = "publish"
    /\ cpu' = [cpu EXCEPT ![c].cur = cpu[c].sw.p, ![c].sw.at = "load"]
    /\ UNCHANGED <<w, htlb, gtlb, ops, Tables, Guest>>

(* Without process-context identifiers every load flushes everything; with *)
(* them, the domain's own entries, or those of all that have no identifier *)
(* of their own.                                                           *)
Tag(p) == IF w.pcid THEN (IF w.did[p] = "none" THEN 0 ELSE p) ELSE 0
SwitchLoad(c) ==
    /\ cpu[c].sw.at = "load"
    /\ LET p == cpu[c].sw.p IN
       cpu' = [cpu EXCEPT ![c].cr3 = p, ![c].sw = NoSwitch,
                          ![c].tlb = IF cpu[c].sw.flush THEN {x \in @ : x.tag # Tag(p)} ELSE @,
                          ![c].missed = IF cpu[c].sw.flush THEN @ \ {p} ELSE @]
    /\ UNCHANGED <<w, htlb, gtlb, ops, Tables, Guest>>

(***************************************************************************)
(* Running.  A CPU goes back to a thread when no hazard is pending, and to *)
(* a virtual CPU through the gtlb check of ret_user_vmresume.              *)
(***************************************************************************)
Runs(c) == Quiet(c) /\ ~cpu[c].hzd /\ cpu[c].cr3 # 0

ReturnUser(c) ==
    /\ Runs(c) /\ cpu[c].cr3 \in w.users
    /\ cpu' = [cpu EXCEPT ![c].mode = "user"]
    /\ UNCHANGED <<w, htlb, gtlb, ops, Tables, Guest>>

EnterGuest(c) ==
    /\ Runs(c) /\ cpu[c].cur \in w.vms
    /\ LET p == cpu[c].cur
           marked == c \in gtlb[p]
       IN  /\ gtlb' = [gtlb EXCEPT ![p] = @ \ {c}]
           /\ cpu' = [cpu EXCEPT ![c].mode = "guest", ![c].gt = IF marked THEN {x \in @ : x.p # p} ELSE @]
           /\ vt' = IF marked /\ w.guest # 0 THEN flush_all(vt, TRUE) ELSE vt
           /\ seen' = Seen(T, g, IF marked THEN Flushed(Virt) ELSE {})
    /\ UNCHANGED <<w, htlb, g, ops, Tables>>

Trap(c) ==
    /\ cpu[c].mode # "kern" /\ ~cpu[c].ipi
    /\ cpu' = [cpu EXCEPT ![c].mode = "kern"]
    /\ UNCHANGED <<w, htlb, gtlb, ops, Tables, Guest>>

(* The processor caches a translation of the root it has loaded, or of the *)
(* nested table of the guest it runs.                                      *)
Fill(c, v) ==
    /\ cpu[c].cr3 # 0 /\ v \in w.cached
    /\ LET p == cpu[c].cr3
           m == Lookup(T, LocOf(p, c), v)
           x == [tag |-> Tag(p), p |-> p, v |-> v, ph |-> m.p, a |-> m.a]
       IN  m.size # 0 /\ x \notin cpu[c].tlb /\ cpu' = [cpu EXCEPT ![c].tlb = @ \cup {x}]
    /\ UNCHANGED <<w, htlb, gtlb, ops, Tables, Guest>>

FillGuest(c, v) ==
    /\ cpu[c].mode = "guest" /\ w.guest = 0 /\ v \in w.cached
    /\ LET m == Lookup(T, EptOf(cpu[c].cur), v)
           x == [p |-> cpu[c].cur, v |-> v, ph |-> m.p, a |-> m.a]
       IN  m.size # 0 /\ x \notin cpu[c].gt /\ cpu' = [cpu EXCEPT ![c].gt = @ \cup {x}]
    /\ UNCHANGED <<w, htlb, gtlb, ops, Tables, Guest>>

(* handle_exc_pf: a thread faults on a page its CPU's root does not reach  *)
(* yet; the root borrows the table from the host table.                    *)
Synced(t) == t # T /\ T' = t

PageFault(c, v) ==
    /\ cpu[c].mode = "user" /\ ~cpu[c].ipi /\ v \in w.pages /\ v < USER_ADDR
    /\ Lookup(T, LocOf(cpu[c].cur, c), v).size = 0
    /\ Synced(SyncFrom(T, LocOf(cpu[c].cur, c), HptOf(cpu[c].cur), v, L - 1))
    /\ UNCHANGED <<w, nodes, cpus, htlb, gtlb, cpu, ops, Guest>>

(* Mutant: the handler counts and does not look at the marks.              *)
TakeIpiBlind(c) ==
    /\ cpu[c].ipi /\ (cpu[c].mode # "kern" \/ Op(c).k = "wait")
    /\ cpu' = [d \in Cpu |->
                 LET x == IF Op(d).k = "wait" /\ Op(d).on = c THEN [cpu[d] EXCEPT !.op.ack = TRUE] ELSE cpu[d]
                 IN  IF d # c THEN x ELSE [x EXCEPT !.ipi = FALSE, !.mode = "kern"]]
    /\ UNCHANGED <<w, htlb, gtlb, ops, Tables, Guest>>

(* Sc::rke_handler, on a CPU with interrupts on: in user or guest mode, or *)
(* waiting for another CPU's answer.                                       *)
TakeIpi(c) ==
    /\ cpu[c].ipi /\ (cpu[c].mode # "kern" \/ Op(c).k = "wait")
    /\ cpu' = [d \in Cpu |->
                 LET x == IF Op(d).k = "wait" /\ Op(d).on = c THEN [cpu[d] EXCEPT !.op.ack = TRUE] ELSE cpu[d]
                 IN  IF d # c THEN x
                     ELSE [x EXCEPT !.ipi = FALSE, !.mode = "kern",
                                    !.hzd = @ \/ (x.cur # 0 /\ c \in htlb[x.cur])]]
    /\ UNCHANGED <<w, htlb, gtlb, ops, Tables, Guest>>
-----------------------------------------------------------------------------
(***************************************************************************)
(* Delegation and revocation, in the steps other CPUs can come between:    *)
(* the tables change, the marks are set, and shootdown goes through the    *)
(* CPUs.  An operation remembers the domain p whose tables changed and the *)
(* domain `local' whose CPUs it looks at.                                  *)
(***************************************************************************)
Begin(c, p, n, local, marks) ==
    cpu' = [cpu EXCEPT ![c].op = [k |-> "mark", p |-> p, n |-> n, local |-> local, marks |-> marks]]

Overlaps(p, n) == \E m \in nodes[p] : n.b < m.b + 2^m.o /\ m.b < n.b + 2^n.o

(* Pd::delegate of node n to domain p; a flush is due only where tables    *)
(* gave way to a larger page.                                              *)
Changed(t) == T' = t /\ seen' = Seen(t, g, {})

Delegated(c, p, n, u) ==
    /\ Changed(u.T)
    /\ nodes' = [nodes EXCEPT ![p] = @ \cup {n}]
    /\ IF u.flush THEN Begin(c, p, n, p, {"htlb"}) ELSE UNCHANGED cpu

Delegate(c, p, n) ==
    /\ Quiet(c) /\ cpu[c].cur # 0 /\ Spend
    /\ n \in w.nodes[p] /\ ~Overlaps(p, n)
    /\ Delegated(c, p, n, SpaceUpdate(T, p, n, {}, All))
    /\ UNCHANGED <<w, cpus, htlb, gtlb, vt, g>>

(* The receiver's memory runs out: what was done is taken back.            *)
DelegateOom(c, p, n, part) ==
    /\ w.oom /\ Quiet(c) /\ cpu[c].cur # 0 /\ Spend
    /\ n \in w.nodes[p] /\ ~Overlaps(p, n) /\ Hosted(n)
    /\ Changed(SpaceUpdate(SpaceUpdate(T, p, n, {}, part).T, p, n, n.a, All).T)
    /\ nodes' = [nodes EXCEPT ![p] = @ \cup {[n EXCEPT !.a = {}]}]
    /\ Begin(c, p, [n EXCEPT !.a = {}], p, {"htlb"} \cup (n.sub \cap {"guest"}))
    /\ UNCHANGED <<w, cpus, htlb, gtlb, vt, g>>

(* Pd::revoke of the rights r of node n of domain p, by p or by the domain *)
(* that delegated it.                                                      *)
Revoke(c, p, n, r) ==
    /\ Quiet(c) /\ cpu[c].cur \in {p, w.parent[p]} \ {0} /\ Spend
    /\ n \in nodes[p] /\ n.a \cap r # {}
    /\ \A d \in Cpu : Op(d).k = "mark" => Op(d).n # n
    /\ Changed(SpaceUpdate(T, p, n, r, All).T)
    /\ nodes' = [nodes EXCEPT ![p] = (@ \ {n}) \cup {[n EXCEPT !.a = @ \ r]}]
    /\ Begin(c, p, [n EXCEPT !.a = @ \ r], cpu[c].cur,
             (IF Hosted(n) THEN {"htlb"} ELSE {}) \cup (n.sub \cap {"guest"}))
    /\ UNCHANGED <<w, cpus, htlb, gtlb, vt, g>>

(* The end of Space_mem::update: the CPUs of the domain are marked.  A     *)
(* node without rights then leaves the tree.                               *)
Mark(c) ==
    /\ Op(c).k = "mark"
    /\ LET o == Op(c) IN
       /\ htlb' = IF "htlb" \in o.marks THEN [htlb EXCEPT ![o.p] = @ \cup cpus[o.p]] ELSE htlb
       /\ gtlb' = IF "guest" \in o.marks THEN [gtlb EXCEPT ![o.p] = @ \cup cpus[o.p]] ELSE gtlb
       /\ nodes' = [nodes EXCEPT ![o.p] = {m \in @ : m # o.n \/ m.a # {}}]
       /\ cpu' = [cpu EXCEPT ![c].op = [k |-> "shoot", p |-> o.p, local |-> o.local, left |-> Cpu]]
    /\ UNCHANGED <<w, T, cpus, ops, Guest>>

(* One round of Space_mem::shootdown.  A CPU it passes over keeps what its *)
(* caches hold: `missed' records those that may go on using it, because    *)
(* the local domain does not know the CPU, or because the CPU has looked   *)
(* at its mark and not yet published the domain.                           *)
Skipped(c, t) ==
    LET o == Op(c)
        switching == cpu[t].sw.at = "publish" /\ cpu[t].sw.p = o.p /\ ~cpu[t].sw.flush
    IN  IF t \notin cpus[o.local] \/ switching THEN {o.p} ELSE {}

Signalled(t) == LET p == cpu[t].cur IN p # 0 /\ (t \in htlb[p] \/ t \in gtlb[p])

ShootOne(c) ==
    /\ Op(c).k = "shoot" /\ Op(c).left # {}
    /\ LET o == Op(c)
           t == CHOOSE x \in o.left : \A y \in o.left : x <= y
           rest == [o EXCEPT !.left = @ \ {t}]
           wait == [k |-> "wait", p |-> o.p, local |-> o.local, left |-> o.left \ {t}, on |-> t, ack |-> FALSE]
       IN  cpu' = IF t \notin cpus[o.local] \/ ~Signalled(t)
                  THEN [cpu EXCEPT ![c].op = rest, ![t].missed = @ \cup Skipped(c, t)]
                  ELSE IF t = c THEN [cpu EXCEPT ![c].op = rest, ![c].hzd = TRUE]
                  ELSE [cpu EXCEPT ![c].op = wait, ![t].ipi = TRUE]
    /\ UNCHANGED <<w, htlb, gtlb, ops, Tables, Guest>>

(* The other CPU has counted the interrupt, or a second has passed.        *)
Resume(c) == [k |-> "shoot", p |-> Op(c).p, local |-> Op(c).local, left |-> Op(c).left]
WaitEnds(c) ==
    /\ Op(c).k = "wait" /\ Op(c).ack
    /\ cpu' = [cpu EXCEPT ![c].op = Resume(c)]
    /\ UNCHANGED <<w, htlb, gtlb, ops, Tables, Guest>>
WaitTimesOut(c) ==
    /\ Op(c).k = "wait" /\ ~Op(c).ack /\ cpu[Op(c).on].mode = "kern"
    /\ cpu' = [cpu EXCEPT ![c].op = Resume(c)]
    /\ UNCHANGED <<w, htlb, gtlb, ops, Tables, Guest>>

ShootDone(c) ==
    /\ Op(c).k = "shoot" /\ Op(c).left = {}
    /\ cpu' = [cpu EXCEPT ![c].op = NoOp]
    /\ UNCHANGED <<w, htlb, gtlb, ops, Tables, Guest>>
-----------------------------------------------------------------------------
(***************************************************************************)
(* The capability pages of a domain, mapped in its host table.  Reading a  *)
(* selector whose page is missing installs the shared empty frame; a       *)
(* delegation to it replaces that frame by a page of the domain's own, and *)
(* every CPU must hear of it.                                              *)
(***************************************************************************)
Resolved(p, v, t) == T' = IF t # T THEN t ELSE Replace(T, HptOf(p), v, FRAME_0, {"r"})

ObjFault(c, v) ==
    /\ Quiet(c) /\ cpu[c].cr3 # 0 /\ cpu[c].cur = cpu[c].cr3 /\ v \in w.pages /\ v >= SPC_LOCAL_OBJ
    /\ Lookup(T, LocOf(cpu[c].cur, c), v).size = 0
    /\ Resolved(cpu[c].cur, v, SyncFrom(T, LocOf(cpu[c].cur, c), HptOf(cpu[c].cur), v, 2))
    /\ UNCHANGED <<w, nodes, cpus, htlb, gtlb, cpu, ops, Guest>>

ObjDelegate(c, p, v) ==
    /\ Quiet(c) /\ cpu[c].cur # 0 /\ Spend /\ v \in w.pages /\ v >= SPC_LOCAL_OBJ
    /\ LET m == Lookup(T, HptOf(p), v)
           f == Unused(T)
           mine == {x \in cpu[c].tlb : x.p = cpu[c].cr3 /\ x.v = v}
       IN  /\ m.size = 0 \/ m.p = FRAME_0
           /\ T' = Replace(New(T), HptOf(p), v, f, {"r", "w"})
           /\ cpu' = [cpu EXCEPT ![c].tlb = @ \ mine,
                                 ![c].op = IF m.size = 0 THEN NoOp
                                           ELSE [k |-> "mark", p |-> p, n |-> NoNode, local |-> p, marks |-> {"htlb"}]]
    /\ UNCHANGED <<w, nodes, cpus, htlb, gtlb, Guest>>

(***************************************************************************)
(* Domains come and go.  The last reference gone, ~Pd revokes what is left *)
(* and frees the tables; the next domain to get the identifiers starts     *)
(* with every CPU marked.  A domain's first thread on a CPU gives it a     *)
(* root there.                                                             *)
(***************************************************************************)
CreateEc(c, p) ==
    /\ c \notin cpus[p] /\ c \in w.grow[p] /\ Spend
    /\ \E d \in Cpu : Quiet(d) /\ cpu[d].cur # 0
    /\ cpus' = [cpus EXCEPT ![p] = @ \cup {c}]
    /\ T' = SpaceInit(T, p, c)
    /\ UNCHANGED <<w, nodes, htlb, gtlb, cpu, Guest>>

ClearAll(t, p) ==
    LET e == Clear(Clear(t, "hpt", HptOf(p)), "ept", EptOf(p))
        k == FoldLeft(LAMBDA U, c : Clear(U, "loc", LocOf(p, c)), e, SetToSeq(Cpu))
    IN  [k EXCEPT !.mem = [f \in DOMAIN @ |->
             IF f \in {HptOf(p), EptOf(p)} \cup {LocOf(p, c) : c \in Cpu} THEN [i \in {0} |-> Nil] ELSE @[f]]]

DestroyPd(p) ==
    /\ p \in w.mortal /\ cpus[p] # {} /\ ~Busy(p)
    /\ \A c \in Cpu : p \notin {cpu[c].cur, cpu[c].cr3} /\ (cpu[c].sw # NoSwitch => cpu[c].sw.p # p)
                      /\ (Op(c) # NoOp => Op(c).local # p)
    /\ T' = ClearAll(FoldLeft(LAMBDA U, n : SpaceUpdate(U, p, n, n.a, All).T, T, SetToSeq(nodes[p])), p)
    /\ nodes' = [nodes EXCEPT ![p] = {}]
    /\ cpus' = [cpus EXCEPT ![p] = {}]
    /\ htlb' = [htlb EXCEPT ![p] = Cpu]
    /\ gtlb' = [gtlb EXCEPT ![p] = Cpu]
    /\ UNCHANGED <<w, cpu, ops, Guest>>

(***************************************************************************)
(* A guest without nested paging.  It rewrites its tables at any time, and *)
(* every use of a page the vTLB does not grant, and every flush, exits.    *)
(***************************************************************************)
InGuest(c) == w.guest # 0 /\ cpu[c].mode = "guest" /\ cpu[c].cur = w.guest /\ ~cpu[c].ipi
Exit(c) == cpu' = [cpu EXCEPT ![c].mode = "kern"]

GuestRewrites(c) ==
    /\ InGuest(c) /\ Spend
    /\ \E new \in w.rewrites \ {g} : g' = new /\ seen' = Seen(T, new, {})
    /\ UNCHANGED <<w, htlb, gtlb, cpu, vt, Tables>>

Missed(m) == vt' = m.vt /\ g' = m.g /\ seen' = Seen(T, m.g, {})

Miss(c, v, err) ==
    /\ InGuest(c) /\ Spend /\ v \in w.touched
    /\ LET leaf == Reach(vt, v) IN leaf = NoLeaf \/ ~(err \subseteq leaf.fl)
    /\ LET gw == gwalk(g, v, err, Peek)
       IN  Missed(miss(vt, v, gw, Lookup(T, EptOf(w.guest), gw.gpa)))
    /\ Exit(c)
    /\ UNCHANGED <<w, htlb, gtlb, Tables>>

Gone(v) == {v} \cup {x \in Virt : x \div 2^GB = v \div 2^GB /\ "F" \in Reach(vt, x).fl}
Invlpg(c, v) ==
    /\ InGuest(c) /\ Spend /\ v \in w.touched
    /\ vt' = flush_page(vt, v)
    /\ seen' = Seen(T, g, Flushed(Gone(v)))
    /\ Exit(c)
    /\ UNCHANGED <<w, htlb, gtlb, g, Tables>>

FlushGuest(c, full) ==
    /\ InGuest(c) /\ Spend
    /\ vt' = flush_all(vt, full)
    /\ seen' = Seen(T, g, Flushed({v \in Virt : full \/ "M" \notin Reach(vt, v).fl}))
    /\ Exit(c)
    /\ UNCHANGED <<w, htlb, gtlb, g, Tables>>

CpuStep(c) ==
    \/ \E p \in Pd : SwitchStart(c, p) \/ CreateEc(c, p)
    \/ SwitchPublish(c) \/ SwitchLoad(c) \/ ReturnUser(c) \/ EnterGuest(c) \/ Trap(c) \/ TakeIpi(c)
    \/ Mark(c) \/ ShootOne(c) \/ WaitEnds(c) \/ WaitTimesOut(c) \/ ShootDone(c)
    \/ \E v \in w.pages : Fill(c, v) \/ FillGuest(c, v) \/ PageFault(c, v) \/ ObjFault(c, v)

Operation(c, p) ==
    \/ \E n \in w.nodes[p] : Delegate(c, p, n) \/ \E k \in 0 .. 1 : DelegateOom(c, p, n, k)
    \/ \E n \in nodes[p], r \in w.rights : Revoke(c, p, n, r)
    \/ \E v \in w.pages : ObjDelegate(c, p, v)

GuestStep(c) ==
    \/ GuestRewrites(c)
    \/ \E v \in w.touched : Invlpg(c, v) \/ \E err \in w.errs : Miss(c, v, err)
    \/ \E full \in BOOLEAN : FlushGuest(c, full)

Next ==
    \/ \E c \in Cpu : CpuStep(c) \/ GuestStep(c) \/ \E p \in Pd : Operation(c, p)
    \/ \E p \in Pd : DestroyPd(p)

Spec == Init /\ [][Next]_vars

-----------------------------------------------------------------------------
(***************************************************************************)
(* The tables say what the nodes of the tree say, on every CPU that has    *)
(* borrowed them; no walk goes through a page as if it were a table and    *)
(* nothing is freed twice or left behind.  Superpages come and go over     *)
(* tables that smaller pages left, delegations fail half way, CPUs share   *)
(* tables that one of them frees.  (Where superpages of the third level    *)
(* are in use, Pte::update frees the table such a page replaces and not    *)
(* the tables below it; w.ord keeps that case out of the last part.)       *)
(***************************************************************************)
Says(p, v) ==
    LET over == {n \in nodes[p] : n.b <= v /\ v < n.b + 2^n.o /\ n.a # {} /\ Hosted(n)}
    IN  {[p |-> n.ph + (v - n.b), a |-> n.a] : n \in over}

Found(r, v) == LET m == Lookup(T, r, v) IN IF m.size = 0 THEN {} ELSE {[p |-> m.p, a |-> m.a]}

RECURSIVE Below(_, _)
Below(f, l) ==
    LET down == {At(T, f, i).p : i \in {i \in DOMAIN T.mem[f] : At(T, f, i) # Nil /\ ~At(T, f, i).s}} \cap Frames
    IN  down \cup (IF l = 0 THEN {} ELSE UNION {Below(d, l - 1) : d \in down \cap DOMAIN T.mem})

TablesSound ==
    /\ ~T.wild
    /\ \A p \in Pd, v \in {v \in w.pages : v < USER_ADDR} :
          /\ Found(HptOf(p), v) = Says(p, v)
          /\ \A c \in Cpu : Found(LocOf(p, c), v) \subseteq Says(p, v)
    /\ w.ord < 2 * B => DOMAIN T.mem \cap Frames = UNION {Below(r, L) : r \in Roots} \ {FRAME_0, FRAME_1, Kernel}

(***************************************************************************)
(* A CPU that caches a translation its domain no longer has is marked, so  *)
(* that it flushes before it runs the domain again; or the CPU changing    *)
(* the tables is just about to mark it, or it is just about to flush.      *)
(***************************************************************************)
Stale(x) == [p |-> x.ph, a |-> x.a] \notin Found(HptOf(x.p), x.v)

StaleIsMarked ==
    \A c \in Cpu : \A x \in cpu[c].tlb :
        Stale(x) => \/ c \in htlb[x.p]
                    \/ \E d \in Cpu : Op(d).k = "mark" /\ Op(d).p = x.p
                    \/ cpu[c].sw # NoSwitch /\ cpu[c].sw.p = x.p /\ cpu[c].sw.flush

(***************************************************************************)
(* Once a revocation has returned, no CPU uses what it took away: not a    *)
(* thread through the TLB, not a guest through the nested table or the     *)
(* vTLB.  The CPUs that shootdown passes over are the exception (`missed'),*)
(* and global entries of a vTLB.                                           *)
(***************************************************************************)
StaleGuest(x) == [p |-> x.ph, a |-> x.a] \notin Found(EptOf(x.p), x.v)

HostPages == UNION {Found(EptOf(w.guest), v) : v \in Virt}

RevokedIsUnused ==
    \A c \in Cpu : ~cpu[c].ipi =>
        /\ cpu[c].mode = "user" =>
              \A x \in cpu[c].tlb :
                  x.tag = Tag(cpu[c].cr3) /\ (Stale(x) \/ x.p # cpu[c].cr3) => Busy(x.p) \/ x.p \in cpu[c].missed
        /\ cpu[c].mode = "guest" =>
              \A x \in cpu[c].gt :
                  x.p = cpu[c].cur /\ StaleGuest(x) => Busy(x.p) \/ x.p \in cpu[c].missed
        /\ InGuest(c) =>
              \A v \in Virt : LET x == Reach(vt, v) IN
                  x = NoLeaf \/ "M" \in x.fl \/ Busy(w.guest) \/ w.guest \in cpu[c].missed
                  \/ \E m \in HostPages : m.p = x.host /\ ("W" \in x.fl => "w" \in m.a)

(***************************************************************************)
(* What the vTLB grants for a page is what the guest's tables and the      *)
(* nested table granted at some time since the guest last flushed the      *)
(* page.  (Entries below a table that was switched off, which a further    *)
(* flush does not reach, and the other half of a large page that the vTLB  *)
(* keeps as two, are not counted as flushed.)                              *)
(***************************************************************************)
VtlbIsATlb ==
    \A v \in Virt : LET x == Reach(vt, v) IN
        x # NoLeaf => \E t \in seen[v] : t.h = x.host /\ Accesses(x.fl) \subseteq t.acc
=============================================================================
