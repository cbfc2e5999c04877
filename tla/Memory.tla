------------------------------- MODULE Memory -------------------------------
(***************************************************************************)
(* Kernel memory: the page allocator, the slab caches and the quotas as    *)
(* the CPUs use them together.                                             *)
(*                                                                         *)
(* Two protection domains, Root and Child, have a quota and a cache each.  *)
(* A CPU allocates for a domain after a hit_limit check it makes without   *)
(* a lock, charging either the domain's quota or, inside Pd::delegate, a   *)
(* Quota_guard: a quota of its own that borrows from the domain's and      *)
(* returns everything at the end.  Child is created by Root and destroyed  *)
(* again.  A step is one critical section; pc says what is still to come   *)
(* when an operation has released one lock and not yet taken the next.     *)
(***************************************************************************)
EXTENDS Buddy, Quota, Slab, FiniteSets, FiniteSetsExt

CONSTANTS CPU,
          Root, Child,          \* protection domains
          Kern, Cpus,           \* the kernel's quota and the share kept per CPU
          KernPages,            \* pages the kernel holds when Root starts
          CpuPages,             \* 4 per CPU in the code
          RootNotr,             \* what Root may not transfer
          Cached,               \* the domains whose caches are used
          Limits,               \* lower and upper limits given to Child
          Amounts,              \* amounts moved by sys_pd_ctrl
          Needs,                \* pages asked of hit_limit and of a guard
          Sizes,                \* orders of the blocks used outside the caches
          MaxOps,               \* bound: operations started
          MaxBlocks             \* bound: blocks that are allocated at once

PD == {Root, Child}
Quotas == PD \cup {Kern, Cpus} \cup CPU     \* a CPU's own quota is its Quota_guard

VARIABLES
    buddy,      \* the pool
    quota,      \* the quotas
    cache,      \* per domain, its slab cache
    slab,       \* the free elements of every slab, by page
    blocks,     \* blocks in use outside the caches: [idx, pd]
    live,       \* the domains that exist
    ops,        \* operations started so far
    pc,         \* per CPU, what it is doing
    panic       \* Console::panic ("Out of memory")

vars == <<buddy, quota, cache, slab, blocks, live, ops, pc, panic>>

Idle == [op |-> "idle"]
Goto(c, next) == pc' = [pc EXCEPT ![c] = next]

\* The cache of a domain is locked by a CPU that is giving a slab back.
Locked(pd) == \E c \in CPU : pc[c].op = "put" /\ pc[c].lock = pd
Busy(pd) == \E c \in CPU : pc[c].op # "idle" /\ pd \in pc[c].uses

-----------------------------------------------------------------------------
(* The state Root starts from: everything was freed into Quota::init,      *)
(* moved to Root's quota, and what the kernel used was taken off it.       *)

BootRoot ==
    LET init == [NoQuota EXCEPT !.over = MaxIdx - MinIdx, !.upli = MaxIdx - MinIdx]
    IN  TransferIn(NoQuota, init.upli, Credit(init, init.upli))

BootPool == FoldLeft(LAMBDA b, n : AllocBlock(b, 0), Pool, [n \in 1 .. KernPages |-> n])

\* Quota::boot.
BootKern(kern, root) == [kern EXCEPT !.upli = kern.used]
BootRest(kern, root) == [root EXCEPT !.upli = Sub(@, kern.used)]

Init ==
    /\ buddy = BootPool
    /\ LET kern == QuotaAlloc(NoQuota, KernPages)
           root == BootRest(kern, BootRoot)
       IN  quota = [q \in Quotas |->
               CASE q = Kern -> BootKern(kern, BootRoot)
                 [] q = Root -> [TransferOut(root, CpuPages) EXCEPT !.notr = RootNotr]
                 [] q = Cpus -> TransferIn(NoQuota, CpuPages, Credit(root, CpuPages))
                 [] OTHER -> NoQuota]
    /\ cache = [pd \in PD |-> NoCache]
    /\ slab = [i \in Idx |-> 0]
    /\ blocks = {}
    /\ live = {Root}
    /\ ops = 0
    /\ pc = [c \in CPU |-> Idle]
    /\ panic = FALSE

-----------------------------------------------------------------------------
(* Allocating.                                                             *)

\* A system call finds room under the limit and goes on to allocate.
Check(c, pd, n) ==
    /\ pc[c] = Idle /\ pd \in live
    /\ ~HitLimit(quota[pd], n)
    /\ Goto(c, [op |-> "alloc", pd |-> pd, q |-> pd, uses |-> {pd}])
    /\ UNCHANGED <<buddy, quota, cache, slab, blocks, live, panic>>

\* Where an allocation leaves the CPU: a guard stays open.
Allocated(c) == IF pc[c].q = c THEN [pc[c] EXCEPT !.op = "guard"] ELSE Idle

\* Buddy::alloc of 2^o pages: page tables, UTCBs, I/O bitmaps.
AllocPages(c, o) ==
    /\ pc[c].op = "alloc" /\ Cardinality(blocks) < MaxBlocks
    /\ IF Found(buddy, o) = Order
       THEN panic' = TRUE /\ UNCHANGED <<buddy, quota, blocks, pc>>
       ELSE /\ buddy' = AllocBlock(buddy, o)
            /\ quota' = [quota EXCEPT ![pc[c].q] = QuotaAlloc(@, Pow(o))]
            /\ blocks' = blocks \cup {[idx |-> Block(buddy, o), pd |-> pc[c].pd]}
            /\ Goto(c, Allocated(c))
            /\ UNCHANGED panic
    /\ UNCHANGED <<cache, slab, live>>

\* Slab_cache::alloc, which first grows the cache when it has no slab with
\* a free element.
AllocElem(c) ==
    LET pd == IF pc[c].op = "alloc" THEN pc[c].pd ELSE Root
        grow == cache[pd].curr = None
        page == Block(buddy, 0)
        k == IF grow THEN Grow(cache[pd], page) ELSE cache[pd]
        s == IF grow THEN [slab EXCEPT ![page] = Elem] ELSE slab
    IN  /\ pc[c].op = "alloc" /\ pd \in Cached /\ ~Locked(pd)
        /\ IF grow /\ Found(buddy, 0) = Order
           THEN panic' = TRUE /\ UNCHANGED <<buddy, quota, cache, slab, pc>>
           ELSE /\ buddy' = IF grow THEN AllocBlock(buddy, 0) ELSE buddy
                /\ quota' = [quota EXCEPT ![pc[c].q] = IF grow THEN QuotaAlloc(@, 1) ELSE @]
                /\ slab' = TakeElem(k, s)
                /\ cache' = [cache EXCEPT ![pd] = AfterTake(k, s)]
                /\ Goto(c, Allocated(c))
                /\ UNCHANGED panic
        /\ UNCHANGED <<blocks, live>>

-----------------------------------------------------------------------------
(* Freeing: the quota is credited first, then the page allocator takes the *)
(* block.                                                                  *)

\* Buddy::_free, first half, for a block outside the caches.
FreeQuota(c, x) ==
    /\ pc[c] = Idle /\ x \in blocks
    /\ quota' = [quota EXCEPT ![x.pd] = QuotaFree(@, Pow(buddy.ord[x.idx]))]
    /\ blocks' = blocks \ {x}
    /\ Goto(c, [op |-> "put", idx |-> x.idx, lock |-> None, then |-> Idle, uses |-> {x.pd}])
    /\ UNCHANGED <<buddy, cache, slab, live, panic>>

\* Buddy::_free, second half.
FreeMerge(c) ==
    /\ pc[c].op = "put"
    /\ buddy' = FreeBlock(buddy, pc[c].idx)
    /\ Goto(c, pc[c].then)
    /\ UNCHANGED <<quota, cache, slab, blocks, live, panic>>

\* Slab_cache::free of an element.
FreeElem(c, pd, p) ==
    /\ pc[c] = Idle /\ pd \in live /\ ~Locked(pd)
    /\ p \in ToSet(cache[pd].slabs) /\ slab[p] < Elem
    /\ cache' = [cache EXCEPT ![pd] = AfterGive(@, slab, p)]
    /\ IF Destroyed(cache[pd], slab, p)
       THEN /\ slab' = [slab EXCEPT ![p] = 0]
            /\ quota' = [quota EXCEPT ![pd] = QuotaFree(@, 1)]
            /\ Goto(c, [op |-> "put", idx |-> p, lock |-> pd, then |-> Idle, uses |-> {pd}])
       ELSE slab' = GiveElem(slab, p) /\ UNCHANGED <<quota, pc>>
    /\ UNCHANGED <<buddy, blocks, live, panic>>

-----------------------------------------------------------------------------
(* Moving quota.                                                           *)

\* transfer_to, first critical section: t pages leave the quota src.
Send(c, src, dst, t, check_notr, then, uses) ==
    /\ MayTransfer(quota[src], t, check_notr)
    /\ quota' = [quota EXCEPT ![src] = TransferOut(@, t)]
    /\ Goto(c, [op |-> "arrive", to |-> dst, t |-> t, o |-> Credit(quota[src], t),
                then |-> then, uses |-> uses])
    /\ UNCHANGED <<buddy, cache, slab, blocks, live, panic>>

\* transfer_to, second critical section.
Arrive(c) ==
    /\ pc[c].op = "arrive"
    /\ quota' = [quota EXCEPT ![pc[c].to] = TransferIn(@, pc[c].t, pc[c].o)]
    /\ Goto(c, pc[c].then)
    /\ UNCHANGED <<buddy, cache, slab, blocks, live, panic>>

SysPdCtrl(c, src, dst, t) ==
    /\ pc[c] = Idle /\ {src, dst} \subseteq live
    /\ Send(c, src, dst, t, TRUE, Idle, {src, dst})

\* free_up, first critical section: what is in quota q goes to quota to.
Leave(c, q, to) ==
    /\ quota' = [quota EXCEPT ![q] = FreeUpOut(@)]
    /\ Goto(c, [op |-> "give", to |-> to, l |-> quota[q].upli, u |-> quota[q].used,
                o |-> quota[q].over, uses |-> {to}])

\* free_up, second critical section.
Give(c) ==
    /\ pc[c].op = "give"
    /\ quota' = [quota EXCEPT ![pc[c].to] = FreeUpIn(@, pc[c].l, pc[c].u, pc[c].o)]
    /\ Goto(c, Idle)
    /\ UNCHANGED <<buddy, cache, slab, blocks, live, panic>>

-----------------------------------------------------------------------------
(* Pd::delegate and the other users of a Quota_guard.                      *)

Guard(c, pd) ==
    /\ pc[c] = Idle /\ pd \in live
    /\ quota' = [quota EXCEPT ![c] = NoQuota]
    /\ Goto(c, [op |-> "guard", pd |-> pd, q |-> c, uses |-> {pd}])
    /\ UNCHANGED <<buddy, cache, slab, blocks, live, panic>>

\* A mapping node is allocated after a look at the domain's own limit.
GuardNode(c) ==
    /\ pc[c].op = "guard" /\ ~HitLimit(quota[pc[c].pd], 1)
    /\ Goto(c, [pc[c] EXCEPT !.op = "alloc"])
    /\ UNCHANGED <<buddy, quota, cache, slab, blocks, live, panic>>

\* Quota_guard::check (n): page-table pages are allocated when it succeeds,
\* the operation ends when it fails and after the last check (0).
GuardCheck(c, n) ==
    LET q == quota[c]
        pd == pc[c].pd
        next == [pc[c] EXCEPT !.op = IF n = 0 THEN "close" ELSE "alloc"]
    IN  /\ pc[c].op = "guard"
        /\ \/ /\ ~HitLimit(q, n)
              /\ Goto(c, next)
              /\ UNCHANGED <<buddy, quota, cache, slab, blocks, live, panic>>
           \/ /\ HitLimit(q, n)
              /\ Send(c, pd, c, Missing(q, n), FALSE, next, {pd})
           \/ /\ HitLimit(q, n) /\ ~MayTransfer(quota[pd], Missing(q, n), FALSE)
              /\ Goto(c, [pc[c] EXCEPT !.op = "close"])
              /\ UNCHANGED <<buddy, quota, cache, slab, blocks, live, panic>>

\* ~Quota_guard.
GuardEnd(c) ==
    /\ pc[c].op = "close"
    /\ Leave(c, c, pc[c].pd)
    /\ UNCHANGED <<buddy, cache, slab, blocks, live, panic>>

-----------------------------------------------------------------------------
(* Child comes and goes.                                                   *)

\* sys_create_pd with the limits l: set_limit moves the upper limit over.
CreatePd(c, l) ==
    /\ pc[c] = Idle /\ Child \notin live /\ ~Busy(Child)
    /\ ~HitLimit(quota[Root], 1)
    /\ Send(c, Root, Child, l[2], TRUE, [op |-> "limit", l |-> l[1], uses |-> {Root, Child}], {Root, Child})

SetLimit(c) ==
    /\ pc[c].op = "limit"
    /\ quota' = [quota EXCEPT ![Child].notr = pc[c].l]
    /\ live' = live \cup {Child}
    /\ Goto(c, Idle)
    /\ UNCHANGED <<buddy, cache, slab, blocks, panic>>

\* ~Pd runs when nobody uses the domain any more and its page tables are
\* gone; it frees the slabs of its caches.
DestroyPd(c) ==
    /\ pc[c] = Idle /\ Child \in live /\ ~Busy(Child)
    /\ \A x \in blocks : x.pd # Child
    /\ live' = live \ {Child}
    /\ Goto(c, [op |-> "drop", uses |-> {Root, Child}])
    /\ UNCHANGED <<buddy, quota, cache, slab, blocks, panic>>

Droppable(k) == k.slabs # <<>> /\ ~Full(slab, Head(k.slabs))

DropSlab(c) ==
    LET k == cache[Child]
    IN  /\ pc[c].op = "drop" /\ Droppable(k)
        /\ quota' = [quota EXCEPT ![Child] = QuotaFree(@, 1)]
        /\ cache' = [cache EXCEPT ![Child] = DropHead(k)]
        /\ slab' = [slab EXCEPT ![Head(k.slabs)] = 0]
        /\ Goto(c, [op |-> "put", idx |-> Head(k.slabs), lock |-> None, then |-> pc[c], uses |-> {Root, Child}])
        /\ UNCHANGED <<buddy, blocks, live, panic>>

\* operator delete: the rest of the quota goes back to Root.
DeletePd(c) ==
    /\ pc[c].op = "drop" /\ ~Droppable(cache[Child])
    /\ Leave(c, Child, Root)
    /\ cache' = [cache EXCEPT ![Child] = NoCache]
    /\ UNCHANGED <<buddy, slab, blocks, live, panic>>

\* What a CPU may start, and what it goes on with.
Start(c) ==
    \/ \E pd \in PD, n \in Needs : Check(c, pd, n)
    \/ \E pd \in PD : Guard(c, pd)
    \/ \E x \in blocks : FreeQuota(c, x)
    \/ \E pd \in Cached, p \in Idx : FreeElem(c, pd, p)
    \/ \E src, dst \in PD, t \in Amounts : SysPdCtrl(c, src, dst, t)
    \/ DestroyPd(c)
    \/ \E l \in Limits : CreatePd(c, l)

Continue(c) ==
    \/ AllocElem(c) \/ \E o \in Sizes : AllocPages(c, o)
    \/ FreeMerge(c)
    \/ Arrive(c) \/ Give(c)
    \/ GuardNode(c) \/ GuardEnd(c) \/ \E n \in Needs \cup {0} : GuardCheck(c, n)
    \/ SetLimit(c) \/ DropSlab(c) \/ DeletePd(c)

Step(c) ==
    \/ Continue(c) /\ UNCHANGED ops
    \/ Start(c) /\ ops < MaxOps /\ ops' = ops + 1

Next == ~panic /\ \E c \in CPU : Step(c)

Spec == Init /\ [][Next]_vars

-----------------------------------------------------------------------------
(* Properties.                                                             *)

InFlight(c) ==
    CASE pc[c].op = "arrive" -> pc[c].t
      [] pc[c].op = "give"   -> pc[c].l - pc[c].u
      [] pc[c].op = "put"    -> 0 - Pow(buddy.ord[pc[c].idx])
      [] OTHER -> 0


UsedBlocks ==
    {<<x.idx, buddy.ord[x.idx]>> : x \in blocks}
    \cup UNION {{<<p, 0>> : p \in ToSet(cache[pd].slabs)} : pd \in PD}
    \cup {<<pc[c].idx, buddy.ord[pc[c].idx]>> : c \in {d \in CPU : pc[d].op = "put"}}

\* Blocks of the page allocator never overlap: a page is free or in one
\* block that somebody holds.  Free blocks lie in the pool, aligned, with the
\* tag and the order of their list, and are merged as far as they can be: no
\* free block of less than the largest order has a free buddy of its size.
BlocksApart ==
    LET all == FreeBlocks(buddy) \cup UsedBlocks
    IN  /\ \A x, y \in all : x # y => Pages(x[1], x[2]) \cap Pages(y[1], y[2]) = {}
        /\ \A f \in FreeBlocks(buddy) :
               /\ f[1] % Pow(f[2]) = 0 /\ Pages(f[1], f[2]) \subseteq Idx
               /\ buddy.tag[f[1]] = "Free" /\ buddy.ord[f[1]] = f[2]
               /\ f[2] < Order - 1 => <<BuddyOf(f[1], f[2]), f[2]>> \notin FreeBlocks(buddy)
        /\ \A k \in Orders : IsInjective(buddy.head[k])

\* A slab cache stays in the order its allocator relies on (the assertions
\* of Slab_cache::alloc): every slab up to curr has a free element and every
\* slab behind it is full, an empty slab is the first of the list, and there
\* is a current slab as long as any element is free.
SlabsOrdered ==
    \A pd \in live :
        LET k == cache[pd]
            n == IF k.curr = None THEN 0 ELSE At(k, k.curr)
        IN  /\ \A i \in 1 .. Len(k.slabs) : Full(slab, k.slabs[i]) <=> i > n
            /\ \A i \in 1 .. Len(k.slabs) : Elem > 1 /\ Empty(slab, k.slabs[i]) => i = 1
=============================================================================
