----------------------------- MODULE MCObjects ------------------------------
(***************************************************************************)
(* What the kernel keeps: the mapping database and the memory it is made  *)
(* of (pages, quotas, slabs).  The specifications share nothing but the    *)
(* names of the CPUs; one of them, side, takes steps.  The other stays as  *)
(* it is (Memory's variables are then all 0).                              *)
(***************************************************************************)
EXTENDS Mdb, TLC

CONSTANT Sides      \* which of them to check

VARIABLE side

-----------------------------------------------------------------------------
(* Mdb: spaces other than the creator's are interchangeable.               *)

MCCalls == [u \in Uses |-> IF u = "serial" THEN 4 ELSE 3]

FourCalls == [u \in Uses |-> 4]

Symmetry == Permutations(CPU) \cup Permutations(Space \ {Owner}) \cup Permutations(Attr)

-----------------------------------------------------------------------------
(* Memory: two CPUs; a pool that begins below 0, so that the indices of    *)
(* the page allocator are negative too; a child with limits.               *)

CONSTANTS Parent, Child, Kern, Cpus, None, MaxIdx, Order, Elem, Word, KernPages, CpuPages, RootNotr, Amounts,
          Needs, MaxOps, Cached, Sizes, MaxBlocks

VARIABLES buddy, quota, cache, slab, blocks, live, ops, m_pc, panic

memory == <<buddy, quota, cache, slab, blocks, live, ops, m_pc, panic>>

M == INSTANCE Memory WITH Root <- Parent, MinIdx <- -1, Limits <- {<<0, 2>>}, pc <- m_pc

-----------------------------------------------------------------------------

MCInit ==
    /\ side \in Sides /\ Init
    /\ IF side = "memory" THEN M!Init
       ELSE /\ buddy = 0 /\ quota = 0 /\ cache = 0 /\ slab = 0 /\ blocks = 0 /\ live = 0 /\ ops = 0 /\ m_pc = 0
            /\ panic = 0
    /\ side # "mdb" => use = CHOOSE u \in Uses : TRUE

MCNext ==
    \/ side = "mdb" /\ Next /\ UNCHANGED <<side, memory>>
    \/ side = "memory" /\ M!Next /\ UNCHANGED <<side, vars>>

MCSpec == MCInit /\ [][MCNext]_<<side, vars, memory>>

-----------------------------------------------------------------------------

(* Blocks of the page allocator never overlap and are merged (buddy.cpp).  *)
BlocksApart == side = "memory" => M!BlocksApart


(* A slab cache stays in the order that its allocator relies on (slab.cpp).*)
SlabsOrdered == side = "memory" => M!SlabsOrdered
=============================================================================
