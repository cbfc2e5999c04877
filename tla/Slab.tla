-------------------------------- MODULE Slab --------------------------------
(***************************************************************************)
(* Slab caches: slab.hpp and slab.cpp.                                     *)
(*                                                                         *)
(* A cache is [slabs, curr]: its slabs from head on, each named by its     *)
(* page, and the slab the next element comes from.  s[p] is the number of  *)
(* free elements (avail) of the slab in page p.  The list is kept with an  *)
(* empty slab first, then the partial ones up to curr, then the full.      *)
(***************************************************************************)
EXTENDS Integers, Sequences, SequencesExt

CONSTANTS Elem,     \* elements of a slab (Slab_cache::elem)
          None      \* the null pointer

NoCache == [slabs |-> <<>>, curr |-> None]

Full(s, p) == s[p] = 0
Empty(s, p) == s[p] = Elem

At(k, p) == SelectInSeq(k.slabs, LAMBDA q : q = p)
Prev(k, p) == IF At(k, p) = 1 THEN None ELSE k.slabs[At(k, p) - 1]

Grow(k, p) == [slabs |-> <<p>> \o k.slabs, curr |-> p]

\* Slab_cache::alloc, once there is a current slab: the slabs afterwards
\* and the cache, which moves on to the slab in front when this one is full.
TakeElem(k, s) == [s EXCEPT ![k.curr] = @ - 1]
AfterTake(k, s) ==
    IF Full(TakeElem(k, s), k.curr) THEN [k EXCEPT !.curr = Prev(k, k.curr)] ELSE k

\* Slab::free.
GiveElem(s, p) == IF s[p] >= Elem THEN s ELSE [s EXCEPT ![p] = @ + 1]

\* Slab_cache::free: a slab that was full becomes current, behind the
\* others that are not full; a slab that is now empty goes to the front,
\* or back to the page allocator when the front slab is empty already.
InsertAfter(seq, p, q) ==
    LET i == SelectInSeq(seq, LAMBDA x : x = q)
    IN  SubSeq(seq, 1, i) \o <<p>> \o SubSeq(seq, i + 1, Len(seq))

Requeued(k, s, p) ==
    LET prev == Prev(k, p)
        rest == Remove(k.slabs, p)
    IN  IF prev # None /\ Full(s, prev)
        THEN IF k.curr # None THEN InsertAfter(rest, p, k.curr) ELSE <<p>> \o rest
        ELSE k.slabs

Destroyed(k, s, p) ==
    LET t == GiveElem(s, p)
        prev == Prev(k, p)
    IN  /\ ~Full(s, p) /\ Empty(t, p) /\ prev # None
        /\ Empty(t, prev) \/ Empty(t, Head(k.slabs))

AfterGive(k, s, p) ==
    LET t == GiveElem(s, p)
        prev == Prev(k, p)
        curr == IF p = k.curr THEN prev ELSE k.curr
        rest == Remove(k.slabs, p)
    IN  IF Full(s, p) THEN [slabs |-> Requeued(k, t, p), curr |-> p]
        ELSE IF ~(Empty(t, p) /\ prev # None) THEN k
        ELSE IF Destroyed(k, s, p) THEN [slabs |-> rest, curr |-> curr]
        ELSE [slabs |-> <<p>> \o rest, curr |-> curr]

\* Slab_cache::free (Quota &) frees slabs from the front until it meets a
\* full one; after the last one there is no current slab.
DropHead(k) ==
    LET rest == Tail(k.slabs)
    IN  [slabs |-> rest, curr |-> IF rest = <<>> THEN None ELSE Head(k.slabs)]
=============================================================================
