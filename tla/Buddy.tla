------------------------------- MODULE Buddy --------------------------------
(***************************************************************************)
(* The page allocator: buddy.hpp and buddy.cpp.                            *)
(*                                                                         *)
(* A pool is a record of the three tables the code keeps: the tag and the  *)
(* order written in the Block of every page, and for every order the list  *)
(* of free blocks (head[ord], first element first).  Block entries that    *)
(* are not the first page of a block keep whatever was written last, as in *)
(* the code.  Indexes are signed: base is the pool's start rounded up.     *)
(***************************************************************************)
EXTENDS Integers, Sequences, SequencesExt

CONSTANTS MinIdx, MaxIdx,   \* the pages of the pool: MinIdx .. MaxIdx - 1
          Order             \* the number of free lists

Idx == MinIdx .. MaxIdx - 1
Orders == 0 .. Order - 1

Pow(k) == 2 ^ k

\* block_idx ^ (1 << ord), for signed indexes.
BuddyOf(i, k) == IF (i \div Pow(k)) % 2 = 0 THEN i + Pow(k) ELSE i - Pow(k)

\* The first page of the block of order k that page i falls into.
Base(i, k) == i - (i % Pow(k))

\* One round of the merge loop of _free: the block of page i has order k
\* and its buddy is inside the pool, free and whole.
\* Mutant: a buddy that is split is taken for whole.
JoinsSplit(b, i, k) ==
    LET n == BuddyOf(Base(i, k), k)
    IN  k < Order - 1 /\ n \in Idx /\ b.tag[n] = "Free"
Joins(b, i, k) ==
    LET n == BuddyOf(Base(i, k), k)
    IN  k < Order - 1 /\ n \in Idx /\ b.tag[n] = "Free" /\ b.ord[n] = k

\* The order the block of page i has when the merge loop ends.
Merged(b, i) ==
    CHOOSE k \in b.ord[i] .. Order - 1 :
        ~Joins(b, i, k) /\ \A j \in b.ord[i] .. k - 1 : Joins(b, i, j)

FreeBlock(b, i) ==
    LET k == Merged(b, i)
        joined == {BuddyOf(Base(i, j), j) : j \in b.ord[i] .. k - 1}
        rest == [j \in Orders |-> SelectSeq(b.head[j], LAMBDA n : n \notin joined)]
    IN  [tag  |-> [b.tag EXCEPT ![Base(i, k)] = "Free"],
         ord  |-> [b.ord EXCEPT ![Base(i, k)] = k],
         head |-> [rest EXCEPT ![k] = <<Base(i, k)>> \o @]]

\* The smallest order of at least o with a free block; Order when none has.
Found(b, o) ==
    CHOOSE j \in o .. Order :
        /\ j < Order => b.head[j] # <<>>
        /\ \A k \in o .. j - 1 : b.head[k] = <<>>

\* The block _alloc returns, and the pool afterwards: the upper halves of
\* the block that is split replace the (empty) lists of the orders below.
Block(b, o) == Head(b.head[Found(b, o)])
AllocBlock(b, o) ==
    LET j == Found(b, o)
        i == Block(b, o)
        half == {i + Pow(k) : k \in o .. j - 1}
    IN  [tag  |-> [n \in Idx |-> IF n = i THEN "Used" ELSE IF n \in half THEN "Free" ELSE b.tag[n]],
         ord  |-> [n \in Idx |-> IF n = i THEN o
                                 ELSE IF n \in half THEN CHOOSE k \in o .. j - 1 : n = i + Pow(k)
                                 ELSE b.ord[n]],
         head |-> [k \in Orders |-> IF k = j THEN Tail(b.head[j])
                                    ELSE IF k \in o .. j - 1 THEN <<i + Pow(k)>>
                                    ELSE b.head[k]]]

\* The constructor: every page is marked used (the zeroed index) and freed.
Pool ==
    FoldLeft(FreeBlock,
             [tag |-> [i \in Idx |-> "Used"], ord |-> [i \in Idx |-> 0], head |-> [k \in Orders |-> <<>>]],
             [n \in 1 .. MaxIdx - MinIdx |-> MinIdx + n - 1])

-----------------------------------------------------------------------------
(* What is free.                                                           *)

Pages(i, k) == i .. i + Pow(k) - 1
FreeBlocks(b) == UNION {{<<i, k>> : i \in ToSet(b.head[k])} : k \in Orders}
FreePages(b) == UNION {Pages(f[1], f[2]) : f \in FreeBlocks(b)}
=============================================================================
