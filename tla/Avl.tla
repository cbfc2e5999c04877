-------------------------------- MODULE Avl --------------------------------
(***************************************************************************)
(* The AVL tree (avl.cpp) in which a space (space.hpp) keeps its regions   *)
(* (mdb.hpp).                                                              *)
(*                                                                         *)
(* The heap h maps a node to its links and its balance: the heavier side,  *)
(* or 2.  A pointer to a pointer is the pair of a node and a side; the     *)
(* pointer to the tree is a link of the node Root.                         *)
(***************************************************************************)
EXTENDS Integers, FiniteSets, Sequences

CONSTANTS FRAMES,     \* the indices of the space are 0 .. FRAMES - 1
          Workloads   \* [nodes: inserted and removed; adds, dels: arguments]

VARIABLES w, h

Nil == [base |-> -1, order |-> 0]
Root == [base |-> -2, order |-> 0]

NewNode == [lnk |-> [d \in 0 .. 1 |-> Nil], bal |-> 2]
Tree == <<Root, 1>>

\* Mdb::larger and Mdb::equal
Larger(x, y) == IF x.base > y.base THEN 1 ELSE 0
Max2(a, b) == IF a > b THEN a ELSE b
Equal(x, y) == LET o == Max2(x.order, y.order) IN x.base \div 2 ^ o = y.base \div 2 ^ o

At(g, s) == g[s[1]].lnk[s[2]]
Put(g, s, n) == [g EXCEPT ![s[1]].lnk[s[2]] = n]
SetBal(g, n, b) == [g EXCEPT ![n].bal = b]

-----------------------------------------------------------------------------
(* Avl::rotate: the heap and the node returned                             *)

Rotate(g, s, d) ==
    LET node == At(g, s)
        tree == g[node].lnk[d]
        t1 == Put(Put(Put(g, s, tree), <<node, d>>, g[tree].lnk[1 - d]), <<tree, 1 - d>>, node)
    IN  <<SetBal(SetBal(t1, node, 2), tree, 2), g[tree].lnk[d]>>

Rotate2(g, s, d, b) ==
    LET n0 == At(g, s)
        n1 == g[n0].lnk[d]
        tree == g[n1].lnk[1 - d]
        t1 == Put(Put(Put(g, s, tree), <<n0, d>>, g[tree].lnk[1 - d]), <<n1, 1 - d>>, g[tree].lnk[d])
        t2 == Put(Put(t1, <<tree, d>>, n1), <<tree, 1 - d>>, n0)
        t3 == SetBal(SetBal(SetBal(t2, tree, 2), n0, 2), n1, 2)
        low == IF b = d THEN n0 ELSE n1
        high == IF b = d THEN n1 ELSE n0
    IN  IF b = 2 THEN <<t3, Nil>> ELSE <<SetBal(t3, low, 1 - b), t3[high].lnk[1 - b]>>

-----------------------------------------------------------------------------
(* Avl::insert: where the node goes and the last unbalanced node on the    *)
(* way, then the rotation there, then the balance of the nodes below.      *)

RECURSIVE InsertPath(_, _, _, _)
InsertPath(g, x, s, p) ==
    LET n == At(g, s)
    IN  IF n = Nil THEN [found |-> FALSE, tree |-> s, p |-> p]
        ELSE IF Equal(x, n) THEN [found |-> TRUE, tree |-> s, p |-> p]
        ELSE InsertPath(g, x, <<n, Larger(x, n)>>, IF g[n].bal # 2 THEN s ELSE p)

Unbalanced(g, x, p) ==
    LET n == At(g, p)
        d1 == Larger(x, n)
        m == g[n].lnk[d1]
        d2 == Larger(x, m)
        k == g[m].lnk[d2]
    IN  IF g[n].bal = 2 THEN <<g, n>>
        ELSE IF g[n].bal # d1 THEN <<SetBal(g, n, 2), m>>
        ELSE IF d1 = d2 THEN Rotate(g, p, d1)
        ELSE Rotate2(g, p, d1, IF Equal(x, k) THEN 2 ELSE Larger(x, k))

RECURSIVE Lean(_, _, _)
Lean(g, x, n) ==
    IF n = Nil \/ Equal(x, n) THEN g ELSE Lean(SetBal(g, n, Larger(x, n)), x, g[n].lnk[Larger(x, n)])

Added(g, x) == [n \in DOMAIN g \cup {x} |-> IF n = x THEN NewNode ELSE g[n]]

Leaned(x, r) == Lean(r[1], x, r[2])

InsertAt(g, x, path) ==
    IF path.found THEN g ELSE Leaned(x, Unbalanced(Put(Added(g, x), path.tree, x), x, path.p))

Inserted(g, x) == InsertAt(g, x, InsertPath(g, x, Tree, Tree))

-----------------------------------------------------------------------------
(* Avl::remove: the node to take its place, and the last node on the way   *)
(* whose height does not change; then the balance of the nodes below.      *)

RECURSIVE RemovePath(_, _, _, _, _)
RemovePath(g, x, s, p, item) ==
    LET n == At(g, s)
        d == Larger(x, n)
        i == IF Equal(x, n) THEN s ELSE item
        q == IF g[n].bal = 2 \/ (g[n].bal = 1 - d /\ g[g[n].lnk[1 - d]].bal = 2) THEN s ELSE p
    IN  IF n = Nil THEN [tree |-> s, p |-> p, item |-> item]
        ELSE IF g[n].lnk[d] = Nil THEN [tree |-> s, p |-> p, item |-> i]
        ELSE RemovePath(g, x, <<n, d>>, q, i)

\* The balances are as after any rotation.
TurnedPlain(g, p, n, d) ==
    LET m == g[n].lnk[1 - d]
    IN  IF g[m].bal = d THEN Rotate2(g, p, 1 - d, g[g[m].lnk[d]].bal)[1] ELSE Rotate(g, p, 1 - d)[1]

\* The other side is the heavier one.
Turned(g, p, n, d) ==
    LET m == g[n].lnk[1 - d]
        b == g[m].bal
        t1 == Rotate(g, p, 1 - d)[1]
    IN  IF b = d THEN Rotate2(g, p, 1 - d, g[g[m].lnk[d]].bal)[1]
        ELSE IF b = 2 THEN SetBal(SetBal(t1, n, 1 - d), At(t1, p), d)
        ELSE t1

\* The heap, item and the last direction
RECURSIVE Lower(_, _, _, _)
Lower(g, x, p, item) ==
    LET n == At(g, p)
        d == Larger(x, n)
        b == g[n].bal
        t == Turned(g, p, n, d)
    IN  IF g[n].lnk[d] = Nil THEN [g |-> g, item |-> item, d |-> d]
        ELSE IF b = 2 THEN Lower(SetBal(g, n, 1 - d), x, <<n, d>>, item)
        ELSE IF b = d THEN Lower(SetBal(g, n, 2), x, <<n, d>>, item)
        ELSE Lower(t, x, <<n, d>>, IF n = x THEN <<At(t, p), d>> ELSE item)

\* The node at the end of the way replaces the one that is removed.
Replace(l, x, tree) ==
    LET n == At(l.g, tree)
        t1 == Put(Put(l.g, l.item, n), tree, l.g[n].lnk[1 - l.d])
        t2 == [t1 EXCEPT ![n] = t1[x]]
    IN  [k \in DOMAIN t2 \ {x} |-> t2[k]]

RemoveAt(g, x, path) ==
    IF path.item[1] = Nil THEN g ELSE Replace(Lower(g, x, path.p, path.item), x, path.tree)

Removed(g, x) == RemoveAt(g, x, RemovePath(g, x, Tree, Tree, <<Nil, 0>>))

-----------------------------------------------------------------------------
(* Mdb::lookup                                                             *)

RECURSIVE Search(_, _, _, _, _)
Search(g, base, next, m, n) ==
    LET d == IF base > m.base THEN 1 ELSE 0
    IN  IF m = Nil THEN n
        ELSE IF base \div 2 ^ m.order = m.base \div 2 ^ m.order THEN m
        ELSE Search(g, base, next, g[m].lnk[d], IF d = 0 /\ next THEN m ELSE n)

Lookup(base, next) == Search(h, base, next, At(h, Tree), Nil)

-----------------------------------------------------------------------------
(* Space                                                                   *)

\* max_order: the largest order that the address and the size allow
MaxOrder(addr, size) ==
    CHOOSE o \in 0 .. 6 :
        /\ addr % 2 ^ o = 0 /\ 2 ^ o <= size
        /\ addr % 2 ^ (o + 1) # 0 \/ 2 ^ (o + 1) > size

RECURSIVE AddRegs(_, _, _)
AddRegs(g, addr, size) ==
    LET o == MaxOrder(addr, size)
    IN  IF size = 0 THEN g ELSE AddRegs(Inserted(g, [base |-> addr, order |-> o]), addr + 2 ^ o, size - 2 ^ o)

Init == w \in Workloads /\ h = [n \in {Root} |-> NewNode]

TreeInsert(x) == h' = Inserted(h, x) /\ UNCHANGED w

TreeRemove(x) == x \in DOMAIN h /\ h' = Removed(h, x) /\ UNCHANGED w

AddReg(addr, size) ==
    /\ \A i \in addr .. addr + size - 1 : Lookup(i, FALSE) = Nil
    /\ h' = AddRegs(h, addr, size)
    /\ UNCHANGED w

\* The rest is counted from the index itself.
DelRegLong(addr) ==
    LET node == Lookup(addr, FALSE)
        last == node.base + 2 ^ node.order
    IN  /\ node # Nil
        /\ h' = AddRegs(AddRegs(Removed(h, node), node.base, addr - node.base), addr + 1, last - addr)
        /\ UNCHANGED w

DelReg(addr) ==
    LET node == Lookup(addr, FALSE)
        last == node.base + 2 ^ node.order
    IN  /\ node # Nil
        /\ h' = AddRegs(AddRegs(Removed(h, node), node.base, addr - node.base), addr + 1, last - addr - 1)
        /\ UNCHANGED w

Next ==
    \/ \E x \in w.nodes : TreeInsert(x) \/ TreeRemove(x)
    \/ \E r \in w.adds : AddReg(r[1], r[2])
    \/ \E addr \in w.dels : DelReg(addr)

vars == <<w, h>>
Spec == Init /\ [][Next]_vars

-----------------------------------------------------------------------------

RECURSIVE Height(_, _)
Height(g, n) == IF n = Nil THEN 0 ELSE 1 + Max2(Height(g, g[n].lnk[0]), Height(g, g[n].lnk[1]))

Heavier(l, r) == IF l = r THEN 2 ELSE IF l = r + 1 THEN 0 ELSE IF r = l + 1 THEN 1 ELSE 3

\* The region with the index, or else the first one behind it, if asked for
Found(set, base, next) ==
    LET in == {x \in set : base \in x.base .. x.base + 2 ^ x.order - 1}
        all == IF in # {} THEN in ELSE {x \in set : next /\ x.base > base}
    IN  IF all = {} THEN Nil ELSE CHOOSE x \in all : \A y \in all : x.base <= y.base

(* Every lookup finds what it should, and every node's balance is what     *)
(* insert and remove take it for: 2 where both sides are equally high, or  *)
(* else the side that is higher, by one.  Both rebuild the tree from the   *)
(* balances they find, so one that is wrong makes a later rotation follow  *)
(* a null link.                                                            *)
TreeSound ==
    /\ \A n \in DOMAIN h \ {Root} : h[n].bal = Heavier(Height(h, h[n].lnk[0]), Height(h, h[n].lnk[1]))
    /\ \A base \in 0 .. FRAMES - 1, next \in BOOLEAN : Lookup(base, next) = Found(DOMAIN h \ {Root}, base, next)

\* TreeSound says that all of them are reached from the root.
Regs == INSTANCE Regions WITH set <- DOMAIN h \ {Root}

(* The tree implements a set of regions that do not overlap: no insertion, *)
(* removal or split of a region loses another one.                         *)
SpaceIsSet == Regs!Spec
=============================================================================
