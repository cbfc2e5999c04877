-------------------------------- MODULE Mdb ---------------------------------
(***************************************************************************)
(* The mapping database: delegation and revocation of one kernel object    *)
(* (or page) between protection domains, Pd::delegate and Pd::revoke with  *)
(* Mdb, Space and Space_obj::update.                                       *)
(*                                                                         *)
(* A node stands for one mapping.  All nodes derived from a root form a    *)
(* doubly linked list in depth-first order, in which the nodes derived     *)
(* from a node follow it with a larger depth.  Each space has at most one  *)
(* node at the selector considered (its tree, under the space's lock), and *)
(* an entry in its table, the capability that lookups find; the entry is   *)
(* written from the node under the lock of the node.  Attributes and links *)
(* change under the one lock Mdb::lock.  A step of the model is one such   *)
(* critical section, or a read outside of any.                             *)
(***************************************************************************)
EXTENDS Integers, Sequences, FiniteSets

CONSTANTS CPU,        \* the CPUs
          Space,      \* the protection domains' spaces
          Owner,      \* the space that created the object
          Attr,       \* the permissions of a capability
          Nodes,      \* bound: number of nodes ever made
          Uses,       \* the ways of using the system calls, see use
          Calls       \* bound: Calls[u] delegations and revocations in use u

ASSUME MdbAssumption ==
    /\ Owner \in Space /\ Nodes \in Nat \ {0}
    /\ Uses \subseteq {"serial", "partial", "keep", "overlap"} /\ Calls \in [Uses -> Nat]

VARIABLES node,     \* the nodes made so far: node[i] is the i-th, the root is 1
          tree,     \* of each space: the node in its tree, or 0
          cap,      \* of each space: the permissions in its table
          rcu,      \* nodes handed to Rcu::call
          pc, loc,  \* of each CPU: where it is, its local variables
          calls,    \* what is left of Calls
          use       \* how user space uses the system calls, fixed at the start

(* In every use several CPUs delegate at once, or revoke at once.          *)
(* "serial": a revocation takes all permissions away and does not overlap  *)
(* with a delegation; "partial": it takes some of them; "keep": it may     *)
(* have the flag kim (keep in mapping database); "overlap": delegations    *)
(* and revocations overlap.                                                *)

vars == <<node, tree, cap, rcu, pc, loc, calls, use>>

Node == DOMAIN node
Root == 1

\* A node that is in no list.
NewNode(i, s, d) ==
    [space |-> s, dpth |-> d, prev |-> i, next |-> i, prnt |-> 0, attr |-> {}]

\* op: what the CPU is doing; snd, rcv: the spaces; mdb, at: nodes; a: attributes;
\* self, kim: flags of the revocation; demote: is the node at within its range;
\* walk: is this the second pass?
NoLocals == [op |-> "none", snd |-> Owner, rcv |-> Owner, mdb |-> 0, at |-> 0, a |-> {},
             self |-> FALSE, kim |-> FALSE, demote |-> FALSE, walk |-> FALSE]

Init ==
    /\ node = <<[NewNode(Root, Owner, 0) EXCEPT !.attr = Attr]>>
    /\ tree = [s \in Space |-> IF s = Owner THEN Root ELSE 0]
    /\ cap = [s \in Space |-> IF s = Owner THEN Attr ELSE {}]
    /\ rcu = {}
    /\ pc = [p \in CPU |-> "idle"] /\ loc = [p \in CPU |-> NoLocals]
    /\ use \in Uses /\ calls = Calls[use]

Goto(p, l) == pc' = [pc EXCEPT ![p] = l]
Finish(p) == Goto(p, "idle") /\ loc' = [loc EXCEPT ![p] = NoLocals]

Running(o) == \E p \in CPU : loc[p].op = o
Start(p, l, locals) ==
    /\ pc[p] = "idle" /\ calls > 0 /\ calls' = calls - 1
    /\ Goto(p, l)
    /\ loc' = [loc EXCEPT ![p] = locals]
    /\ UNCHANGED <<node, tree, cap, rcu>>

-----------------------------------------------------------------------------
(* The operations on nodes, spaces and tables.                             *)

\* S::update (mdb, r): the entry of the table, without the attributes r.
Update(n, r) == cap' = [cap EXCEPT ![node[n].space] = node[n].attr \ r]

\* Mdb::demote_node
Demote(n, a) == node' = [node EXCEPT ![n].attr = @ \ a]

Alive(n) == node[node[n].prev].next = n /\ node[node[n].next].prev = n

\* Mdb::remove_node under its lock.  Only the next node gets a new parent when
\* an inner node is removed.
CanUnlink(n, leaf) == Alive(n) /\ (leaf => node[node[n].next].dpth <= node[n].dpth)
Unlink(n, leaf) ==
    LET p == node[n].prev
        x == node[n].next
        adopted == IF leaf THEN node ELSE [node EXCEPT ![x].prnt = node[n].prnt]
    IN  node' = [adopted EXCEPT ![x].prev = p, ![p].next = x]

-----------------------------------------------------------------------------
(* remove_node () && tree_remove (), then Rcu::call: shared by the second   *)
(* pass of revoke (which goes on), its kim case and a failed delegation.    *)

After(p) == IF loc[p].walk THEN Goto(p, "prev") /\ UNCHANGED loc ELSE Finish(p)

\* remove_node reads the attributes before it takes the lock.
RemoveCheck(p) ==
    /\ pc[p] = "remove"
    /\ IF node[loc[p].at].attr # {} THEN After(p) ELSE Goto(p, "unlink") /\ UNCHANGED loc
    /\ UNCHANGED <<node, tree, cap, rcu, calls>>

RemoveNode(p) ==
    /\ pc[p] = "unlink"
    /\ LET leaf == ~loc[p].kim \/ loc[p].walk IN
       IF CanUnlink(loc[p].at, leaf)
       THEN Unlink(loc[p].at, leaf) /\ Goto(p, "tree_remove") /\ UNCHANGED loc
       ELSE After(p) /\ UNCHANGED node
    /\ UNCHANGED <<tree, cap, rcu, calls>>

\* What Avl::remove takes out of the tree is the node with this selector.
TreeRemove(p) ==
    /\ pc[p] = "tree_remove"
    /\ LET n == loc[p].at
           s == node[n].space
       IN  /\ tree' = [tree EXCEPT ![s] = 0]
           /\ rcu' = IF tree[s] = 0 THEN rcu ELSE rcu \cup {n}
    /\ After(p)
    /\ UNCHANGED <<node, cap, calls>>

-----------------------------------------------------------------------------
(* Pd::delegate                                                            *)

Delegate(p, s, r, a) ==
    /\ s # r /\ a # {}
    /\ use # "overlap" => ~Running("revoke")
    /\ Start(p, "lookup", [NoLocals EXCEPT !.op = "delegate", !.snd = s, !.rcv = r, !.a = a])

\* The sender's node; without one, or without quota for a node of its own, the
\* delegation ends.
DelegateLookup(p) ==
    /\ pc[p] = "lookup"
    /\ LET m == tree[loc[p].snd] IN
       \/ Finish(p)
       \/ m # 0 /\ loc' = [loc EXCEPT ![p].mdb = m] /\ Goto(p, "tree_insert")
    /\ UNCHANGED <<node, tree, cap, rcu, calls>>

\* A new node enters the tree of the receiver, unless there is one already.
DelegateTree(p) ==
    /\ pc[p] = "tree_insert"
    /\ LET s == loc[p].rcv
           n == Len(node) + 1 IN
       IF tree[s] # 0 THEN Finish(p) /\ UNCHANGED <<node, tree>>
       ELSE /\ n <= Nodes
            /\ node' = Append(node, NewNode(n, s, node[loc[p].mdb].dpth + 1))
            /\ tree' = [tree EXCEPT ![s] = n]
            /\ loc' = [loc EXCEPT ![p].at = n]
            /\ Goto(p, "insert_node")
    /\ UNCHANGED <<cap, rcu, calls>>

\* The new node goes behind the node that follows its parent.
DelegateInsertLate(p) ==
    /\ pc[p] = "insert_node"
    /\ LET m == node[loc[p].mdb].next
           n == loc[p].at
           a == node[loc[p].mdb].attr \cap loc[p].a
           x == node[m].next IN
       IF a = {} THEN Goto(p, "tree_remove") /\ UNCHANGED node
       ELSE /\ node' = [[node EXCEPT ![n].attr = a, ![n].prev = m, ![n].prnt = loc[p].mdb, ![n].next = x]
                           EXCEPT ![x].prev = n, ![m].next = n]
            /\ Goto(p, "update")
    /\ UNCHANGED <<tree, cap, rcu, loc, calls>>

\* Mdb::insert_node: behind its parent, with the attributes they share; if the
\* parent has lost them, the node is taken out of the tree again.
DelegateInsert(p) ==
    /\ pc[p] = "insert_node"
    /\ LET m == loc[p].mdb
           n == loc[p].at
           a == node[m].attr \cap loc[p].a
           x == node[m].next IN
       IF a = {} THEN Goto(p, "tree_remove") /\ UNCHANGED node
       ELSE /\ node' = [[node EXCEPT ![n].attr = a, ![n].prev = m, ![n].prnt = m, ![n].next = x]
                           EXCEPT ![x].prev = n, ![m].next = n]
            /\ Goto(p, "update")
    /\ UNCHANGED <<tree, cap, rcu, loc, calls>>

\* The entry is written; or there is no memory for it (HZD_OOM).
DelegateUpdate(p) ==
    /\ pc[p] = "update"
    /\ \/ Update(loc[p].at, {}) /\ Finish(p)
       \/ UNCHANGED <<cap, loc>> /\ Goto(p, "oom")
    /\ UNCHANGED <<node, tree, rcu, calls>>

DelegateOom(p) ==
    /\ pc[p] = "oom"
    /\ Update(loc[p].at, loc[p].a)
    /\ Goto(p, "oom_demote")
    /\ UNCHANGED <<node, tree, rcu, loc, calls>>

DelegateDemote(p) ==
    /\ pc[p] = "oom_demote"
    /\ Demote(loc[p].at, loc[p].a)
    /\ Goto(p, "remove")
    /\ UNCHANGED <<tree, cap, rcu, loc, calls>>

-----------------------------------------------------------------------------
(* Pd::revoke                                                              *)

Revoke(p, s, a, self, kim) ==
    /\ use # "partial" => a = Attr
    /\ use # "keep" => ~kim
    /\ use # "overlap" => ~Running("delegate")
    /\ Start(p, "revoke", [NoLocals EXCEPT !.op = "revoke", !.snd = s, !.a = a, !.self = self, !.kim = kim])

\* The first node is not demoted.
RevokeLookupOthers(p) ==
    /\ pc[p] = "revoke"
    /\ LET m == tree[loc[p].snd] IN
       IF m = 0 THEN Finish(p)
       ELSE loc' = [loc EXCEPT ![p].mdb = m, ![p].at = m] /\ Goto(p, "demote")
    /\ UNCHANGED <<node, tree, cap, rcu, calls>>

\* Look the node up; with kim, a node that has children is only demoted.
RevokeLookup(p) ==
    /\ pc[p] = "revoke"
    /\ LET m == tree[loc[p].snd] IN
       IF m = 0 THEN Finish(p)
       ELSE /\ loc' = [loc EXCEPT ![p].mdb = m, ![p].at = m, ![p].demote = loc[p].self]
            /\ Goto(p, IF loc[p].kim /\ node[node[m].next].dpth > node[m].dpth THEN "kim" ELSE "demote")
    /\ UNCHANGED <<node, tree, cap, rcu, calls>>

RevokeKim(p) ==
    /\ pc[p] = "kim"
    /\ LET m == loc[p].mdb IN
       IF node[m].attr # {} THEN Update(m, Attr) /\ Goto(p, "kim_demote")
                            ELSE UNCHANGED cap /\ Goto(p, "remove")
    /\ UNCHANGED <<node, tree, rcu, loc, calls>>

RevokeKimDemote(p) ==
    /\ pc[p] = "kim_demote"
    /\ Demote(loc[p].mdb, Attr)
    /\ Goto(p, "remove")
    /\ UNCHANGED <<tree, cap, rcu, loc, calls>>


\* First pass, in the order of the list: update the table, ...
RevokeUpdate(p) ==
    /\ pc[p] = "demote"
    /\ LET n == loc[p].at IN
       IF loc[p].demote /\ node[n].attr \cap loc[p].a # {}
       THEN Update(n, loc[p].a) /\ Goto(p, "demote_node")
       ELSE UNCHANGED cap /\ Goto(p, "next")
    /\ UNCHANGED <<node, tree, rcu, loc, calls>>

\* ... then demote the node, ...
RevokeDemote(p) ==
    /\ pc[p] = "demote_node"
    /\ Demote(loc[p].at, loc[p].a)
    /\ Goto(p, "next")
    /\ UNCHANGED <<tree, cap, rcu, loc, calls>>

\* ... and go on to the next one until the depth says it is not derived.
RevokeNext(p) ==
    /\ pc[p] = "next"
    /\ LET x == node[loc[p].at].next
           m == loc[p].mdb IN
       IF node[x].dpth <= node[m].dpth
       THEN Goto(p, "check") /\ UNCHANGED loc
       ELSE /\ loc' = [loc EXCEPT ![p].at = x, ![p].demote = @ \/ (~loc[p].self /\ node[x].prnt = m)]
            /\ Goto(p, "demote")
    /\ UNCHANGED <<node, tree, cap, rcu, calls>>

\* The assertion between the passes.
Checked(p) ==
    LET m == loc[p].mdb
        x == node[loc[p].at].next
        kept == node[x].attr \cap loc[p].a # {}
    IN  \/ node[x].dpth <= node[m].dpth
        \/ loc[p].self /\ ~kept
        \/ ~loc[p].self /\ (m = loc[p].at \/ node[m].dpth + 1 >= node[x].dpth \/ ~kept)

RevokeCheck(p) ==
    /\ pc[p] = "check"
    /\ Goto(p, "remove")
    /\ loc' = [loc EXCEPT ![p].walk = TRUE]
    /\ UNCHANGED <<node, tree, cap, rcu, calls>>

\* Second pass, backwards: remove the leaves without attributes.
RevokePrev(p) ==
    /\ pc[p] = "prev"
    /\ IF node[loc[p].at].dpth <= node[loc[p].mdb].dpth
       THEN Goto(p, "end") /\ UNCHANGED loc
       ELSE loc' = [loc EXCEPT ![p].at = node[@].prev] /\ Goto(p, "remove")
    /\ UNCHANGED <<node, tree, cap, rcu, calls>>

RevokeEnd(p) ==
    /\ pc[p] = "end"
    /\ Finish(p)
    /\ UNCHANGED <<node, tree, cap, rcu, calls>>

\* chk_kern_preempt: a preempted revocation starts from the beginning.
Restart(p) ==
    /\ pc[p] \in {"demote", "demote_node", "next", "check", "remove", "prev", "kim", "kim_demote"}
    /\ loc[p].op = "revoke"
    /\ Goto(p, "revoke")
    /\ loc' = [loc EXCEPT ![p].mdb = 0, ![p].at = 0, ![p].demote = FALSE, ![p].walk = FALSE]
    /\ UNCHANGED <<node, tree, cap, rcu, calls>>

-----------------------------------------------------------------------------

Kernel(p) ==
    \/ RemoveCheck(p) \/ RemoveNode(p) \/ TreeRemove(p)
    \/ DelegateLookup(p) \/ DelegateTree(p) \/ DelegateInsert(p) \/ DelegateUpdate(p)
    \/ DelegateOom(p) \/ DelegateDemote(p)
    \/ RevokeLookup(p) \/ RevokeKim(p) \/ RevokeKimDemote(p) \/ RevokeUpdate(p) \/ RevokeDemote(p)
    \/ RevokeNext(p) \/ RevokeCheck(p) \/ RevokePrev(p) \/ RevokeEnd(p)

Next ==
    /\ UNCHANGED use
    /\ \E p \in CPU :
        \/ Kernel(p) \/ Restart(p)
        \/ \E s, r \in Space, a \in SUBSET Attr : Delegate(p, s, r, a)
        \/ \E s \in Space, a \in SUBSET Attr \ {{}}, self, kim \in BOOLEAN : Revoke(p, s, a, self, kim)

Spec == Init /\ [][Next]_vars

-----------------------------------------------------------------------------

TypeOK ==
    /\ \A n \in Node :
           /\ node[n].space \in Space /\ node[n].attr \subseteq Attr /\ node[n].dpth \in Nat
           /\ {node[n].prev, node[n].next} \subseteq Node /\ node[n].prnt \in Node \cup {0}
    /\ tree \in [Space -> Node \cup {0}] /\ cap \in [Space -> SUBSET Attr]
    /\ rcu \subseteq Node /\ use \in Uses /\ calls \in 0 .. Calls[use]

AtRest == \A p \in CPU : pc[p] = "idle"

\* Nodes that are linked into the list with another one.
Linked == {n \in Node : Alive(n) /\ (n = Root \/ node[n].next # n)}


\* The nodes that the first pass of a revocation meets from node m on: those
\* that follow it in the list as long as they are deeper.
Reached(m) ==
    LET hop[k \in 0 .. Nodes] == IF k = 0 THEN m ELSE node[hop[k - 1]].next
    IN  {hop[k] : k \in {k \in 1 .. Nodes : \A j \in 1 .. k : node[hop[j]].dpth > node[m].dpth}}

(* Whoever holds a permission can lose it again: its node is met by a      *)
(* Pd::revoke that starts at the node it was delegated from.               *)
RevocationReaches ==
    use \in {"serial", "partial"} =>
        \A n \in Node : node[n].attr # {} /\ n # Root => node[n].prnt # 0 /\ n \in Reached(node[n].prnt)

(* As long as the creator of the object has permissions of its own, it can *)
(* take them away from everybody: every node with permissions is met by a  *)
(* Pd::revoke that starts at the root, even after inner nodes were removed *)
(* (kim).                                                                  *)
CreatorRevokes ==
    use # "overlap" /\ node[Root].attr # {} =>
        \A n \in Node \ {Root} : node[n].attr # {} => n \in Reached(Root)

(* A node given to Rcu::call is out of the list and out of its tree:       *)
(* nothing leads to a node that is going to be freed.                      *)
RemovedIsUnlinked ==
    use \in {"serial", "partial"} /\ AtRest => \A n \in rcu :
        /\ \A s \in Space : tree[s] # n
        /\ \A m \in Node \ rcu : n \notin {node[m].prev, node[m].next, node[m].prnt}

(* When a Pd::revoke ends that includes its own node, no node derived from *)
(* it has one of the permissions.                                          *)
RevokeIsComplete ==
    use \in {"serial", "partial"} => \A p \in CPU : pc[p] = "end" /\ loc[p].self =>
        \A n \in Reached(loc[p].mdb) : node[n].attr \cap loc[p].a = {}

(* The assertion in Pd::revoke between the passes: the first one got       *)
(* behind everything that still has one of the permissions.                *)
FirstPassDone == \A p \in CPU : pc[p] = "check" => Checked(p)
FirstPassHolds == use # "overlap" => FirstPassDone

(* "assert (node == mdb)" at the end of Pd::revoke: the second pass leads  *)
(* back to the node at which the first one started.                        *)
EndsAtStart == use # "keep" => \A p \in CPU : pc[p] = "end" => loc[p].at = loc[p].mdb
=============================================================================
