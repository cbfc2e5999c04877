------------------------------- MODULE Vtlb -------------------------------
(***************************************************************************)
(* The virtual TLB (vtlb.cpp): the tables the processor walks while a      *)
(* guest without nested paging runs.  A miss walks the guest's own tables  *)
(* (gwalk) and the host's (hwalk) and enters the result; the guest's TLB   *)
(* flushes take entries away, but lazily: a flush only marks the top       *)
(* table, and the tables below are swept when a later miss comes back to   *)
(* them.                                                                   *)
(*                                                                         *)
(* A vTLB has three levels of 2^VB entries; an entry is a record of its    *)
(* bits, the page it maps and, in place of a table's address, the table.   *)
(* The guest's tables have two levels; a large page (TLB_S) is as large as *)
(* the 2^GB pages of a table.                                              *)
(***************************************************************************)
EXTENDS Integers, FiniteSets

CONSTANTS VB, GB

Whole == 2^(3 * VB)
Idx(v, l) == (v \div 2^(l * VB)) % 2^VB

(* The Vtlb constructor: not present, no table below.                      *)
Blank == [i \in 0 .. 2^VB - 1 |-> [fl |-> {"S"}, host |-> 0, sub |-> <<>>]]

(* gwalk: the guest's translation of page gla for an access err (a subset  *)
(* of W, U), from guest tables g = [pg, wp, pge, dir], with peek telling   *)
(* whether the monitor's memory has the guest's tables.  The result holds  *)
(* the size, the page, the rights, the error and the guest's tables after  *)
(* accessed and dirty bits are set; `hole' is the access to a table that   *)
(* is not there.                                                           *)
Marked(attr) == (IF "P" \in attr THEN {"A"} ELSE {}) \cup (IF "W" \in attr THEN {"D"} ELSE {})

GFault(g, err) == [size |-> 0, gpa |-> 0, attr |-> {}, err |-> err, g |-> g]

GLeaf(g, e, attr, err, size, gla) ==
    LET d  == gla \div 2^GB
        k  == gla % 2^GB
        a1 == IF ~g.wp /\ err = {"W"} THEN (attr \ {"U"}) \cup {"W"} ELSE attr
        a2 == IF "W" \notin err /\ "D" \notin e.a THEN a1 \ {"W"} ELSE a1
        a3 == a2 \cup (e.a \cap {"UC"}) \cup (IF g.pge /\ "G" \in e.a THEN {"M"} ELSE {})
    IN  IF ~ (err \subseteq a1) THEN GFault(g, err \cup {"P"})
        ELSE [size |-> size, gpa |-> (e.gfn - (e.gfn % size)) + (gla % size), attr |-> a3, err |-> err,
              g |-> IF size = 1 THEN [g EXCEPT !.dir[d].tab[k].a = @ \cup Marked(a2)]
                    ELSE [g EXCEPT !.dir[d].a = @ \cup Marked(a2)]]

gwalk(g, gla, err, peek) ==
    LET all  == {"U", "W", "P"}
        hole(p) == [size |-> Whole, gpa |-> p, attr |-> all, err |-> err, g |-> g]
        d    == gla \div 2^GB
        k    == gla % 2^GB
        dir  == g.dir[d]
        down == [g EXCEPT !.dir[d].a = @ \cup {"A"}]
    IN  IF ~g.pg THEN [hole(gla) EXCEPT !.gpa = gla]
        ELSE IF ~peek THEN hole(g.at)
        ELSE IF "P" \notin dir.a THEN GFault(g, err)
        ELSE IF "S" \in dir.a
        THEN GLeaf(g, dir, all \cap dir.a, err, 2^GB, gla)
        ELSE IF "P" \notin dir.tab[k].a THEN GFault(down, err)
        ELSE GLeaf(down, dir.tab[k], all \cap dir.a \cap dir.tab[k].a, err, 1, gla)

(* hwalk: the host's translation h of that page, and the rights left.      *)
hwalk(h, attr, err) ==
    LET a == IF "w" \in h.a THEN attr ELSE attr \ {"W"}
    IN  IF h.size # 0 /\ ~ (err \subseteq a) THEN [size |-> 0, attr |-> a] ELSE [size |-> h.size, attr |-> a]

(* flush_ptab: switch off the entries of one table.  A full flush marks    *)
(* them (M) so that what is below goes too; otherwise a marked entry, all  *)
(* of it global, stays.                                                    *)
flush_ptab(tab, full) ==
    [i \in DOMAIN tab |->
        LET e == tab[i]
        IN  IF "P" \notin e.fl THEN e
            ELSE IF full THEN [e EXCEPT !.fl = (@ \cup {"M"}) \ {"P"}]
            ELSE IF "M" \in e.fl THEN e
            ELSE [e EXCEPT !.fl = @ \ {"P"}]]

(* flush (virt): switch off the entry for one page; an entry some of whose *)
(* guest page was split (F) goes as a whole.                               *)
RECURSIVE FlushAt(_, _, _)
FlushAt(tab, l, virt) ==
    LET i == Idx(virt, l)
        e == tab[i]
    IN  IF "P" \notin e.fl THEN tab
        ELSE IF l > 0 /\ "S" \notin e.fl /\ "F" \notin e.fl
        THEN [tab EXCEPT ![i].sub = FlushAt(e.sub, l - 1, virt)]
        ELSE [tab EXCEPT ![i].fl = (@ \cup {"M"}) \ {"P"}]
flush_page(vt, virt) == FlushAt(vt, 2, virt)
flush_all(vt, full) == flush_ptab(vt, full)

(* Mutant: a table that was switched off is not swept.                     *)
OpenedUnswept(e, lev) ==
    IF "S" \in e.fl
    THEN [fl |-> {"M", "P"} \cup (IF lev = 2 THEN {} ELSE {"A", "U", "W"}), host |-> 0, sub |-> Blank]
    ELSE [e EXCEPT !.fl = @ \cup {"M", "P"}]

(* miss: enter the page `host' for virt with the rights attr, as large as  *)
(* both walks allow; a table that was switched off is swept first.         *)
Opened(e, lev) ==
    IF "S" \in e.fl
    THEN [fl |-> {"M", "P"} \cup (IF lev = 2 THEN {} ELSE {"A", "U", "W"}), host |-> 0, sub |-> Blank]
    ELSE IF "P" \notin e.fl
    THEN [e EXCEPT !.fl = @ \cup {"M", "P"}, !.sub = flush_ptab(@, "M" \in e.fl)]
    ELSE e

RECURSIVE Enter(_, _, _, _, _, _)
Enter(tab, lev, virt, size, attr, host) ==
    LET i == Idx(virt, lev)
        o == Opened(tab[i], lev)
    IN  IF lev > 0 /\ (lev = 2 \/ size < 2^(lev * VB))
        THEN [tab EXCEPT ![i] =
                 [o EXCEPT !.fl = (IF "M" \in attr THEN @ ELSE @ \ {"M"}) \cup (attr \cap {"F"}),
                           !.sub = Enter(@, lev - 1, virt, size, attr, host)]]
        ELSE [tab EXCEPT ![i] = [fl |-> attr \cup {"D", "A"} \cup (IF lev > 0 THEN {"S"} ELSE {}),
                                 host |-> host - (host % 2^(lev * VB)), sub |-> <<>>]]

(* The whole of Vtlb::miss; gw is what gwalk finds, h what the nested      *)
(* table holds for the page it finds.                                      *)
miss(vt, virt, gw, h) ==
    LET hw == hwalk(h, gw.attr, gw.err)
        at == hw.attr \cup (IF gw.size > hw.size THEN {"F"} ELSE {})
        sz == IF gw.size < hw.size THEN gw.size ELSE hw.size
    IN  IF gw.size = 0 THEN [why |-> "GLA_GPA", vt |-> vt, g |-> gw.g]
        ELSE IF hw.size = 0 THEN [why |-> "GPA_HPA", vt |-> vt, g |-> gw.g]
        ELSE [why |-> "SUCCESS", vt |-> Enter(vt, 2, virt, sz, at, h.p), g |-> gw.g]

(* What the processor finds for virt when it walks the vTLB: the leaf, if  *)
(* every entry on the way is present.  `awake' leaves that condition out   *)
(* above the leaf.                                                         *)
NoLeaf == [fl |-> {}, host |-> 0]
RECURSIVE LeafOf(_, _, _, _)
LeafOf(tab, l, virt, awake) ==
    LET e == tab[Idx(virt, l)]
        leaf == l = 0 \/ "S" \in e.fl
    IN  IF "P" \notin e.fl /\ (awake \/ leaf) THEN NoLeaf
        ELSE IF leaf THEN [fl |-> e.fl, host |-> e.host + (virt % 2^(l * VB))]
        ELSE LeafOf(e.sub, l - 1, virt, awake)
Reach(vt, virt) == LeafOf(vt, 2, virt, TRUE)
Asleep(vt, virt) == Reach(vt, virt) = NoLeaf /\ LeafOf(vt, 2, virt, FALSE) # NoLeaf
=============================================================================
