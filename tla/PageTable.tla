---------------------------- MODULE PageTable ----------------------------
(***************************************************************************)
(* The radix tables of pte.cpp: one template for the host page tables      *)
(* (Hpt), the nested tables of guests (Ept) and the tables of devices      *)
(* (Dpt, Ipt).  L levels of 2^B entries translate pages.                   *)
(*                                                                         *)
(* A machine of tables T is a record: T.mem maps every allocated frame to  *)
(* its table, and every root to a table of the one entry with index 0 (the *)
(* `this' of the member functions); T.wild is set by a step the program    *)
(* must never take: to walk through an entry that maps memory, or to free  *)
(* a frame that is not an allocated table.                                 *)
(***************************************************************************)
EXTENDS Integers, FiniteSets, SequencesExt

CONSTANTS L, B, Frames,
          USER_ADDR, SPC_LOCAL_OBJ, FRAME_0, FRAME_1

ASSUME PageTableAssumption == L \in Nat \ {0} /\ B \in Nat \ {0}

(* An entry: the address it holds, its superpage bit, the order it stores  *)
(* (the contiguous entries it is one of; Ept only) and its rights.         *)
Nil == [p |-> 0, s |-> FALSE, o |-> 0, a |-> {}]
Tab(f) == [p |-> f, s |-> FALSE, o |-> 0, a |-> {"next"}]

Index(v, l) == (v \div 2^(l * B)) % 2^B
Empty == [i \in 0 .. 2^B - 1 |-> Nil]

At(T, f, i) == IF f \in DOMAIN T.mem THEN T.mem[f][i] ELSE Nil
Put(T, f, i, e) ==
    IF f \in DOMAIN T.mem THEN [T EXCEPT !.mem[f][i] = e] ELSE [T EXCEPT !.wild = TRUE]

Unused(T) == CHOOSE f \in Frames : f \notin DOMAIN T.mem /\ \A g \in Frames : g < f => g \in DOMAIN T.mem
New(T) == [T EXCEPT !.mem = [f \in DOMAIN @ \cup {Unused(T)} |-> IF f \in DOMAIN @ THEN @[f] ELSE Empty]]
Destroy(T, f) ==
    IF f \in DOMAIN T.mem
    THEN [T EXCEPT !.mem = [g \in DOMAIN @ \ {f} |-> @[g]]]
    ELSE [T EXCEPT !.wild = TRUE]

(* walk: the entry of level n for page v below root r; without a, a table  *)
(* that is missing ends the walk.                                          *)
RECURSIVE WalkFrom(_, _, _, _, _, _, _)
WalkFrom(T, f, i, l, v, n, a) ==
    LET e == At(T, f, i)
        down(U, nx) == WalkFrom(IF nx.a = {"next"} THEN U ELSE [U EXCEPT !.wild = TRUE],
                                nx.p, Index(v, l - 1), l - 1, v, n, a)
    IN  IF l = n THEN [T |-> T, f |-> f, i |-> i, found |-> TRUE]
        ELSE IF e # Nil THEN down(T, e)
        ELSE IF a THEN down(Put(New(T), f, i, Tab(Unused(T))), Tab(Unused(T)))
        ELSE [T |-> T, f |-> f, i |-> i, found |-> FALSE]
Walk(T, r, v, n, a) == WalkFrom(T, r, 0, L, v, n, a)

(* lookup: the size of the mapping of v (in pages; 0: none), the page it   *)
(* translates to and the rights.                                           *)
NoMap == [size |-> 0, p |-> 0, a |-> {}]
RECURSIVE LookupFrom(_, _, _, _, _)
LookupFrom(T, f, i, l, v) ==
    LET e == At(T, f, i)
        s == 2^(l * B + e.o)
    IN  IF e = Nil THEN NoMap
        ELSE IF l > 0 /\ ~e.s THEN LookupFrom(T, e.p, Index(v, l - 1), l - 1, v)
        ELSE [size |-> s, p |-> (e.p - (e.p % 2^(e.o))) + (v % s), a |-> e.a]
Lookup(T, r, v) == LookupFrom(T, r, 0, L, v)

(* Mutant: the superpage bit is forgotten.                                 *)
EntryNoSuper(l, o, p, a, ept) ==
    IF a = {} THEN Nil ELSE [p |-> p, s |-> FALSE, o |-> IF ept THEN o % B ELSE 0, a |-> a]

(* update of the 2^o pages from v on: map them to p with the rights a, or  *)
(* with no rights clear them.  UP may allocate tables; DF leaves a table   *)
(* that an entry loses to whoever owns it.                                 *)
Entry(l, o, p, a, ept) ==
    IF a = {} THEN Nil ELSE [p |-> p, s |-> l > 0, o |-> IF ept THEN o % B ELSE 0, a |-> a]

UpdateAt(w, o, p, a, t, ept) ==
    LET l      == o \div B
        slots  == {w.i + k : k \in 0 .. 2^(o % B) - 1}
        new(i) == Entry(l, o, p + (i - w.i) * 2^(l * B), a, ept)
        old(i) == At(w.T, w.f, i)
        lost   == {i \in slots : t # "DF" /\ l > 0 /\ old(i) # Nil /\ ~old(i).s}
        set(U, i) == Put(IF i \in lost THEN Destroy(U, old(i).p) ELSE U, w.f, i, new(i))
    IN  IF ~w.found THEN [T |-> w.T, flush |-> FALSE]
        ELSE [T |-> FoldLeft(set, w.T, SetToSeq(slots)),
              flush |-> \E i \in slots : l > 0 /\ old(i) # Nil /\ (old(i) # new(i) \/ i \in lost)]
Update(T, r, v, o, p, a, t, ept) == UpdateAt(Walk(T, r, v, o \div B, t = "UP"), o, p, a, t, ept)

(* Space_mem::update splits a node into blocks of order max at most; `cnt' *)
(* of them are done.                                                       *)
UpdateAll(T, r, v, o, p, a, t, ept, max, cnt) ==
    LET ord  == IF o < max THEN o ELSE max
        n    == IF cnt < 2^(o - ord) THEN cnt ELSE 2^(o - ord)
        both(u, f) == [T |-> u.T, flush |-> f \/ u.flush]
        step(U, k) == both(Update(U.T, r, v + (k - 1) * 2^ord, ord, p + (k - 1) * 2^ord, a, t, ept), U.flush)
    IN  FoldLeft(step, [T |-> T, flush |-> FALSE], [k \in 1 .. n |-> k])

(* sync_from: give root d the entry of level l that root s has for v.      *)
Borrow(dw, e) == Put(dw.T, dw.f, dw.i, e)
SyncFound(sw, T, d, v, l) ==
    IF ~sw.found THEN T ELSE Borrow(Walk(sw.T, d, v, l, TRUE), At(sw.T, sw.f, sw.i))
SyncFrom(T, d, s, v, l) == SyncFound(Walk(T, s, v, l, FALSE), T, d, v, l)

(* replace: install a page of the kernel unless a writable one is there.   *)
ReplaceEntry(w, p, a) ==
    IF "w" \in At(w.T, w.f, w.i).a THEN w.T ELSE Put(w.T, w.f, w.i, Entry(0, 0, p, a, FALSE))
Replace(T, r, v, p, a) == ReplaceEntry(Walk(T, r, v, 0, TRUE), p, a)

(* clear: free the tables below root r.  Each kind of root says which of   *)
(* them to look into (iter) and which to free (dest): a host table owns    *)
(* the capability pages, but not the shared empty frames; a CPU's root     *)
(* owns its top two levels only; the others own all their tables.          *)
Iter(k, l, v) == CASE k = "hpt" -> l >= 2 \/ (l = 1 /\ v >= SPC_LOCAL_OBJ)
                   [] k = "loc" -> l > 3
                   [] OTHER     -> l > 1
Dest(k, p, v, l) == CASE k = "hpt" -> p \notin {FRAME_0, FRAME_1}
                      [] k = "loc" -> v >= USER_ADDR /\ l >= 3
                      [] OTHER     -> TRUE
RECURSIVE FreeUp(_, _, _, _, _)
FreeUp(T, k, l, f, v) ==
    LET subs == {i \in 0 .. 2^B - 1 : At(T, f, i) # Nil /\ ~At(T, f, i).s}
        free(U, p, x) == IF Dest(k, p, x, l) THEN Destroy(U, p) ELSE U
        one(U, i) == LET p == At(T, f, i).p
                         x == v + i * 2^(l * B)
                     IN  free(IF Iter(k, l, x) THEN FreeUp(U, k, l - 1, p, x) ELSE U, p, x)
    IN  FoldLeft(one, T, SetToSeq(subs))
Clear(T, k, r) ==
    LET e == At(T, r, 0)
    IN  IF e = Nil THEN T ELSE Destroy(FreeUp(T, k, L - 1, e.p, 0), e.p)
=============================================================================
