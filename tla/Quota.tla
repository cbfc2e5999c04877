------------------------------- MODULE Quota --------------------------------
(***************************************************************************)
(* Kernel memory quotas: quota.hpp.                                        *)
(*                                                                         *)
(* A quota is the record of the four words of class Quota, in pages.  The  *)
(* words are unsigned: sums and differences are taken modulo Word.  Every  *)
(* method holds the quota's lock, and transfer_to and free_up take the     *)
(* lock of the source and then, after releasing it, the lock of the        *)
(* target: each is two operators here, Out and In.                         *)
(***************************************************************************)
EXTENDS Integers

CONSTANT Word       \* one more than the largest value of an mword

Add(a, b) == (a + b) % Word
Sub(a, b) == (a - b) % Word
Least(a, b) == IF a < b THEN a ELSE b

NoQuota == [used |-> 0, over |-> 0, upli |-> 0, notr |-> 0]

QuotaAlloc(q, p) == [q EXCEPT !.used = Add(@, p)]

\* More freed than was charged here: the surplus is a credit (over) that
\* raises the limit until it meets the quota that was charged.
QuotaFree(q, p) ==
    IF p <= q.used
    THEN [q EXCEPT !.used = @ - p]
    ELSE [q EXCEPT !.over = Add(@, p - q.used), !.upli = Add(@, p - q.used), !.used = 0]

HitLimit(q, space) == space > q.upli \/ q.used > q.upli - space

MayTransfer(q, t, check_notr) ==
    /\ ~HitLimit(q, 0)
    /\ Add(q.used, t) <= Sub(q.upli, IF check_notr THEN q.notr ELSE 0)

Credit(q, t) == Least(q.over, t)
TransferOut(q, t) == [q EXCEPT !.upli = Sub(@, t), !.over = @ - Credit(q, t)]
TransferIn(q, t, o) ==
    LET u == Least(q.used, o)
    IN  IF q.used > 0 /\ o > 0
        THEN [q EXCEPT !.used = @ - u, !.upli = Sub(Add(@, t), u), !.over = Add(@, o - u)]
        ELSE [q EXCEPT !.upli = Add(@, t)]

FreeUpOut(q) == [q EXCEPT !.used = 0, !.over = 0, !.upli = 0]
FreeUpIn(q, l, u, o) ==
    LET used == Add(q.used, u)
        over == Add(q.over, o)
        s == Least(used, over)
    IN  [q EXCEPT !.used = used - s, !.over = over - s, !.upli = Sub(Add(@, l), s)]

\* What Quota_guard::check asks of the guarded quota for a need of req pages.
Missing(q, req) ==
    IF q.upli <= q.used THEN req + (q.used - q.upli) ELSE Sub(req, q.upli - q.used)

\* Pages that a quota still promises.
Promised(q) == q.upli - q.used
=============================================================================
