------------------------------ MODULE Timeouts ------------------------------
(***************************************************************************)
(* The timeouts of a CPU (timeout.cpp) and the timer of its local APIC     *)
(* (lapic.hpp).  A CPU's timeouts are a list sorted by time; the timer is  *)
(* programmed for the first one.  Where the CPU has no TSC deadline, the   *)
(* timer counts bus cycles in a register of 32 bits.                       *)
(***************************************************************************)
EXTENDS Integers, Sequences, SequencesExt

CONSTANTS WIDTH,      \* width of the timer's count (32 in the code)
          RATIO       \* freq_tsc / freq_bus

Never == -1           \* the timer is not armed

NoTimer == [list |-> <<>>, armed |-> Never, pending |-> FALSE]

-----------------------------------------------------------------------------
(* Lapic::set_timer: the time at which the timer will fire                 *)

Count(t, now) == (IF t > now THEN ((t - now) % (2 ^ WIDTH)) \div RATIO ELSE 0)

SetTimer(x, t, now, bus) ==
    [x EXCEPT !.armed = IF bus THEN now + RATIO * (IF Count(t, now) > 0 THEN Count(t, now) ELSE 1)
                               ELSE IF t = 0 THEN Never ELSE t]

(* Timeout::enqueue: before the timeouts that are not earlier              *)
Enqueue(x, t, now, bus) ==
    LET p == Cardinality({i \in DOMAIN x.list : x.list[i] < t})
        y == [x EXCEPT !.list = InsertAt(@, p + 1, t)]
    IN  IF p = 0 THEN SetTimer(y, t, now, bus) ELSE y

(* Timeout::dequeue: the timer is set for the new first one                *)
Dequeue(x, i, now, bus) ==
    LET y == [x EXCEPT !.list = RemoveAt(@, i)]
    IN  IF i = 1 /\ y.list # <<>> THEN SetTimer(y, y.list[1], now, bus) ELSE y

(* Timeout::sync                                                           *)
Sync(x, now, bus) == IF x.list = <<>> THEN x ELSE SetTimer(x, x.list[1], now, bus)

(* Timeout::check: those whose time has come are dequeued and triggered;   *)
(* if there was none, the timer fired early and is set again.              *)
Due(x, now) == Cardinality({i \in DOMAIN x.list : x.list[i] <= now})

CheckOnce(x, now, bus) ==
    FoldLeft(LAMBDA y, i : Dequeue(y, 1, now, bus), x, [i \in 1 .. Due(x, now) |-> i])

Check(x, now, bus) == IF Due(x, now) > 0 THEN CheckOnce(x, now, bus) ELSE Sync(x, now, bus)

(* Lapic::handle_timer: the interrupt may be that of an earlier programming *)
HandleTimer(x, now, bus) ==
    LET y == [x EXCEPT !.pending = FALSE]
    IN  IF x.armed = Never THEN Check(y, now, bus) ELSE y
=============================================================================
