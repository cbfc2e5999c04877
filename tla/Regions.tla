------------------------------ MODULE Regions ------------------------------
(***************************************************************************)
(* What a space promises (space.hpp): it is a set of regions, no two of    *)
(* which overlap.                                                          *)
(***************************************************************************)
EXTENDS Integers, FiniteSets

CONSTANTS FRAMES    \* the indices of the space are 0 .. FRAMES - 1

VARIABLE set        \* the regions

Last(x) == x.base + 2 ^ x.order - 1
Frames(x) == x.base .. Last(x)
Covered(s) == UNION {Frames(x) : x \in s}

Disjoint(s) == \A x, y \in s : x = y \/ Frames(x) \cap Frames(y) = {}

Init == set = {}

Insert(s, t) == \E x \in t \ s : t = s \cup {x} /\ Frames(x) \cap Covered(s) = {}

Remove(s, t) == \E x \in s \ t : t = s \ {x}

\* New regions cover a range that was free.
AddReg(s, t) ==
    /\ s \subseteq t /\ Disjoint(t)
    /\ \E addr, last \in 0 .. FRAMES - 1 : Covered(t \ s) = addr .. last

\* The region with an index is replaced by regions for the rest of it.
DelReg(s, t) ==
    \E addr \in Covered(s) :
        /\ {x \in s : addr \notin Frames(x)} \subseteq t /\ Disjoint(t)
        /\ Covered(t) = Covered(s) \ {addr}

Step(s, t) == Insert(s, t) \/ Remove(s, t) \/ AddReg(s, t) \/ DelReg(s, t)

Next == Step(set, set')

Spec == Init /\ [][Next]_set
=============================================================================
