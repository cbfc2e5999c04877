-------------------------- MODULE MCCoreAllocator ---------------------------
(* Two cells on three cores: A owns core 1, B owns cores 2 and 3.          *)
EXTENDS CoreAllocator, TLC

CONSTANTS A, B

ThreeReserved == (A :> {1}) @@ (B :> {2, 3})

\* Cell B has no worker on the core of A: when it has borrowed that core, the
\* core is taken back without asking.
Three == [core |-> {1, 2, 3}, reserved |-> ThreeReserved, worker |-> (A :> {1, 2, 3}) @@ (B :> {2, 3}),
          calls |-> 4, serial |-> TRUE, boot |-> FALSE]

\* One core each, from the start of the system on
Pair == [core |-> {1, 2}, reserved |-> (A :> {1}) @@ (B :> {2}), worker |-> [c \in {A, B} |-> {1, 2}],
         calls |-> 1, serial |-> FALSE, boot |-> TRUE]

\* Every cell has a worker on every core.
All == [Three EXCEPT !.worker = [c \in {A, B} |-> {1, 2, 3}]]

Running3Boot2 == {Three, Pair}
Live == {[All EXCEPT !.calls = 2]}
LostRequest == {[All EXCEPT !.calls = 3]}
Unserialised == {[All EXCEPT !.serial = FALSE]}
=============================================================================
