------------------------------ MODULE MCXcpu ------------------------------
(* Small instances of Xcpu                                                 *)
EXTENDS Xcpu

\* Calls to two CPUs, repeated ones, ones that fail, ones for more memory
Repeat == [calls |-> 2, ooms |-> 1, dies |-> 1, again |-> 1, oom |-> 1, revoke |-> FALSE, mid |-> FALSE]
\* The caller is revoked between two calls
Stopped == [calls |-> 2, ooms |-> 1, dies |-> 0, again |-> 0, oom |-> 1, revoke |-> TRUE, mid |-> FALSE]
\* ... or within one
Within == [calls |-> 1, ooms |-> 0, dies |-> 0, again |-> 0, oom |-> 1, revoke |-> TRUE, mid |-> TRUE]

Calls == {Repeat, Stopped}
Revoked == {Within}
=============================================================================
