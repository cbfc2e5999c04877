------------------------------- MODULE MCRcu --------------------------------
(* Two CPUs and two objects, which are interchangeable; liveness is checked, *)
(* so there is no symmetry.                                                  *)
EXTENDS Rcu, TLC

=============================================================================
