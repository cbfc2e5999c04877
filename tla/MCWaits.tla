------------------------------ MODULE MCWaits -------------------------------
(***************************************************************************)
(* Ecs that wait: at a semaphore, with and without a timeout, and for a    *)
(* server that is busy.  The specifications share nothing; one of them,    *)
(* side, takes steps, the other stays in an initial state.                 *)
(***************************************************************************)
EXTENDS Semaphore, TLC

VARIABLE side

-----------------------------------------------------------------------------
(* Semaphore: two Ecs that share a CPU and one on another CPU.             *)

CONSTANTS p1, p2, e1, e2, e3

MCHome == (e1 :> p1) @@ (e2 :> p1) @@ (e3 :> p2)

-----------------------------------------------------------------------------
(* Ipc: two clients of different priority, two servers that call each      *)
(* other.                                                                  *)

CONSTANTS Global, Local, Budget, g1, g2, s1, s2

VARIABLES cur, scur, at, act, i_cont, partner, rcap, tgt, blk, ctr_link, blocked, i_queue, list, prio_top, left,
          expired, hazard, rq, state, donated, i_calls

ipc == <<cur, scur, at, act, i_cont, partner, rcap, tgt, blk, ctr_link, blocked, i_queue, list, prio_top, left,
         expired, hazard, rq, state, donated, i_calls>>

I == INSTANCE Ipc WITH Prio <- (g1 :> 1) @@ (g2 :> 2) @@ (Idle :> 0),
                       MayCall <- (g1 :> {s1}) @@ (g2 :> {s1, s2}) @@ (s1 :> {s2}) @@ (s2 :> {s1}),
                       Calls <- 1, cont <- i_cont, queue <- i_queue, calls <- i_calls

-----------------------------------------------------------------------------

MCInit ==
    /\ side \in {"semaphore", "server"}
    /\ Init /\ I!Init
    /\ side = "semaphore" => tgt[g2] = s1

Semaphores == side = "semaphore" /\ UNCHANGED <<side, ipc>>
Servers == side = "server" /\ UNCHANGED <<side, vars>>

MCNext == (Semaphores /\ Next) \/ (Servers /\ I!Next)
all == <<side, vars, ipc>>

(* The fairness of both specifications.  side does not change: what is one *)
(* side's step or the other's is fair if both are.                         *)
MCSpec ==
    /\ MCInit /\ [][MCNext]_all
    /\ \A p \in CPU : WF_all((Semaphores /\ Kernel(p)) \/ (Servers /\ I!Kernel))
    /\ SF_all((Semaphores /\ \E p \in CPU : RrqAccept(p)) \/ (Servers /\ I!RrqHandler))
    /\ SF_all((Semaphores /\ \E e \in Ec : Timeout(Home[e], e)) \/ (Servers /\ ~hazard /\ I!Help))
    /\ SF_all(Servers /\ \E e \in Global \cup Local : I!Release(e))
    /\ SF_all(Servers /\ cur \in Local /\ I!UserReply)

(* A client of the highest priority that waits for a server gets on,       *)
(* whoever called that server before (Ec::help).                           *)
TopIsServed == I!TopIsServed
=============================================================================
