--------------------------- MODULE SpinlockProofs ---------------------------
(***************************************************************************)
(* Mutual exclusion of the ticket lock, and that it implements the         *)
(* first-come first-served lock, for every number of CPUs that does not    *)
(* exceed the number of tickets.                                           *)
(***************************************************************************)
EXTENDS Spinlock, FiniteSetTheorems, SequenceTheorems, TLAPS

(* The byte arithmetic of val, spelled out: increment, the distance of two *)
(* tickets, and the ticket n places after another one.                     *)
LEMMA ByteArithmetic ==
    /\ \A x \in Byte : Inc(x) \in Byte /\ Inc(x) = IF x + 1 = Tickets THEN 0 ELSE x + 1
    /\ \A x, y \in Byte :
           /\ (x - y) % Tickets \in Byte
           /\ (x - y) % Tickets = IF x >= y THEN x - y ELSE x - y + Tickets
    /\ \A x \in Byte, n \in 0 .. Tickets :
           (x + n) % Tickets = IF x + n < Tickets THEN x + n ELSE x + n - Tickets
  BY TicketsAssumption, SMT DEF Byte, Inc

(* The number of outstanding tickets is a natural number; a CPU outside    *)
(* leaves room for one more ticket, and a busy one accounts for one.       *)
LEMMA BusyCount ==
    /\ IsFiniteSet(Busy)
    /\ Cardinality(Busy) \in 0 .. Tickets
    /\ \A p \in CPU \ Busy :
           /\ Cardinality(Busy) < Tickets
           /\ Cardinality(Busy \cup {p}) = Cardinality(Busy) + 1
    /\ \A p \in Busy : Cardinality(Busy) > 0 /\ Cardinality(Busy \ {p}) = Cardinality(Busy) - 1
<1>1. Busy \subseteq CPU
  BY DEF Busy
<1>2. IsFiniteSet(Busy) /\ Cardinality(Busy) <= Cardinality(CPU)
  BY <1>1, FS_Subset, TicketsAssumption
<1>3. Cardinality(Busy) \in Nat /\ Cardinality(CPU) \in Nat
  BY <1>2, FS_CardinalityType, TicketsAssumption
<1>4. ASSUME NEW p \in CPU \ Busy
      PROVE  /\ Cardinality(Busy) < Tickets
             /\ Cardinality(Busy \cup {p}) = Cardinality(Busy) + 1
  <2>1. Busy \cup {p} \subseteq CPU
    BY <1>1
  <2>2. Cardinality(Busy \cup {p}) = Cardinality(Busy) + 1
    BY <1>2, FS_AddElement
  <2>3. Cardinality(Busy \cup {p}) <= Cardinality(CPU)
    BY <2>1, FS_Subset, TicketsAssumption
  <2>4. QED
    BY <1>3, <2>2, <2>3, TicketsAssumption
<1>5. ASSUME NEW p \in Busy
      PROVE  Cardinality(Busy) > 0 /\ Cardinality(Busy \ {p}) = Cardinality(Busy) - 1
  <2>1. Cardinality(Busy \ {p}) = Cardinality(Busy) - 1
    BY <1>2, FS_RemoveElement
  <2>2. Cardinality(Busy) # 0
    BY <1>2, FS_EmptySet
  <2>3. QED
    BY <1>3, <2>1, <2>2
<1>6. QED
  BY <1>2, <1>3, <1>4, <1>5, TicketsAssumption

(* Initially nobody is busy and both bytes are 0.                          *)
LEMMA InitTicketInv == Init => TicketInv
<1> SUFFICES ASSUME Init PROVE TicketInv
  OBVIOUS
<1>1. Busy = {} /\ Inside = {}
  BY DEF Init, Busy, Inside
<1>2. Cardinality(Busy) = 0
  BY <1>1, FS_EmptySet
<1>3. TypeOK
  BY TicketsAssumption DEF Init, TypeOK, Byte
<1>4. next = (serving + Cardinality(Busy)) % Tickets
  BY <1>2, TicketsAssumption, SMT DEF Init
<1>5. QED
  BY <1>1, <1>3, <1>4 DEF Init, TicketInv

(* Drawing a ticket appends to the outstanding ones.                       *)
LEMMA XaddTicketInv == ASSUME TicketInv, NEW p \in CPU, Xadd(p) PROVE TicketInv'
<1> DEFINE n == Cardinality(Busy)
<1>1. p \notin Busy /\ p \notin Inside /\ Busy' = Busy \cup {p} /\ Inside' = Inside
  BY DEF Xadd, Busy, Inside, TicketInv, TypeOK
<1>2. n \in 0 .. Tickets - 1 /\ Cardinality(Busy)' = n + 1
  BY <1>1, BusyCount, TicketsAssumption
<1>3. next \in Byte /\ serving \in Byte /\ serving' = serving
  BY DEF TicketInv, TypeOK, Xadd
<1>4. TypeOK'
  <2>1. next' \in Byte
    BY <1>3, ByteArithmetic DEF Xadd
  <2>2. QED
    BY <2>1 DEF Xadd, TicketInv, TypeOK
<1>5. next = IF serving + n < Tickets THEN serving + n ELSE serving + n - Tickets
  <2>1. next = (serving + n) % Tickets
    BY DEF TicketInv
  <2>2. n \in 0 .. Tickets
    BY <1>2, TicketsAssumption
  <2>3. QED
    BY <1>3, <2>1, <2>2, ByteArithmetic
<1>6. next' = (serving + (n + 1)) % Tickets
  <2>1. next' = IF next + 1 = Tickets THEN 0 ELSE next + 1
    BY <1>3, ByteArithmetic DEF Xadd
  <2>2. (serving + (n + 1)) % Tickets
          = IF serving + (n + 1) < Tickets THEN serving + (n + 1) ELSE serving + (n + 1) - Tickets
    BY <1>2, <1>3, ByteArithmetic, TicketsAssumption
  <2>3. QED
    BY <1>2, <1>3, <1>5, <2>1, <2>2, TicketsAssumption, SMT DEF Byte
<1>7. Dist(next) = n
  <2>1. Dist(next) = IF next >= serving THEN next - serving ELSE next - serving + Tickets
    BY <1>3, ByteArithmetic DEF Dist
  <2>2. QED
    BY <1>2, <1>3, <1>5, <2>1, TicketsAssumption, SMT DEF Byte
<1>8. \A q \in Busy : Dist(ticket[q]) < n /\ Dist(ticket[q]) \in Int
  <2> SUFFICES ASSUME NEW q \in Busy PROVE Dist(ticket[q]) < n /\ Dist(ticket[q]) \in Int
    OBVIOUS
  <2>1. ticket[q] \in Byte /\ Dist(ticket[q]) < n
    BY DEF TicketInv, TypeOK, Busy
  <2>2. Dist(ticket[q]) \in Byte
    BY <1>3, <2>1, ByteArithmetic DEF Dist
  <2>3. QED
    BY <2>1, <2>2, TicketsAssumption DEF Byte
<1>9. /\ ticket'[p] = next
      /\ \A q \in Busy : ticket'[q] = ticket[q] /\ seen'[q] = seen[q] /\ q # p
      /\ seen'[p] = serving
  BY <1>1 DEF Xadd, TicketInv, TypeOK, Busy
<1>10. \A q \in Busy' : Dist(ticket[q])' < Cardinality(Busy)'
  <2> SUFFICES ASSUME NEW q \in Busy' PROVE (ticket'[q] - serving) % Tickets < n + 1
    BY <1>2, <1>3 DEF Dist
  <2>1. CASE q = p
    BY <2>1, <1>2, <1>7, <1>9 DEF Dist
  <2>2. CASE q \in Busy
    BY <2>2, <1>2, <1>8, <1>9 DEF Dist
  <2>3. QED
    BY <2>1, <2>2, <1>1
<1>11. \A q \in Busy : ticket[q] # next
  BY <1>2, <1>7, <1>8
<1>12. \A q, r \in Busy' : ticket'[q] = ticket'[r] => q = r
  BY <1>1, <1>9, <1>11 DEF TicketInv
<1>13. \A q \in Busy' : seen'[q] = ticket'[q] => serving' = ticket'[q]
  <2> SUFFICES ASSUME NEW q \in Busy', seen'[q] = ticket'[q] PROVE serving = ticket'[q]
    BY <1>3
  <2>1. CASE q = p
    BY <2>1, <1>9
  <2>2. CASE q \in Busy
    <3>1. seen[q] = ticket[q] => serving = ticket[q]
      BY <2>2 DEF TicketInv
    <3>2. QED
      BY <2>2, <3>1, <1>9
  <2>3. QED
    BY <2>1, <2>2, <1>1
<1>14. \A q \in Inside' : serving' = ticket'[q]
  <2>1. Inside \subseteq Busy
    BY DEF Inside, Busy
  <2>2. QED
    BY <1>1, <1>3, <1>9, <2>1 DEF TicketInv
<1>15. \A q \in CPU : pc'[q] = "unlock" => seen'[q] = serving'
  BY DEF Xadd, TicketInv, TypeOK
<1>16. QED
  BY <1>2, <1>4, <1>3, <1>6, <1>10, <1>12, <1>13, <1>14, <1>15 DEF TicketInv

(* A spinning CPU that finds its ticket served enters; one that does not   *)
(* reads the byte again.  No ticket changes.                               *)
LEMMA SpinTicketInv ==
    ASSUME TicketInv, NEW p \in CPU, Enter(p) \/ Reload(p) PROVE TicketInv'
<1>1. Busy' = Busy
  BY DEF Enter, Reload, Busy, TicketInv, TypeOK
<1>2. TypeOK'
  BY DEF Enter, Reload, TicketInv, TypeOK
<1>3. \A q \in Busy : Dist(ticket[q])' = Dist(ticket[q])
  BY DEF Enter, Reload, Dist
<1>4. \A q \in Busy' : seen'[q] = ticket'[q] => serving' = ticket'[q]
  BY <1>1 DEF Enter, Reload, TicketInv, TypeOK, Busy
<1>5. \A q \in Inside' : serving' = ticket'[q]
  BY DEF Enter, Reload, TicketInv, TypeOK, Busy, Inside
<1>6. \A q \in CPU : pc'[q] = "unlock" => seen'[q] = serving'
  BY DEF Enter, Reload, TicketInv, TypeOK
<1>7. UNCHANGED <<next, serving, ticket>>
  BY DEF Enter, Reload
<1>8. QED
  BY <1>1, <1>2, <1>3, <1>4, <1>5, <1>6, <1>7 DEF TicketInv

(* The load of unlock() reads the ticket of the CPU that executes it.      *)
LEMMA UnlockLoadTicketInv ==
    ASSUME TicketInv, NEW p \in CPU, UnlockLoad(p) PROVE TicketInv'
<1>1. Busy' = Busy /\ Inside' = Inside /\ p \in Inside
  BY DEF UnlockLoad, Busy, Inside, TicketInv, TypeOK
<1>2. TypeOK'
  BY DEF UnlockLoad, TicketInv, TypeOK
<1>3. \A q \in Busy : Dist(ticket[q])' = Dist(ticket[q])
  BY DEF UnlockLoad, Dist
<1>4. \A q \in Busy' : seen'[q] = ticket'[q] => serving' = ticket'[q]
  BY <1>1 DEF UnlockLoad, TicketInv, TypeOK, Busy
<1>5. \A q \in CPU : pc'[q] = "unlock" => seen'[q] = serving'
  BY DEF UnlockLoad, TicketInv, TypeOK
<1>6. UNCHANGED <<next, serving, ticket>>
  BY DEF UnlockLoad
<1>7. QED
  BY <1>1, <1>2, <1>3, <1>4, <1>5, <1>6 DEF TicketInv

(* Serving one more ticket brings every other one nearer by one.           *)
LEMMA NextServed ==
    ASSUME NEW t \in Byte, NEW s \in Byte, t # s
    PROVE  (t - Inc(s)) % Tickets = ((t - s) % Tickets) - 1 /\ (t - s) % Tickets \in Nat
<1>1. Inc(s) \in Byte /\ Inc(s) = IF s + 1 = Tickets THEN 0 ELSE s + 1
  BY ByteArithmetic
<1>2. (t - s) % Tickets = IF t >= s THEN t - s ELSE t - s + Tickets
  BY ByteArithmetic
<1>3. (t - Inc(s)) % Tickets = IF t >= Inc(s) THEN t - Inc(s) ELSE t - Inc(s) + Tickets
  BY <1>1, ByteArithmetic
<1> DEFINE d == (t - s) % Tickets
           e == (t - Inc(s)) % Tickets
           u == Inc(s)
<1> HIDE DEF d, e, u
<1>4. /\ d = IF t >= s THEN t - s ELSE t - s + Tickets
      /\ e = IF t >= u THEN t - u ELSE t - u + Tickets
      /\ u = IF s + 1 = Tickets THEN 0 ELSE s + 1
  BY <1>1, <1>2, <1>3 DEF d, e, u
<1>5. e = d - 1 /\ d \in Nat
  BY <1>4, TicketsAssumption, SMT DEF Byte
<1>6. QED
  BY <1>5 DEF d, e

(* The store of unlock() serves the next ticket: everyone else is one      *)
(* place nearer, and nobody else was inside.                               *)
LEMMA UnlockStoreTicketInv ==
    ASSUME TicketInv, NEW p \in CPU, UnlockStore(p) PROVE TicketInv'
<1> DEFINE n == Cardinality(Busy)
<1>1. /\ p \in Busy /\ p \in Inside
      /\ Busy' = Busy \ {p} /\ Inside' = Inside \ {p}
      /\ Inside \subseteq Busy
  BY DEF UnlockStore, Busy, Inside, TicketInv, TypeOK
<1>2. n \in 1 .. Tickets /\ Cardinality(Busy)' = n - 1
  BY <1>1, BusyCount, TicketsAssumption
<1>3. serving = ticket[p] /\ serving \in Byte /\ serving' = Inc(serving)
  BY <1>1 DEF UnlockStore, TicketInv, TypeOK
<1>4. serving' \in Byte /\ serving' = IF serving + 1 = Tickets THEN 0 ELSE serving + 1
  BY <1>3, ByteArithmetic
<1>5. TypeOK'
  BY <1>4 DEF UnlockStore, TicketInv, TypeOK
<1>6. next' = (serving' + (n - 1)) % Tickets
  <2>1. next' = (serving + n) % Tickets /\ n \in 0 .. Tickets /\ n - 1 \in 0 .. Tickets
    BY <1>2, TicketsAssumption DEF UnlockStore, TicketInv
  <2>2. (serving + n) % Tickets = IF serving + n < Tickets THEN serving + n ELSE serving + n - Tickets
    BY <1>3, <2>1, ByteArithmetic
  <2>3. (serving' + (n - 1)) % Tickets
          = IF serving' + (n - 1) < Tickets THEN serving' + (n - 1) ELSE serving' + (n - 1) - Tickets
    BY <1>4, <2>1, ByteArithmetic
  <2>4. QED
    BY <1>2, <1>3, <1>4, <2>1, <2>2, <2>3, TicketsAssumption, SMT DEF Byte
<1>7. ASSUME NEW q \in Busy'
      PROVE  Dist(ticket[q])' < Cardinality(Busy)' /\ ticket'[q] # serving
  <2>1. q \in Busy /\ q # p /\ ticket'[q] = ticket[q] /\ ticket[q] \in Byte
    BY <1>1 DEF UnlockStore, TicketInv, TypeOK, Busy
  <2>2. ticket[q] # serving
    BY <1>1, <1>3, <2>1 DEF TicketInv
  <2>3. (ticket[q] - serving) % Tickets < n
    BY <2>1 DEF TicketInv, Dist
  <2>4. /\ (ticket[q] - serving') % Tickets = ((ticket[q] - serving) % Tickets) - 1
        /\ (ticket[q] - serving) % Tickets \in Nat
    BY <1>3, <2>1, <2>2, NextServed
  <2>5. QED
    BY <1>2, <2>1, <2>2, <2>3, <2>4 DEF Dist
<1>8. Inside' = {}
  BY <1>1, <1>3 DEF TicketInv
<1>9. \A q, r \in Busy' : ticket'[q] = ticket'[r] => q = r
  BY <1>1 DEF UnlockStore, TicketInv
<1>10. \A q \in Busy' : seen'[q] = ticket'[q] => serving' = ticket'[q]
  BY <1>1, <1>7 DEF UnlockStore, TicketInv
<1>11. \A q \in CPU : pc'[q] = "unlock" => seen'[q] = serving'
  BY <1>8 DEF Inside
<1>12. QED
  BY <1>2, <1>5, <1>6, <1>7, <1>8, <1>9, <1>10, <1>11 DEF TicketInv

(* TicketInv is an invariant of the lock: for any number of CPUs up to the *)
(* number of values of a byte, through any number of wrap-arounds.         *)
THEOREM TicketInvariant == Spec => []TicketInv
<1>1. TicketInv /\ [Next]_vars => TicketInv'
  <2> SUFFICES ASSUME TicketInv, [Next]_vars PROVE TicketInv'
    OBVIOUS
  <2>1. ASSUME NEW p \in CPU, Xadd(p) PROVE TicketInv'
    BY <2>1, XaddTicketInv
  <2>2. ASSUME NEW p \in CPU, Enter(p) \/ Reload(p) PROVE TicketInv'
    BY <2>2, SpinTicketInv
  <2>3. ASSUME NEW p \in CPU, UnlockLoad(p) PROVE TicketInv'
    BY <2>3, UnlockLoadTicketInv
  <2>4. ASSUME NEW p \in CPU, UnlockStore(p) PROVE TicketInv'
    BY <2>4, UnlockStoreTicketInv
  <2>5. CASE UNCHANGED vars
    BY <2>5 DEF vars, TicketInv, TypeOK, Busy, Inside, Dist
  <2>6. QED
    BY <2>1, <2>2, <2>3, <2>4, <2>5 DEF Next
<1>2. QED
  BY <1>1, InitTicketInv, PTL DEF Spec

(* No two CPUs are ever inside a critical section guarded by the same      *)
(* Spinlock.                                                               *)
THEOREM SpinlockMutualExclusion == Spec => []MutualExclusion
<1>1. TicketInv => MutualExclusion
  BY DEF TicketInv, MutualExclusion, Inside, Busy
<1>2. QED
  BY <1>1, TicketInvariant, PTL
-----------------------------------------------------------------------------
(* The refinement of FifoLock.                                             *)

\* The queue of the refinement mapping lists every busy CPU once, at the
\* place that its ticket says.
QueueOfTickets ==
    /\ Queue \in [1 .. Cardinality(Busy) -> Busy]
    /\ \A i \in 1 .. Cardinality(Busy) : Dist(ticket[Queue[i]]) = i - 1
    /\ \A p \in Busy : \E i \in 1 .. Cardinality(Busy) : Dist(ticket[p]) = i - 1 /\ Queue[i] = p

(* Tickets that are as far from being served are the same ticket.          *)
LEMMA SameDistance ==
    ASSUME NEW s \in Byte, NEW x \in Byte, NEW y \in Byte, (x - s) % Tickets = (y - s) % Tickets
    PROVE  x = y
<1>1. /\ (x - s) % Tickets = IF x >= s THEN x - s ELSE x - s + Tickets
      /\ (y - s) % Tickets = IF y >= s THEN y - s ELSE y - s + Tickets
  BY ByteArithmetic
<1>2. (IF x >= s THEN x - s ELSE x - s + Tickets) = (IF y >= s THEN y - s ELSE y - s + Tickets)
  BY <1>1
<1>3. QED
  BY <1>2, TicketsAssumption, SMT DEF Byte

(* Two busy CPUs are never at the same place.                              *)
LEMMA DistInjective ==
    ASSUME TicketInv, NEW p \in Busy, NEW q \in Busy, Dist(ticket[p]) = Dist(ticket[q])
    PROVE  p = q
<1>1. ticket[p] \in Byte /\ ticket[q] \in Byte /\ serving \in Byte
  BY DEF TicketInv, TypeOK, Busy
<1>2. ticket[p] = ticket[q]
  BY <1>1, SameDistance DEF Dist
<1>3. QED
  BY <1>2 DEF TicketInv

(* There are as many busy CPUs as places, and no two at the same place: so *)
(* every place is taken.                                                   *)
LEMMA QueueIsOfTickets == TicketInv => QueueOfTickets
<1> SUFFICES ASSUME TicketInv PROVE QueueOfTickets
  OBVIOUS
<1> DEFINE n == Cardinality(Busy)
           place == [p \in Busy |-> Dist(ticket[p]) + 1]
<1>1. n \in Nat /\ IsFiniteSet(Busy)
  BY BusyCount
<1>2. ASSUME NEW p \in Busy PROVE Dist(ticket[p]) \in Nat /\ Dist(ticket[p]) < n
  <2>1. ticket[p] \in Byte /\ serving \in Byte /\ Dist(ticket[p]) < n
    BY DEF TicketInv, TypeOK, Busy
  <2>2. Dist(ticket[p]) \in Byte
    BY <2>1, ByteArithmetic DEF Dist
  <2>3. QED
    BY <2>1, <2>2, TicketsAssumption DEF Byte
<1>3. place \in [Busy -> 1 .. n]
  BY <1>1, <1>2
<1>4. \A p, q \in Busy : place[p] = place[q] => p = q
  <2> SUFFICES ASSUME NEW p \in Busy, NEW q \in Busy, place[p] = place[q] PROVE p = q
    OBVIOUS
  <2>1. Dist(ticket[p]) = Dist(ticket[q])
    BY <1>2
  <2>2. QED
    BY <2>1, DistInjective
<1>5. place \in Injection(Busy, 1 .. n)
  BY <1>3, <1>4 DEF Injection, IsInjective
<1>6. IsFiniteSet(1 .. n) /\ Cardinality(1 .. n) = n
  BY <1>1, FS_Interval
<1>7. place \in Surjection(Busy, 1 .. n)
  BY <1>5, <1>6, FS_Injection
<1>8. ASSUME NEW i \in 1 .. n PROVE \E p \in Busy : Dist(ticket[p]) = i - 1
  <2> HIDE DEF place
  <2>1. \A j \in 1 .. n : \E p \in Busy : place[p] = j
    BY <1>7 DEF Surjection
  <2>2. PICK p \in Busy : place[p] = i
    BY <2>1
  <2>3. QED
    BY <2>2, <1>1, <1>2 DEF place
<1>9. ASSUME NEW i \in 1 .. n PROVE Queue[i] \in Busy /\ Dist(ticket[Queue[i]]) = i - 1
  BY <1>8 DEF Queue
<1>10. ASSUME NEW p \in Busy
       PROVE  \E i \in 1 .. n : Dist(ticket[p]) = i - 1 /\ Queue[i] = p
  <2>1. Dist(ticket[p]) + 1 \in 1 .. n
    BY <1>1, <1>2
  <2>2. Queue[Dist(ticket[p]) + 1] \in Busy /\ Dist(ticket[Queue[Dist(ticket[p]) + 1]]) = Dist(ticket[p])
    BY <1>2, <1>9, <2>1
  <2>3. Queue[Dist(ticket[p]) + 1] = p /\ Dist(ticket[p]) = (Dist(ticket[p]) + 1) - 1
    BY <1>2, <2>1, <2>2, DistInjective
  <2>4. QED
    BY <2>1, <2>3
<1>11. Queue \in [1 .. n -> Busy]
  BY <1>9 DEF Queue
<1>12. QED
  BY <1>9, <1>10, <1>11 DEF QueueOfTickets

(* The same of the next state.                                             *)
LEMMA QueueIsOfTicketsNext == TicketInv' => QueueOfTickets'
  BY QueueIsOfTickets, PTL

(* The queue is a sequence of CPUs.                                        *)
LEMMA QueueIsSeq ==
    QueueOfTickets => Queue \in Seq(CPU) /\ Len(Queue) = Cardinality(Busy)
<1> SUFFICES ASSUME QueueOfTickets
             PROVE  Queue \in Seq(CPU) /\ Len(Queue) = Cardinality(Busy)
  OBVIOUS
<1>1. Cardinality(Busy) \in Nat /\ Busy \subseteq CPU
  BY BusyCount DEF Busy
<1>2. QED
  BY <1>1 DEF QueueOfTickets

(* The same of the next state.                                             *)
LEMMA QueueIsSeqNext ==
    QueueOfTickets' => (Queue \in Seq(CPU) /\ Len(Queue) = Cardinality(Busy))'
  BY QueueIsSeq, PTL

(* Drawing a ticket is asking for the lock: the CPU is appended.           *)
LEMMA XaddIsAsk ==
    ASSUME TicketInv, TicketInv', NEW p \in CPU, Xadd(p) PROVE Fifo!Ask(p)
<1> DEFINE n == Cardinality(Busy)
<1>1. QueueOfTickets /\ QueueOfTickets'
  BY QueueIsOfTickets, QueueIsOfTicketsNext
<1>2. p \notin Busy /\ Busy' = Busy \cup {p} /\ Inside' = Inside
  BY DEF Xadd, Busy, Inside, TicketInv, TypeOK
<1>3. n \in Nat /\ Cardinality(Busy)' = n + 1
  BY <1>2, BusyCount
<1>4. ASSUME NEW i \in 1 .. n PROVE Queue'[i] = Queue[i]
  <2>1. PICK q \in Busy : q = Queue[i] /\ Dist(ticket[q]) = i - 1
    BY <1>1 DEF QueueOfTickets
  <2>2. Dist(ticket[q])' = i - 1
    BY <1>2, <2>1 DEF Xadd, TicketInv, TypeOK, Dist, Busy
  <2>3. PICK k \in 1 .. n + 1 : Dist(ticket[q])' = k - 1 /\ Queue'[k] = q
    BY <1>1, <1>2, <1>3, <2>1 DEF QueueOfTickets
  <2>4. k = i
    BY <1>3, <2>2, <2>3
  <2>5. QED
    BY <2>1, <2>3, <2>4
<1>5. Dist(ticket[p])' = n /\ Queue'[n + 1] = p
  <2>1. PICK j \in 1 .. n + 1 : Queue'[j] = p /\ Dist(ticket[p])' = j - 1
    BY <1>1, <1>2, <1>3 DEF QueueOfTickets
  <2>2. j \notin 1 .. n
    BY <1>1, <1>2, <1>4, <2>1 DEF QueueOfTickets
  <2>3. QED
    BY <1>3, <2>1, <2>2
<1>6. Queue' = Append(Queue, p)
  <2>1. /\ Queue \in Seq(CPU) /\ Len(Queue) = n
        /\ Queue' \in Seq(CPU) /\ Len(Queue') = n + 1
    BY <1>1, <1>3, QueueIsSeq, QueueIsSeqNext
  <2>2. \A i \in 1 .. n + 1 : Queue'[i] = Append(Queue, p)[i]
    BY <1>3, <1>4, <1>5, <2>1
  <2>3. Append(Queue, p) \in Seq(CPU) /\ Len(Append(Queue, p)) = n + 1
    BY <2>1
  <2>4. QED
    BY <2>1, <2>2, <2>3, SeqEqual
<1>7. \A i \in 1 .. Len(Queue) : Queue[i] # p
  BY <1>1, <1>2, QueueIsSeq DEF QueueOfTickets
<1>8. QED
  BY <1>2, <1>6, <1>7 DEF Fifo!Ask
(* A step that leaves the tickets, the served byte and the set of CPUs     *)
(* that have a ticket alone leaves the queue alone.                        *)
LEMMA SameQueue ==
    ASSUME Busy' = Busy, ticket' = ticket, serving' = serving PROVE Queue' = Queue
  BY DEF Queue, Dist

(* Leaving the loop of lock() is entering the critical section: the CPU is *)
(* the head of the queue and the section is empty.                         *)
LEMMA EnterIsEnter ==
    ASSUME TicketInv, NEW p \in CPU, Enter(p) PROVE Fifo!Enter(p)
<1>1. p \in Busy /\ Busy' = Busy /\ Inside' = Inside \cup {p} /\ serving = ticket[p]
  BY DEF Enter, Busy, Inside, TicketInv, TypeOK
<1>2. Queue' = Queue
  BY <1>1, SameQueue DEF Enter
<1>3. Inside = {}
  <2> SUFFICES ASSUME NEW q \in Inside PROVE FALSE
    OBVIOUS
  <2>1. q \in Busy /\ ticket[q] = ticket[p] /\ q # p
    BY <1>1 DEF Inside, Busy, Enter, TicketInv
  <2>2. QED
    BY <1>1, <2>1 DEF TicketInv
<1>4. Dist(ticket[p]) = 0
  BY <1>1, ByteArithmetic, TicketsAssumption, SMT DEF Dist, TicketInv, TypeOK, Byte
<1>5. QueueOfTickets /\ Queue \in Seq(CPU) /\ Len(Queue) = Cardinality(Busy)
  BY QueueIsOfTickets, QueueIsSeq
<1>6. Queue # <<>> /\ Queue[1] = p
  BY <1>1, <1>4, <1>5 DEF QueueOfTickets
<1>7. QED
  BY <1>1, <1>2, <1>3, <1>5, <1>6 DEF Fifo!Enter

(* The store of unlock() is leaving: the queue loses its head.             *)
LEMMA UnlockStoreIsLeave ==
    ASSUME TicketInv, TicketInv', NEW p \in CPU, UnlockStore(p) PROVE Fifo!Leave(p)
<1> DEFINE n == Cardinality(Busy)
<1>1. QueueOfTickets /\ QueueOfTickets'
  BY QueueIsOfTickets, QueueIsOfTicketsNext
<1>2. /\ p \in Busy /\ p \in Inside /\ serving = ticket[p] /\ serving' = Inc(serving)
      /\ Busy' = Busy \ {p} /\ Inside' = Inside \ {p} /\ ticket' = ticket
  BY DEF UnlockStore, Busy, Inside, TicketInv, TypeOK
<1>3. Inside = {p}
  BY <1>2 DEF Inside, Busy, TicketInv
<1>4. n \in Nat \ {0} /\ Cardinality(Busy)' = n - 1
  BY <1>2, BusyCount
<1>5. ASSUME NEW i \in 1 .. n - 1 PROVE Queue'[i] = Queue[i + 1]
  <2>1. PICK q \in Busy : q = Queue[i + 1] /\ Dist(ticket[q]) = i
    <3>1. i + 1 \in 1 .. n /\ (i + 1) - 1 = i
      BY <1>4
    <3>2. Queue[i + 1] \in Busy /\ Dist(ticket[Queue[i + 1]]) = (i + 1) - 1
      BY <1>1, <3>1 DEF QueueOfTickets
    <3>3. QED
      BY <3>1, <3>2
  <2>2. ticket[q] \in Byte /\ serving \in Byte
    BY DEF TicketInv, TypeOK, Busy
  <2>3. ticket[q] # serving
    <3>1. (serving - serving) % Tickets = serving - serving
      BY <2>2, ByteArithmetic DEF Byte
    <3>2. (serving - serving) % Tickets = 0
      BY <2>2, <3>1 DEF Byte
    <3>3. QED
      BY <2>1, <3>2 DEF Dist
  <2>4. Dist(ticket[q])' = i - 1
    BY <1>2, <2>1, <2>2, <2>3, NextServed DEF Dist
  <2>5. q \in Busy'
    BY <1>2, <2>3
  <2>6. QED
    BY <1>1, <2>1, <2>4, <2>5 DEF QueueOfTickets
<1>6. Queue' = Tail(Queue)
  <2>1. /\ Queue \in Seq(CPU) /\ Len(Queue) = n
        /\ Queue' \in Seq(CPU) /\ Len(Queue') = n - 1
    BY <1>1, <1>4, QueueIsSeq, QueueIsSeqNext
  <2>2. Tail(Queue) \in Seq(CPU) /\ Len(Tail(Queue)) = n - 1
    BY <1>4, <2>1
  <2>3. \A i \in 1 .. n - 1 : Queue'[i] = Tail(Queue)[i]
    BY <1>4, <1>5, <2>1
  <2>4. QED
    BY <2>1, <2>2, <2>3, SeqEqual
<1>7. QED
  BY <1>2, <1>3, <1>6 DEF Fifo!Leave

(* The ticket lock of spinlock.hpp implements the first-come first-served  *)
(* lock of FifoLock, for any number of CPUs up to the number of tickets:   *)
(* the CPUs enter in the order of their xadd, one at a time, although the  *)
(* tickets wrap around and the increment of unlock() is two accesses.      *)
THEOREM SpinlockIsFifo == Spec => FifoSpec
<1>1. Init => Fifo!Init
  <2> SUFFICES ASSUME Init PROVE Fifo!Init
    OBVIOUS
  <2>1. Busy = {} /\ Inside = {}
    BY DEF Init, Busy, Inside
  <2>2. Cardinality(Busy) = 0
    BY <2>1, FS_EmptySet
  <2>3. Queue = <<>>
    BY <2>2 DEF Queue
  <2>4. QED
    BY <2>1, <2>3 DEF Fifo!Init
<1>2. TicketInv /\ TicketInv' /\ [Next]_vars => [Fifo!Next]_(Fifo!vars)
  <2> SUFFICES ASSUME TicketInv, TicketInv', [Next]_vars
               PROVE  Fifo!Next \/ UNCHANGED <<Queue, Inside>>
    BY DEF Fifo!vars
  <2>1. CASE UNCHANGED vars
    <3>1. Busy' = Busy /\ Inside' = Inside
      BY <2>1 DEF vars, Busy, Inside
    <3>2. QED
      BY <2>1, <3>1, SameQueue DEF vars
  <2>2. ASSUME NEW p \in CPU, Xadd(p) PROVE Fifo!Next
    BY <2>2, XaddIsAsk DEF Fifo!Next
  <2>3. ASSUME NEW p \in CPU, Enter(p) PROVE Fifo!Next
    BY <2>3, EnterIsEnter DEF Fifo!Next
  <2>4. ASSUME NEW p \in CPU, Reload(p) PROVE UNCHANGED <<Queue, Inside>>
    <3>1. Busy' = Busy /\ Inside' = Inside
      BY <2>4 DEF Reload, Busy, Inside
    <3>2. QED
      BY <2>4, <3>1, SameQueue DEF Reload
  <2>5. ASSUME NEW p \in CPU, UnlockLoad(p) PROVE UNCHANGED <<Queue, Inside>>
    <3>1. Busy' = Busy /\ Inside' = Inside
      BY <2>5 DEF UnlockLoad, Busy, Inside, TicketInv, TypeOK
    <3>2. QED
      BY <2>5, <3>1, SameQueue DEF UnlockLoad
  <2>6. ASSUME NEW p \in CPU, UnlockStore(p) PROVE Fifo!Next
    BY <2>6, UnlockStoreIsLeave DEF Fifo!Next
  <2>7. QED
    BY <2>1, <2>2, <2>3, <2>4, <2>5, <2>6 DEF Next
<1>3. QED
  BY <1>1, <1>2, TicketInvariant, PTL DEF Spec, FifoSpec, Fifo!Spec
=============================================================================
