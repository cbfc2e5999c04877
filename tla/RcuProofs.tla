----------------------------- MODULE RcuProofs ------------------------------
(***************************************************************************)
(* No object is freed while a CPU works on it, for any number of CPUs and  *)
(* objects and any number of batches.                                      *)
(***************************************************************************)
EXTENDS Rcu, FiniteSetTheorems, TLAPS

(* Rcu::state starts as RCU_CMP: batch 0 is over and nobody owes a report. *)
LEMMA InitRcuInv == Init => RcuInv
<1> SUFFICES ASSUME Init PROVE RcuInv
  OBVIOUS
<1>1. Cardinality(CPU) \in Nat /\ count \in 0 .. Cardinality(CPU)
  BY RcuAssumption, FS_CardinalityType DEF Init
<1>2. TypeOK
  BY <1>1, RcuAssumption DEF Init, TypeOK, State, Bits
<1>3. Owe = {}
  BY DEF Init, Owe
<1>4. BatchInv
  BY <1>3 DEF Init, BatchInv
<1>5. ObjectInv
  BY DEF Init, ObjectInv, Queued
<1>6. QED
  BY <1>2, <1>4, <1>5 DEF RcuInv

(* Kernel code and the way in and out of it leave batches and reports      *)
(* alone; Rcu::call adds to next only, which no batch waits for yet.       *)
LEMMA KernelStep ==
    ASSUME RcuInv, NEW p \in CPU,
           \/ Enter(p) \/ Leave(p) \/ Timer(p)
           \/ \E e \in Elem : Lookup(p, e) \/ Call(p, e) \/ Create(p, e)
    PROVE  RcuInv'
<1>0. UNCHANGED <<state, count, l_batch, c_batch, hazard, arg, v, curr, done>> /\ Owe' = Owe
  BY DEF Enter, Leave, Timer, Lookup, Call, Create, batches, lists, Owe
<1>1. CASE Enter(p)
  BY <1>0, <1>1 DEF Enter, Goto, RcuInv, TypeOK, BatchInv, ObjectInv, NotYet, Queued, lists, objects
<1>2. CASE Leave(p)
  BY <1>0, <1>2 DEF Leave, Goto, RcuInv, TypeOK, BatchInv, ObjectInv, NotYet, Queued, lists
<1>3. CASE Timer(p)
  BY <1>0, <1>3 DEF Timer, RcuInv, TypeOK, BatchInv, ObjectInv, NotYet, Queued, lists, objects
<1>4. ASSUME NEW e \in Elem, Lookup(p, e) PROVE RcuInv'
  BY <1>0, <1>4 DEF Lookup, RcuInv, TypeOK, BatchInv, ObjectInv, NotYet, Queued, lists
<1>5. ASSUME NEW e \in Elem, Call(p, e) PROVE RcuInv'
  BY <1>0, <1>5 DEF Call, RcuInv, TypeOK, BatchInv, ObjectInv, NotYet, Queued
<1>6. ASSUME NEW e \in Elem, Create(p, e) PROVE RcuInv'
  BY <1>0, <1>6 DEF Create, RcuInv, TypeOK, BatchInv, ObjectInv, NotYet, Queued, lists
<1>7. QED
  BY <1>1, <1>2, <1>3, <1>4, <1>5, <1>6

(* The last report: Owe loses p, and count, its size, reaches zero exactly *)
(* when nobody owes a report any more.                                     *)
LEMMA QuietStep ==
    ASSUME RcuInv, NEW p \in CPU, Quiet(p)
    PROVE  RcuInv'
<1>0. UNCHANGED <<state, l_batch, c_batch, next, curr, done, v, linked, refs, calls>>
  BY DEF Quiet, batches, lists, objects
<1>1. p \in hazard /\ l_batch[p] = state.batch /\ p \in Owe
  BY DEF Quiet, RcuInv, BatchInv, Owe
<1>2. Owe' = Owe \ {p}
  BY <1>0, <1>1 DEF Quiet, Owe
<1>3. "CMP" \notin state.bits /\ count = Cardinality(Owe)
  BY <1>1 DEF RcuInv, BatchInv
<1>4. IsFiniteSet(Owe) /\ IsFiniteSet(Owe')
  BY <1>2, RcuAssumption, FS_Subset DEF Owe
<1>5. Cardinality(Owe') = count - 1 /\ count - 1 \in Nat /\ (count - 1 = 0 => Owe' = {})
  BY <1>1, <1>2, <1>3, <1>4, FS_RemoveElement, FS_CardinalityType, FS_EmptySet
<1>6. \A q \in CPU : ~(pc[q] \in {"load", "swap"} /\ arg[q] = "CMP") /\ pc[q] \notin {"reset", "start"}
  BY <1>1, <1>3 DEF RcuInv, BatchInv, Bits
<1>7. TypeOK'
  <2>1. Cardinality(CPU) \in Nat
    BY RcuAssumption, FS_CardinalityType
  <2>2. count' \in 0 .. Cardinality(CPU)
    BY <1>5, <2>1 DEF Quiet, RcuInv, TypeOK
  <2>3. QED
    BY <1>0, <2>2 DEF Quiet, RcuInv, TypeOK, Bits
<1>8. BatchInv'
  BY <1>0, <1>2, <1>3, <1>5, <1>6 DEF Quiet, RcuInv, TypeOK, BatchInv
<1>9. ObjectInv'
  BY <1>0, <1>2, <1>6 DEF Quiet, RcuInv, TypeOK, BatchInv, ObjectInv, NotYet, Queued
<1>10. QED
  BY <1>7, <1>8, <1>9 DEF RcuInv

(* update() leaves the CPUs that owe a report alone: one that sees the     *)
(* batch for the first time has the hazard from then on.                   *)
LEMMA UpdateStep ==
    ASSUME RcuInv, NEW p \in CPU,
           UpdateBatch(p) \/ UpdateDone(p) \/ UpdateNext(p) \/ Invoke(p)
    PROVE  RcuInv'
<1>0. UNCHANGED <<state, count, v, linked, refs, calls>>
  BY DEF UpdateBatch, UpdateDone, UpdateNext, Invoke, batches, lists, objects
<1>1. Owe' = Owe
  <2>1. CASE UpdateBatch(p)
    BY <1>0, <2>1 DEF UpdateBatch, Owe, RcuInv, TypeOK
  <2>2. CASE UpdateDone(p) \/ UpdateNext(p) \/ Invoke(p)
    BY <1>0, <2>2 DEF UpdateDone, UpdateNext, Invoke, batches, Owe
  <2>3. QED
    BY <2>1, <2>2
<1>2. CASE UpdateBatch(p)
  <2>1. TypeOK'
    BY <1>0, <1>2 DEF UpdateBatch, Goto, lists, RcuInv, TypeOK, State
  <2>2. BatchInv'
    BY <1>0, <1>1, <1>2 DEF UpdateBatch, Goto, RcuInv, TypeOK, BatchInv, State
  <2>3. ObjectInv'
    BY <1>0, <1>1, <1>2 DEF UpdateBatch, Goto, lists, RcuInv, TypeOK, ObjectInv, NotYet, Queued, State
  <2>4. QED
    BY <2>1, <2>2, <2>3 DEF RcuInv
<1>3. CASE UpdateDone(p)
  <2>1. ASSUME NEW q \in CPU, NEW e \in refs[q], e \in curr[p] PROVE ~Complete(c_batch[p])
    BY <2>1 DEF Complete, RcuInv, TypeOK, BatchInv, ObjectInv, NotYet, State
  <2>2. TypeOK'
    BY <1>0, <1>3 DEF UpdateDone, Goto, batches, RcuInv, TypeOK
  <2>3. BatchInv'
    BY <1>0, <1>1, <1>3 DEF UpdateDone, Goto, batches, RcuInv, TypeOK, BatchInv
  <2>4. ObjectInv'
    BY <1>0, <1>1, <1>3, <2>1 DEF UpdateDone, Goto, batches, RcuInv, TypeOK, ObjectInv, NotYet, Queued
  <2>5. QED
    BY <2>2, <2>3, <2>4 DEF RcuInv
<1>4. CASE UpdateNext(p)
  <2>1. TypeOK'
    BY <1>0, <1>4 DEF UpdateNext, RcuInv, TypeOK, Bits
  <2>2. BatchInv'
    BY <1>0, <1>1, <1>4 DEF UpdateNext, RcuInv, TypeOK, BatchInv
  <2>3. ObjectInv'
    BY <1>0, <1>1, <1>4 DEF UpdateNext, RcuInv, TypeOK, ObjectInv, NotYet, Queued
  <2>4. QED
    BY <2>1, <2>2, <2>3 DEF RcuInv
<1>5. CASE Invoke(p)
  <2>1. TypeOK' /\ BatchInv'
    BY <1>0, <1>1, <1>5 DEF Invoke, Goto, batches, RcuInv, TypeOK, BatchInv
  <2>2. ObjectInv'
    BY <1>0, <1>1, <1>5 DEF Invoke, Goto, batches, RcuInv, TypeOK, ObjectInv, NotYet, Queued
  <2>3. QED
    BY <2>1, <2>2 DEF RcuInv
<1>6. QED
  BY <1>2, <1>3, <1>4, <1>5

(* start_batch().  RCU_CMP is only ever set when nobody owes a report; the *)
(* CPU that finds both bits set is alone until it has started the batch,   *)
(* for which every CPU then owes one.                                      *)
LEMMA BatchStep ==
    ASSUME RcuInv, NEW p \in CPU, Load(p) \/ Swap(p) \/ Reset(p) \/ Start(p)
    PROVE  RcuInv'
<1>0. UNCHANGED <<l_batch, c_batch, next, curr, done, hazard, arg, linked, refs, calls>>
  BY DEF Load, Swap, Reset, Start, batches, lists, objects
<1>1. CASE Load(p)
  <2>1. state' = state /\ count' = count /\ Owe' = Owe
    BY <1>0, <1>1 DEF Load, Owe
  <2>2. TypeOK'
    BY <1>0, <1>1, <2>1 DEF Load, After, RcuInv, TypeOK
  <2>3. BatchInv'
    BY <1>0, <1>1, <2>1 DEF Load, After, RcuInv, TypeOK, BatchInv
  <2>4. ObjectInv'
    BY <1>0, <1>1, <2>1 DEF Load, After, RcuInv, TypeOK, ObjectInv, NotYet, Queued
  <2>5. QED
    BY <2>2, <2>3, <2>4 DEF RcuInv
<1>2. CASE Swap(p)
  <2>1. count' = count /\ v' = v /\ state'.batch = state.batch /\ Owe' = Owe /\ state' \in State
    BY <1>0, <1>2 DEF Swap, Owe, RcuInv, TypeOK, State
  <2>2. TypeOK'
    BY <1>0, <1>2, <2>1 DEF Swap, After, RcuInv, TypeOK
  <2>3. BatchInv'
    <3>1. CASE state # v[p]
      BY <1>0, <1>2, <2>1, <3>1 DEF Swap, RcuInv, TypeOK, BatchInv
    <3>2. CASE state = v[p]
      <4>1. state'.bits = state.bits \cup {arg[p]} /\ arg[p] \notin state.bits /\ arg[p] \in Bits
        BY <1>2, <3>2 DEF Swap, RcuInv, TypeOK, BatchInv, State
      <4>2. \A q \in CPU : pc[q] \notin {"reset", "start"}
        BY <4>1 DEF RcuInv, BatchInv
      <4>3. Other(arg[p]) \in state.bits => state'.bits = Bits
        BY <4>1 DEF Other, Bits, RcuInv, TypeOK, State
      <4>4. "CMP" \in state'.bits => Owe = {}
        BY <1>2, <4>1 DEF Swap, RcuInv, BatchInv
      <4>5. \A q \in CPU \ {p} : pc[q] \in {"load", "swap"} /\ arg[q] = "CMP" => "CMP" \notin state'.bits
        BY <1>2, <4>1 DEF Swap, RcuInv, BatchInv
      <4>6. QED
        BY <1>0, <1>2, <2>1, <3>2, <4>1, <4>2, <4>3, <4>4, <4>5 DEF Swap, After, RcuInv, TypeOK, BatchInv
    <3>3. QED
      BY <3>1, <3>2
  <2>4. ObjectInv'
    BY <1>0, <1>2, <2>1 DEF Swap, After, RcuInv, TypeOK, ObjectInv, NotYet, Queued
  <2>5. QED
    BY <2>2, <2>3, <2>4 DEF RcuInv
<1>3. CASE Reset(p)
  <2>1. state' = state /\ v' = v /\ Owe' = Owe /\ count' = Cardinality(CPU) /\ "CMP" \in state.bits
    BY <1>0, <1>3 DEF Reset, Goto, Owe, RcuInv, BatchInv, Bits
  <2>2. Cardinality(CPU) \in Nat
    BY RcuAssumption, FS_CardinalityType
  <2>3. TypeOK'
    BY <1>0, <1>3, <2>1, <2>2 DEF Reset, Goto, RcuInv, TypeOK
  <2>4. BatchInv'
    BY <1>0, <1>3, <2>1 DEF Reset, Goto, RcuInv, TypeOK, BatchInv
  <2>5. ObjectInv'
    BY <1>0, <1>3, <2>1 DEF Reset, Goto, RcuInv, TypeOK, ObjectInv, NotYet, Queued
  <2>6. QED
    BY <2>3, <2>4, <2>5 DEF RcuInv
<1>4. CASE Start(p)
  <2>1. state.bits = Bits /\ Owe = {} /\ count = Cardinality(CPU)
    BY <1>4 DEF Start, Goto, RcuInv, BatchInv, Bits
  <2>2. state' = [batch |-> state.batch + 1, bits |-> {}] /\ count' = count /\ v' = v
    BY <1>4, <2>1 DEF Start, Bits
  <2>3. \A q \in CPU : l_batch[q] = state.batch /\ q \notin hazard
    BY <2>1 DEF Owe
  <2>4. Owe' = CPU
    BY <1>0, <2>2, <2>3 DEF Owe, RcuInv, TypeOK, State
  <2>5. \A q \in CPU \ {p} : pc[q] \notin {"reset", "start"} /\ ~(pc[q] \in {"load", "swap"} /\ arg[q] = "CMP")
    BY <1>4, <2>1 DEF Start, Goto, RcuInv, BatchInv, Bits
  <2>6. TypeOK'
    <3>1. state' \in State
      BY <2>2 DEF RcuInv, TypeOK, State
    <3>2. QED
      BY <1>0, <1>4, <2>2, <3>1 DEF Start, Goto, After, RcuInv, TypeOK
  <2>7. BatchInv'
    BY <1>0, <1>4, <2>1, <2>2, <2>3, <2>4, <2>5 DEF Start, Goto, After, RcuInv, TypeOK, BatchInv
  <2>8. ObjectInv'
    <3>1. \A q \in CPU, b \in Nat : NotYet(q, b) => NotYet(q, b)'
      BY <2>1, <2>2, <2>4 DEF NotYet, RcuInv, TypeOK, State
    <3>2. QED
      BY <1>0, <1>4, <3>1 DEF Start, Goto, After, RcuInv, TypeOK, ObjectInv, Queued
  <2>9. QED
    BY <2>6, <2>7, <2>8 DEF RcuInv
<1>5. QED
  BY <1>1, <1>2, <1>3, <1>4

-----------------------------------------------------------------------------

(* The reports and lists of rcu.cpp stay in step with the batches.         *)
THEOREM RcuBatches == Spec => []RcuInv
<1>1. RcuInv /\ [Next]_vars => RcuInv'
  <2> SUFFICES ASSUME RcuInv, [Next]_vars PROVE RcuInv'
    OBVIOUS
  <2>1. CASE Next
    BY <2>1, KernelStep, QuietStep, UpdateStep, BatchStep DEF Next, Code
  <2>2. CASE UNCHANGED vars
    <3>1. UNCHANGED <<state, count, l_batch, c_batch, next, curr, done, hazard, pc, arg, v,
                      linked, refs, calls>>
      BY <2>2 DEF vars, batches, lists, objects
    <3>2. QED
      BY <3>1 DEF RcuInv, TypeOK, BatchInv, ObjectInv, NotYet, Owe, Queued
  <2>3. QED
    BY <2>1, <2>2
<1>2. QED
  BY <1>1, InitRcuInv, PTL DEF Spec

(* No object is freed while a CPU works on it: the grace period of rcu.cpp *)
(* covers every CPU, whatever the number of CPUs, objects and calls.       *)
THEOREM RcuNoUseAfterFree == Spec => []NoUseAfterFree
<1>1. RcuInv => NoUseAfterFree
  BY DEF RcuInv, ObjectInv, NoUseAfterFree, Queued
<1>2. QED
  BY <1>1, RcuBatches, PTL

=============================================================================
