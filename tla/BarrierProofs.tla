---------------------------- MODULE BarrierProofs ----------------------------
(***************************************************************************)
(* Theorems about Barrier, for any number of threads and any number of     *)
(* rounds.                                                                 *)
(***************************************************************************)
EXTENDS Barrier, FiniteSetTheorems, TLAPS

USE WorkersAssumption

\* step is compared with the cardinality of finite sets.
LEMMA InFinite ==
  /\ IsFiniteSet(In) /\ Cardinality(In) \in Nat /\ cardinal \in Nat
  /\ Cardinality(In) = cardinal <=> In = Workers
  /\ Cardinality(In) = 0 <=> In = {}
<1>1. IsFiniteSet(In) /\ In \subseteq Workers
  BY FS_Subset DEF In
<1>. QED  BY <1>1, FS_Subset, FS_CardinalityType, FS_EmptySet DEF cardinal

\* EnterBarrier adds a thread to those that are in.
LEMMA EnterSteps ==
  ASSUME BarrierInv, NEW w \in Workers, EnterBarrier(w)
  PROVE  BarrierInv'
<1> USE DEF BarrierInv, BarrierTypeOK, BarrierLabels
<1>1. /\ bpc[w] = "out" /\ step' = step + 1 /\ mode' = mode /\ passed' = passed
      /\ bpc' = [bpc EXCEPT ![w] = IF step + 1 = cardinal THEN "open" ELSE "wait_leave"]
      /\ arrived' = [arrived EXCEPT ![w] = @ + 1]
  BY DEF EnterBarrier, BGoto
<1>2. w \notin In /\ In' = In \cup {w} /\ mode = "enter"
  BY <1>1 DEF In, Leaving
<1>3. Cardinality(In') = step + 1 /\ IsFiniteSet(In')
  BY <1>2, InFinite, FS_AddElement DEF StepExact
<1>4. BarrierTypeOK' /\ StepExact' /\ Leaving'
  BY <1>1, <1>2, <1>3 DEF StepExact, Leaving
<1>5. step + 1 = cardinal => In' = Workers
  <2>1. In' \subseteq Workers
    BY DEF In
  <2>. QED  BY <2>1, <1>3, FS_Subset DEF cardinal
<1>6. Entering'
  <2>1. \A u \in Workers : bpc[u] = "open" => FALSE
    BY <1>1, <1>2 DEF Entering
  <2>2. \A u \in Workers : Finished(u)' = Finished(u)
    BY <1>1 DEF Finished
  <2>. QED  BY <1>1, <1>2, <1>5, <2>1, <2>2 DEF Entering
<1>7. Called'
  BY <1>1 DEF Called
<1>. QED  BY <1>4, <1>6, <1>7

\* Open lets the threads, all of which are in, leave.
LEMMA OpenSteps ==
  ASSUME BarrierInv, NEW w \in Workers, Open(w)
  PROVE  BarrierInv'
<1> USE DEF BarrierInv, BarrierTypeOK, BarrierLabels
<1>1. /\ bpc[w] = "open" /\ step' = step /\ mode' = "leave" /\ UNCHANGED <<passed, arrived>>
      /\ bpc' = [bpc EXCEPT ![w] = "leaving"]
  BY DEF Open, BGoto
<1>2. In' = In /\ mode = "enter" /\ In = Workers
  BY <1>1 DEF In, Entering, Leaving
<1>3. BarrierTypeOK' /\ StepExact' /\ Entering' /\ Called'
  BY <1>1, <1>2 DEF StepExact, Entering, Called
<1>4. \A u \in Workers : bpc[u] \in {"open", "wait_leave"}
  BY <1>2 DEF In, Entering
<1>5. Leaving'
  BY <1>1, <1>2, <1>4 DEF Leaving, Entering, Finished
<1>. QED  BY <1>3, <1>5

\* LeaveBarrier removes a thread from those that are in.
LEMMA LeaveSteps ==
  ASSUME BarrierInv, NEW w \in Workers, LeaveBarrier(w)
  PROVE  BarrierInv'
<1> USE DEF BarrierInv, BarrierTypeOK, BarrierLabels
<1>1. /\ bpc[w] = "leaving" /\ step' = step - 1 /\ mode' = mode /\ UNCHANGED <<passed, arrived>>
      /\ bpc' = [bpc EXCEPT ![w] = IF step - 1 = 0 THEN "close" ELSE "wait_enter"]
  BY DEF LeaveBarrier, BGoto
<1>2. w \in In /\ In' = In \ {w} /\ mode = "leave"
  BY <1>1 DEF In, Entering
<1>3. Cardinality(In') = step - 1 /\ IsFiniteSet(In') /\ step - 1 \in Nat
  BY <1>2, InFinite, FS_RemoveElement, FS_CardinalityType DEF StepExact
<1>4. BarrierTypeOK' /\ StepExact' /\ Entering' /\ Called'
  BY <1>1, <1>2, <1>3 DEF StepExact, Entering, Called
<1>5. step - 1 = 0 => In' = {}
  BY <1>3, FS_EmptySet
<1>6. \A u \in Workers : bpc[u] = "close" => FALSE
  BY <1>2 DEF Leaving
<1>7. Leaving'
  BY <1>1, <1>2, <1>5, <1>6 DEF Leaving
<1>. QED  BY <1>4, <1>7

\* Close lets the threads, all of which have counted themselves out, enter.
LEMMA CloseSteps ==
  ASSUME BarrierInv, NEW w \in Workers, Close(w)
  PROVE  BarrierInv'
<1> USE DEF BarrierInv, BarrierTypeOK, BarrierLabels
<1>1. /\ bpc[w] = "close" /\ step' = step /\ mode' = "enter" /\ arrived' = arrived
      /\ bpc' = [bpc EXCEPT ![w] = "out"] /\ passed' = [passed EXCEPT ![w] = @ + 1]
  BY DEF Close, Pass, BGoto
<1>2. In' = In /\ mode = "leave" /\ In = {}
  BY <1>1 DEF In, Entering, Leaving
<1>3. BarrierTypeOK' /\ StepExact' /\ Leaving' /\ Called'
  BY <1>1, <1>2 DEF StepExact, Leaving, Called
<1>4. \A u \in Workers : bpc[u] = "wait_enter" \/ u = w
  BY <1>1, <1>2 DEF In, Leaving
<1>5. Entering'
  BY <1>1, <1>2, <1>4 DEF Leaving, Entering, Finished
<1>. QED  BY <1>3, <1>5

\* The two spins change nobody else's view.
LEMMA SpinSteps ==
  ASSUME BarrierInv, NEW w \in Workers, SeeLeave(w) \/ SeeEnter(w)
  PROVE  BarrierInv'
<1> USE DEF BarrierInv, BarrierTypeOK, BarrierLabels
<1>1. In' = In
  BY DEF SeeLeave, SeeEnter, Pass, BGoto, In
<1>2. CASE SeeLeave(w)
  BY <1>1, <1>2 DEF SeeLeave, BGoto, StepExact, Entering, Leaving, Called
<1>3. CASE SeeEnter(w)
  <2>1. \A u \in Workers : Finished(u)' = Finished(u)
    BY <1>3 DEF SeeEnter, Pass, BGoto, Finished
  <2>. QED
    BY <1>1, <1>3, <2>1 DEF SeeEnter, Pass, BGoto, StepExact, Entering, Leaving, Called
<1>. QED  BY <1>2, <1>3

\* A barrier is created with nobody in (common.hpp:313).
LEMMA InitBarrier == BarrierInit => BarrierInv
<1>. SUFFICES ASSUME BarrierInit PROVE BarrierInv
  OBVIOUS
<1>1. In = {}
  BY DEF BarrierInit, In
<1>. QED
  BY <1>1, FS_EmptySet DEF BarrierInit, BarrierInv, BarrierTypeOK, BarrierLabels, StepExact,
     Entering, Leaving, Called, Finished

\* Every step of sync() keeps the invariant.
LEMMA NextBarrier == BarrierInv /\ [BarrierNext]_barrierVars => BarrierInv'
<1>. SUFFICES ASSUME BarrierInv, [BarrierNext]_barrierVars PROVE BarrierInv'
  OBVIOUS
<1>1. CASE BarrierNext
  BY <1>1, EnterSteps, OpenSteps, LeaveSteps, CloseSteps, SpinSteps
     DEF BarrierNext, InSync
<1>2. CASE UNCHANGED barrierVars
  BY <1>2 DEF barrierVars, BarrierInv, BarrierTypeOK, StepExact, In, Entering, Leaving,
     Called, Finished
<1>. QED  BY <1>1, <1>2

\* The inductive invariant of the barrier holds in every reachable state.
THEOREM BarrierInvariance == BarrierSpec => []BarrierInv
  BY InitBarrier, NextBarrier, PTL DEF BarrierSpec

\* What the invariant is for.
LEMMA InvMeansBarrier == BarrierInv => NobodyPassesEarly
<1>. SUFFICES ASSUME BarrierInv, NEW v \in Workers, NEW w \in Workers
              PROVE  passed[v] <= arrived[w]
  BY DEF NobodyPassesEarly
<1> USE DEF BarrierInv, BarrierTypeOK, BarrierLabels
<1>1. CASE mode = "enter"
  BY <1>1 DEF Entering, Called, Finished
<1>2. CASE mode = "leave"
  BY <1>2 DEF Leaving, Called
<1>. QED  BY <1>1, <1>2

\* However many threads use the barrier and however often, none returns from
\* its k-th sync() before all have called it k times (common.hpp:315).
THEOREM BarrierHolds == BarrierSpec => []NobodyPassesEarly
  BY BarrierInvariance, InvMeansBarrier, PTL
=============================================================================
