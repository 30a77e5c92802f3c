---------------------------- MODULE GraderProofs ----------------------------
(***************************************************************************)
(* The grader implements Sync and Barrier, so that what is proved of them  *)
(* holds of it, for any library; and it unloads a library only when it is  *)
(* idle.                                                                   *)
(***************************************************************************)
EXTENDS Grader, SyncProofs, BarrierProofs

\* A step of check calls the barrier or leaves it alone.
LEMMA CheckProjects ==
  ASSUME NEW w \in Workers, CheckStep(w) \/ InBarrier(w)
  PROVE  UNCHANGED <<syncVars, main, runner, overran>> /\ [BarrierNext]_barrierVars
<1>1. CASE CheckStep(w)
  <2>1. ASSUME NEW from, NEW to, CallSync(w, from, to)
        PROVE  UNCHANGED <<syncVars, main, runner, overran>> /\ [BarrierNext]_barrierVars
    BY <2>1 DEF CallSync, BarrierNext, mainVars
  <2>2. CASE Sync1(w) \/ BadSync(w) \/ Sync2(w) \/ Sync3(w)
    BY <2>1, <2>2 DEF Sync1, BadSync, Sync2, Sync3
  <2>3. CASE InitCounter(w) \/ Verify(w) \/ ReadLast(w) \/ Final(w)
    BY <2>3 DEF InitCounter, Verify, ReadLast, Final, mainVars
  <2>4. CASE Decrement(w)
    BY <2>4 DEF Decrement, mainVars
  <2>. QED  BY <1>1, <2>2, <2>3, <2>4 DEF CheckStep
<1>2. CASE InBarrier(w)
  BY <1>2 DEF InBarrier, BarrierNext, mainVars
<1>. QED  BY <1>1, <1>2

\* A step of a worker is one of Sync's, of the barrier's, or neither's.
LEMMA WorkerProjects ==
  ASSUME NEW w \in Workers, WorkerStep(w)
  PROVE  /\ [SyncNext]_syncVars /\ [BarrierNext]_barrierVars
         /\ UNCHANGED <<main, runner, overran, mpc>>
         /\ wpc[w] = "gone" => wpc' = wpc
<1>1. CASE (WaitStep(w) \/ NotifyStep(w)) /\ UNCHANGED <<barrierVars, checkVars, lib, mainVars>>
  <2>1. SyncNext
    BY <1>1 DEF SyncNext
  <2>2. WaitStep(w) => wpc[w] # "gone" /\ mpc' = mpc
    BY DEF WaitStep, SeeWait, SeeQuit, CountIn, ResetReady, Go, SeeRun, WGoto, masterVars
  <2>3. NotifyStep(w) => wpc[w] # "gone" /\ mpc' = mpc
    BY DEF NotifyStep, StoreError, Abort, CountOut, Clear, Verdict, Raise, NextTask, WGoto,
           masterVars
  <2>. QED  BY <1>1, <2>1, <2>2, <2>3 DEF mainVars
<1>2. CASE CheckStep(w) \/ InBarrier(w)
  <2>1. UNCHANGED <<syncVars, main, runner, overran>> /\ [BarrierNext]_barrierVars
    BY <1>2, CheckProjects
  <2>2. UNCHANGED <<mpc, wpc>>
    BY <2>1 DEF syncVars, masterVars, workerVars
  <2>. QED  BY <2>1, <2>2
<1>3. CASE EndTask(w)
  <2>1. PICK out \in Outcomes : Finish(w, out)
    BY <1>3 DEF EndTask
  <2>2. wpc[w] # "gone" /\ mpc' = mpc
    BY <2>1 DEF Finish, WGoto, masterVars
  <2>3. SyncNext
    BY <2>1 DEF SyncNext
  <2>. QED  BY <1>3, <2>2, <2>3 DEF EndTask, mainVars
<1>. QED  BY <1>1, <1>2, <1>3 DEF WorkerStep

\* A step of main() or of the thread of bounded_run is at most one of the master.
LEMMA MainProjects ==
  ASSUME MainStep \/ RunnerStep \/ CreateFails
  PROVE  UNCHANGED barrierVars /\ (UNCHANGED syncVars \/ (main = "measure" /\ MasterStep))
<1>1. Load \/ LoadFails \/ BoundedRun \/ Woken \/ RunnerJoined => UNCHANGED <<barrierVars, syncVars>>
  BY DEF Load, LoadFails, BoundedRun, Woken, RunnerJoined
<1>2. BoundedOverrun \/ Measured \/ Unload \/ RunnerStep \/ CreateFails =>
        UNCHANGED <<barrierVars, syncVars>>
  BY DEF BoundedOverrun, Measured, Unload, RunnerStep, CreateFails
<1>3. Measure => UNCHANGED barrierVars /\ main = "measure" /\ MasterStep
  BY DEF Measure
<1>. QED  BY <1>1, <1>2, <1>3 DEF MainStep

\* So every step is one of Sync and of the barrier, or leaves them alone.
LEMMA GraderProjects ==
  [GraderNext]_graderVars => [SyncNext]_syncVars /\ [BarrierNext]_barrierVars
<1> SUFFICES ASSUME [GraderNext]_graderVars
             PROVE  [SyncNext]_syncVars /\ [BarrierNext]_barrierVars
  OBVIOUS
<1>1. CASE MainStep \/ RunnerStep \/ CreateFails
  BY <1>1, MainProjects DEF SyncNext
<1>2. ASSUME NEW w \in Workers, WorkerStep(w)
      PROVE  [SyncNext]_syncVars /\ [BarrierNext]_barrierVars
  BY <1>2, WorkerProjects
<1>3. CASE UNCHANGED graderVars
  BY <1>3 DEF graderVars
<1>. QED  BY <1>1, <1>2, <1>3 DEF GraderNext

\* The grader is an instance of Sync: its tasks, one of them check(), add
\* nothing to how rounds are run.
THEOREM GraderImplementsSync == GraderSpec => SyncSpec
<1>1. GraderInit => SyncInit
  BY DEF GraderInit
<1>. QED  BY <1>1, GraderProjects, PTL DEF GraderSpec, SyncSpec

\* check() uses the barrier as Barrier allows, whoever throws.
THEOREM GraderImplementsBarrier == GraderSpec => BarrierSpec
<1>1. GraderInit => BarrierInit
  BY DEF GraderInit
<1>. QED  BY <1>1, GraderProjects, PTL DEF GraderSpec, BarrierSpec

\* So in the grader too the verdict is that of the tasks, and no thread passes
\* the barrier of check() early.
THEOREM GraderIsSound ==
  GraderSpec => [](TogetherInRound /\ VerdictRight /\ NothingUnreachable /\ NobodyPassesEarly)
BY GraderImplementsSync, GraderImplementsBarrier, RoundsAreTogether, VerdictIsRight,
   UnreachableIsNotReached, BarrierHolds, PTL

-----------------------------------------------------------------------------
(* main() and its threads *)

\* The memory is destroyed after measure() has returned, which it does when
\* every worker is gone; the library is unloaded after that, with the thread of
\* bounded_run joined, or after a constructor that took too long.
UnloadInv ==
  /\ mpc = "returned" => \A w \in Workers : wpc[w] = "gone"
  /\ main \in {"destroy", "destroying", "destroyed"} => mpc = "returned"
  /\ main \in {"unload", "unloaded"} => overran \/ (mpc = "returned" /\ runner = "done")

\* A step of the master ends in "returned" only when all workers are gone.
LEMMA MasterReturns ==
  ASSUME MasterStep
  PROVE  /\ mpc # "returned"
         /\ mpc' = "returned" => UNCHANGED wpc /\ \A w \in Workers : wpc[w] = "gone"
<1>1. \A w \in Workers : StartWorker(w) => mpc = "start" /\ mpc' = mpc
  BY DEF StartWorker, masterVars
<1>2. StartFails \/ Started \/ Notify \/ Wake \/ Overrun \/ Join =>
        mpc # "returned" /\ mpc' # "returned"
  BY DEF StartFails, Started, Notify, Wake, Overrun, Join, MGoto
<1>3. ReadStatus => mpc # "returned" /\ mpc' # "returned"
  BY DEF ReadStatus, MGoto
<1>4. Joined => mpc # "returned" /\ UNCHANGED wpc /\ \A w \in Workers : wpc[w] = "gone"
  BY DEF Joined, MGoto, workerVars
<1>. QED  BY <1>1, <1>2, <1>3, <1>4 DEF MasterStep

\* The steps of main(), of its threads and of the workers keep UnloadInv.
LEMMA UnloadInvNext ==
  ASSUME UnloadInv, [GraderNext]_graderVars
  PROVE  UnloadInv'
<1> USE DEF UnloadInv
<1>1. ASSUME NEW w \in Workers, WorkerStep(w)  PROVE UnloadInv'
  BY <1>1, WorkerProjects
<1>2. CASE Measure
  <2>1. main = "measure" /\ main' = main /\ MasterStep
    BY <1>2 DEF Measure, mainVars
  <2>. QED  BY <2>1, MasterReturns
<1>3. CASE (MainStep /\ ~Measure) \/ RunnerStep \/ CreateFails
  <2>1. UNCHANGED <<mpc, wpc>>
    <3>1. UNCHANGED syncVars
      BY <1>3
      DEF MainStep, Load, LoadFails, BoundedRun, Woken, RunnerJoined, BoundedOverrun, Measured,
          Unload, RunnerStep, CreateFails
    <3>. QED  BY <3>1 DEF syncVars, masterVars, workerVars
  <2>2. CASE Load \/ LoadFails \/ BoundedRun \/ Woken
    BY <2>1, <2>2 DEF Load, LoadFails, BoundedRun, Woken, MainGoto
  <2>3. CASE RunnerJoined
    BY <2>1, <2>3 DEF RunnerJoined, MainGoto
  <2>4. CASE BoundedOverrun
    BY <2>1, <2>4 DEF BoundedOverrun, MainGoto
  <2>5. CASE Measured \/ Unload
    BY <2>1, <2>5 DEF Measured, Unload, MainGoto
  <2>6. CASE RunnerStep \/ CreateFails
    BY <2>1, <2>6 DEF RunnerStep, CreateFails
  <2>. QED  BY <1>3, <2>2, <2>3, <2>4, <2>5, <2>6 DEF MainStep
<1>4. CASE UNCHANGED graderVars
  <2>1. UNCHANGED <<mpc, wpc, main, runner, overran>>
    BY <1>4 DEF graderVars, syncVars, masterVars, workerVars, mainVars
  <2>. QED  BY <2>1
<1>. QED  BY <1>1, <1>2, <1>3, <1>4 DEF GraderNext, MainStep

\* No thread is left in the library when it is unloaded, nor any worker when its
\* memory is destroyed, except after a tm_create that took too long.
THEOREM UnloadIsIdle == GraderSpec => []UnloadIdle
<1>1. GraderInit => UnloadInv
  BY DEF GraderInit, SyncInit, UnloadInv
<1>2. UnloadInv => UnloadIdle
  BY DEF UnloadInv, UnloadIdle
<1>. QED  BY <1>1, <1>2, UnloadInvNext, PTL DEF GraderSpec

-----------------------------------------------------------------------------
(* The counter of check() *)

\* The initial value of the counter is one a size_t has.
LEMMA CounterFits ==
  /\ NbTx \in Nat \ {0} /\ SizeRange \in Nat
  /\ init_counter \in Nat /\ init_counter < SizeRange
<1>1. nbworkers \in Nat
  BY WorkersAssumption, FS_CardinalityType DEF nbworkers
<1>. QED  BY <1>1, GraderAssumption DEF init_counter, nbworkers

\* The decrements of all workers together make up init_counter.
LEMMA AllDecrements ==
  /\ IsFiniteSet(Workers \X (1..NbTx))
  /\ Cardinality(Workers \X (1..NbTx)) = init_counter
<1>1. IsFiniteSet(1..NbTx) /\ Cardinality(1..NbTx) = NbTx
  BY CounterFits, FS_Interval
<1>2. nbworkers \in Nat
  BY WorkersAssumption, FS_CardinalityType DEF nbworkers
<1>3. nbworkers * NbTx = NbTx * nbworkers
  BY <1>2, CounterFits
<1>4. /\ IsFiniteSet(Workers \X (1..NbTx))
      /\ Cardinality(Workers \X (1..NbTx)) = Cardinality(Workers) * Cardinality(1..NbTx)
  BY <1>1, WorkersAssumption, FS_Product
<1>. QED  BY <1>1, <1>3, <1>4 DEF init_counter, nbworkers

\* What is still to come is a part of them: none, or all.
LEMMA TodoBounds ==
  /\ IsFiniteSet(Remaining) /\ Todo \in 0..init_counter
  /\ (\A w \in Workers : left[w] = NbTx) => Todo = init_counter
  /\ (\A w \in Workers : left[w] = 0) => Todo = 0
<1>1. Remaining \subseteq Workers \X (1..NbTx)
  BY DEF Remaining
<1>2. IsFiniteSet(Remaining) /\ Todo \in 0..init_counter
  BY <1>1, AllDecrements, CounterFits, FS_Subset, FS_CardinalityType DEF Todo
<1>3. ASSUME \A w \in Workers : left[w] = NbTx  PROVE Todo = init_counter
  <2>1. Remaining = Workers \X (1..NbTx)
    BY <1>3, CounterFits DEF Remaining
  <2>. QED  BY <2>1, AllDecrements DEF Todo
<1>4. ASSUME \A w \in Workers : left[w] = 0  PROVE Todo = 0
  <2>1. Remaining = {}
    BY <1>4, CounterFits DEF Remaining
  <2>. QED  BY <2>1, FS_EmptySet DEF Todo
<1>. QED  BY <1>2, <1>3, <1>4

\* An iteration takes one of them away.
LEMMA TodoFalls ==
  ASSUME left \in [Workers -> 0..NbTx], NEW w \in Workers, left[w] >= 1,
         left' = [left EXCEPT ![w] = @ - 1]
  PROVE  Todo >= 1 /\ Todo' = Todo - 1
<1>1. <<w, left[w]>> \in Remaining
  BY CounterFits DEF Remaining
<1>2. Remaining' = Remaining \ {<<w, left[w]>>}
  <2>1. ASSUME NEW v \in Workers, NEW n \in 1..NbTx
        PROVE  <<v, n>> \in Remaining' <=> <<v, n>> \in Remaining \ {<<w, left[w]>>}
    BY <2>1, CounterFits DEF Remaining
  <2>2. /\ Remaining' \subseteq Workers \X (1..NbTx)
        /\ Remaining \subseteq Workers \X (1..NbTx)
    BY DEF Remaining
  <2>. QED  BY <2>1, <2>2
<1>3. Cardinality(Remaining') = Cardinality(Remaining) - 1
  BY <1>1, <1>2, TodoBounds, FS_RemoveElement
<1>4. Cardinality(Remaining) # 0
  BY <1>1, TodoBounds, FS_EmptySet
<1>. QED  BY <1>3, <1>4, TodoBounds DEF Todo

\* A counter that has not reached zero does not wrap.
LEMMA NoWrap ==
  ASSUME NEW n \in 1..SizeRange - 1
  PROVE  (n + SizeRange - 1) % SizeRange = n - 1
BY CounterFits

\* A worker at a place of check has returned from every sync() it called; the
\* others have called it as often.
LEMMA AtPlace ==
  ASSUME BarrierInv, NEW w \in Workers, bpc[w] = "out"
  PROVE  passed[w] = arrived[w] /\ \A v \in Workers : arrived[w] <= arrived[v]
BY InvMeansBarrier DEF BarrierInv, Called, NobodyPassesEarly

\* A call of sync() changes the place of one worker.
LEMMA Calling ==
  ASSUME CheckTypeOK, BarrierInv, NEW w \in Workers, NEW from, NEW to \in CheckLabels,
         CallSync(w, from, to)
  PROVE  /\ CheckTypeOK' /\ Todo' = Todo
         /\ cpc[w] = from /\ cpc' = [cpc EXCEPT ![w] = to]
         /\ passed' = passed /\ passed[w] = arrived[w]
         /\ arrived' = [arrived EXCEPT ![w] = @ + 1]
         /\ UNCHANGED <<left, last, counter, lost, lib>>
<1>1. /\ bpc[w] = "out" /\ passed' = passed
      /\ cpc[w] = from /\ cpc' = [cpc EXCEPT ![w] = to]
      /\ arrived' = [arrived EXCEPT ![w] = @ + 1]
      /\ UNCHANGED <<left, last, counter, lost, lib>>
  BY DEF CallSync, CGoto, Checking, EnterBarrier
<1>. QED  BY <1>1, AtPlace DEF CheckTypeOK, Todo, Remaining

\* The six calls of sync(), from one place of check to another.
LEMMA CallsKeep ==
  ASSUME CheckInv, BarrierInv, NEW w \in Workers,
         Sync1(w) \/ BadSync(w) \/ Sync2(w) \/ Sync3(w)
  PROVE  CheckInv'
<1>1. PICK from \in CheckLabels, to \in CheckLabels :
        /\ CallSync(w, from, to)
        /\ \/ from = "sync1" /\ to = IF w = First THEN "init" ELSE "sync2"
           \/ from = "bad_sync2" /\ to = "bad_sync3"
           \/ from = "bad_sync3" /\ to = "error"
           \/ from = "sync2" /\ to = "read"
           \/ from = "sync3" /\ to = IF w = First THEN "final" ELSE "ok"
  BY DEF Sync1, BadSync, Sync2, Sync3, CheckLabels
<1>2. /\ CheckTypeOK' /\ Todo' = Todo
      /\ cpc[w] = from /\ cpc' = [cpc EXCEPT ![w] = to]
      /\ passed' = passed /\ arrived' = [arrived EXCEPT ![w] = @ + 1]
      /\ UNCHANGED <<left, last, counter, lost, lib>>
  BY <1>1, Calling DEF CheckInv
<1>3. arrived \in [Workers -> Nat] /\ cpc \in [Workers -> CheckLabels] /\ First \in Workers
  BY GraderAssumption DEF BarrierInv, BarrierTypeOK, CheckInv, CheckTypeOK
<1>4. \A v \in Workers : Placed(v)'
  BY <1>1, <1>2, <1>3 DEF CheckInv, Placed
<1>5. \A v \in Workers : Iterating(v)'
  BY <1>1, <1>2, <1>3 DEF CheckInv, Iterating
<1>6. Begun' = Begun
  BY <1>1, <1>2, <1>3 DEF Begun
<1>7. Counted'
  BY <1>1, <1>2, <1>3, <1>6 DEF CheckInv, Counted
<1>. QED  BY <1>1, <1>2, <1>3, <1>4, <1>5, <1>6, <1>7 DEF CheckInv

\* Before First is through its initialization nobody has decremented the
\* counter, and nobody is about to.
LEMMA BeforeSync2 ==
  ASSUME CheckInv, BarrierInv, arrived[First] <= 1
  PROVE  /\ Todo = init_counter /\ ~lost
         /\ \A w \in Workers : cpc[w] # "decrement"
<1>1. First \in Workers /\ arrived \in [Workers -> Nat] /\ passed \in [Workers -> Nat]
  BY GraderAssumption DEF BarrierInv, BarrierTypeOK
<1>2. \A w \in Workers : cpc[w] # "decrement"
  BY <1>1, InvMeansBarrier DEF CheckInv, Placed, NobodyPassesEarly
<1>. QED  BY <1>2, TodoBounds DEF CheckInv, Iterating

\* First writes the counter, and reads it again.
LEMMA InitKeeps ==
  ASSUME CheckInv, BarrierInv, NEW w \in Workers, InitCounter(w) \/ Verify(w)
  PROVE  CheckInv'
<1>1. /\ bpc[w] = "out" /\ UNCHANGED <<barrierVars, left, last, lost, lib>>
      /\ cpc[w] \in {"init", "verify"}
      /\ cpc' = [cpc EXCEPT ![w] = IF cpc[w] = "init" THEN "verify" ELSE
                                     IF counter = init_counter THEN "sync2" ELSE "bad_sync2"]
      /\ \/ counter' = counter /\ (cpc[w] = "init" => lib = "lossy")
         \/ counter' = init_counter /\ cpc[w] = "init"
  BY DEF InitCounter, Verify, CGoto, Checking
<1>2. w = First /\ arrived[First] = 1 /\ UNCHANGED <<arrived, passed>>
  BY <1>1 DEF CheckInv, Placed, barrierVars
<1>3. Todo' = Todo /\ Todo = init_counter /\ ~lost /\ \A v \in Workers : cpc[v] # "decrement"
  BY <1>1, <1>2, BeforeSync2 DEF Todo, Remaining
<1>4. CheckTypeOK'
  BY <1>1, CounterFits DEF CheckInv, CheckTypeOK, CheckLabels
<1>5. cpc[First] = "verify" /\ lib = "correct" => counter = init_counter
  BY <1>3 DEF CheckInv, Begun
<1>6. \A v \in Workers : Placed(v)'
  BY <1>1, <1>2, <1>5 DEF CheckInv, CheckTypeOK, Placed
<1>7. \A v \in Workers : Iterating(v)'
  BY <1>1, <1>2 DEF CheckInv, CheckTypeOK, Iterating
<1>8. Begun' => counter' = init_counter
  BY <1>1, <1>2, <1>5 DEF CheckInv, CheckTypeOK, Begun
<1>9. Counted'
  BY <1>1, <1>2, <1>3, <1>8, CounterFits DEF CheckInv, CheckTypeOK, Counted
<1>. QED  BY <1>1, <1>2, <1>3, <1>4, <1>6, <1>7, <1>8, <1>9 DEF CheckInv, CheckTypeOK

\* A worker reads the counter.
LEMMA ReadKeeps ==
  ASSUME CheckInv, BarrierInv, NEW w \in Workers, ReadLast(w)
  PROVE  CheckInv'
<1>1. /\ bpc[w] = "out" /\ UNCHANGED <<barrierVars, left, counter, lost, lib>>
      /\ cpc[w] = "read" /\ cpc' = [cpc EXCEPT ![w] = "decrement"]
      /\ last' = [last EXCEPT ![w] = counter]
  BY DEF ReadLast, CGoto, Checking
<1>2. passed[w] = 2 /\ UNCHANGED <<arrived, passed>> /\ Todo' = Todo
  BY <1>1, AtPlace DEF CheckInv, Placed, barrierVars, Todo, Remaining
<1>3. CheckTypeOK'
  BY <1>1 DEF CheckInv, CheckTypeOK, CheckLabels
<1>4. \A v \in Workers : Placed(v)'
  BY <1>1, <1>2 DEF CheckInv, CheckTypeOK, Placed
<1>5. \A v \in Workers : Iterating(v)'
  BY <1>1, <1>2 DEF CheckInv, CheckTypeOK, Iterating
<1>6. First \in Workers /\ Begun' = Begun
  BY <1>1, GraderAssumption DEF CheckInv, CheckTypeOK, Begun
<1>7. Counted'
  BY <1>1, <1>2, <1>6, CounterFits DEF CheckInv, CheckTypeOK, Counted
<1>. QED  BY <1>1, <1>2, <1>3, <1>4, <1>5, <1>6, <1>7 DEF CheckInv, CheckTypeOK

\* A decrement is never above what the library may still see, unless it sees
\* the counter rise: that is an error, which a correct library never gives.
LEMMA AtDecrement ==
  ASSUME CheckInv, BarrierInv, NEW w \in Workers, bpc[w] = "out", cpc[w] = "decrement"
  PROVE  /\ passed[w] = 2 /\ arrived[w] = 2 /\ arrived[First] >= 2
         /\ passed[First] # 3
         /\ lib = "correct" => Begun
<1>1. First \in Workers /\ arrived[First] \in Nat
  BY GraderAssumption DEF BarrierInv, BarrierTypeOK
<1>2. passed[w] = 2 /\ arrived[w] = 2
  BY DEF CheckInv, Placed
<1>3. arrived[First] >= 2 /\ passed[First] # 3
  BY <1>1, <1>2, InvMeansBarrier DEF NobodyPassesEarly, BarrierInv, BarrierTypeOK
<1>4. lib = "correct" => Begun
  BY <1>1, <1>3 DEF CheckInv, CheckTypeOK, CheckLabels, Placed, Begun
<1>. QED  BY <1>2, <1>3, <1>4

LEMMA DecrementKeeps ==
  ASSUME CheckInv, BarrierInv, NEW w \in Workers, Decrement(w)
  PROVE  CheckInv'
<1>1. PICK value \in {counter} \cup (IF lib = "lossy" THEN {last[w]} ELSE {}) :
        IF value > last[w]
        THEN /\ CGoto(w, "decrement", "bad_sync3")
             /\ UNCHANGED <<syncVars, barrierVars, left, last, counter, lost, lib, mainVars>>
        ELSE /\ CGoto(w, "decrement", IF left[w] = 1 THEN "sync3" ELSE "read")
             /\ counter' = (value + SizeRange - 1) % SizeRange
             /\ lost' = (lost \/ value # counter)
             /\ left' = [left EXCEPT ![w] = @ - 1]
             /\ UNCHANGED <<syncVars, barrierVars, last, lib, mainVars>>
  BY DEF Decrement
<1>2. /\ bpc[w] = "out" /\ cpc[w] = "decrement" /\ UNCHANGED <<arrived, passed, last, lib>>
      /\ arrived[First] \in Nat /\ First \in Workers
  BY <1>1, GraderAssumption DEF CGoto, Checking, barrierVars, BarrierInv, BarrierTypeOK
<1>3. /\ passed[w] = 2 /\ arrived[w] = 2 /\ arrived[First] >= 2 /\ passed[First] # 3
      /\ lib = "correct" => Begun
  BY <1>2, AtDecrement
<1>4. /\ left[w] \in 1..NbTx /\ value \in 0..SizeRange - 1 /\ last[w] \in 0..SizeRange - 1
      /\ Todo \in 0..init_counter
  BY <1>2, CounterFits, TodoBounds DEF CheckInv, CheckTypeOK, Iterating
<1>5. CASE value > last[w]
  <2>1. cpc' = [cpc EXCEPT ![w] = "bad_sync3"] /\ UNCHANGED <<left, last, counter, lost, lib>>
    BY <1>1, <1>5 DEF CGoto
  <2>2. lib # "correct"
    BY <1>2, <1>3, <1>4, <1>5, CounterFits DEF CheckInv, Counted
  <2>3. Todo' = Todo
    BY <2>1 DEF Todo, Remaining
  <2>4. CheckTypeOK'
    BY <2>1 DEF CheckInv, CheckTypeOK, CheckLabels
  <2>5. \A v \in Workers : Placed(v)' /\ Iterating(v)'
    BY <1>2, <1>3, <2>1, <2>2 DEF CheckInv, CheckTypeOK, Placed, Iterating
  <2>6. Begun' => Begun
    BY <1>2, <2>1 DEF CheckInv, CheckTypeOK, Begun
  <2>7. Counted'
    BY <2>1, <2>3, <2>6 DEF CheckInv, CheckTypeOK, Counted
  <2>. QED  BY <1>2, <2>1, <2>2, <2>4, <2>5, <2>7 DEF CheckInv, CheckTypeOK
<1>6. CASE ~(value > last[w])
  <2>1. /\ cpc' = [cpc EXCEPT ![w] = IF left[w] = 1 THEN "sync3" ELSE "read"]
        /\ counter' = (value + SizeRange - 1) % SizeRange
        /\ lost' = (lost \/ value # counter)
        /\ left' = [left EXCEPT ![w] = @ - 1]
    BY <1>1, <1>6 DEF CGoto
  <2>2. Todo >= 1 /\ Todo' = Todo - 1
    <3>1. left \in [Workers -> 0..NbTx] /\ left[w] >= 1
      BY <1>4 DEF CheckInv, CheckTypeOK
    <3>2. left' = [left EXCEPT ![w] = @ - 1]
      BY <2>1
    <3>. QED  BY <3>1, <3>2, TodoFalls, Zenon
  <2>3. counter' \in 0..SizeRange - 1
    BY <1>4, <2>1, CounterFits
  <2>4. CheckTypeOK'
    BY <1>2, <1>4, <2>1, <2>3, CounterFits DEF CheckInv, CheckTypeOK, CheckLabels
  <2>5. \A v \in Workers : Placed(v)'
    BY <1>2, <1>3, <2>1 DEF CheckInv, CheckTypeOK, Placed
  <2>6. \A v \in Workers : Iterating(v)'
    BY <1>2, <1>3, <1>4, <2>1, CounterFits DEF CheckInv, CheckTypeOK, Iterating
  <2>7. Begun' => Begun
    BY <1>2, <2>1 DEF CheckInv, CheckTypeOK, Begun
  <2>8. Begun => value \in Todo..init_counter
    BY <1>2, <1>4 DEF CheckInv, Counted
  <2>9. Begun => counter' = value - 1
    BY <1>4, <2>1, <2>2, <2>8, CounterFits, NoWrap
  <2>10. Begun /\ lost' => counter' > Todo'
    <3>1. Begun /\ value # counter => value = last[w] /\ last[w] # Todo
      BY <1>1, <1>2 DEF CheckInv, Counted
    <3>2. Begun /\ lost' => value > Todo
      BY <1>2, <1>4, <2>1, <2>8, <3>1, CounterFits DEF CheckInv, Counted, CheckTypeOK
    <3>. QED  BY <1>4, <2>2, <2>9, <3>2
  <2>11. ASSUME Begun, NEW v \in Workers, cpc'[v] = "decrement"
         PROVE  last'[v] \in Todo'..init_counter /\ last'[v] # Todo'
    <3>1. cpc[v] = "decrement" /\ last'[v] = last[v]
      BY <1>2, <2>1, <2>11 DEF CheckInv, CheckTypeOK
    <3>2. last[v] \in Todo..init_counter
      BY <2>11, <3>1 DEF CheckInv, Counted
    <3>. QED  BY <1>4, <2>2, <3>1, <3>2, CounterFits
  <2>12. Counted'
    <3>1. Begun => counter' \in Todo'..init_counter
      BY <1>4, <2>2, <2>8, <2>9, CounterFits
    <3>2. init_counter' = init_counter
      BY DEF init_counter, nbworkers
    <3>. QED  BY <2>7, <2>10, <2>11, <3>1, <3>2 DEF Counted
  <2>13. lib' = "correct" /\ Begun' => counter' = Todo'
    BY <1>1, <1>2, <1>4, <2>2, <2>7, <2>9, CounterFits DEF CheckInv
  <2>14. lost' => lib' = "lossy"
    BY <1>1, <1>2, <2>1 DEF CheckInv
  <2>15. cpc'[First] # "ok"
    BY <1>2, <1>3, <2>1 DEF CheckInv, CheckTypeOK, Placed
  <2>16. ~(arrived'[First] <= 1)
    BY <1>2, <1>3
  <2>. QED
    BY <2>4, <2>5, <2>6, <2>12, <2>13, <2>14, <2>15, <2>16 DEF CheckInv
<1>. QED  BY <1>5, <1>6

\* When First looks at the counter for the last time all workers have done
\* their iterations, or found an error.
LEMMA FinalKeeps ==
  ASSUME CheckInv, BarrierInv, NEW w \in Workers, Final(w)
  PROVE  CheckInv'
<1>1. /\ bpc[w] = "out" /\ UNCHANGED <<barrierVars, left, last, counter, lost, lib>>
      /\ cpc[w] = "final" /\ cpc' = [cpc EXCEPT ![w] = IF counter = 0 THEN "ok" ELSE "error"]
  BY DEF Final, CGoto, Checking
<1>2. /\ w = First /\ passed[w] = 3 /\ UNCHANGED <<arrived, passed>> /\ Todo' = Todo
      /\ \A v \in Workers : arrived[v] >= 3
  BY <1>1, AtPlace DEF CheckInv, Placed, barrierVars, Todo, Remaining
<1>3. Begun /\ Todo \in 0..init_counter
  BY <1>1, <1>2, TodoBounds DEF Begun
<1>4. counter = 0 => ~lost
  BY <1>3, CounterFits DEF CheckInv, Counted
<1>5. lib = "correct" => counter = 0
  <2>1. SUFFICES ASSUME lib = "correct"  PROVE counter = 0
    OBVIOUS
  <2>2. \A v \in Workers : cpc[v] \in {"final", "ok"}
    BY <1>2, <2>1 DEF CheckInv, CheckTypeOK, CheckLabels, Placed
  <2>3. \A v \in Workers : left[v] = 0
    BY <2>2 DEF CheckInv, Iterating
  <2>. QED  BY <1>3, <2>1, <2>3, TodoBounds DEF CheckInv
<1>6. CheckTypeOK'
  BY <1>1 DEF CheckInv, CheckTypeOK, CheckLabels
<1>7. \A v \in Workers : Placed(v)'
  BY <1>1, <1>2, <1>5 DEF CheckInv, CheckTypeOK, Placed
<1>8. \A v \in Workers : Iterating(v)'
  BY <1>1, <1>2 DEF CheckInv, CheckTypeOK, Iterating
<1>9. Counted'
  BY <1>1, <1>2, <1>3 DEF CheckInv, CheckTypeOK, Counted
<1>. QED  BY <1>1, <1>2, <1>3, <1>4, <1>6, <1>7, <1>8, <1>9 DEF CheckInv, CheckTypeOK

\* Inside sync() a worker has not returned as often as it has called.
LEMMA InBarrierKeeps ==
  ASSUME CheckInv, BarrierInv, NEW w \in Workers, InBarrier(w)
  PROVE  CheckInv'
<1>1. UNCHANGED <<cpc, left, last, counter, lost, lib>> /\ InSync(w)
  BY DEF InBarrier, checkVars
<1>2. arrived' = arrived /\ \A v \in Workers : passed'[v] = passed[v] \/ bpc[v] # "out"
  BY <1>1 DEF InSync, Open, SeeLeave, LeaveBarrier, Close, SeeEnter, Pass, BGoto, BarrierInv,
              BarrierTypeOK
<1>3. \A v \in Workers : bpc[v] # "out" => passed[v] = arrived[v] - 1
  BY DEF BarrierInv, Called
<1>4. \A v \in Workers : cpc[v] = "decrement" \/ (cpc[v] = "ok" /\ v = First) => bpc[v] = "out"
  BY <1>3 DEF CheckInv, Placed, BarrierInv, BarrierTypeOK
<1>5. \A v \in Workers : Placed(v)'
  BY <1>1, <1>2, <1>4 DEF CheckInv, Placed
<1>6. \A v \in Workers : Iterating(v)'
  BY <1>1, <1>2 DEF CheckInv, Iterating
<1>7. Todo' = Todo /\ Begun' = Begun
  BY <1>1 DEF Todo, Remaining, Begun
<1>8. Counted'
  BY <1>1, <1>7 DEF CheckInv, Counted
<1>. QED  BY <1>1, <1>2, <1>5, <1>6, <1>7, <1>8 DEF CheckInv, CheckTypeOK

\* A step of the grader that is none of check leaves what check is about alone.
LEMMA OtherSteps ==
  ASSUME [GraderNext]_graderVars,
         ~ \E w \in Workers : CheckStep(w) \/ InBarrier(w)
  PROVE  UNCHANGED <<barrierVars, checkVars, lib>>
<1>1. MainStep \/ RunnerStep \/ CreateFails => UNCHANGED <<barrierVars, checkVars, lib>>
  BY DEF MainStep, Load, LoadFails, BoundedRun, Woken, RunnerJoined, BoundedOverrun, Measure,
         Measured, Unload, RunnerStep, CreateFails
<1>2. \A w \in Workers : WorkerStep(w) => UNCHANGED <<barrierVars, checkVars, lib>>
  BY DEF WorkerStep, EndTask
<1>. QED  BY <1>1, <1>2 DEF GraderNext, graderVars

LEMMA CheckInvInit == GraderInit => CheckInv
<1>. SUFFICES ASSUME GraderInit  PROVE CheckInv
  OBVIOUS
<1>1. First \in Workers /\ 1 \in 0..SizeRange - 1 /\ 0 \in 0..SizeRange - 1
  <2>1. Cardinality(Workers) \in Nat /\ Cardinality(Workers) # 0
    BY WorkersAssumption, FS_CardinalityType, FS_EmptySet
  <2>2. NbTx * Cardinality(Workers) >= 1
    BY <2>1, CounterFits
  <2>. QED  BY <2>1, <2>2, GraderAssumption
<1>2. CheckTypeOK
  <2>1. cpc \in [Workers -> CheckLabels]
    BY DEF GraderInit, CheckLabels
  <2>2. left \in [Workers -> 0..NbTx]
    BY CounterFits DEF GraderInit
  <2>3. last \in [Workers -> 0..SizeRange - 1] /\ counter \in 0..SizeRange - 1
    BY <1>1 DEF GraderInit
  <2>4. lost \in BOOLEAN
    BY DEF GraderInit
  <2>. QED  BY <2>1, <2>2, <2>3, <2>4 DEF CheckTypeOK
<1>3. \A w \in Workers : Placed(w) /\ Iterating(w)
  BY CounterFits DEF GraderInit, BarrierInit, Placed, Iterating
<1>4. ~Begun /\ ~lost /\ cpc[First] # "ok"
  BY <1>1 DEF GraderInit, Begun
<1>. QED  BY <1>2, <1>3, <1>4 DEF CheckInv, Counted

LEMMA CheckInvNext ==
  ASSUME CheckInv, BarrierInv, [GraderNext]_graderVars
  PROVE  CheckInv'
<1>1. ASSUME NEW w \in Workers, CheckStep(w) \/ InBarrier(w)  PROVE CheckInv'
  BY <1>1, CallsKeep, InitKeeps, ReadKeeps, DecrementKeeps, FinalKeeps, InBarrierKeeps
  DEF CheckStep
<1>2. CASE UNCHANGED <<barrierVars, checkVars, lib>>
  BY <1>2 DEF barrierVars, checkVars, CheckInv, CheckTypeOK, Placed, Iterating, Begun, Todo,
              Remaining, Counted
<1>. QED  BY <1>1, <1>2, OtherSteps

\* The inductive invariant of check(), for any library, any number of workers
\* and of iterations.
THEOREM CheckInvariance == GraderSpec => []CheckInv
<1>1. GraderSpec => []BarrierInv
  BY GraderImplementsBarrier, BarrierInvariance, PTL
<1>. QED  BY <1>1, CheckInvInit, CheckInvNext, PTL DEF GraderSpec

-----------------------------------------------------------------------------
(* What measure() makes of it *)

\* A worker at check() is not past it.
LEMMA CheckStepOutcome ==
  ASSUME OutcomeInv, CheckInv, NEW w \in Workers, CheckStep(w) \/ InBarrier(w)
  PROVE  OutcomeInv'
<1>1. UNCHANGED <<syncVars, lib>>
  <2>1. UNCHANGED syncVars
    BY CheckProjects
  <2>2. CheckStep(w) \/ InBarrier(w) => lib' = lib
    BY DEF CheckStep, Sync1, BadSync, Sync2, Sync3, CallSync, InitCounter, Verify, ReadLast,
           Decrement, Final, InBarrier
  <2>. QED  BY <2>1, <2>2
<1>2. \A v \in Workers : cpc'[v] = cpc[v] \/ ~Over(v)
  <2>1. InBarrier(w) => cpc' = cpc
    BY DEF InBarrier, checkVars
  <2>2. CheckStep(w) => \E from, to : CGoto(w, from, to)
    BY DEF CheckStep, Sync1, BadSync, Sync2, Sync3, CallSync, InitCounter, Verify, ReadLast,
           Decrement, Final
  <2>3. ASSUME NEW from, NEW to, CGoto(w, from, to), NEW v \in Workers
        PROVE  cpc'[v] = cpc[v] \/ ~Over(v)
    BY <2>3, RoundsAssumption DEF CGoto, Checking, Over, CheckInv, CheckTypeOK
  <2>. QED  BY <2>1, <2>2, <2>3
<1>. QED
  BY <1>1, <1>2 DEF OutcomeInv, NoFalseAlarm, Over, syncVars, workerVars, masterVars

\* A task ends as check() found, or as the library lets it.
LEMMA EndTaskOutcome ==
  ASSUME OutcomeInv, CheckInv, SyncTypeOK, NothingUnreachable, NEW w \in Workers, EndTask(w)
  PROVE  OutcomeInv'
<1>1. PICK out \in Outcomes :
        /\ Finish(w, out)
        /\ out = "error" /\ task[w] # Rounds => lib = "lossy"
        /\ out = "exception" => lib = "throwing" \/ task[w] > Rounds
        /\ task[w] = Rounds =>
             IF out = "exception"
             THEN cpc[w] \in {"init", "verify", "read", "decrement", "final"}
             ELSE cpc[w] = out
  BY DEF EndTask
<1>2. /\ wpc[w] = "work" /\ wpc' = [wpc EXCEPT ![w] = IF out = "ok" THEN "leave" ELSE "store_error"]
      /\ outcome' = [outcome EXCEPT ![w] = out]
      /\ UNCHANGED <<errmsg, task, result, cpc, lib>>
  BY <1>1 DEF Finish, WGoto, EndTask, checkVars, masterVars
<1>3. ~(task[w] > Rounds) /\ task[w] \in Nat
  BY <1>2, RoundsAssumption DEF NothingUnreachable, SyncTypeOK
<1>4. lib = "correct" => out = "ok"
  BY <1>1, <1>3 DEF Outcomes, CheckInv, Placed
<1>. QED
  BY <1>1, <1>2, <1>3, <1>4 DEF OutcomeInv, NoFalseAlarm, Over, SyncTypeOK

\* The rest of Sync passes outcomes on.
LEMMA SyncStepOutcome ==
  ASSUME OutcomeInv, SyncTypeOK, UNCHANGED <<checkVars, lib>>,
         MasterStep \/ \E w \in Workers : WaitStep(w) \/ NotifyStep(w)
  PROVE  OutcomeInv'
<1> USE RoundsAssumption DEF OutcomeInv, NoFalseAlarm, SyncTypeOK, checkVars, Over
<1>1. ASSUME NEW w \in Workers, WaitStep(w)  PROVE OutcomeInv'
  BY <1>1 DEF WaitStep, SeeWait, SeeQuit, CountIn, ResetReady, Go, SeeRun, WGoto, masterVars
<1>2. ASSUME NEW w \in Workers, StoreError(w) \/ Abort(w) \/ Clear(w) \/ Verdict(w)
      PROVE  OutcomeInv'
  BY <1>2 DEF StoreError, Abort, Clear, Verdict, WGoto, masterVars
<1>3. ASSUME NEW w \in Workers, CountOut(w) \/ Raise(w)  PROVE OutcomeInv'
  BY <1>3 DEF CountOut, Raise, NextTask, WGoto, masterVars
<1>4. ASSUME MasterStep  PROVE OutcomeInv'
  <2>1. ASSUME NEW w \in Workers, StartWorker(w)  PROVE OutcomeInv'
    BY <2>1 DEF StartWorker, WGoto, masterVars
  <2>2. CASE StartFails \/ Started \/ Notify \/ Wake \/ Overrun \/ Join \/ Joined
    BY <2>2 DEF StartFails, Started, Notify, Wake, Overrun, Join, Joined, workerVars
  <2>3. CASE ReadStatus
    BY <2>3 DEF ReadStatus, workerVars
  <2>. QED  BY <1>4, <2>1, <2>2, <2>3 DEF MasterStep
<1>. QED  BY <1>1, <1>2, <1>3, <1>4 DEF NotifyStep

LEMMA OutcomeInvNext ==
  ASSUME OutcomeInv, CheckInv, SyncTypeOK, NothingUnreachable, [GraderNext]_graderVars
  PROVE  OutcomeInv'
<1>1. CASE UNCHANGED <<syncVars, checkVars, lib>>
  BY <1>1 DEF syncVars, workerVars, masterVars, checkVars, OutcomeInv, NoFalseAlarm, Over
<1>2. ASSUME NEW w \in Workers, WorkerStep(w)  PROVE OutcomeInv'
  BY <1>2, CheckStepOutcome, EndTaskOutcome, SyncStepOutcome DEF WorkerStep
<1>3. CASE MainStep \/ RunnerStep \/ CreateFails
  <2>1. Measure => MasterStep /\ UNCHANGED <<checkVars, lib>>
    BY DEF Measure
  <2>2. Load \/ LoadFails \/ BoundedRun \/ Woken \/ RunnerJoined =>
          UNCHANGED <<syncVars, checkVars, lib>>
    BY DEF Load, LoadFails, BoundedRun, Woken, RunnerJoined
  <2>3. BoundedOverrun \/ Measured \/ Unload \/ RunnerStep \/ CreateFails =>
          UNCHANGED <<syncVars, checkVars, lib>>
    BY DEF BoundedOverrun, Measured, Unload, RunnerStep, CreateFails
  <2>. QED  BY <1>1, <1>3, <2>1, <2>2, <2>3, SyncStepOutcome DEF MainStep
<1>. QED  BY <1>1, <1>2, <1>3 DEF GraderNext, graderVars

\* Every outcome is what check() found (grading.cpp:163-182), in any run.
THEOREM OutcomeInvariance == GraderSpec => []OutcomeInv
<1>1. GraderInit => OutcomeInv
  BY RoundsAssumption DEF GraderInit, SyncInit, OutcomeInv, NoFalseAlarm, Over
<1>2. GraderSpec => []SyncTypeOK /\ []NothingUnreachable
  BY GraderImplementsSync, SyncTyped, UnreachableIsNotReached, PTL
<1>. QED  BY <1>1, <1>2, CheckInvariance, OutcomeInvNext, PTL DEF GraderSpec

\* A correct library is never accused: check() and measure() report no error of
\* it, for any number of workers and of iterations that a size_t can count
\* (workload.hpp:328-388).
THEOREM CorrectIsNotAccused == GraderSpec => []NoFalseAlarm
<1>1. OutcomeInv => NoFalseAlarm
  BY DEF OutcomeInv
<1>. QED  BY <1>1, OutcomeInvariance, PTL

\* A library that has lost an update of the counter in check() is found: two
\* lost updates never make up for each other (workload.hpp:362-387).
THEOREM LossIsFound == GraderSpec => []LossFound
<1>1. ASSUME SyncInv, CheckInv, OutcomeInv  PROVE LossFound
  <2>. SUFFICES ASSUME mpc = "returned", result = "none"  PROVE ~lost
    BY DEF LossFound
  <2>1. First \in Workers /\ round = Rounds + 1 /\ task[First] = round /\ outcome[First] = "ok"
    BY <1>1, GraderAssumption
    DEF SyncInv, Starting, Resting, Gathering, Busy, Ended, Joining
  <2>2. cpc[First] = "ok"
    BY <1>1, <2>1, RoundsAssumption DEF OutcomeInv, Over
  <2>. QED  BY <1>1, <2>2 DEF CheckInv
<1>2. GraderSpec => []SyncInv
  BY GraderImplementsSync, SyncInvariance, PTL
<1>. QED  BY <1>1, <1>2, CheckInvariance, OutcomeInvariance, PTL

-----------------------------------------------------------------------------
(* The type of the grader *)

\* The state of main(), beside that of the measure and of check().
MainTypes ==
  /\ lib \in {"correct", "lossy", "throwing"}
  /\ main \in MainLabels /\ runner \in {"none", "in_lib", "notify", "done"}
  /\ loaded \in BOOLEAN /\ overran \in BOOLEAN

\* A worker leaves it alone, and main() and its threads keep it.
LEMMA MainTypesNext ==
  ASSUME MainTypes, [GraderNext]_graderVars
  PROVE  MainTypes'
<1> USE DEF MainTypes, MainLabels
<1>1. CASE UNCHANGED <<lib, mainVars>>
  BY <1>1 DEF mainVars
<1>2. ASSUME NEW w \in Workers, WorkerStep(w)  PROVE UNCHANGED <<lib, mainVars>>
  <2>1. CheckStep(w) \/ InBarrier(w) => UNCHANGED <<lib, mainVars>>
    BY DEF CheckStep, Sync1, BadSync, Sync2, Sync3, CallSync, InitCounter, Verify, ReadLast,
           Decrement, Final, InBarrier
  <2>2. EndTask(w) => UNCHANGED <<lib, mainVars>>
    BY DEF EndTask
  <2>. QED  BY <1>2, <2>1, <2>2 DEF WorkerStep
<1>3. CASE Load \/ LoadFails \/ BoundedRun \/ Woken
  BY <1>3 DEF Load, LoadFails, BoundedRun, Woken, MainGoto
<1>4. CASE RunnerJoined \/ BoundedOverrun \/ Measured \/ Unload
  BY <1>4 DEF RunnerJoined, BoundedOverrun, Measured, Unload, MainGoto
<1>5. CASE RunnerStep \/ CreateFails
  BY <1>5 DEF RunnerStep, CreateFails
<1>6. Measure => UNCHANGED <<lib, mainVars>>
  BY DEF Measure
<1>7. CASE UNCHANGED graderVars
  BY <1>1, <1>7 DEF graderVars
<1>. QED  BY <1>1, <1>2, <1>3, <1>4, <1>5, <1>6, <1>7 DEF GraderNext, MainStep

\* The state of the grader keeps its types: no worker of check() iterates more
\* often than it was asked to; nbready stays within the workers.
THEOREM GraderTyped == GraderSpec => []GraderTypeOK
<1>1. GraderInit => MainTypes
  BY DEF GraderInit, MainTypes, MainLabels
<1>2. GraderSpec => []MainTypes
  BY <1>1, MainTypesNext, PTL DEF GraderSpec
<1>3. GraderSpec => []SyncTypeOK
  BY GraderImplementsSync, SyncTyped, PTL
<1>4. GraderSpec => []BarrierInv
  BY GraderImplementsBarrier, BarrierInvariance, PTL
<1>5. SyncTypeOK /\ BarrierInv /\ CheckInv /\ MainTypes => GraderTypeOK
  BY DEF BarrierInv, CheckInv, MainTypes, GraderTypeOK
<1>. QED  BY <1>2, <1>3, <1>4, <1>5, CheckInvariance, PTL
=============================================================================
