----------------------------- MODULE SyncProofs -----------------------------
(***************************************************************************)
(* Theorems about Sync, for any number of workers and of rounds.           *)
(***************************************************************************)
EXTENDS Sync, FiniteSetTheorems, TLAPS

USE WorkersAssumption, RoundsAssumption

\* nbready is compared with the cardinality of sets of workers.
LEMMA SubsetFinite ==
  ASSUME NEW S \in SUBSET Workers
  PROVE  /\ IsFiniteSet(S) /\ Cardinality(S) \in 0..nbworkers /\ nbworkers \in Nat \ {0}
         /\ Cardinality(S) = nbworkers <=> S = Workers
         /\ Cardinality(S) = 0 <=> S = {}
<1>1. IsFiniteSet(S) /\ Cardinality(S) \in Nat /\ nbworkers \in Nat
  BY FS_Subset, FS_CardinalityType DEF nbworkers
<1>2. Cardinality(S) <= nbworkers /\ (Cardinality(S) = nbworkers <=> S = Workers)
  BY FS_Subset DEF nbworkers
<1>3. nbworkers # 0
  BY FS_EmptySet DEF nbworkers
<1>. QED  BY <1>1, <1>2, <1>3, FS_EmptySet

\* A worker more makes the number of some workers one more.
LEMMA SubsetAdd ==
  ASSUME NEW S \in SUBSET Workers, NEW w \in Workers \ S
  PROVE  Cardinality(S \cup {w}) = Cardinality(S) + 1
BY SubsetFinite, FS_AddElement

-----------------------------------------------------------------------------
(* Where a worker or the master is tells which phase the round is in. *)

Phases == Starting \/ Resting \/ Gathering \/ Busy \/ Ended \/ Joining

\* The places of a worker tell the phase of the round.
LEMMA WorkerPhase ==
  ASSUME SyncInv, NEW w \in Workers
  PROVE  /\ wpc[w] = "unborn" => Starting
         /\ wpc[w] \in {"ready", "reset", "go"} => Gathering
         /\ wpc[w] = "await" /\ status \in {"Run", "Abort"} => Busy
         /\ wpc[w] \in {"work", "store_error", "abort", "leave", "clear", "verdict"} => Busy
         /\ wpc[w] = "raise" => Ended
         /\ status = "Wait" => Gathering
         /\ status = "Quit" => Joining
BY DEF SyncInv, SyncTypeOK, Starting, Resting, Gathering, Busy, Ended, Joining, Through

\* So do those of the master.
LEMMA MasterPhase ==
  ASSUME SyncInv
  PROVE  /\ mpc = "start" => Starting
         /\ mpc = "notify" => Resting
         /\ mpc = "wait" => Gathering \/ Busy \/ Ended
         /\ mpc = "wait" /\ raised => Ended
         /\ mpc = "read" => Ended
         /\ mpc \in {"join", "joining", "returned"} => Joining
         /\ mpc # "unreachable"
BY DEF SyncInv, SyncTypeOK, Starting, Resting, Gathering, Busy, Ended, Joining

-----------------------------------------------------------------------------
(* worker_wait *)

\* A worker that sees Wait is one of those that gather.
LEMMA SeeWaitSteps ==
  ASSUME SyncInv, NEW w \in Workers, SeeWait(w)
  PROVE  SyncInv'
<1> USE DEF SyncInv, SyncTypeOK, WorkerLabels
<1>1. /\ wpc[w] = "spin" /\ wpc' = [wpc EXCEPT ![w] = "ready"] /\ status = "Wait"
      /\ UNCHANGED <<nbready, status, errmsg, raised, task, outcome, mpc, round, timed, result>>
  BY DEF SeeWait, WGoto, masterVars
<1>2. Gathering
  BY <1>1, WorkerPhase
<1>3. CountedIn' = CountedIn
  BY <1>1 DEF CountedIn
<1>. QED  BY <1>1, <1>2, <1>3 DEF Gathering

\* A worker that sees Quit has nothing left to do.
LEMMA SeeQuitSteps ==
  ASSUME SyncInv, NEW w \in Workers, SeeQuit(w)
  PROVE  SyncInv'
<1> USE DEF SyncInv, SyncTypeOK, WorkerLabels
<1>1. /\ wpc[w] = "spin" /\ wpc' = [wpc EXCEPT ![w] = "gone"] /\ status = "Quit"
      /\ UNCHANGED <<nbready, status, errmsg, raised, task, outcome, mpc, round, timed, result>>
  BY DEF SeeQuit, WGoto, masterVars
<1>2. Joining
  BY <1>1, WorkerPhase
<1>. QED  BY <1>1, <1>2 DEF Joining

\* nbready + 1 workers have counted themselves in; the last one is alone to go on.
LEMMA CountInSteps ==
  ASSUME SyncInv, NEW w \in Workers, CountIn(w)
  PROVE  SyncInv'
<1> USE DEF SyncInv, SyncTypeOK, WorkerLabels
<1>1. /\ wpc[w] = "ready" /\ nbready' = nbready + 1
      /\ wpc' = [wpc EXCEPT ![w] = IF nbready + 1 = nbworkers THEN "reset" ELSE "await"]
      /\ UNCHANGED <<status, errmsg, raised, task, outcome, mpc, round, timed, result>>
  BY DEF CountIn, WGoto, masterVars
<1>2. Gathering
  BY <1>1, WorkerPhase
<1>3. \A v \in Workers : wpc[v] \in {"spin", "ready", "await"}
  BY <1>1, <1>2 DEF Gathering
<1>4. nbready = Cardinality(CountedIn) /\ w \notin CountedIn /\ CountedIn \in SUBSET Workers
  BY <1>1, <1>2, <1>3 DEF Gathering, CountedIn
<1>5. CountedIn' = CountedIn \cup {w} /\ CountedIn' \in SUBSET Workers
  BY <1>1 DEF CountedIn
<1>6. nbready' = Cardinality(CountedIn') /\ nbready' \in 0..nbworkers
  BY <1>1, <1>4, <1>5, SubsetAdd, SubsetFinite
<1>7. nbready + 1 = nbworkers => \A v \in Workers \ {w} : wpc[v] = "await"
  <2>1. nbready + 1 = nbworkers => CountedIn' = Workers
    BY <1>1, <1>5, <1>6, SubsetFinite
  <2>. QED  BY <2>1, <1>3, <1>5 DEF CountedIn
<1>8. Gathering'
  BY <1>1, <1>2, <1>3, <1>6, <1>7 DEF Gathering
<1>. QED  BY <1>1, <1>6, <1>8

\* The last one in resets nbready while the others await Run.
LEMMA ResetReadySteps ==
  ASSUME SyncInv, NEW w \in Workers, ResetReady(w)
  PROVE  SyncInv'
<1> USE DEF SyncInv, SyncTypeOK, WorkerLabels
<1>1. /\ wpc[w] = "reset" /\ wpc' = [wpc EXCEPT ![w] = "go"] /\ nbready' = 0
      /\ UNCHANGED <<status, errmsg, raised, task, outcome, mpc, round, timed, result>>
  BY DEF ResetReady, WGoto, masterVars
<1>2. Gathering
  BY <1>1, WorkerPhase
<1>3. 0 \in 0..nbworkers
  BY SubsetFinite
<1>. QED  BY <1>1, <1>2, <1>3 DEF Gathering

\* The store of Run starts the tasks, with nobody counted out yet.
LEMMA GoSteps ==
  ASSUME SyncInv, NEW w \in Workers, Go(w)
  PROVE  SyncInv'
<1> USE DEF SyncInv, SyncTypeOK, WorkerLabels
<1>1. /\ wpc[w] = "go" /\ wpc' = [wpc EXCEPT ![w] = "work"] /\ status' = "Run"
      /\ UNCHANGED <<nbready, errmsg, raised, task, outcome, mpc, round, timed, result>>
  BY DEF Go, WGoto, masterVars
<1>2. Gathering /\ nbready = 0 /\ \A v \in Workers \ {w} : wpc[v] = "await"
  BY <1>1, WorkerPhase DEF Gathering
<1>3. \A v \in Workers : wpc'[v] = IF v = w THEN "work" ELSE "await"
  BY <1>1, <1>2
<1>4. \A v \in Workers : task'[v] = round' /\ outcome'[v] = "ok"
  BY <1>1, <1>2 DEF Gathering
<1>5. CountedOut' = {}
  BY <1>1, <1>3, <1>4 DEF CountedOut
<1>6. nbready' = Cardinality(CountedOut')
  BY <1>1, <1>2, <1>5, FS_EmptySet
<1>7. \A v \in Workers : ~Recorded(v)'
  BY <1>1, <1>3, <1>4 DEF Recorded
<1>8. Busy'
  BY <1>1, <1>2, <1>3, <1>4, <1>6, <1>7 DEF Busy, Gathering
<1>. QED  BY <1>1, <1>8, <1>3 DEF Statuses

\* A worker that sees Run or Abort joins those that are busy.
LEMMA SeeRunSteps ==
  ASSUME SyncInv, NEW w \in Workers, SeeRun(w)
  PROVE  SyncInv'
<1> USE DEF SyncInv, SyncTypeOK, WorkerLabels
<1>1. /\ wpc[w] = "await" /\ wpc' = [wpc EXCEPT ![w] = "work"] /\ status \in {"Run", "Abort"}
      /\ UNCHANGED <<nbready, status, errmsg, raised, task, outcome, mpc, round, timed, result>>
  BY DEF SeeRun, WGoto, masterVars
<1>2. Busy
  BY <1>1, WorkerPhase
<1>3. CountedOut' = CountedOut
  BY <1>1 DEF CountedOut
<1>4. \A v \in Workers : (Recorded(v)' <=> Recorded(v)) /\ (Through(v) => Through(v)')
  BY <1>1 DEF Recorded, Through
<1>5. task[w] = round
  BY <1>1, <1>2 DEF Busy, Through
<1>6. \A v \in Workers : wpc[v] \notin {"clear", "verdict"}
  BY <1>1, <1>2 DEF Busy, Through
<1>7. Busy'
  BY <1>1, <1>2, <1>3, <1>4, <1>5, <1>6 DEF Busy
<1>. QED  BY <1>1, <1>7

-----------------------------------------------------------------------------
(* The task, and worker_notify *)

\* While a worker is at its task or records an error, nobody is last one out.
LEMMA NobodyLast ==
  ASSUME SyncInv, NEW w \in Workers,
         wpc[w] \in {"work", "store_error", "abort", "leave"}
  PROVE  /\ Busy /\ task[w] = round /\ w \notin CountedOut
         /\ \A v \in Workers : wpc[v] \notin {"clear", "verdict"}
         /\ nbready = Cardinality(CountedOut) /\ CountedOut \in SUBSET Workers
<1> USE DEF SyncInv, SyncTypeOK
<1>1. Busy
  BY WorkerPhase
<1>2. task[w] = round
  BY <1>1 DEF Busy, Through
<1>3. \A v \in Workers : wpc[v] \notin {"clear", "verdict"}
  BY <1>1, <1>2 DEF Busy, Through
<1>. QED  BY <1>1, <1>2, <1>3 DEF Busy, CountedOut

\* A task ends; its outcome is not recorded yet.
LEMMA FinishSteps ==
  ASSUME SyncInv, NEW w \in Workers, NEW out \in Outcomes, Finish(w, out)
  PROVE  SyncInv'
<1> USE DEF SyncInv, SyncTypeOK, WorkerLabels
<1>1. /\ wpc[w] = "work" /\ outcome' = [outcome EXCEPT ![w] = out]
      /\ wpc' = [wpc EXCEPT ![w] = IF out = "ok" THEN "leave" ELSE "store_error"]
      /\ UNCHANGED <<nbready, status, errmsg, raised, task, mpc, round, timed, result>>
  BY DEF Finish, WGoto, masterVars
<1>2. /\ Busy /\ task[w] = round /\ nbready = Cardinality(CountedOut)
      /\ \A v \in Workers : wpc[v] \notin {"clear", "verdict"}
  BY <1>1, NobodyLast
<1>3. CountedOut' = CountedOut
  BY <1>1 DEF CountedOut
<1>4. \A v \in Workers \ {w} : (Recorded(v)' <=> Recorded(v)) /\ (Through(v) => Through(v)')
  BY <1>1 DEF Recorded, Through
<1>5. ~Recorded(w) /\ (Recorded(w)' => outcome'[w] = "ok")
  BY <1>1, <1>2 DEF Recorded
<1>6. ~Through(w)
  BY <1>2 DEF Through
<1>7. Busy'
  BY <1>1, <1>2, <1>3, <1>4, <1>5, <1>6 DEF Busy, Outcomes
<1>. QED  BY <1>1, <1>7

\* An error message is one of those of the round.
LEMMA StoreErrorSteps ==
  ASSUME SyncInv, NEW w \in Workers, StoreError(w)
  PROVE  SyncInv'
<1> USE DEF SyncInv, SyncTypeOK, WorkerLabels
<1>1. /\ wpc[w] = "store_error" /\ wpc' = [wpc EXCEPT ![w] = "abort"] /\ errmsg' = outcome[w]
      /\ UNCHANGED <<nbready, status, raised, task, outcome, mpc, round, timed, result>>
  BY DEF StoreError, WGoto, masterVars
<1>2. /\ Busy /\ task[w] = round /\ nbready = Cardinality(CountedOut)
      /\ \A v \in Workers : wpc[v] \notin {"clear", "verdict"}
  BY <1>1, NobodyLast
<1>3. CountedOut' = CountedOut
  BY <1>1 DEF CountedOut
<1>4. \A v \in Workers \ {w} : (Recorded(v)' <=> Recorded(v)) /\ (Through(v) => Through(v)')
  BY <1>1 DEF Recorded, Through
<1>5. Recorded(w)' /\ outcome'[w] # "ok" /\ outcome'[w] = errmsg' /\ errmsg' \in Messages
  BY <1>1, <1>2 DEF Recorded, Busy, Outcomes, Messages
<1>6. ~Through(w)
  BY <1>2 DEF Through
<1>7. Busy'
  BY <1>1, <1>2, <1>3, <1>4, <1>5, <1>6 DEF Busy
<1>. QED  BY <1>1, <1>5, <1>7

\* Abort is recorded with its message, before the worker counts itself out.
LEMMA AbortSteps ==
  ASSUME SyncInv, NEW w \in Workers, Abort(w)
  PROVE  SyncInv'
<1> USE DEF SyncInv, SyncTypeOK, WorkerLabels
<1>1. /\ wpc[w] = "abort" /\ wpc' = [wpc EXCEPT ![w] = "leave"] /\ status' = "Abort"
      /\ UNCHANGED <<nbready, errmsg, raised, task, outcome, mpc, round, timed, result>>
  BY DEF Abort, WGoto, masterVars
<1>2. /\ Busy /\ task[w] = round /\ nbready = Cardinality(CountedOut)
      /\ \A v \in Workers : wpc[v] \notin {"clear", "verdict"}
  BY <1>1, NobodyLast
<1>3. CountedOut' = CountedOut
  BY <1>1 DEF CountedOut
<1>4. \A v \in Workers : (Recorded(v)' <=> Recorded(v)) /\ (Through(v) => Through(v)')
  BY <1>1 DEF Recorded, Through
<1>5. \E v \in Workers : Recorded(v)' /\ outcome'[v] # "ok" /\ outcome'[v] = errmsg'
  BY <1>1, <1>2, <1>4 DEF Busy
<1>6. ~Through(w)
  BY <1>2 DEF Through
<1>7. Busy'
  BY <1>1, <1>2, <1>3, <1>4, <1>5, <1>6 DEF Busy
<1>. QED  BY <1>1, <1>7 DEF Statuses

\* CountOut adds the worker to those that counted themselves out.
LEMMA CountOutSteps ==
  ASSUME SyncInv, NEW w \in Workers, CountOut(w)
  PROVE  SyncInv'
<1> USE DEF SyncInv, SyncTypeOK, WorkerLabels
<1>1. /\ wpc[w] = "leave" /\ nbready' = nbready + 1
      /\ UNCHANGED <<status, errmsg, raised, outcome, mpc, round, timed, result>>
      /\ IF nbready + 1 = nbworkers
         THEN wpc' = [wpc EXCEPT ![w] = "clear"] /\ task' = task
         ELSE /\ wpc' = [wpc EXCEPT ![w] = IF outcome[w] = "exception" THEN "gone" ELSE "spin"]
              /\ task' = [task EXCEPT ![w] = @ + 1]
  BY DEF CountOut, NextTask, WGoto, masterVars
<1>2. /\ Busy /\ task[w] = round /\ nbready = Cardinality(CountedOut)
      /\ \A v \in Workers : wpc[v] \notin {"clear", "verdict"}
      /\ w \notin CountedOut /\ CountedOut \in SUBSET Workers
  BY <1>1, NobodyLast
<1>3. CountedOut' = CountedOut \cup {w} /\ CountedOut' \in SUBSET Workers
  BY <1>1, <1>2 DEF CountedOut
<1>4. nbready' = Cardinality(CountedOut') /\ nbready' \in 0..nbworkers
  BY <1>1, <1>2, <1>3, SubsetAdd, SubsetFinite
<1>5. SyncTypeOK'
  BY <1>1, <1>4
<1>6. \A v \in Workers \ {w} : (Recorded(v)' <=> Recorded(v)) /\ (Through(v)' <=> Through(v))
  BY <1>1 DEF Recorded, Through
<1>7. Recorded(w) /\ Recorded(w)' /\ ~Through(w)
  BY <1>1, <1>2 DEF Recorded, Through
<1>8. nbready + 1 = nbworkers => \A v \in Workers \ {w} : Through(v)
  <2>1. nbready + 1 = nbworkers => CountedOut' = Workers
    BY <1>1, <1>3, <1>4, SubsetFinite
  <2>. QED  BY <2>1, <1>2, <1>3 DEF CountedOut, Busy
<1>9. nbready + 1 # nbworkers => Through(w)'
  BY <1>1, <1>2 DEF Through
<1>10. Busy'
  BY <1>1, <1>2, <1>4, <1>6, <1>7, <1>8, <1>9 DEF Busy
<1>. QED  BY <1>5, <1>10

\* The last one out resets nbready; the others are through.
LEMMA ClearSteps ==
  ASSUME SyncInv, NEW w \in Workers, Clear(w)
  PROVE  SyncInv'
<1> USE DEF SyncInv, SyncTypeOK, WorkerLabels
<1>1. /\ wpc[w] = "clear" /\ wpc' = [wpc EXCEPT ![w] = "verdict"] /\ nbready' = 0
      /\ UNCHANGED <<status, errmsg, raised, task, outcome, mpc, round, timed, result>>
  BY DEF Clear, WGoto, masterVars
<1>2. Busy
  BY <1>1, WorkerPhase
<1>3. \A v \in Workers : (Recorded(v)' <=> Recorded(v)) /\ (Through(v) => Through(v)')
  BY <1>1 DEF Recorded, Through
<1>4. Busy'
  BY <1>1, <1>2, <1>3 DEF Busy
<1>. QED  BY <1>1, <1>4, SubsetFinite

\* The verdict is Fail exactly if an error was recorded.
LEMMA VerdictSteps ==
  ASSUME SyncInv, NEW w \in Workers, Verdict(w)
  PROVE  SyncInv'
<1> USE DEF SyncInv, SyncTypeOK, WorkerLabels
<1>1. /\ wpc[w] = "verdict" /\ wpc' = [wpc EXCEPT ![w] = "raise"]
      /\ status' = IF status = "Abort" THEN "Fail" ELSE "Done"
      /\ UNCHANGED <<nbready, errmsg, raised, task, outcome, mpc, round, timed, result>>
  BY DEF Verdict, WGoto, masterVars
<1>2. Busy
  BY <1>1, WorkerPhase
<1>3. task[w] = round /\ nbready = 0 /\ \A v \in Workers \ {w} : Through(v)
  BY <1>1, <1>2 DEF Busy, Through
<1>4. \A v \in Workers : Recorded(v) /\ wpc[v] # "abort"
  BY <1>1, <1>3 DEF Recorded, Through
<1>5. status' = "Done" => \A v \in Workers : outcome[v] = "ok"
  BY <1>1, <1>2, <1>4 DEF Busy
<1>6. status' = "Fail" => \E v \in Workers : outcome[v] # "ok" /\ outcome[v] = errmsg
  BY <1>1, <1>2 DEF Busy
<1>7. \A v \in Workers \ {w} : Through(v)' /\ wpc'[v] # "raise"
  BY <1>1, <1>3 DEF Through
<1>8. Ended'
  BY <1>1, <1>2, <1>3, <1>5, <1>6, <1>7 DEF Ended, Busy
<1>. QED  BY <1>1, <1>8 DEF Statuses

\* The latch is raised when every worker is through.
LEMMA RaiseSteps ==
  ASSUME SyncInv, NEW w \in Workers, Raise(w)
  PROVE  SyncInv'
<1> USE DEF SyncInv, SyncTypeOK, WorkerLabels
<1>1. /\ wpc[w] = "raise" /\ raised' = TRUE /\ task' = [task EXCEPT ![w] = @ + 1]
      /\ wpc' = [wpc EXCEPT ![w] = IF outcome[w] = "exception" THEN "gone" ELSE "spin"]
      /\ UNCHANGED <<nbready, status, errmsg, outcome, mpc, round, timed, result>>
  BY DEF Raise, NextTask, WGoto, masterVars
<1>2. Ended /\ task[w] = round /\ mpc # "read" /\ \A v \in Workers \ {w} : Through(v)
  BY <1>1, WorkerPhase DEF Ended, Through
<1>3. \A v \in Workers : Through(v)' /\ wpc'[v] # "raise"
  BY <1>1, <1>2 DEF Through
<1>4. Ended'
  BY <1>1, <1>2, <1>3 DEF Ended
<1>. QED  BY <1>1, <1>4

-----------------------------------------------------------------------------
(* The master *)

\* Workers are born before the first round.
LEMMA StartSteps ==
  ASSUME SyncInv, (\E w \in Workers : StartWorker(w)) \/ StartFails \/ Started
  PROVE  SyncInv'
<1> USE DEF SyncInv, SyncTypeOK, WorkerLabels, MasterLabels
<1>1. ASSUME NEW w \in Workers, StartWorker(w)  PROVE SyncInv'
  <2>1. /\ mpc = "start" /\ wpc' = [wpc EXCEPT ![w] = "spin"]
        /\ UNCHANGED <<nbready, status, errmsg, raised, task, outcome, mpc, round, timed, result>>
    BY <1>1 DEF StartWorker, WGoto, masterVars
  <2>2. Starting
    BY <2>1, MasterPhase
  <2>. QED  BY <2>1, <2>2 DEF Starting
<1>2. CASE StartFails
  <2>1. /\ mpc = "start" /\ mpc' = "thrown"
        /\ UNCHANGED <<nbready, status, errmsg, raised, wpc, task, outcome, round, timed, result>>
    BY <1>2 DEF StartFails, MGoto, workerVars
  <2>2. Starting
    BY <2>1, MasterPhase
  <2>. QED  BY <2>1, <2>2 DEF Starting
<1>3. CASE Started
  <2>1. /\ mpc = "start" /\ mpc' = "notify" /\ \A w \in Workers : wpc[w] # "unborn"
        /\ UNCHANGED <<nbready, status, errmsg, raised, wpc, task, outcome, round, timed, result>>
    BY <1>3 DEF Started, MGoto, workerVars
  <2>2. Starting /\ 1 <= Rounds
    BY <2>1, MasterPhase
  <2>. QED  BY <2>1, <2>2 DEF Starting, Resting
<1>. QED  BY <1>1, <1>2, <1>3

\* The master starts a round with every worker at it.
LEMMA NotifySteps ==
  ASSUME SyncInv, Notify
  PROVE  SyncInv'
<1> USE DEF SyncInv, SyncTypeOK, WorkerLabels, MasterLabels
<1>1. /\ mpc = "notify" /\ mpc' = "wait" /\ status' = "Wait"
      /\ UNCHANGED <<nbready, errmsg, raised, wpc, task, outcome, round, timed, result>>
  BY DEF Notify, MGoto, workerVars
<1>2. Resting
  BY <1>1, MasterPhase
<1>3. CountedIn' = {}
  BY <1>1, <1>2 DEF Resting, CountedIn
<1>4. nbready' = Cardinality(CountedIn')
  BY <1>1, <1>2, <1>3, FS_EmptySet DEF Resting
<1>5. Gathering'
  BY <1>1, <1>2, <1>4 DEF Resting, Gathering
<1>. QED  BY <1>1, <1>5 DEF Statuses

\* A master that does not wait any longer changes nothing for the workers.
LEMMA OverrunSteps ==
  ASSUME SyncInv, Overrun
  PROVE  SyncInv'
<1> USE DEF SyncInv, SyncTypeOK, WorkerLabels, MasterLabels
<1>1. /\ mpc = "wait" /\ mpc' = "thrown" /\ ~raised
      /\ UNCHANGED <<nbready, status, errmsg, raised, wpc, task, outcome, round, timed, result>>
  BY DEF Overrun, MGoto, workerVars
<1>2. CASE Gathering
  <2>1. CountedIn' = CountedIn
    BY <1>1 DEF CountedIn
  <2>. QED  BY <1>1, <1>2, <2>1 DEF Gathering
<1>3. CASE Busy
  <2>1. CountedOut' = CountedOut
    BY <1>1 DEF CountedOut
  <2>2. \A v \in Workers : (Recorded(v)' <=> Recorded(v)) /\ (Through(v)' <=> Through(v))
    BY <1>1 DEF Recorded, Through
  <2>. QED  BY <1>1, <1>3, <2>1, <2>2 DEF Busy
<1>4. CASE Ended
  <2>1. \A v \in Workers : Through(v)' <=> Through(v)
    BY <1>1 DEF Through
  <2>. QED  BY <1>1, <1>4, <2>1 DEF Ended
<1>. QED  BY <1>1, <1>2, <1>3, <1>4, MasterPhase

\* The master wakes after the round has ended, and lowers the latch.
LEMMA WakeSteps ==
  ASSUME SyncInv, Wake
  PROVE  SyncInv'
<1> USE DEF SyncInv, SyncTypeOK, WorkerLabels, MasterLabels
<1>1. /\ mpc = "wait" /\ mpc' = "read" /\ raised /\ raised' = FALSE
      /\ UNCHANGED <<nbready, status, errmsg, wpc, task, outcome, round, timed, result>>
  BY DEF Wake, MGoto, workerVars
<1>2. Ended
  BY <1>1, MasterPhase
<1>3. \A v \in Workers : Through(v)' <=> Through(v)
  BY <1>1 DEF Through
<1>4. Ended'
  BY <1>1, <1>2, <1>3 DEF Ended
<1>. QED  BY <1>1, <1>4

\* When the master reads the status, every worker is through.
LEMMA ReadStatusSteps ==
  ASSUME SyncInv, ReadStatus
  PROVE  SyncInv'
<1> USE DEF SyncInv, SyncTypeOK, WorkerLabels, MasterLabels
<1>1. /\ mpc = "read"
      /\ mpc' = CASE status = "Done" -> IF round = Rounds THEN "join" ELSE "notify"
                   [] status = "Fail" -> "join"
                   [] OTHER -> "unreachable"
      /\ round' = IF status = "Done" THEN round + 1 ELSE round
      /\ result' = IF status = "Fail" THEN errmsg ELSE result
      /\ UNCHANGED <<nbready, status, errmsg, raised, wpc, task, outcome, timed>>
  BY DEF ReadStatus, MGoto, workerVars
<1>2. Ended /\ \A w \in Workers : Through(w)
  BY <1>1, MasterPhase DEF Ended
<1>3. CASE status = "Done"
  <2>1. \A w \in Workers : task[w] = round + 1 /\ wpc[w] = "spin" /\ outcome[w] = "ok"
    BY <1>2, <1>3 DEF Ended, Through
  <2>2. CASE round = Rounds
    <3>1. mpc' = "join" /\ round' = Rounds + 1 /\ result' = "none"
      BY <1>1, <1>2, <1>3, <2>2 DEF Ended
    <3>2. Joining'
      BY <1>1, <1>2, <1>3, <2>1, <2>2, <3>1 DEF Ended, Joining
    <3>. QED  BY <1>1, <3>1, <3>2
  <2>3. CASE round # Rounds
    <3>1. mpc' = "notify" /\ round' = round + 1 /\ result' = "none" /\ round + 1 <= Rounds
      BY <1>1, <1>2, <1>3, <2>3 DEF Ended
    <3>2. Resting'
      BY <1>1, <1>2, <1>3, <2>1, <3>1 DEF Ended, Resting
    <3>. QED  BY <1>1, <3>1, <3>2
  <2>. QED  BY <2>2, <2>3
<1>4. CASE status = "Fail"
  <2>1. mpc' = "join" /\ round' = round /\ result' = errmsg
    BY <1>1, <1>4
  <2>2. \E w \in Workers : outcome[w] # "ok" /\ outcome[w] = errmsg
    BY <1>2, <1>4 DEF Ended
  <2>3. errmsg # "none"
    BY <2>2 DEF Outcomes
  <2>4. \A w \in Workers : task[w] = round + 1 /\ wpc[w] \in {"spin", "gone"}
    BY <1>2 DEF Through
  <2>5. Joining'
    BY <1>1, <1>2, <1>4, <2>1, <2>2, <2>3, <2>4 DEF Ended, Joining
  <2>. QED  BY <1>1, <2>1, <2>5
<1>. QED  BY <1>2, <1>3, <1>4 DEF Ended

\* With its result the master quits and joins.
LEMMA JoinSteps ==
  ASSUME SyncInv, Join \/ Joined
  PROVE  SyncInv'
<1> USE DEF SyncInv, SyncTypeOK, WorkerLabels, MasterLabels
<1>1. /\ \/ mpc = "join" /\ mpc' = "joining" /\ status' = "Quit"
         \/ mpc = "joining" /\ mpc' = "returned" /\ status' = status
      /\ UNCHANGED <<nbready, errmsg, raised, wpc, task, outcome, round, timed, result>>
  BY DEF Join, Joined, MGoto, workerVars
<1>2. Joining
  BY <1>1, MasterPhase
<1>3. Joining'
  BY <1>1, <1>2 DEF Joining
<1>. QED  BY <1>1, <1>3 DEF Statuses

-----------------------------------------------------------------------------
\* The invariant holds at first, and every step preserves it.
LEMMA SyncInvInit == SyncInit => SyncInv
<1> SUFFICES ASSUME SyncInit  PROVE SyncInv
  OBVIOUS
<1>0. 0 \in 0..nbworkers
  BY SubsetFinite
<1>1. SyncTypeOK
  <2>1. raised \in BOOLEAN /\ timed \in BOOLEAN
    BY DEF SyncInit
  <2>2. /\ wpc \in [Workers -> WorkerLabels] /\ task \in [Workers -> Nat \ {0}]
        /\ outcome \in [Workers -> Outcomes]
    BY DEF SyncInit, WorkerLabels, Outcomes
  <2>3. /\ nbready \in 0..nbworkers /\ status \in Statuses /\ errmsg \in Messages
        /\ mpc \in MasterLabels /\ round \in Nat \ {0} /\ result \in Messages
    BY <1>0 DEF SyncInit, Statuses, Messages, MasterLabels
  <2>. QED  BY <2>1, <2>2, <2>3 DEF SyncTypeOK
<1>2. Starting
  BY DEF SyncInit, Starting
<1>. QED  BY <1>1, <1>2 DEF SyncInv

\* A step that changes nothing keeps the invariant.
LEMMA SyncInvStutter == SyncInv /\ UNCHANGED syncVars => SyncInv'
BY DEF SyncInv, SyncTypeOK, syncVars, workerVars, masterVars, Starting, Resting, Gathering,
       CountedIn, Busy, Through, CountedOut, Recorded, Ended, Joining

\* Every step of Sync keeps it.
LEMMA SyncInvNext == SyncInv /\ [SyncNext]_syncVars => SyncInv'
<1> SUFFICES ASSUME SyncInv, [SyncNext]_syncVars  PROVE SyncInv'
  OBVIOUS
<1>1. CASE MasterStep
  BY <1>1, StartSteps, NotifySteps, WakeSteps, OverrunSteps, ReadStatusSteps, JoinSteps
  DEF MasterStep
<1>2. ASSUME NEW w \in Workers, WaitStep(w)  PROVE SyncInv'
  BY <1>2, SeeWaitSteps, SeeQuitSteps, CountInSteps, ResetReadySteps, GoSteps, SeeRunSteps
  DEF WaitStep
<1>3. ASSUME NEW w \in Workers, NotifyStep(w)  PROVE SyncInv'
  BY <1>3, StoreErrorSteps, AbortSteps, CountOutSteps, ClearSteps, VerdictSteps, RaiseSteps
  DEF NotifyStep
<1>4. ASSUME NEW w \in Workers, NEW out \in Outcomes, Finish(w, out)  PROVE SyncInv'
  BY <1>4, FinishSteps
<1>5. CASE UNCHANGED syncVars
  BY <1>5, SyncInvStutter
<1>. QED  BY <1>1, <1>2, <1>3, <1>4, <1>5 DEF SyncNext

\* A round goes through its phases, whatever the tasks do and whenever the
\* master gives up: the counting and the handshake of class Sync are sound.
THEOREM SyncInvariance == SyncSpec => []SyncInv
<1>. QED  BY SyncInvInit, SyncInvNext, PTL DEF SyncSpec

\* The state of measure() keeps its types; nbready never exceeds the number of
\* workers.
THEOREM SyncTyped == SyncSpec => []SyncTypeOK
<1>1. SyncInv => SyncTypeOK
  BY DEF SyncInv
<1>. QED  BY <1>1, SyncInvariance, PTL

\* Tasks of one round run together and of two rounds never do, even when the
\* master has left the workers behind.
THEOREM RoundsAreTogether == SyncSpec => []TogetherInRound
<1>1. ASSUME SyncInv  PROVE TogetherInRound
  <2> SUFFICES ASSUME NEW w \in Workers, wpc[w] = "work"
               PROVE  /\ task[w] = round /\ mpc \in {"wait", "thrown"} /\ ~raised
                      /\ \A v \in Workers : task[v] = round + 1
                           \/ wpc[v] \notin {"unborn", "spin", "ready", "reset", "go"}
    BY DEF TogetherInRound
  <2>1. Busy /\ task[w] = round
    BY <1>1, NobodyLast
  <2>. QED  BY <2>1 DEF Busy, Through
<1>. QED  BY <1>1, SyncInvariance, PTL

\* measure() goes on, or returns without an error, only if every task of the
\* round returned none; an error it returns is that of a task.
THEOREM VerdictIsRight == SyncSpec => []VerdictRight
<1>1. ASSUME SyncInv  PROVE VerdictRight
  <2>1. mpc = "notify" \/ mpc \in {"join", "joining", "returned"} \/ result = "none"
    BY <1>1 DEF SyncInv, Starting, Resting, Gathering, Busy, Ended, Joining
  <2>2. CASE mpc = "notify"
    BY <1>1, <2>2, MasterPhase DEF Resting, VerdictRight
  <2>3. CASE mpc \in {"join", "joining", "returned"}
    BY <1>1, <2>3, MasterPhase DEF Joining, VerdictRight
  <2>4. CASE mpc \notin {"notify", "join", "joining", "returned"} /\ result = "none"
    BY <2>4 DEF VerdictRight
  <2>. QED  BY <2>1, <2>2, <2>3, <2>4
<1>. QED  BY <1>1, SyncInvariance, PTL

\* Neither of the two exceptions that grading.cpp calls unreachable is thrown.
THEOREM UnreachableIsNotReached == SyncSpec => []NothingUnreachable
<1>1. ASSUME SyncInv  PROVE NothingUnreachable
  <2>1. \A w \in Workers : wpc[w] = "work" => Busy /\ task[w] = round
    BY <1>1, NobodyLast
  <2>2. \A w \in Workers : wpc[w] = "work" => task[w] <= Rounds
    BY <2>1 DEF Busy
  <2>. QED  BY <1>1, <2>2, MasterPhase DEF NothingUnreachable
<1>. QED  BY <1>1, SyncInvariance, PTL
=============================================================================
