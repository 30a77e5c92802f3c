-------------------------------- MODULE Sync --------------------------------
(***************************************************************************)
(* How the grader runs its threads: class Sync of grading.cpp with the     *)
(* Latch of common.hpp, and the master and the workers of measure().       *)
(*                                                                         *)
(* The master starts each round with status = Wait.  Workers count         *)
(* themselves in with nbready, the last one sets Run; they do the round's  *)
(* task, record an error if they have one, and count themselves out; the   *)
(* last one out sets Done or Fail and raises the latch, which wakes the    *)
(* master.  At the end, or after an error, the master sets Quit and joins  *)
(* the workers; if it waits too long it leaves them behind.                *)
(*                                                                         *)
(* Each action is one access to nbready, status, errmsg or the latch.  The *)
(* accesses are taken in one order: those that are relaxed are ordered by  *)
(* the counting (nbready) or by the latch.                                 *)
(***************************************************************************)
EXTENDS WorkerThreads

CONSTANT Rounds     \* initialization, nbrepeats measurements and the check

ASSUME RoundsAssumption == Rounds \in Nat \ {0}

VARIABLES
  nbready,      \* how many workers have reached the state
  status,       \* enum Status
  errmsg,       \* one of the error messages, or "none"
  raised,       \* the latch
  wpc,          \* where each worker is
  task,         \* the round each worker is at
  outcome,      \* how the last task each worker finished ended
  mpc,          \* where the master is
  round,        \* the round the master is at
  timed,        \* does the master wait for a bounded time only?
  result        \* the error measure() returns, or "none"

workerVars == <<wpc, task, outcome>>
masterVars == <<mpc, round, timed, result>>
syncVars == <<nbready, status, errmsg, raised, workerVars, masterVars>>

nbworkers == Cardinality(Workers)

Statuses == {"Wait", "Run", "Abort", "Done", "Fail", "Quit"}
Outcomes == {"ok", "error", "exception"}
Messages == {"none", "error", "exception"}

WorkerLabels ==
  {"unborn",
   "spin", "ready", "reset", "go", "await",               \* worker_wait
   "work",                                                \* the task
   "store_error", "abort", "leave",                       \* worker_notify
   "clear", "verdict", "raise",                           \* ... the last one
   "gone"}

MasterLabels ==
  {"start", "notify", "wait", "read", "join", "joining",
   "returned", "thrown", "unreachable"}

SyncInit ==
  /\ nbready = 0 /\ status = "Done" /\ errmsg = "none" /\ raised = FALSE
  /\ wpc = [w \in Workers |-> "unborn"]
  /\ task = [w \in Workers |-> 1]
  /\ outcome = [w \in Workers |-> "ok"]
  /\ mpc = "start" /\ round = 1 /\ timed \in BOOLEAN /\ result = "none"

WGoto(w, from, to) == wpc[w] = from /\ wpc' = [wpc EXCEPT ![w] = to]
MGoto(from, to) == mpc = from /\ mpc' = to

-----------------------------------------------------------------------------
(* worker_wait *)

\* Two of the loads of status that a worker spins on.
SeeWait(w) ==
  /\ status = "Wait" /\ WGoto(w, "spin", "ready")
  /\ UNCHANGED <<nbready, status, errmsg, raised, task, outcome, masterVars>>

SeeQuit(w) ==
  /\ status = "Quit" /\ WGoto(w, "spin", "gone")
  /\ UNCHANGED <<nbready, status, errmsg, raised, task, outcome, masterVars>>

CountIn(w) ==
  /\ WGoto(w, "ready", IF nbready + 1 = nbworkers THEN "reset" ELSE "await")
  /\ nbready' = nbready + 1
  /\ UNCHANGED <<status, errmsg, raised, task, outcome, masterVars>>

\* (Mutant: the last one in leaves the count as it is.)
ResetReadySkipped(w) ==
  /\ WGoto(w, "reset", "go")
  /\ UNCHANGED <<nbready, status, errmsg, raised, task, outcome, masterVars>>
ResetReady(w) ==
  /\ WGoto(w, "reset", "go")
  /\ nbready' = 0
  /\ UNCHANGED <<status, errmsg, raised, task, outcome, masterVars>>

Go(w) ==
  /\ WGoto(w, "go", "work")
  /\ status' = "Run"
  /\ UNCHANGED <<nbready, errmsg, raised, task, outcome, masterVars>>

\* (Mutants: a worker that is not the last one does not wait for it; it waits
\* for Run alone.)
SeeRunAtOnce(w) ==
  /\ WGoto(w, "await", "work")
  /\ UNCHANGED <<nbready, status, errmsg, raised, task, outcome, masterVars>>
SeeRunOnly(w) ==
  /\ status = "Run" /\ WGoto(w, "await", "work")
  /\ UNCHANGED <<nbready, status, errmsg, raised, task, outcome, masterVars>>
SeeRun(w) ==
  /\ status \in {"Run", "Abort"} /\ WGoto(w, "await", "work")
  /\ UNCHANGED <<nbready, status, errmsg, raised, task, outcome, masterVars>>

-----------------------------------------------------------------------------
(* The task, and worker_notify *)

\* Workload::init, run or check returns no error, or a message, or throws; to
\* be let in after the last round is an exception too.
Finish(w, out) ==
  /\ task[w] > Rounds => out = "exception"
  /\ WGoto(w, "work", IF out = "ok" THEN "leave" ELSE "store_error")
  /\ outcome' = [outcome EXCEPT ![w] = out]
  /\ UNCHANGED <<nbready, status, errmsg, raised, task, masterVars>>

StoreError(w) ==
  /\ WGoto(w, "store_error", "abort")
  /\ errmsg' = outcome[w]
  /\ UNCHANGED <<nbready, status, raised, task, outcome, masterVars>>

\* (Mutant: the status is left as it is.)
AbortSkipped(w) ==
  /\ WGoto(w, "abort", "leave")
  /\ UNCHANGED <<nbready, status, errmsg, raised, task, outcome, masterVars>>
Abort(w) ==
  /\ WGoto(w, "abort", "leave")
  /\ status' = "Abort"
  /\ UNCHANGED <<nbready, errmsg, raised, task, outcome, masterVars>>

\* The worker goes on to the next task; one that caught an exception returns.
NextTask(w, from) ==
  /\ WGoto(w, from, IF outcome[w] = "exception" THEN "gone" ELSE "spin")
  /\ task' = [task EXCEPT ![w] = @ + 1]

CountOut(w) ==
  /\ IF nbready + 1 = nbworkers
     THEN WGoto(w, "leave", "clear") /\ UNCHANGED task
     ELSE NextTask(w, "leave")
  /\ nbready' = nbready + 1
  /\ UNCHANGED <<status, errmsg, raised, outcome, masterVars>>

Clear(w) ==
  /\ WGoto(w, "clear", "verdict")
  /\ nbready' = 0
  /\ UNCHANGED <<status, errmsg, raised, task, outcome, masterVars>>

\* Nobody else writes status between the load and the store.
Verdict(w) ==
  /\ WGoto(w, "verdict", "raise")
  /\ status' = IF status = "Abort" THEN "Fail" ELSE "Done"
  /\ UNCHANGED <<nbready, errmsg, raised, task, outcome, masterVars>>

Raise(w) ==
  /\ NextTask(w, "raise")
  /\ raised' = TRUE
  /\ UNCHANGED <<nbready, status, errmsg, outcome, masterVars>>

-----------------------------------------------------------------------------
(* The master: measure, master_notify, master_wait, master_join *)

StartWorker(w) ==
  /\ mpc = "start" /\ WGoto(w, "unborn", "spin")
  /\ UNCHANGED <<nbready, status, errmsg, raised, task, outcome, masterVars>>

\* A thread cannot be started: those that were are left behind.
StartFails ==
  /\ MGoto("start", "thrown")
  /\ \E w \in Workers : wpc[w] = "unborn"
  /\ UNCHANGED <<nbready, status, errmsg, raised, workerVars, round, timed, result>>

Started ==
  /\ MGoto("start", "notify")
  /\ \A w \in Workers : wpc[w] # "unborn"
  /\ UNCHANGED <<nbready, status, errmsg, raised, workerVars, round, timed, result>>

Notify ==
  /\ MGoto("notify", "wait")
  /\ status' = "Wait"
  /\ UNCHANGED <<nbready, errmsg, raised, workerVars, round, timed, result>>

\* (Mutant of Wake: the latch stays raised.)
WakeStillRaised ==
  /\ raised /\ MGoto("wait", "read")
  /\ UNCHANGED <<nbready, status, errmsg, raised, workerVars, round, timed, result>>
Wake ==
  /\ raised /\ MGoto("wait", "read")
  /\ raised' = FALSE
  /\ UNCHANGED <<nbready, status, errmsg, workerVars, round, timed, result>>

\* The time is over and the latch is not raised: the workers are left behind.
Overrun ==
  /\ timed /\ ~raised /\ MGoto("wait", "thrown")
  /\ UNCHANGED <<nbready, status, errmsg, raised, workerVars, round, timed, result>>

\* The switch of master_wait; no status but Done and Fail is expected.
ReadStatus ==
  /\ MGoto("read", CASE status = "Done" -> IF round = Rounds THEN "join" ELSE "notify"
                     [] status = "Fail" -> "join"
                     [] OTHER -> "unreachable")
  /\ round' = IF status = "Done" THEN round + 1 ELSE round
  /\ result' = IF status = "Fail" THEN errmsg ELSE result
  /\ UNCHANGED <<nbready, status, errmsg, raised, workerVars, timed>>

Join ==
  /\ MGoto("join", "joining")
  /\ status' = "Quit"
  /\ UNCHANGED <<nbready, errmsg, raised, workerVars, round, timed, result>>

Joined ==
  /\ \A w \in Workers : wpc[w] = "gone"
  /\ MGoto("joining", "returned")
  /\ UNCHANGED <<nbready, status, errmsg, raised, workerVars, round, timed, result>>

-----------------------------------------------------------------------------
WaitStep(w) ==
  SeeWait(w) \/ SeeQuit(w) \/ CountIn(w) \/ ResetReady(w) \/ Go(w) \/ SeeRun(w)

NotifyStep(w) ==
  \/ StoreError(w) \/ Abort(w) \/ CountOut(w) \/ Clear(w) \/ Verdict(w) \/ Raise(w)

MasterStep ==
  \/ \E w \in Workers : StartWorker(w)
  \/ StartFails \/ Started
  \/ Notify \/ Wake \/ Overrun \/ ReadStatus \/ Join \/ Joined

SyncNext ==
  \/ MasterStep
  \/ \E w \in Workers :
       \/ WaitStep(w) \/ NotifyStep(w)
       \/ \E out \in Outcomes : Finish(w, out)

SyncSpec == SyncInit /\ [][SyncNext]_syncVars

-----------------------------------------------------------------------------
SyncTypeOK ==
  /\ nbready \in 0..nbworkers /\ status \in Statuses
  /\ errmsg \in Messages /\ raised \in BOOLEAN
  /\ wpc \in [Workers -> WorkerLabels]
  /\ task \in [Workers -> Nat \ {0}]
  /\ outcome \in [Workers -> Outcomes]
  /\ mpc \in MasterLabels /\ round \in Nat \ {0}
  /\ timed \in BOOLEAN /\ result \in Messages

\* Workers do their tasks of the same round, the round the master waits for,
\* all of them having arrived, and the master does not go on before they end:
\* the runs are concurrent and the time measured is theirs.
TogetherInRound ==
  \A w \in Workers : wpc[w] = "work" =>
    /\ task[w] = round
    /\ mpc \in {"wait", "thrown"} /\ ~raised
    /\ \A v \in Workers :
         task[v] = round + 1 \/ wpc[v] \notin {"unborn", "spin", "ready", "reset", "go"}

\* The verdict is right: the master goes on to the next round, or returns with
\* no error after the last one, only if no worker had an error in this one; and
\* the error it returns is one that a worker had in this round.
VerdictRight ==
  /\ mpc \in {"notify", "join", "joining", "returned"} /\ result = "none" =>
       \A w \in Workers : task[w] = round /\ outcome[w] = "ok"
  /\ mpc = "join" /\ result = "none" => round = Rounds + 1
  /\ result # "none" => \E w \in Workers : task[w] = round + 1 /\ outcome[w] = result

\* The two exceptions the code calls unreachable are: the master never wakes to
\* an unexpected status, and no worker is let in after the last round.
NothingUnreachable ==
  /\ mpc # "unreachable"
  /\ \A w \in Workers : wpc[w] = "work" => task[w] <= Rounds

-----------------------------------------------------------------------------
(* The inductive invariant of the three: a round goes through these phases. *)

\* The master starts the workers.
Starting ==
  /\ mpc \in {"start", "thrown"} /\ status = "Done" /\ round = 1
  /\ nbready = 0 /\ ~raised /\ result = "none"
  /\ \A w \in Workers : task[w] = 1 /\ wpc[w] \in {"unborn", "spin"} /\ outcome[w] = "ok"

\* The master is about to start a round.
Resting ==
  /\ mpc = "notify" /\ status = "Done" /\ round <= Rounds
  /\ nbready = 0 /\ ~raised /\ result = "none"
  /\ \A w \in Workers : task[w] = round /\ wpc[w] = "spin" /\ outcome[w] = "ok"

\* The workers count themselves in.
CountedIn == {w \in Workers : wpc[w] \in {"await", "reset"}}
Gathering ==
  /\ mpc \in {"wait", "thrown"} /\ status = "Wait" /\ round <= Rounds
  /\ ~raised /\ result = "none"
  /\ \A w \in Workers :
       /\ task[w] = round /\ outcome[w] = "ok"
       /\ wpc[w] \in {"spin", "ready", "reset", "go", "await"}
       /\ wpc[w] \in {"reset", "go"} => \A v \in Workers \ {w} : wpc[v] = "await"
       /\ wpc[w] = "go" => nbready = 0
  /\ nbready = Cardinality(CountedIn) \/ \E w \in Workers : wpc[w] = "go"

\* The workers do their tasks and count themselves out.
Through(w) ==
  task[w] = round + 1 /\ wpc[w] = IF outcome[w] = "exception" THEN "gone" ELSE "spin"
CountedOut == {w \in Workers : wpc[w] = "clear" \/ task[w] = round + 1}
Recorded(w) == wpc[w] \in {"abort", "leave", "clear", "verdict"} \/ task[w] = round + 1
Busy ==
  /\ mpc \in {"wait", "thrown"} /\ status \in {"Run", "Abort"} /\ round <= Rounds
  /\ ~raised /\ result = "none"
  /\ \A w \in Workers :
       /\ \/ Through(w)
          \/ /\ task[w] = round
             /\ wpc[w] \in {"await", "work", "store_error", "abort", "leave", "clear", "verdict"}
       /\ wpc[w] \in {"store_error", "abort"} => outcome[w] # "ok"
       /\ wpc[w] \in {"clear", "verdict"} => \A v \in Workers \ {w} : Through(v)
       /\ wpc[w] = "verdict" => nbready = 0
       /\ Recorded(w) /\ wpc[w] # "abort" /\ outcome[w] # "ok" => status = "Abort"
       /\ status = "Abort" \/ wpc[w] = "abort" =>
            \E v \in Workers : Recorded(v) /\ outcome[v] # "ok" /\ outcome[v] = errmsg
  /\ nbready = Cardinality(CountedOut) \/ \E w \in Workers : wpc[w] = "verdict"

\* The last one out raises the latch, and the master wakes.
Ended ==
  /\ mpc \in {"wait", "thrown", "read"} /\ status \in {"Done", "Fail"} /\ round <= Rounds
  /\ nbready = 0 /\ result = "none"
  /\ mpc = "read" => ~raised
  /\ \A w \in Workers :
       /\ Through(w) \/ (task[w] = round /\ wpc[w] = "raise")
       /\ wpc[w] = "raise" => mpc # "read" /\ ~raised /\ \A v \in Workers \ {w} : Through(v)
       /\ status = "Done" => outcome[w] = "ok"
  /\ status = "Fail" => \E v \in Workers : outcome[v] # "ok" /\ outcome[v] = errmsg

\* The master has its result and joins the workers.
Joining ==
  /\ mpc \in {"join", "joining", "returned"} /\ nbready = 0 /\ ~raised
  /\ status = IF mpc = "join" THEN (IF result = "none" THEN "Done" ELSE "Fail") ELSE "Quit"
  /\ \A w \in Workers : wpc[w] \in {"spin", "gone"}
  /\ IF result = "none"
     THEN round = Rounds + 1 /\ \A w \in Workers : task[w] = round /\ outcome[w] = "ok"
     ELSE /\ \A w \in Workers : task[w] = round + 1
          /\ \E w \in Workers : outcome[w] = result

SyncInv ==
  /\ SyncTypeOK
  /\ Starting \/ Resting \/ Gathering \/ Busy \/ Ended \/ Joining
=============================================================================
