------------------------------- MODULE Runtime -------------------------------
(***************************************************************************)
(* The time measure() of grading.cpp takes: the Chrono of common.hpp that  *)
(* Sync starts when a round does and stops when its last worker is out.    *)
(*                                                                         *)
(* The master starts it after it has notified the workers, who may finish  *)
(* first; until then local is whatever memory held.                        *)
(***************************************************************************)
EXTENDS Sync, Sequences

CONSTANTS
  TickRange,  \* the values of a Tick, which wraps (2^64 in the code)
  MaxTime     \* bound: when the clock stops

VARIABLES
  now,        \* the clock of the system
  total, local,   \* the fields of runtime
  starting,   \* is the master about to call runtime.start()?
  times,      \* what master_wait has returned for each round
  took,       \* history: the time between start() and stop() of each round
  raced       \* history: has stop() ever come before the round's start()?

clockVars == <<now, total, local, starting, times, took, raced>>

RuntimeInit ==
  /\ SyncInit
  /\ now = 0 /\ total = 0 /\ local \in 0..MaxTime /\ starting = FALSE
  /\ times = <<>> /\ took = <<>> /\ raced = FALSE

Tick ==
  /\ now < MaxTime /\ now' = now + 1
  /\ UNCHANGED <<syncVars, total, local, starting, times, took, raced>>

\* master_notify: the store of status, then runtime.start().
NotifyFirst ==
  /\ Notify /\ starting' = TRUE
  /\ UNCHANGED <<now, total, local, times, took, raced>>

StartClock ==
  /\ starting /\ starting' = FALSE /\ local' = now
  /\ UNCHANGED <<syncVars, now, total, times, took, raced>>

delta == (now + TickRange - local) % TickRange

\* worker_notify: runtime.stop() by the last worker out, which then raises the
\* latch.
StopClock(w) ==
  /\ Raise(w)
  /\ total' = (total + delta) % TickRange
  /\ took' = Append(took, delta) /\ raced' = (raced \/ starting)
  /\ UNCHANGED <<now, local, starting, times>>

\* master_wait: after a round with no error the runtime is returned.
ReturnRuntime ==
  /\ ReadStatus
  /\ times' = IF status = "Done" THEN Append(times, total) ELSE times
  /\ UNCHANGED <<now, total, local, starting, took, raced>>

RuntimeNext ==
  \/ Tick \/ NotifyFirst \/ StartClock \/ ReturnRuntime
  \/ \E w \in Workers : StopClock(w)
  \/ /\ \/ ~starting /\ (Wake \/ Overrun)
        \/ StartFails \/ Started \/ Join \/ Joined
        \/ \E w \in Workers :
             \/ StartWorker(w) \/ WaitStep(w)
             \/ \E out \in Outcomes : Finish(w, out)
             \/ StoreError(w) \/ Abort(w) \/ CountOut(w) \/ Clear(w) \/ Verdict(w)
     /\ UNCHANGED clockVars

RuntimeSpec == RuntimeInit /\ [][RuntimeNext]_<<syncVars, clockVars>>

-----------------------------------------------------------------------------
\* What the master gets for a round is the "Runtime between 'master_notify' and
\* when the last worker finished" (grading.cpp:58) of that round, if every start
\* came before its stop.
RuntimeOfRound == ~raced => \A r \in DOMAIN times : times[r] = took[r]
=============================================================================
