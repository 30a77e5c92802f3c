------------------------------- MODULE Grader -------------------------------
(***************************************************************************)
(* One iteration of the loop of main() in grading.cpp: load a library,     *)
(* create the shared memory in a bounded time, measure (Sync), destroy the *)
(* memory in a bounded time and unload the library; with the last task of  *)
(* the workers, WorkloadBank::check of workload.hpp, step by step over the *)
(* Barrier it uses.                                                        *)
(*                                                                         *)
(* The library is one of three kinds: one whose transactions are atomic    *)
(* and isolated, one that may lose an update, and one whose tm_begin may   *)
(* return invalid_tx, which throws.  A transaction of check is one step.   *)
(***************************************************************************)
EXTENDS Sync, Barrier

CONSTANTS
  First,      \* the worker with uid 0
  NbTx,       \* nbtxperwrk of check (100 in the code)
  SizeRange   \* the values of a size_t, which wraps (2^64 in the code)

ASSUME GraderAssumption ==
  /\ First \in Workers /\ NbTx \in Nat \ {0}
  /\ SizeRange \in Nat /\ SizeRange > NbTx * Cardinality(Workers)

VARIABLES
  cpc,        \* where each worker is in check
  left,       \* how many iterations each worker has left in check
  last,       \* local: the counter as each worker last read it
  counter,    \* the first word of the shared memory
  lib,        \* the kind of the library
  lost,       \* history: has the library lost an update of the counter?
  main,       \* where main() is
  runner,     \* the thread of bounded_run
  loaded,     \* is the library loaded?
  overran     \* history: did the creation of the memory take too long?

checkVars == <<cpc, left, last, counter, lost>>
mainVars == <<main, runner, loaded, overran>>
graderVars == <<syncVars, barrierVars, checkVars, lib, mainVars>>

init_counter == NbTx * nbworkers

CheckLabels ==
  {"sync1", "init", "verify", "sync2", "read", "decrement", "sync3", "final",
   "bad_sync2", "bad_sync3", "ok", "error"}
MainLabels ==
  {"load", "create", "creating", "created", "measure", "destroy", "destroying",
   "destroyed", "unload", "unloaded", "exit", "quick_exit", "terminated"}

GraderInit ==
  /\ SyncInit /\ BarrierInit
  /\ cpc = [w \in Workers |-> "sync1"]
  /\ left = [w \in Workers |-> NbTx]
  /\ last = [w \in Workers |-> 0]
  /\ counter = 1 /\ lost = FALSE
  /\ lib \in {"correct", "lossy", "throwing"}
  /\ main = "load" /\ runner = "none" /\ loaded = FALSE /\ overran = FALSE

\* The process has not exited.
Alive == main \notin {"exit", "quick_exit", "terminated"}

-----------------------------------------------------------------------------
(* WorkloadBank::check *)

Checking(w) == wpc[w] = "work" /\ task[w] = Rounds /\ bpc[w] = "out"
CGoto(w, from, to) ==
  Checking(w) /\ cpc[w] = from /\ cpc' = [cpc EXCEPT ![w] = to]

\* A call of barrier.sync(); the next step waits for its return.
CallSync(w, from, to) ==
  /\ CGoto(w, from, to)
  /\ EnterBarrier(w)
  /\ UNCHANGED <<syncVars, left, last, counter, lost, lib, mainVars>>

InBarrier(w) ==
  /\ InSync(w)
  /\ UNCHANGED <<syncVars, checkVars, lib, mainVars>>

\* The thread with uid 0 initializes the counter; the others go on.
Sync1(w) == CallSync(w, "sync1", IF w = First THEN "init" ELSE "sync2")

InitCounter(w) ==
  /\ CGoto(w, "init", "verify")
  /\ \/ counter' = init_counter
     \/ lib = "lossy" /\ counter' = counter
  /\ UNCHANGED <<syncVars, barrierVars, left, last, lost, lib, mainVars>>

Verify(w) ==
  /\ CGoto(w, "verify", IF counter = init_counter THEN "sync2" ELSE "bad_sync2")
  /\ UNCHANGED <<syncVars, barrierVars, left, last, counter, lost, lib, mainVars>>

\* An error keeps the number of calls of sync() the same for every thread.
\* (Mutant: it returns at once.)
BadSyncSkipped(w) ==
  /\ CGoto(w, "bad_sync2", "error")
  /\ UNCHANGED <<syncVars, barrierVars, left, last, counter, lost, lib, mainVars>>
BadSync(w) ==
  CallSync(w, "bad_sync2", "bad_sync3") \/ CallSync(w, "bad_sync3", "error")

Sync2(w) == CallSync(w, "sync2", "read")

ReadLast(w) ==
  /\ CGoto(w, "read", "decrement")
  /\ last' = [last EXCEPT ![w] = counter]
  /\ UNCHANGED <<syncVars, barrierVars, left, counter, lost, lib, mainVars>>

\* The transaction reads the counter again; with a lossy library it may still
\* see what the worker saw before.
Decrement(w) ==
  \E value \in {counter} \cup (IF lib = "lossy" THEN {last[w]} ELSE {}) :
    IF value > last[w]
    THEN /\ CGoto(w, "decrement", "bad_sync3")
         /\ UNCHANGED <<syncVars, barrierVars, left, last, counter, lost, lib, mainVars>>
    ELSE /\ CGoto(w, "decrement", IF left[w] = 1 THEN "sync3" ELSE "read")
         /\ counter' = (value + SizeRange - 1) % SizeRange
         /\ lost' = (lost \/ value # counter)
         /\ left' = [left EXCEPT ![w] = @ - 1]
         /\ UNCHANGED <<syncVars, barrierVars, last, lib, mainVars>>

\* (Mutant: the thread with uid 0 does not wait for the others.)
Sync3NotFirst(w) ==
  \/ w # First /\ CallSync(w, "sync3", "ok")
  \/ /\ w = First /\ CGoto(w, "sync3", "final")
     /\ UNCHANGED <<syncVars, barrierVars, left, last, counter, lost, lib, mainVars>>
Sync3(w) == CallSync(w, "sync3", IF w = First THEN "final" ELSE "ok")

\* (Mutant: a counter below the initial value will do.)
FinalBelow(w) ==
  /\ CGoto(w, "final", IF counter < init_counter THEN "ok" ELSE "error")
  /\ UNCHANGED <<syncVars, barrierVars, left, last, counter, lost, lib, mainVars>>
Final(w) ==
  /\ CGoto(w, "final", IF counter = 0 THEN "ok" ELSE "error")
  /\ UNCHANGED <<syncVars, barrierVars, left, last, counter, lost, lib, mainVars>>

CheckStep(w) ==
  \/ Sync1(w) \/ InitCounter(w) \/ Verify(w) \/ BadSync(w) \/ Sync2(w)
  \/ ReadLast(w) \/ Decrement(w) \/ Sync3(w) \/ Final(w)

-----------------------------------------------------------------------------
(* The workers of measure() *)

\* The end of a task: of check as it computed it, of another in any way (a
\* correct library gives no error there); a throwing library may throw in any
\* transaction.
EndTask(w) ==
  /\ \E out \in Outcomes :
       /\ Finish(w, out)
       /\ out = "error" /\ task[w] # Rounds => lib = "lossy"
       /\ out = "exception" => lib = "throwing" \/ task[w] > Rounds
       /\ task[w] = Rounds =>
            /\ bpc[w] = "out"
            /\ IF out = "exception"
               THEN cpc[w] \in {"init", "verify", "read", "decrement", "final"}
               ELSE cpc[w] = out
  /\ UNCHANGED <<barrierVars, checkVars, lib, mainVars>>

WorkerStep(w) ==
  \/ (WaitStep(w) \/ NotifyStep(w)) /\ UNCHANGED <<barrierVars, checkVars, lib, mainVars>>
  \/ CheckStep(w) \/ InBarrier(w) \/ EndTask(w)

-----------------------------------------------------------------------------
(* main() *)

MainGoto(from, to) == main = from /\ main' = to

Load ==
  /\ MainGoto("load", "create") /\ loaded' = TRUE
  /\ UNCHANGED <<syncVars, barrierVars, checkVars, lib, runner, overran>>

LoadFails ==
  /\ MainGoto("load", "exit")
  /\ UNCHANGED <<syncVars, barrierVars, checkVars, lib, runner, loaded, overran>>

\* bounded_run starts a thread on tm_create or tm_destroy, and waits on cv.
BoundedRun ==
  /\ MainGoto("create", "creating") \/ MainGoto("destroy", "destroying")
  /\ runner' = "in_lib"
  /\ UNCHANGED <<syncVars, barrierVars, checkVars, lib, loaded, overran>>

\* The call returns, and the thread notifies cv.
RunnerStep ==
  /\ \/ runner = "in_lib" /\ runner' = "notify"
     \/ runner = "notify" /\ runner' = "done"
  /\ UNCHANGED <<syncVars, barrierVars, checkVars, lib, main, loaded, overran>>

\* tm_create returns invalid_shared: the exception is thrown in the thread.
CreateFails ==
  /\ runner = "in_lib" /\ main' = "terminated"
  /\ main \in {"creating", "created", "unload", "unloaded"}
  /\ UNCHANGED <<syncVars, barrierVars, checkVars, lib, runner, loaded, overran>>

\* cv wakes up, notified or not, and main joins the thread.
Woken ==
  /\ MainGoto("creating", "created") \/ MainGoto("destroying", "destroyed")
  /\ UNCHANGED <<syncVars, barrierVars, checkVars, lib, runner, loaded, overran>>

RunnerJoined ==
  /\ runner = "done"
  /\ MainGoto("created", "measure") \/ MainGoto("destroyed", "unload")
  /\ UNCHANGED <<syncVars, barrierVars, checkVars, lib, runner, loaded, overran>>

\* The time is over: the thread is left behind.  The constructor's exception
\* unloads the library; out of the destructor, noexcept, none may come.
BoundedOverrun ==
  /\ \/ MainGoto("creating", "unload") /\ overran' = TRUE
     \/ MainGoto("destroying", "terminated") /\ UNCHANGED overran
  /\ UNCHANGED <<syncVars, barrierVars, checkVars, lib, runner, loaded>>

Measure ==
  /\ main = "measure" /\ MasterStep
  /\ UNCHANGED <<barrierVars, checkVars, lib, mainVars>>

\* With an error or not the memory is destroyed; an exception ends the process.
\* (Mutant: the exception unwinds the objects as a return does.)
MeasuredUnwind ==
  /\ mpc \in {"returned", "thrown", "unreachable"} /\ MainGoto("measure", "destroy")
  /\ UNCHANGED <<syncVars, barrierVars, checkVars, lib, runner, loaded, overran>>
Measured ==
  /\ \/ mpc = "returned" /\ MainGoto("measure", "destroy")
     \/ mpc \in {"thrown", "unreachable"} /\ MainGoto("measure", "quick_exit")
  /\ UNCHANGED <<syncVars, barrierVars, checkVars, lib, runner, loaded, overran>>

Unload ==
  /\ \/ MainGoto("unload", "unloaded") /\ loaded' = FALSE
     \/ MainGoto("unloaded", "exit") /\ UNCHANGED loaded
  /\ UNCHANGED <<syncVars, barrierVars, checkVars, lib, runner, overran>>

MainStep ==
  \/ Load \/ LoadFails \/ BoundedRun \/ Woken \/ RunnerJoined \/ BoundedOverrun
  \/ Measure \/ Measured \/ Unload

GraderNext ==
  /\ Alive
  /\ \/ MainStep \/ RunnerStep \/ CreateFails
     \/ \E w \in Workers : WorkerStep(w)

(***************************************************************************)
(* The system runs every thread, and the calls of a library return.        *)
(***************************************************************************)
GraderFairness ==
  /\ WF_graderVars(Alive /\ MainStep)
  /\ WF_graderVars(Alive /\ RunnerStep)
  /\ \A w \in Workers : WF_graderVars(Alive /\ WorkerStep(w))

GraderSpec == GraderInit /\ [][GraderNext]_graderVars
FairGraderSpec == GraderSpec /\ GraderFairness

-----------------------------------------------------------------------------
CheckTypeOK ==
  /\ cpc \in [Workers -> CheckLabels] /\ left \in [Workers -> 0..NbTx]
  /\ last \in [Workers -> 0..SizeRange - 1] /\ counter \in 0..SizeRange - 1 /\ lost \in BOOLEAN

GraderTypeOK ==
  /\ SyncTypeOK /\ BarrierTypeOK /\ CheckTypeOK
  /\ lib \in {"correct", "lossy", "throwing"}
  /\ main \in MainLabels /\ runner \in {"none", "in_lib", "notify", "done"}
  /\ loaded \in BOOLEAN /\ overran \in BOOLEAN

\* A correct library is never found wrong.
NoFalseAlarm == lib = "correct" => result = "none" /\ errmsg = "none"

\* A library that lost an update of the counter is never found right: check is
\* "false negative-free" (workload.hpp:74).
LossFound == mpc = "returned" /\ result = "none" => ~lost

\* The library is unloaded, and its memory destroyed, with no thread in it
\* ("cannot unload library with running threads", grading.cpp:345) unless its
\* tm_create took too long.
UnloadIdle ==
  main \in {"destroying", "destroyed", "unload", "unloaded"} /\ ~overran =>
    /\ \A w \in Workers : wpc[w] = "gone"
    /\ main \in {"unload", "unloaded"} => runner = "done"

\* The grader ends, whatever the library does, if the master's waiting time is
\* bounded; and if it is not, unless a worker threw out of check, where the
\* others wait for it in the barrier.
MeasureEnds ==
  main = "measure" /\ (timed \/ lib # "throwing") ~> ~Alive

-----------------------------------------------------------------------------
(* The inductive invariant of NoFalseAlarm and LossFound. *)

\* Where a worker is in check says how often it has called sync().
Placed(w) ==
  /\ arrived[w] = IF cpc[w] = "sync1" THEN 0
                  ELSE IF cpc[w] \in {"init", "verify", "sync2", "bad_sync2"} THEN 1
                  ELSE IF cpc[w] \in {"read", "decrement", "sync3", "bad_sync3"} THEN 2
                  ELSE 3
  /\ cpc[w] \in {"init", "verify", "bad_sync2", "final"} => w = First
  /\ cpc[w] = "decrement" => passed[w] = 2
  /\ cpc[w] = "ok" /\ w = First => passed[w] = 3
  /\ lib = "correct" => cpc[w] \notin {"bad_sync2", "bad_sync3", "error"}

\* ... and how many iterations it has left.
Iterating(w) ==
  /\ cpc[w] \in {"sync1", "init", "verify", "sync2", "read", "decrement"} => left[w] >= 1
  /\ cpc[w] \in {"sync3", "final", "ok"} => left[w] = 0
  /\ arrived[First] <= 1 => left[w] = NbTx

\* The decrements that are still to come.
Remaining == {i \in Workers \X (1..NbTx) : i[2] <= left[i[1]]}
Todo == Cardinality(Remaining)

\* First has found the counter as it must be, or would find it so.
Begun ==
  \/ cpc[First] \in {"sync2", "read", "decrement", "sync3", "final", "ok"}
  \/ cpc[First] = "verify" /\ lib = "correct"

\* From then on the counter is never below what is still to come, and neither
\* is what a worker last read; it is equal to it only if nobody has decremented
\* the counter since.  So a lost update leaves the counter above, for good.
Counted ==
  /\ Begun => counter \in Todo..init_counter
  /\ Begun /\ lost => counter > Todo
  /\ Begun => \A w \in Workers : cpc[w] = "decrement" =>
       /\ last[w] \in Todo..init_counter
       /\ last[w] = Todo => counter = Todo

CheckInv ==
  /\ CheckTypeOK
  /\ \A w \in Workers : Placed(w) /\ Iterating(w)
  /\ lost => lib = "lossy"
  /\ arrived[First] <= 1 => ~lost
  /\ cpc[First] = "ok" => ~lost
  /\ lib = "correct" /\ Begun => counter = Todo
  /\ Counted

\* check() is behind the worker.
Over(w) ==
  \/ task[w] = Rounds /\ wpc[w] \in {"leave", "clear", "verdict", "raise"}
  \/ task[w] > Rounds

\* What a worker reports is what check() found.
OutcomeInv ==
  /\ \A w \in Workers :
       /\ Over(w) /\ outcome[w] = "ok" => cpc[w] = "ok"
       /\ wpc[w] \in {"store_error", "abort"} => outcome[w] # "ok"
       /\ lib = "correct" => outcome[w] = "ok"
  /\ NoFalseAlarm
=============================================================================
