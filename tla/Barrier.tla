------------------------------- MODULE Barrier -------------------------------
(***************************************************************************)
(* The spin barrier of grading/common.hpp: sync() counts the threads in    *)
(* until all have arrived and mode becomes leave, then counts them out     *)
(* until all have left and mode becomes enter again, so that the barrier   *)
(* can be used once more.                                                  *)
(*                                                                         *)
(* Each action is one access to step or mode.  The accesses to step are    *)
(* relaxed; a thread acts on what others did before the barrier only after *)
(* an acquiring load of mode, so they are taken in one order.              *)
(***************************************************************************)
EXTENDS WorkerThreads

VARIABLES
  step,       \* how many are in
  mode,       \* "enter" or "leave"
  bpc,        \* where each thread is in sync()
  arrived,    \* history: how many times each thread has called sync()
  passed      \* history: how many times each thread has returned from it

barrierVars == <<step, mode, bpc, arrived, passed>>

\* The number of threads that synchronize.
cardinal == Cardinality(Workers)

BarrierLabels ==
  {"out", "open", "wait_leave", "leaving", "close", "wait_enter"}

BarrierInit ==
  /\ step = 0 /\ mode = "enter"
  /\ bpc = [w \in Workers |-> "out"]
  /\ arrived = [w \in Workers |-> 0]
  /\ passed = [w \in Workers |-> 0]

BGoto(w, from, to) == bpc[w] = from /\ bpc' = [bpc EXCEPT ![w] = to]

\* sync() returns.
Pass(w, from) ==
  /\ BGoto(w, from, "out")
  /\ passed' = [passed EXCEPT ![w] = @ + 1]
  /\ UNCHANGED <<step, arrived>>

\* sync() is called: step.fetch_add(1).
EnterBarrier(w) ==
  /\ BGoto(w, "out", IF step + 1 = cardinal THEN "open" ELSE "wait_leave")
  /\ step' = step + 1
  /\ arrived' = [arrived EXCEPT ![w] = @ + 1]
  /\ UNCHANGED <<mode, passed>>

\* The last one in lets all leave.
Open(w) ==
  /\ BGoto(w, "open", "leaving")
  /\ mode' = "leave"
  /\ UNCHANGED <<step, arrived, passed>>

SeeLeave(w) ==
  /\ mode = "leave"
  /\ BGoto(w, "wait_leave", "leaving")
  /\ UNCHANGED <<step, mode, arrived, passed>>

\* step.fetch_sub(1)
LeaveBarrier(w) ==
  /\ BGoto(w, "leaving", IF step - 1 = 0 THEN "close" ELSE "wait_enter")
  /\ step' = step - 1
  /\ UNCHANGED <<mode, arrived, passed>>

\* The last one out lets all enter again.
Close(w) == Pass(w, "close") /\ mode' = "enter"

\* (Mutant of SeeEnter: nobody waits for the last one out.)
SeeEnterAtOnce(w) == Pass(w, "wait_enter") /\ UNCHANGED mode
SeeEnter(w) == mode = "enter" /\ Pass(w, "wait_enter") /\ UNCHANGED mode

\* What a thread does once it has called sync().
InSync(w) ==
  \/ Open(w) \/ SeeLeave(w) \/ LeaveBarrier(w) \/ Close(w) \/ SeeEnter(w)

BarrierNext == \E w \in Workers : EnterBarrier(w) \/ InSync(w)

BarrierSpec == BarrierInit /\ [][BarrierNext]_barrierVars

-----------------------------------------------------------------------------
BarrierTypeOK ==
  /\ step \in Nat /\ mode \in {"enter", "leave"}
  /\ bpc \in [Workers -> BarrierLabels]
  /\ arrived \in [Workers -> Nat] /\ passed \in [Workers -> Nat]

\* Nobody returns from its k-th sync() before everybody has called it k times,
\* however often the barrier is used: a thread that is back early waits for
\* those of the round before that have not left.
NobodyPassesEarly ==
  \A v, w \in Workers : passed[v] <= arrived[w]

-----------------------------------------------------------------------------
(* The inductive invariant of NobodyPassesEarly. *)

\* step counts the threads between their two accesses to it.
In == {w \in Workers : bpc[w] \in {"open", "wait_leave", "leaving"}}
StepExact == step = Cardinality(In)

\* While threads enter, all have finished the same number of rounds; the last
\* one in is alone, and none is leaving.
Finished(w) == IF bpc[w] \in {"open", "wait_leave"} THEN arrived[w] - 1 ELSE arrived[w]
Entering ==
  mode = "enter" =>
    /\ \A w \in Workers : bpc[w] \notin {"leaving", "close"}
    /\ \A w \in Workers : bpc[w] = "open" => In = Workers
    /\ \A v, w \in Workers : bpc[w] = "open" /\ bpc[v] = "open" => v = w
    /\ \A v, w \in Workers : Finished(v) = Finished(w)

\* While threads leave, all have called sync() the same number of times, and
\* none has returned.
Leaving ==
  mode = "leave" =>
    /\ \A w \in Workers : bpc[w] \notin {"out", "open"}
    /\ \A w \in Workers : bpc[w] = "close" => In = {}
    /\ \A v, w \in Workers : bpc[w] = "close" /\ bpc[v] = "close" => v = w
    /\ \A v, w \in Workers : arrived[v] = arrived[w]

\* A thread that is out of sync() has returned as often as it called it.
Called == \A w \in Workers :
  passed[w] = IF bpc[w] = "out" THEN arrived[w] ELSE arrived[w] - 1

BarrierInv ==
  BarrierTypeOK /\ StepExact /\ Entering /\ Leaving /\ Called
=============================================================================
