------------------------------- MODULE Batcher -------------------------------
(***************************************************************************)
(* The batcher of 353324/: tm_begin and tm_end of tm.c over the counters   *)
(* of struct Batcher_str (structs.h).                                      *)
(*                                                                         *)
(* A pair of counters (timestamp, next) is a ticket lock: a thread takes a *)
(* ticket, spins until next reaches it, changes the other counters and     *)
(* passes the turn.  Transactions that are inside together form an epoch;  *)
(* the last one out of an epoch that had a writer commits and opens the    *)
(* next epoch, and a writer that is not the last one waits for that.       *)
(*                                                                         *)
(* Each action is one access to an atomic variable that threads without    *)
(* the turn can see (timestamp, next, cnt_epoch), or a run of accesses to  *)
(* the counters that only the thread with the turn touches.                *)
(***************************************************************************)
EXTENDS Integers, FiniteSets

CONSTANTS
  Threads,      \* the threads that use the shared region
  Readers,      \* those that may call tm_begin(shared, is_ro = true)
  Writers,      \* those that may call tm_begin(shared, is_ro = false)
  BatchSize,    \* batch_size of structs.h:22 (2 in the code)
  MaxTx         \* bound: the transactions each thread begins

ASSUME ThreadsAssumption ==
  /\ IsFiniteSet(Threads)
  /\ Readers \subseteq Threads
  /\ Writers \subseteq Threads

ASSUME BoundsAssumption == BatchSize \in Nat \ {0} /\ MaxTx \in [Threads -> Nat]

VARIABLES
  timestamp,    \* the next ticket to hand out
  next,         \* the ticket whose turn it is
  cnt_epoch,    \* the current epoch
  cnt_thread,   \* how many transactions are inside the epoch
  res_writes,   \* how many more writers the epoch admits
  is_writing,   \* has the epoch admitted a writer?
  pc,           \* where each thread is in tm_begin / tm_end
  is_ro,        \* argument of each thread's tm_begin
  process_idx,  \* local: the thread's ticket
  tx,           \* the transaction id tm_begin returned
  this_epoch,   \* local: the epoch a spinning thread waits to see end
  begun,        \* bound: how many transactions each thread has begun
  born          \* history: the epoch that admitted the thread's transaction

ticketVars == <<timestamp, next, process_idx>>
epochVars  == <<cnt_epoch, cnt_thread, res_writes, is_writing>>
localVars  == <<is_ro, tx, this_epoch>>
history    == <<begun, born>>
vars == <<ticketVars, epochVars, pc, localVars, history>>

\* tm_begin gives a reader this id (UINTPTR_MAX - 1, a signed -2), and each
\* writer an id of 1 or more.
read_only_tx == -2

Labels ==
  {"idle",                                              \* no transaction
   "begin_spin", "admit", "enter", "begin_next",        \* in tm_begin
   "skip", "skip_load", "skip_spin",                    \* ... with no slot
   "live",                                              \* between the two
   "end_spin", "leave", "end_next",                     \* in tm_end
   "commit", "reset", "new_epoch",                      \* ... the last one
   "park", "park_load", "park_spin"}                    \* ... not the last

\* The lines that run with the turn, from the end of the spin to next++.
TurnLabels ==
  {"admit", "enter", "begin_next", "skip",
   "leave", "end_next", "commit", "reset", "new_epoch", "park"}

\* The lines at which a thread is counted in cnt_thread.
InsideLabels == {"begin_next", "live", "end_spin", "leave"}

\* The lines of the last transaction out, until the new epoch is open.
ClosingLabels == {"commit", "reset", "new_epoch"}

InTurn(t) == pc[t] \in TurnLabels
Inside    == {t \in Threads : pc[t] \in InsideLabels}
Closing   == {t \in Threads : pc[t] \in ClosingLabels}

Goto(t, from, to) == pc[t] = from /\ pc' = [pc EXCEPT ![t] = to]

-----------------------------------------------------------------------------
Init ==
  /\ timestamp = 0 /\ next = 0
  /\ cnt_epoch = 0 /\ cnt_thread = 0
  /\ res_writes = BatchSize /\ is_writing = FALSE
  /\ pc = [t \in Threads |-> "idle"]
  /\ is_ro = [t \in Threads |-> FALSE]
  /\ process_idx = [t \in Threads |-> 0]
  /\ tx = [t \in Threads |-> 0]
  /\ this_epoch = [t \in Threads |-> 0]
  /\ begun = [t \in Threads |-> 0]
  /\ born = [t \in Threads |-> -1]

\* atomic_fetch_add(&timestamp, 1)
FetchTicket(t) ==
  /\ process_idx' = [process_idx EXCEPT ![t] = timestamp]
  /\ timestamp' = timestamp + 1
  /\ next' = next

\* atomic_fetch_add(&next, 1)
PassTurn ==
  /\ next' = next + 1
  /\ UNCHANGED <<timestamp, process_idx>>

\* The test that ends the spin on next.  (Mutant: an inequality.)
MyTurnOrLater(t) == next <= process_idx[t]
MyTurn(t) == process_idx[t] = next

\* Does the epoch have a slot left for a writer?  (Mutant: not asked.)
SlotNotAsked == TRUE
SlotLeft == res_writes # 0

\* The test on the value atomic_fetch_add(&cnt_thread, -1) returns: the count
\* before it.  (Mutants: one too many; the count after it.)
IsLastOffByOne == cnt_thread <= 2
IsLastAfter == cnt_thread = 0
IsLast == cnt_thread = 1

-----------------------------------------------------------------------------
(* tm_begin *)

\* The client calls tm_begin, which takes a ticket.
CallBegin(t, ro) ==
  /\ begun[t] < MaxTx[t]
  /\ Goto(t, "idle", "begin_spin")
  /\ FetchTicket(t)
  /\ is_ro' = [is_ro EXCEPT ![t] = ro]
  /\ begun' = [begun EXCEPT ![t] = @ + 1]
  /\ UNCHANGED <<epochVars, tx, this_epoch, born>>

\* The spin ends; a reader needs no slot.
BeginTurn(t) ==
  /\ MyTurn(t)
  /\ Goto(t, "begin_spin", IF is_ro[t] THEN "enter" ELSE "admit")
  /\ UNCHANGED <<ticketVars, epochVars, localVars, history>>

\* Mutant of TakeSlot: the slot is not paid for.
TakeSlotUnpaid(t) ==
  /\ SlotLeft
  /\ Goto(t, "admit", "enter")
  /\ UNCHANGED <<ticketVars, epochVars, localVars, history>>

TakeSlot(t) ==
  /\ SlotLeft
  /\ Goto(t, "admit", "enter")
  /\ res_writes' = res_writes - 1
  /\ UNCHANGED <<ticketVars, cnt_epoch, cnt_thread, is_writing, localVars, history>>

\* No slot: pass the turn, read the epoch, wait for another one, start again.
Refuse(t) ==
  /\ ~SlotLeft
  /\ Goto(t, "admit", "skip")
  /\ UNCHANGED <<ticketVars, epochVars, localVars, history>>

Skip(t) ==
  /\ Goto(t, "skip", "skip_load")
  /\ PassTurn
  /\ UNCHANGED <<epochVars, localVars, history>>

SkipLoad(t) ==
  /\ Goto(t, "skip_load", "skip_spin")
  /\ this_epoch' = [this_epoch EXCEPT ![t] = cnt_epoch]
  /\ UNCHANGED <<ticketVars, epochVars, is_ro, tx, history>>

Retry(t) ==
  /\ this_epoch[t] # cnt_epoch
  /\ Goto(t, "skip_spin", "begin_spin")
  /\ FetchTicket(t)
  /\ UNCHANGED <<epochVars, localVars, history>>

\* Mutant of Enter: a reader is not counted.
EnterReaderFree(t) ==
  /\ Goto(t, "enter", "begin_next")
  /\ cnt_thread' = IF is_ro[t] THEN cnt_thread ELSE cnt_thread + 1
  /\ tx' = [tx EXCEPT ![t] = IF is_ro[t] THEN read_only_tx ELSE cnt_thread + 1]
  /\ is_writing' = (is_writing \/ ~is_ro[t])
  /\ born' = [born EXCEPT ![t] = cnt_epoch]
  /\ UNCHANGED <<ticketVars, cnt_epoch, res_writes, is_ro, this_epoch, begun>>

\* Join the epoch.  A writer's id is its rank in cnt_thread.
Enter(t) ==
  /\ Goto(t, "enter", "begin_next")
  /\ cnt_thread' = cnt_thread + 1
  /\ tx' = [tx EXCEPT ![t] = IF is_ro[t] THEN read_only_tx ELSE cnt_thread + 1]
  /\ is_writing' = (is_writing \/ ~is_ro[t])
  /\ born' = [born EXCEPT ![t] = cnt_epoch]
  /\ UNCHANGED <<ticketVars, cnt_epoch, res_writes, is_ro, this_epoch, begun>>

BeginNext(t) ==
  /\ Goto(t, "begin_next", "live")
  /\ PassTurn
  /\ UNCHANGED <<epochVars, localVars, history>>

-----------------------------------------------------------------------------
(* tm_end *)

CallEnd(t) ==
  /\ Goto(t, "live", "end_spin")
  /\ FetchTicket(t)
  /\ UNCHANGED <<epochVars, localVars, history>>

EndTurn(t) ==
  /\ MyTurn(t)
  /\ Goto(t, "end_spin", "leave")
  /\ UNCHANGED <<ticketVars, epochVars, localVars, history>>

\* Mutant of Leave: a writer that is not the last one out waits for nothing.
LeaveAtOnce(t) ==
  /\ Goto(t, "leave", IF IsLast /\ is_writing THEN "commit" ELSE "end_next")
  /\ cnt_thread' = cnt_thread - 1
  /\ UNCHANGED <<ticketVars, cnt_epoch, res_writes, is_writing, localVars, history>>

\* The last one out commits if the epoch had a writer; a writer that is not
\* the last one out waits for that.
Leave(t) ==
  /\ Goto(t, "leave", IF IsLast THEN (IF is_writing THEN "commit" ELSE "end_next")
                      ELSE IF tx[t] = read_only_tx THEN "end_next" ELSE "park")
  /\ cnt_thread' = cnt_thread - 1
  /\ UNCHANGED <<ticketVars, cnt_epoch, res_writes, is_writing, localVars, history>>

\* Commit_seg on every segment; its effect on memory is DualVersion's.
Commit(t) ==
  /\ Goto(t, "commit", "reset")
  /\ UNCHANGED <<ticketVars, epochVars, localVars, history>>

\* Mutants of Reset: one slot too many; is_writing is left set.
ResetTooMany(t) ==
  /\ Goto(t, "reset", "new_epoch")
  /\ res_writes' = BatchSize + 1
  /\ is_writing' = FALSE
  /\ UNCHANGED <<ticketVars, cnt_epoch, cnt_thread, localVars, history>>
ResetStillWriting(t) ==
  /\ Goto(t, "reset", "new_epoch")
  /\ res_writes' = BatchSize
  /\ UNCHANGED <<ticketVars, cnt_epoch, cnt_thread, is_writing, localVars, history>>

Reset(t) ==
  /\ Goto(t, "reset", "new_epoch")
  /\ res_writes' = BatchSize
  /\ is_writing' = FALSE
  /\ UNCHANGED <<ticketVars, cnt_epoch, cnt_thread, localVars, history>>

NewEpoch(t) ==
  /\ Goto(t, "new_epoch", "end_next")
  /\ cnt_epoch' = cnt_epoch + 1
  /\ UNCHANGED <<ticketVars, cnt_thread, res_writes, is_writing, localVars, history>>

\* Mutant of EndNext: a reader's early return does not pass the turn.
EndNextReaderKeeps(t) ==
  /\ Goto(t, "end_next", "idle")
  /\ IF tx[t] = read_only_tx THEN UNCHANGED ticketVars ELSE PassTurn
  /\ UNCHANGED <<epochVars, localVars, history>>

EndNext(t) ==
  /\ Goto(t, "end_next", "idle")
  /\ PassTurn
  /\ UNCHANGED <<epochVars, localVars, history>>

\* A writer that is not the last: pass the turn, read the epoch, wait for
\* another one.  The turn is passed before the epoch is read.
Park(t) ==
  /\ Goto(t, "park", "park_load")
  /\ PassTurn
  /\ UNCHANGED <<epochVars, localVars, history>>

ParkLoad(t) ==
  /\ Goto(t, "park_load", "park_spin")
  /\ this_epoch' = [this_epoch EXCEPT ![t] = cnt_epoch]
  /\ UNCHANGED <<ticketVars, epochVars, is_ro, tx, history>>

Unpark(t) ==
  /\ this_epoch[t] # cnt_epoch
  /\ Goto(t, "park_spin", "idle")
  /\ UNCHANGED <<ticketVars, epochVars, localVars, history>>

-----------------------------------------------------------------------------
BeginStep(t) ==
  \/ BeginTurn(t) \/ TakeSlot(t) \/ Enter(t) \/ BeginNext(t)
  \/ Refuse(t) \/ Skip(t) \/ SkipLoad(t) \/ Retry(t)

EndStep(t) ==
  \/ EndTurn(t) \/ Leave(t) \/ EndNext(t)
  \/ Reset(t) \/ NewEpoch(t)
  \/ Park(t) \/ ParkLoad(t) \/ Unpark(t)

ClientBegins(t) ==
  \/ t \in Readers /\ CallBegin(t, TRUE)
  \/ t \in Writers /\ CallBegin(t, FALSE)

\* What a thread does once it has called tm_begin.
Step(t) == BeginStep(t) \/ CallEnd(t) \/ EndStep(t) \/ Commit(t)

Next == \E t \in Threads : ClientBegins(t) \/ Step(t)

(***************************************************************************)
(* A thread that is inside tm_begin or tm_end keeps running (the spins     *)
(* call sched_yield), and a client ends what it began (the destructor of   *)
(* Transaction calls tm_end).  Nothing makes a client begin.               *)
(***************************************************************************)
Fairness == \A t \in Threads : WF_vars(Step(t))

Spec == Init /\ [][Next]_vars
FairSpec == Spec /\ Fairness

-----------------------------------------------------------------------------
\* The types; that cnt_thread and res_writes, unsigned in the code, never drop
\* below zero is part of it.
TypeOK ==
  /\ timestamp \in Nat /\ next \in Nat
  /\ cnt_epoch \in Nat /\ cnt_thread \in Nat
  /\ res_writes \in 0..BatchSize /\ is_writing \in BOOLEAN
  /\ pc \in [Threads -> Labels]
  /\ is_ro \in [Threads -> BOOLEAN]
  /\ process_idx \in [Threads -> Nat]
  /\ tx \in [Threads -> Int]
  /\ this_epoch \in [Threads -> Nat]
  /\ begun \in [Threads -> Nat]
  /\ born \in [Threads -> Nat \cup {-1}]

\* At most one thread is between the end of a spin and its next++, so the
\* non-atomic sequences on the counters (load res_writes then decrement, reset
\* then open the epoch) never interleave.
TurnExclusive ==
  \A t, u \in Threads : InTurn(t) /\ InTurn(u) => t = u

\* While the last transaction out commits and opens the next epoch, no
\* transaction is inside: a reader, which reads data without any lock, never
\* runs beside Commit_seg.
CommitAlone == Closing # {} => Inside = {}

\* The transactions inside were all admitted by the current epoch: a snapshot
\* never spans two epochs.
InsideThisEpoch == \A t \in Inside : born[t] = cnt_epoch

\* The writers the current epoch has admitted (they may have left already).
EpochWriters ==
  {t \in Threads : /\ ~is_ro[t] /\ born[t] = cnt_epoch
                   /\ pc[t] \notin {"begin_spin", "admit", "enter",
                                    "skip", "skip_load", "skip_spin"}}

\* Slots are conserved: what res_writes has left and the writers the epoch
\* admitted add up to batch_size, whenever no thread is between the two
\* halves of an update of them.
SlotsConserved ==
  (\A t \in Threads : pc[t] \notin {"enter", "new_epoch"}) =>
    res_writes + Cardinality(EpochWriters) = BatchSize

\* is_writing, which decides whether the last one out commits, is true exactly
\* when the epoch has admitted a writer.
WritingMeansWriters ==
  (\A t \in Threads : pc[t] # "new_epoch") =>
    (is_writing <=> EpochWriters # {})

\* No two writers of an epoch have the same id ("the type of a transaction
\* identifier", include/tm.h:43), when there are no readers and BatchSize is 2.
\* The id is a count of who is inside, and any more would let somebody leave
\* between two begins.
UniqueIds ==
  \A t, u \in EpochWriters : t # u => tx[t] # tx[u]

\* cnt_thread counts exactly the transactions inside.
CountExact == cnt_thread = Cardinality(Inside)

\* The tickets in use are distinct, not behind next, and were handed out.
Holding(t) == InTurn(t) \/ pc[t] \in {"begin_spin", "end_spin"}
TicketsOrdered ==
  /\ next <= timestamp
  /\ \A t \in Threads : Holding(t) => next <= process_idx[t] /\ process_idx[t] < timestamp
  /\ \A t \in Threads : InTurn(t) => process_idx[t] = next
  /\ \A t, u \in Threads :
       Holding(t) /\ Holding(u) /\ process_idx[t] = process_idx[u] => t = u

\* The inductive invariant behind TurnExclusive, CommitAlone, InsideThisEpoch.
IInv == TypeOK /\ TicketsOrdered /\ CountExact /\ CommitAlone /\ InsideThisEpoch

\* The writers of the epoch, and the one that has its slot and is to enter.
Admitted == EpochWriters \cup {t \in Threads : ~is_ro[t] /\ pc[t] = "enter"}

\* A writer is idle again only after the epoch that admitted it.
WritersWait ==
  \A t \in Threads :
    /\ born[t] <= cnt_epoch
    /\ pc[t] = "admit" => ~is_ro[t]
    /\ pc[t] = "park_spin" => born[t] <= this_epoch[t] /\ this_epoch[t] <= cnt_epoch
    /\ pc[t] \in {"idle", "end_next"} /\ ~is_ro[t] => born[t] < cnt_epoch
    /\ pc[t] \in InsideLabels => (tx[t] = read_only_tx <=> is_ro[t])

\* Slots and is_writing follow the writers, but between Reset and NewEpoch.
Reopening == \E t \in Threads : pc[t] = "new_epoch"
SlotsInv ==
  IF Reopening
  THEN res_writes = BatchSize /\ ~is_writing
  ELSE /\ res_writes + Cardinality(Admitted) = BatchSize
       /\ is_writing <=> EpochWriters # {}

\* The inductive invariant behind SlotsConserved and WritingMeansWriters.
SlotIInv == IInv /\ WritersWait /\ SlotsInv

\* Ids are ranks in the epoch: without readers, an epoch that has admitted one
\* writer ends as soon as that one leaves.
FirstIsInside ==
  Closing = {} =>
    \A t \in EpochWriters : EpochWriters = {t} => t \in Inside /\ tx[t] = 1

SmallIds == \A t \in EpochWriters : tx[t] \in 1..BatchSize

\* The inductive invariant behind UniqueIds.
RankIInv ==
  SlotIInv /\ (\A t \in Threads : ~is_ro[t]) /\ FirstIsInside /\ UniqueIds /\ SmallIds

\* tm_end returns to a writer only after the commit that ended its epoch
\* (tm.c:329-332), whether it was the last one out or read the epoch to wait for
\* after it had passed the turn.
ReturnsCommitted ==
  [][\A t \in Threads : pc[t] # "idle" /\ pc'[t] = "idle" /\ ~is_ro[t] =>
       born[t] < cnt_epoch]_vars

\* Every thread that takes a ticket gets its turn.
TurnComes ==
  \A t \in Threads : pc[t] \in {"begin_spin", "end_spin"} ~> InTurn(t)

\* An epoch with a writer ends (each client begins a bounded number of transactions).
EpochEnds == is_writing ~> ~is_writing

\* A writer that waits in tm_end for the end of its epoch returns
\* (tm.c:329-332).
EndReturns ==
  \A t \in Threads : pc[t] = "park_load" ~> pc[t] = "idle"
=============================================================================
