---------------------------- MODULE BatcherProofs ----------------------------
(***************************************************************************)
(* Theorems about Batcher, for any threads, any batch_size and any number  *)
(* of transactions.                                                        *)
(***************************************************************************)
EXTENDS Batcher, FiniteSetTheorems, TLAPS

USE ThreadsAssumption, BoundsAssumption

-----------------------------------------------------------------------------
(* How a step changes the set of transactions inside. *)

\* cnt_thread is compared with the cardinality of a finite set.
LEMMA InsideFinite == IsFiniteSet(Inside) /\ Cardinality(Inside) \in Nat
  BY FS_Subset, FS_CardinalityType DEF Inside

\* Only Enter adds a transaction to the ones inside, and only Leave removes one.
LEMMA InsideSteps ==
  ASSUME TypeOK, NEW t \in Threads
  PROVE  /\ Enter(t) => t \notin Inside /\ Inside' = Inside \cup {t}
         /\ Leave(t) => t \in Inside /\ Inside' = Inside \ {t}
         /\ \/ CallBegin(t, TRUE) \/ CallBegin(t, FALSE) \/ BeginTurn(t)
            \/ TakeSlot(t) \/ BeginNext(t) \/ Refuse(t) \/ Skip(t) \/ SkipLoad(t)
            \/ Retry(t) \/ CallEnd(t) \/ EndTurn(t) \/ EndNext(t) \/ Commit(t)
            \/ Reset(t) \/ NewEpoch(t) \/ Park(t) \/ ParkLoad(t) \/ Unpark(t)
            => Inside' = Inside
<1> USE DEF TypeOK, Inside, InsideLabels, Goto
<1>1. ASSUME Enter(t)
      PROVE  t \notin Inside /\ Inside' = Inside \cup {t}
  BY <1>1 DEF Enter
<1>2. ASSUME Leave(t)
      PROVE  t \in Inside /\ Inside' = Inside \ {t}
  BY <1>2 DEF Leave
<1>3. ASSUME \/ CallBegin(t, TRUE) \/ CallBegin(t, FALSE) \/ BeginTurn(t)
             \/ TakeSlot(t) \/ BeginNext(t) \/ Refuse(t) \/ Skip(t) \/ SkipLoad(t)
             \/ Retry(t)
      PROVE  Inside' = Inside
  BY <1>3 DEF CallBegin, BeginTurn, TakeSlot, BeginNext, Refuse, Skip, SkipLoad, Retry
<1>4. ASSUME \/ CallEnd(t) \/ EndTurn(t) \/ EndNext(t) \/ Commit(t)
             \/ Reset(t) \/ NewEpoch(t) \/ Park(t) \/ ParkLoad(t) \/ Unpark(t)
      PROVE  Inside' = Inside
  BY <1>4 DEF CallEnd, EndTurn, EndNext, Commit, Reset, NewEpoch, Park, ParkLoad, Unpark
<1>. QED  BY <1>1, <1>2, <1>3, <1>4

-----------------------------------------------------------------------------
(* Tickets. *)

\* Whoever has the turn has it alone: tickets in use are distinct, and the one
\* with the turn is next.
LEMMA OneTurn ==
  ASSUME TypeOK, TicketsOrdered
  PROVE  TurnExclusive
  BY DEF TypeOK, TicketsOrdered, TurnExclusive, Holding

\* Each step keeps the tickets in use distinct and in order.
LEMMA TicketSteps ==
  ASSUME TypeOK, TicketsOrdered, NEW t \in Threads
  PROVE  ClientBegins(t) \/ Step(t) => TicketsOrdered'
<1> USE DEF TypeOK, TicketsOrdered, Holding, InTurn, TurnLabels, Goto
\* A thread that takes a ticket holds one past every other.
<1>1. ASSUME CallBegin(t, TRUE) \/ CallBegin(t, FALSE) \/ Retry(t) \/ CallEnd(t)
      PROVE  TicketsOrdered'
  <2>. DEFINE from == {"idle", "skip_spin", "live"}
  <2>1. /\ pc[t] \in from /\ FetchTicket(t)
        /\ pc' = [pc EXCEPT ![t] = "begin_spin"] \/ pc' = [pc EXCEPT ![t] = "end_spin"]
    BY <1>1 DEF CallBegin, Retry, CallEnd
  <2>. QED  BY <2>1 DEF FetchTicket
\* A thread gets the turn when its ticket is next.
<1>2. ASSUME BeginTurn(t) \/ EndTurn(t)
      PROVE  TicketsOrdered'
  BY <1>2 DEF BeginTurn, EndTurn, MyTurn, ticketVars
\* A thread that passes the turn gives up its ticket: the others are past next.
<1>3. ASSUME BeginNext(t) \/ Skip(t) \/ EndNext(t) \/ Park(t)
      PROVE  TicketsOrdered'
  <2>1. /\ pc[t] \in TurnLabels /\ PassTurn
        /\ \E l \in {"live", "skip_load", "idle", "park_load"} : pc' = [pc EXCEPT ![t] = l]
    BY <1>3 DEF BeginNext, Skip, EndNext, Park
  <2>. QED  BY <2>1 DEF PassTurn
\* The other steps keep the turn, or have no ticket before and after.
<1>4. ASSUME \/ TakeSlot(t) \/ Refuse(t) \/ Enter(t) \/ Leave(t)
             \/ Commit(t) \/ Reset(t) \/ NewEpoch(t)
      PROVE  TicketsOrdered'
  BY <1>4 DEF TakeSlot, Refuse, Enter, Leave, Commit, Reset, NewEpoch, ticketVars
<1>5. ASSUME SkipLoad(t) \/ ParkLoad(t) \/ Unpark(t)
      PROVE  TicketsOrdered'
  BY <1>5 DEF SkipLoad, ParkLoad, Unpark, ticketVars
<1>. QED
  BY <1>1, <1>2, <1>3, <1>4, <1>5 DEF ClientBegins, Step, BeginStep, EndStep

-----------------------------------------------------------------------------
(* Types and the count of transactions inside. *)

\* cnt_thread follows the transactions inside, one by one.
LEMMA CountSteps ==
  ASSUME TypeOK, CountExact, NEW t \in Threads, ClientBegins(t) \/ Step(t)
  PROVE  CountExact'
<1>1. CASE Enter(t)
  <2>1. cnt_thread' = cnt_thread + 1
    BY <1>1 DEF Enter
  <2>2. Cardinality(Inside') = Cardinality(Inside) + 1
    BY <1>1, InsideSteps, InsideFinite, FS_AddElement
  <2>. QED  BY <2>1, <2>2 DEF CountExact
<1>2. CASE Leave(t)
  <2>1. cnt_thread' = cnt_thread - 1
    BY <1>2 DEF Leave
  <2>2. Cardinality(Inside') = Cardinality(Inside) - 1
    BY <1>2, InsideSteps, InsideFinite, FS_RemoveElement
  <2>. QED  BY <2>1, <2>2 DEF CountExact
<1>3. CASE ~Enter(t) /\ ~Leave(t)
  <2>1. Inside' = Inside
    BY <1>3, InsideSteps DEF ClientBegins, Step, BeginStep, EndStep
  <2>2. cnt_thread' = cnt_thread
    BY <1>3 DEF ClientBegins, Step, BeginStep, EndStep, epochVars, CallBegin, BeginTurn,
       TakeSlot, BeginNext, Refuse, Skip, SkipLoad, Retry, CallEnd, EndTurn, EndNext,
       Commit, Reset, NewEpoch, Park, ParkLoad, Unpark
  <2>. QED  BY <2>1, <2>2 DEF CountExact
<1>. QED  BY <1>1, <1>2, <1>3

\* A thread about to leave is counted, so cnt_thread does not go below zero.
LEMMA LeaveCounted ==
  ASSUME TypeOK, CountExact, NEW t \in Threads, Leave(t)
  PROVE  /\ cnt_thread > 0
         /\ IsLast => Inside' = {}
<1>1. t \in Inside /\ Inside' = Inside \ {t}
  BY InsideSteps
<1>2. Cardinality(Inside') = Cardinality(Inside) - 1 /\ Cardinality(Inside') \in Nat
  BY <1>1, InsideFinite, FS_RemoveElement, FS_CardinalityType
<1>3. IsFiniteSet(Inside')
  BY <1>1, InsideFinite, FS_RemoveElement
<1>. QED  BY <1>2, <1>3, FS_EmptySet, InsideFinite DEF CountExact, IsLast

\* Where a thread can be; a step is of one thread.
LEMMA PcSteps ==
  ASSUME TypeOK, NEW t \in Threads, ClientBegins(t) \/ Step(t)
  PROVE  pc' \in [Threads -> Labels] /\ \A u \in Threads : pc'[u] # pc[u] => u = t
<1>1. \E l \in Labels : pc' = [pc EXCEPT ![t] = l]
  <2>1. CASE ClientBegins(t) \/ BeginStep(t) \/ CallEnd(t)
    BY <2>1 DEF ClientBegins, BeginStep, CallBegin, BeginTurn, TakeSlot, Enter, BeginNext,
       Refuse, Skip, SkipLoad, Retry, CallEnd, Goto, Labels
  <2>2. CASE EndStep(t) \/ Commit(t)
    BY <2>2 DEF EndStep, Commit, EndTurn, Leave, EndNext, Reset, NewEpoch, Park, ParkLoad,
       Unpark, Goto, Labels
  <2>. QED  BY <2>1, <2>2 DEF Step
<1>. QED  BY <1>1 DEF TypeOK

\* Each step keeps the types.
LEMMA TypeSteps ==
  ASSUME TypeOK, CountExact, NEW t \in Threads, ClientBegins(t) \/ Step(t)
  PROVE  TypeOK'
<1> USE PcSteps DEF TypeOK
<1>1. ASSUME NEW ro \in BOOLEAN, CallBegin(t, ro)
      PROVE  TypeOK'
  <2>1. begun[t] + 1 \in Nat
    OBVIOUS
  <2>. QED  BY <1>1, <2>1 DEF CallBegin, FetchTicket, epochVars
<1>2. ASSUME BeginTurn(t) \/ EndTurn(t) \/ Commit(t) \/ Unpark(t)
      PROVE  TypeOK'
  BY <1>2 DEF BeginTurn, EndTurn, Commit, Unpark, ticketVars, epochVars, localVars, history
<1>3. ASSUME TakeSlot(t)
      PROVE  TypeOK'
  BY <1>3 DEF TakeSlot, SlotLeft, ticketVars, localVars, history
<1>4. ASSUME Enter(t)
      PROVE  TypeOK'
  <2>1. tx' \in [Threads -> Int] /\ born' \in [Threads -> Nat \cup {-1}]
    BY <1>4 DEF Enter, read_only_tx
  <2>. QED  BY <1>4, <2>1 DEF Enter, ticketVars
<1>5. ASSUME BeginNext(t) \/ Skip(t) \/ EndNext(t) \/ Park(t)
      PROVE  TypeOK'
  BY <1>5 DEF BeginNext, Skip, EndNext, Park, PassTurn, epochVars, localVars, history
<1>6. ASSUME SkipLoad(t) \/ ParkLoad(t)
      PROVE  TypeOK'
  BY <1>6 DEF SkipLoad, ParkLoad, ticketVars, epochVars, history
<1>7. ASSUME Retry(t) \/ CallEnd(t)
      PROVE  TypeOK'
  BY <1>7 DEF Retry, CallEnd, FetchTicket, epochVars, localVars, history
<1>8. ASSUME Leave(t)
      PROVE  TypeOK'
  <2>1. cnt_thread - 1 \in Nat
    BY <1>8, LeaveCounted
  <2>. QED  BY <1>8, <2>1 DEF Leave, ticketVars, localVars, history
<1>9. ASSUME Reset(t)
      PROVE  TypeOK'
  <2>1. BatchSize \in 0..BatchSize
    OBVIOUS
  <2>. QED  BY <1>9, <2>1 DEF Reset, ticketVars, localVars, history
<1>10. ASSUME NewEpoch(t)
       PROVE  TypeOK'
  BY <1>10 DEF NewEpoch, ticketVars, localVars, history
<1>11. ASSUME Refuse(t)
       PROVE  TypeOK'
  BY <1>11 DEF Refuse, ticketVars, epochVars, localVars, history
<1>. QED
  BY <1>1, <1>2, <1>3, <1>4, <1>5, <1>6, <1>7, <1>8, <1>9, <1>10, <1>11
     DEF ClientBegins, Step, BeginStep, EndStep

-----------------------------------------------------------------------------
(* Nobody is inside while an epoch closes. *)

\* Each step keeps CommitAlone and InsideThisEpoch.
LEMMA EpochSteps ==
  ASSUME IInv, NEW t \in Threads, ClientBegins(t) \/ Step(t)
  PROVE  CommitAlone' /\ InsideThisEpoch'
<1> USE DEF IInv, CommitAlone, InsideThisEpoch
<1>0. TypeOK /\ TurnExclusive
  BY OneTurn
\* Only the thread with the turn can enter, so none enters a closing epoch.
<1>1. CASE Enter(t)
  <2>1. Inside' = Inside \cup {t} /\ cnt_epoch' = cnt_epoch
        /\ born' = [born EXCEPT ![t] = cnt_epoch]
    BY <1>1, InsideSteps DEF Enter
  <2>2. Closing' = {}
    BY <1>0, <1>1 DEF Enter, Goto, TypeOK, Closing, ClosingLabels, TurnExclusive,
       InTurn, TurnLabels
  <2>. QED  BY <1>0, <2>1, <2>2 DEF TypeOK, Inside
\* Only the last one out starts to close the epoch.
<1>2. CASE Leave(t)
  <2>1. Inside' = Inside \ {t} /\ cnt_epoch' = cnt_epoch /\ born' = born
    BY <1>2, InsideSteps DEF Leave, history
  <2>2. CASE IsLast
    BY <1>2, <2>1, <2>2, LeaveCounted
  <2>3. CASE ~IsLast
    <3>1. Closing' = Closing
      BY <1>0, <1>2, <2>3 DEF Leave, Goto, TypeOK, Closing, ClosingLabels
    <3>. QED  BY <2>1, <3>1
  <2>. QED  BY <2>2, <2>3
\* The epoch changes when it is closing, hence with nobody inside.
<1>3. CASE NewEpoch(t)
  <2>1. Inside' = Inside /\ t \in Closing
    BY <1>3, InsideSteps DEF NewEpoch, Goto, Closing, ClosingLabels
  <2>. QED  BY <2>1
<1>4. CASE ~Enter(t) /\ ~Leave(t) /\ ~NewEpoch(t)
  <2>1. Inside' = Inside
    BY <1>4, InsideSteps DEF ClientBegins, Step, BeginStep, EndStep
  <2>2. Closing' = Closing /\ cnt_epoch' = cnt_epoch /\ born' = born
    <3> USE DEF Goto, TypeOK, Closing, ClosingLabels
    <3>1. CASE ClientBegins(t) \/ BeginStep(t) \/ CallEnd(t)
      BY <1>0, <1>4, <3>1 DEF ClientBegins, BeginStep, CallBegin, BeginTurn, TakeSlot,
         BeginNext, Refuse, Skip, SkipLoad, Retry, CallEnd, epochVars, history
    <3>2. CASE EndStep(t) \/ Commit(t)
      BY <1>0, <1>4, <3>2 DEF EndStep, EndTurn, EndNext, Reset, Park, ParkLoad, Unpark,
         Commit, epochVars, history
    <3>. QED  BY <3>1, <3>2 DEF Step
  <2>. QED  BY <2>1, <2>2
<1>. QED  BY <1>1, <1>2, <1>3, <1>4

-----------------------------------------------------------------------------
(* The invariant. *)

\* tm_create leaves the counters (tm.c:97-103) in the inductive invariant.
LEMMA InitIInv == Init => IInv
<1>. SUFFICES ASSUME Init PROVE IInv
  OBVIOUS
<1>1. Inside = {} /\ Closing = {}
  BY DEF Init, Inside, InsideLabels, Closing, ClosingLabels
<1>2. TypeOK
  <2>1. /\ BatchSize \in 0..BatchSize /\ "idle" \in Labels
        /\ -1 \in Nat \cup {-1} /\ 0 \in Int
    BY DEF Labels
  <2>2. /\ begun \in [Threads -> Nat] /\ pc \in [Threads -> Labels]
        /\ born \in [Threads -> Nat \cup {-1}]
    BY <2>1 DEF Init
  <2>. QED  BY <2>1, <2>2 DEF Init, TypeOK
<1>3. TicketsOrdered
  BY DEF Init, TicketsOrdered, Holding, InTurn, TurnLabels
<1>. QED
  BY <1>1, <1>2, <1>3, FS_EmptySet DEF Init, IInv, CountExact, CommitAlone, InsideThisEpoch

\* Every step of tm_begin and tm_end keeps the inductive invariant.
LEMMA NextIInv == IInv /\ [Next]_vars => IInv'
<1>. SUFFICES ASSUME IInv, [Next]_vars PROVE IInv'
  OBVIOUS
<1>1. CASE Next
  <2>. PICK t \in Threads : ClientBegins(t) \/ Step(t)
    BY <1>1 DEF Next
  <2>. QED
    BY TypeSteps, TicketSteps, CountSteps, EpochSteps DEF IInv
<1>2. CASE UNCHANGED vars
  BY <1>2 DEF vars, ticketVars, epochVars, localVars, history, IInv, TypeOK,
     TicketsOrdered, Holding, InTurn, CountExact, CommitAlone, InsideThisEpoch,
     Inside, Closing
<1>. QED  BY <1>1, <1>2

\* The inductive invariant holds in every reachable state.
THEOREM Invariance == Spec => []IInv
  BY InitIInv, NextIInv, PTL DEF Spec

\* Every variable has its type: no counter of the batcher drops below zero
\* (tm.c:294, tm.c:232) and res_writes never exceeds batch_size.
THEOREM TypeCorrect == Spec => []TypeOK
<1>1. IInv => TypeOK
  BY DEF IInv
<1>. QED  BY <1>1, Invariance, PTL

\* The spins of tm_begin and tm_end on next (tm.c:196, 226, 291) are a lock:
\* two threads are never both past it.
THEOREM TurnIsExclusive == Spec => []TurnExclusive
<1>1. IInv => TurnExclusive
  BY OneTurn DEF IInv
<1>. QED  BY <1>1, Invariance, PTL

\* No transaction is inside while the last one out commits and opens the next
\* epoch (tm.c:294-312), for any number of threads.
THEOREM CommitIsAlone == Spec => []CommitAlone
<1>1. IInv => CommitAlone
  BY DEF IInv
<1>. QED  BY <1>1, Invariance, PTL

\* A transaction that is inside was admitted by the epoch that is current: its
\* reads never span a commit.
THEOREM NoSnapshotSpansEpochs == Spec => []InsideThisEpoch
<1>1. IInv => InsideThisEpoch
  BY DEF IInv
<1>. QED  BY <1>1, Invariance, PTL

-----------------------------------------------------------------------------
(* Slots and is_writing follow the writers of the epoch. *)

\* The slots are compared with the cardinality of a finite set.
LEMMA AdmittedFinite ==
  /\ IsFiniteSet(Admitted) /\ Cardinality(Admitted) \in Nat
<1>1. Admitted \subseteq Threads
  BY DEF Admitted, EpochWriters
<1>. QED  BY <1>1, FS_Subset, FS_CardinalityType

\* The steps that leave the epoch, its slots and its writers alone.
LEMMA QuietSteps ==
  ASSUME SlotIInv, NEW t \in Threads,
         ClientBegins(t) \/ Step(t),
         ~TakeSlot(t), ~Enter(t), ~Leave(t), ~Reset(t), ~NewEpoch(t)
  PROVE  /\ WritersWait' /\ EpochWriters' = EpochWriters /\ Admitted' = Admitted
         /\ (Reopening' <=> Reopening) /\ UNCHANGED <<res_writes, is_writing>>
<1> USE DEF SlotIInv, IInv, TypeOK, WritersWait, InsideLabels, Goto
<1>1. ASSUME NEW ro \in BOOLEAN, CallBegin(t, ro)
      PROVE  /\ WritersWait' /\ EpochWriters' = EpochWriters /\ Admitted' = Admitted
             /\ (Reopening' <=> Reopening) /\ UNCHANGED <<res_writes, is_writing>>
  <2>1. /\ pc[t] = "idle" /\ pc' = [pc EXCEPT ![t] = "begin_spin"]
        /\ is_ro' = [is_ro EXCEPT ![t] = ro]
        /\ UNCHANGED <<cnt_epoch, res_writes, is_writing, tx, this_epoch, born>>
    BY <1>1 DEF CallBegin, epochVars
  <2>2. EpochWriters' = EpochWriters
    BY <2>1 DEF EpochWriters
  <2>3. Admitted' = Admitted
    BY <2>1, <2>2 DEF Admitted
  <2>. QED  BY <2>1, <2>2, <2>3 DEF Reopening
<1>2. CASE BeginTurn(t) \/ BeginNext(t) \/ Refuse(t) \/ Skip(t) \/ Retry(t)
  <2>1. /\ UNCHANGED <<cnt_epoch, res_writes, is_writing, is_ro, tx, this_epoch, born>>
        /\ \/ pc[t] = "begin_spin" /\ is_ro[t] /\ pc' = [pc EXCEPT ![t] = "enter"]
           \/ pc[t] = "begin_spin" /\ ~is_ro[t] /\ pc' = [pc EXCEPT ![t] = "admit"]
           \/ pc[t] = "begin_next" /\ pc' = [pc EXCEPT ![t] = "live"]
           \/ /\ pc[t] \in {"admit", "skip", "skip_spin"}
              /\ \E l \in {"skip", "skip_load", "begin_spin"} : pc' = [pc EXCEPT ![t] = l]
    BY <1>2 DEF BeginTurn, BeginNext, Refuse, Skip, Retry, epochVars, localVars, history
  <2>2. EpochWriters' = EpochWriters
    BY <2>1 DEF EpochWriters
  <2>3. Admitted' = Admitted
    BY <2>1, <2>2 DEF Admitted
  <2>4. WritersWait'
    BY <2>1
  <2>5. Reopening' <=> Reopening
    BY <2>1 DEF Reopening
  <2>. QED  BY <2>1, <2>2, <2>3, <2>4, <2>5
<1>3. CASE SkipLoad(t) \/ ParkLoad(t)
  <2>1. /\ UNCHANGED <<cnt_epoch, res_writes, is_writing, is_ro, tx, born>>
        /\ this_epoch' = [this_epoch EXCEPT ![t] = cnt_epoch]
        /\ \/ pc[t] = "skip_load" /\ pc' = [pc EXCEPT ![t] = "skip_spin"]
           \/ pc[t] = "park_load" /\ pc' = [pc EXCEPT ![t] = "park_spin"]
    BY <1>3 DEF SkipLoad, ParkLoad, epochVars, history
  <2>2. EpochWriters' = EpochWriters
    BY <2>1 DEF EpochWriters
  <2>3. Admitted' = Admitted
    BY <2>1, <2>2 DEF Admitted
  <2>4. cnt_epoch \in Nat /\ WritersWait'
    BY <2>1
  <2>. QED  BY <2>1, <2>2, <2>3, <2>4 DEF Reopening
<1>4. CASE CallEnd(t) \/ EndTurn(t) \/ EndNext(t) \/ Commit(t) \/ Park(t) \/ Unpark(t)
  <2>1. /\ UNCHANGED <<cnt_epoch, res_writes, is_writing, is_ro, tx, this_epoch, born>>
        /\ \/ pc[t] = "live" /\ pc' = [pc EXCEPT ![t] = "end_spin"]
           \/ pc[t] = "end_spin" /\ pc' = [pc EXCEPT ![t] = "leave"]
           \/ pc[t] = "end_next" /\ pc' = [pc EXCEPT ![t] = "idle"]
           \/ pc[t] = "commit" /\ pc' = [pc EXCEPT ![t] = "reset"]
           \/ pc[t] = "park" /\ pc' = [pc EXCEPT ![t] = "park_load"]
           \/ /\ pc[t] = "park_spin" /\ pc' = [pc EXCEPT ![t] = "idle"]
              /\ this_epoch[t] # cnt_epoch
    BY <1>4 DEF CallEnd, EndTurn, EndNext, Commit, Park, Unpark, epochVars, localVars, history
  <2>2. EpochWriters' = EpochWriters
    BY <2>1 DEF EpochWriters
  <2>3. Admitted' = Admitted
    BY <2>1, <2>2 DEF Admitted
  <2>4. born[t] \in Nat \cup {-1} /\ this_epoch[t] \in Nat /\ cnt_epoch \in Nat
    OBVIOUS
  <2>5. WritersWait'
    BY <2>1, <2>4
  <2>. QED  BY <2>1, <2>2, <2>3, <2>5 DEF Reopening
<1>. QED
  BY <1>1, <1>2, <1>3, <1>4 DEF ClientBegins, Step, BeginStep, EndStep

\* Each step of a thread keeps slots and writers together.
LEMMA SlotSteps ==
  ASSUME SlotIInv, NEW t \in Threads, ClientBegins(t) \/ Step(t)
  PROVE  WritersWait' /\ SlotsInv'
<1> USE DEF SlotIInv, IInv, TypeOK, WritersWait, InsideLabels, Goto
<1>0. TurnExclusive
  BY OneTurn
\* A slot is paid for the writer that takes it.
<1>1. CASE TakeSlot(t)
  <2>1. /\ pc[t] = "admit" /\ pc' = [pc EXCEPT ![t] = "enter"] /\ res_writes' = res_writes - 1
        /\ UNCHANGED <<cnt_epoch, is_writing, is_ro, tx, this_epoch, born>>
    BY <1>1 DEF TakeSlot, localVars, history
  <2>2. ~Reopening /\ ~Reopening'
    BY <1>0, <2>1 DEF Reopening, TurnExclusive, InTurn, TurnLabels
  <2>3. EpochWriters' = EpochWriters
    BY <2>1 DEF EpochWriters
  <2>4. t \notin Admitted /\ Admitted' = Admitted \cup {t}
    BY <2>1, <2>3 DEF Admitted, EpochWriters
  <2>5. Cardinality(Admitted') = Cardinality(Admitted) + 1
    BY <2>4, AdmittedFinite, FS_AddElement
  <2>6. SlotsInv'
    BY <2>1, <2>2, <2>3, <2>5, AdmittedFinite DEF SlotsInv
  <2>7. WritersWait'
    BY <2>1
  <2>. QED  BY <2>6, <2>7
\* It becomes one of the writers of the epoch, with an id that is no reader's.
<1>2. CASE Enter(t)
  <2>1. /\ pc[t] = "enter" /\ pc' = [pc EXCEPT ![t] = "begin_next"]
        /\ born' = [born EXCEPT ![t] = cnt_epoch]
        /\ tx' = [tx EXCEPT ![t] = IF is_ro[t] THEN read_only_tx ELSE cnt_thread + 1]
        /\ is_writing' = (is_writing \/ ~is_ro[t])
        /\ UNCHANGED <<cnt_epoch, res_writes, is_ro, this_epoch>>
    BY <1>2 DEF Enter
  <2>2. ~Reopening /\ ~Reopening'
    BY <1>0, <2>1 DEF Reopening, TurnExclusive, InTurn, TurnLabels
  <2>3. EpochWriters' = IF is_ro[t] THEN EpochWriters ELSE EpochWriters \cup {t}
    BY <2>1 DEF EpochWriters
  <2>4. Admitted' = Admitted
    BY <2>1, <2>3 DEF Admitted
  <2>5. is_writing' <=> EpochWriters' # {}
    <3>1. is_writing <=> EpochWriters # {}
      BY <2>2 DEF SlotsInv
    <3>2. CASE is_ro[t]
      BY <2>1, <2>3, <3>1, <3>2
    <3>3. CASE ~is_ro[t]
      BY <2>1, <2>3, <3>3
    <3>. QED  BY <3>2, <3>3
  <2>6. SlotsInv'
    BY <2>1, <2>2, <2>4, <2>5 DEF SlotsInv
  <2>7. WritersWait'
    <3>1. cnt_thread + 1 # read_only_tx /\ cnt_epoch \in Nat
      BY DEF read_only_tx
    <3>. QED  BY <2>1, <3>1
  <2>. QED  BY <2>6, <2>7
\* A writer that is the last one out finds is_writing set, by itself at least.
<1>3. CASE Leave(t)
  <2>1. /\ pc[t] = "leave"
        /\ pc' = [pc EXCEPT ![t] = IF IsLast THEN (IF is_writing THEN "commit" ELSE "end_next")
                                   ELSE IF tx[t] = read_only_tx THEN "end_next" ELSE "park"]
        /\ UNCHANGED <<cnt_epoch, res_writes, is_writing, is_ro, tx, this_epoch, born>>
    BY <1>3 DEF Leave, localVars, history
  <2>2. ~Reopening /\ ~Reopening'
    BY <1>0, <2>1 DEF Reopening, TurnExclusive, InTurn, TurnLabels
  <2>3. EpochWriters' = EpochWriters
    BY <2>1 DEF EpochWriters
  <2>4. Admitted' = Admitted
    BY <2>1, <2>3 DEF Admitted
  <2>5. ~is_ro[t] => is_writing /\ tx[t] # read_only_tx
    <3>1. t \in Inside
      BY <2>1 DEF Inside
    <3>2. ~is_ro[t] => t \in EpochWriters
      BY <2>1, <3>1 DEF InsideThisEpoch, EpochWriters
    <3>. QED  BY <2>1, <2>2, <3>2 DEF SlotsInv
  <2>6. WritersWait'
    BY <2>1, <2>5
  <2>7. SlotsInv'
    BY <2>1, <2>2, <2>3, <2>4 DEF SlotsInv
  <2>. QED  BY <2>6, <2>7
<1>4. CASE Reset(t)
  <2>1. /\ pc[t] = "reset" /\ pc' = [pc EXCEPT ![t] = "new_epoch"]
        /\ res_writes' = BatchSize /\ is_writing' = FALSE
        /\ UNCHANGED <<cnt_epoch, is_ro, tx, this_epoch, born>>
    BY <1>4 DEF Reset, localVars, history
  <2>2. Reopening'
    BY <2>1 DEF Reopening
  <2>3. WritersWait'
    BY <2>1
  <2>. QED  BY <2>1, <2>2, <2>3 DEF SlotsInv
\* The new epoch has no writer: all were born in earlier ones, none is to enter.
<1>5. CASE NewEpoch(t)
  <2>1. /\ pc[t] = "new_epoch" /\ pc' = [pc EXCEPT ![t] = "end_next"]
        /\ cnt_epoch' = cnt_epoch + 1
        /\ UNCHANGED <<res_writes, is_writing, is_ro, tx, this_epoch, born>>
    BY <1>5 DEF NewEpoch, localVars, history
  <2>2. Reopening /\ ~Reopening'
    BY <1>0, <2>1 DEF Reopening, TurnExclusive, InTurn, TurnLabels
  <2>3. cnt_epoch \in Nat /\ \A u \in Threads : born[u] \in Nat \cup {-1} /\ this_epoch[u] \in Nat
    OBVIOUS
  <2>4. \A u \in Threads : born[u] < cnt_epoch'
    BY <2>1, <2>3
  <2>5. EpochWriters' = {}
    BY <2>1, <2>3, <2>4 DEF EpochWriters
  <2>6. \A u \in Threads : pc'[u] # "enter"
    BY <1>0, <2>1 DEF TurnExclusive, InTurn, TurnLabels
  <2>7. Admitted' = {}
    BY <2>5, <2>6 DEF Admitted
  <2>8. SlotsInv'
    BY <2>1, <2>2, <2>5, <2>7, FS_EmptySet DEF SlotsInv
  <2>9. WritersWait'
    BY <2>1, <2>3, <2>4
  <2>. QED  BY <2>8, <2>9
<1>6. CASE ~TakeSlot(t) /\ ~Enter(t) /\ ~Leave(t) /\ ~Reset(t) /\ ~NewEpoch(t)
  BY <1>6, QuietSteps DEF SlotsInv
<1>. QED  BY <1>1, <1>2, <1>3, <1>4, <1>5, <1>6

\* At first all slots are free.
LEMMA InitSlotIInv == Init => SlotIInv
<1>. SUFFICES ASSUME Init PROVE SlotIInv
  OBVIOUS
<1>1. EpochWriters = {} /\ ~Reopening
  BY DEF Init, EpochWriters, Reopening
<1>2. Admitted = {}
  BY <1>1 DEF Init, Admitted
<1>3. WritersWait
  BY DEF Init, WritersWait, InsideLabels
<1>. QED  BY <1>1, <1>2, <1>3, InitIInv, FS_EmptySet DEF SlotIInv, SlotsInv, Init

\* Every step keeps the slots: one admits a writer and takes one, the last one
\* out gives all back.
LEMMA NextSlotIInv == SlotIInv /\ [Next]_vars => SlotIInv'
<1>. SUFFICES ASSUME SlotIInv, [Next]_vars PROVE SlotIInv'
  OBVIOUS
<1>1. IInv'
  BY NextIInv DEF SlotIInv
<1>2. CASE Next
  <2>. PICK t \in Threads : ClientBegins(t) \/ Step(t)
    BY <1>2 DEF Next
  <2>. QED  BY <1>1, SlotSteps DEF SlotIInv
<1>3. CASE UNCHANGED vars
  BY <1>1, <1>3 DEF vars, ticketVars, epochVars, localVars, history, SlotIInv, WritersWait,
     SlotsInv, Reopening, Admitted, EpochWriters
<1>. QED  BY <1>2, <1>3

\* Hence they are conserved along a behaviour.
LEMMA SlotInvariance == Spec => []SlotIInv
  BY InitSlotIInv, NextSlotIInv, PTL DEF Spec

\* An epoch admits batch_size writers at most, and res_writes (tm.c:229-236,
\* 308) says how many more, for any number of threads and any batch_size.
THEOREM SlotsAreConserved == Spec => []SlotsConserved
<1>1. ASSUME SlotIInv PROVE SlotsConserved
  <2>. SUFFICES ASSUME \A t \in Threads : pc[t] \notin {"enter", "new_epoch"}
                PROVE  res_writes + Cardinality(EpochWriters) = BatchSize
    BY DEF SlotsConserved
  <2>1. ~Reopening /\ Admitted = EpochWriters
    BY DEF Reopening, Admitted
  <2>. QED  BY <1>1, <2>1 DEF SlotIInv, SlotsInv
<1>. QED  BY <1>1, SlotInvariance, PTL

\* is_writing (tm.c:299) tells the last one out the truth: it commits if and
\* only if the epoch admitted a writer.
THEOREM WritingIsTrue == Spec => []WritingMeansWriters
<1>1. SlotIInv => WritingMeansWriters
  BY DEF SlotIInv, SlotsInv, Reopening, WritingMeansWriters
<1>. QED  BY <1>1, SlotInvariance, PTL

\* tm_end returns to a writer only after the commit that ended its epoch
\* (tm.c:329-332), for any number of threads and whatever else they do: the epoch
\* it waits to change, read after it has passed the turn, is its own or a later one.
THEOREM WritersReturnCommitted == Spec => ReturnsCommitted
<1>1. SlotIInv /\ [Next]_vars =>
        [\A t \in Threads : pc[t] # "idle" /\ pc'[t] = "idle" /\ ~is_ro[t] =>
           born[t] < cnt_epoch]_vars
  <2>. SUFFICES ASSUME SlotIInv, Next, NEW t \in Threads,
                       pc[t] # "idle", pc'[t] = "idle", ~is_ro[t]
                PROVE  born[t] < cnt_epoch
    BY DEF vars, ticketVars, epochVars, localVars, history
  <2>1. PICK u \in Threads : ClientBegins(u) \/ Step(u)
    BY DEF Next
  <2>2. \/ EndNext(u) /\ u = t
        \/ Unpark(u) /\ u = t
    <3>1. pc'[t] # pc[t] => t = u
      BY <2>1, PcSteps DEF SlotIInv, IInv
    <3>2. u = t /\ pc \in [Threads -> Labels]
      BY <3>1 DEF SlotIInv, IInv, TypeOK
    <3>. QED
      BY <2>1, <3>2 DEF ClientBegins, Step, BeginStep, EndStep, CallBegin, BeginTurn,
         TakeSlot, Enter, BeginNext, Refuse, Skip, SkipLoad, Retry, CallEnd, EndTurn, Leave,
         EndNext, Commit, Reset, NewEpoch, Park, ParkLoad, Unpark, Goto
  <2>3. CASE EndNext(t)
    BY <2>3 DEF EndNext, Goto, SlotIInv, WritersWait
  <2>4. CASE Unpark(t)
    <3>1. /\ born[t] <= this_epoch[t] /\ this_epoch[t] <= cnt_epoch
          /\ this_epoch[t] # cnt_epoch
      BY <2>4 DEF Unpark, Goto, SlotIInv, WritersWait
    <3>2. /\ born[t] \in Nat \cup {-1}
          /\ this_epoch[t] \in Nat /\ cnt_epoch \in Nat
      BY DEF SlotIInv, IInv, TypeOK
    <3>. QED  BY <3>1, <3>2
  <2>. QED  BY <2>2, <2>3, <2>4
<1>. QED  BY <1>1, SlotInvariance, PTL DEF Spec, ReturnsCommitted

-----------------------------------------------------------------------------
(* Without readers, the ids of an epoch of two writers differ. *)

\* The writers of the epoch are among the finitely many threads.
LEMMA WritersFinite ==
  /\ EpochWriters \subseteq Threads /\ IsFiniteSet(EpochWriters)
  /\ EpochWriters \subseteq Admitted
<1>1. EpochWriters \subseteq Threads /\ EpochWriters \subseteq Admitted
  BY DEF EpochWriters, Admitted
<1>. QED  BY <1>1, FS_Subset, ThreadsAssumption

\* Those inside are writers of the epoch, if there are no readers.
LEMMA InsideWriters == RankIInv => Inside \subseteq EpochWriters
  BY DEF RankIInv, SlotIInv, IInv, InsideThisEpoch, Inside, InsideLabels, EpochWriters

\* Who is about to enter has one other writer before it, at most.
LEMMA OneBefore ==
  ASSUME RankIInv, BatchSize = 2, NEW t \in Threads, pc[t] = "enter"
  PROVE  t \notin EpochWriters /\ \A u, v \in EpochWriters : u = v
<1>1. t \notin EpochWriters /\ t \in Admitted
  BY DEF EpochWriters, Admitted, RankIInv
<1>2. ~Reopening
  BY OneTurn DEF RankIInv, SlotIInv, IInv, TurnExclusive, InTurn, TurnLabels, Reopening
<1>3. Cardinality(Admitted) <= 2
  BY <1>2, AdmittedFinite DEF RankIInv, SlotIInv, IInv, TypeOK, SlotsInv
<1>4. ASSUME NEW u \in EpochWriters, NEW v \in EpochWriters, u # v PROVE FALSE
  <2>1. t # u /\ v \notin {t} \cup {u} /\ ({t} \cup {u}) \cup {v} \subseteq Admitted
    BY <1>1, <1>4, WritersFinite
  <2>2. IsFiniteSet({t}) /\ Cardinality({t}) = 1
    BY FS_Singleton
  <2>3. IsFiniteSet({t} \cup {u}) /\ Cardinality({t} \cup {u}) = 2
    <3>1. u \notin {t}
      BY <2>1
    <3>2. /\ IsFiniteSet({t} \cup {u})
          /\ u \notin {t} => Cardinality({t} \cup {u}) = Cardinality({t}) + 1
      BY <2>2, FS_AddElement, ZenonT(30)
    <3>. QED  BY <2>2, <3>1, <3>2
  <2>4. Cardinality(({t} \cup {u}) \cup {v}) = 3
    <3>1. v \notin {t} \cup {u} =>
            Cardinality(({t} \cup {u}) \cup {v}) = Cardinality({t} \cup {u}) + 1
      BY <2>3, FS_AddElement, ZenonT(30)
    <3>2. v \notin {t} \cup {u}
      BY <2>1
    <3>3. Cardinality(({t} \cup {u}) \cup {v}) = 2 + 1
      BY <2>3, <3>1, <3>2, ZenonT(30)
    <3>. QED  BY <3>3
  <2>5. Cardinality(({t} \cup {u}) \cup {v}) <= Cardinality(Admitted)
    BY <2>1, AdmittedFinite, FS_Subset
  <2>. QED  BY <1>3, <2>4, <2>5, AdmittedFinite
<1>. QED  BY <1>1, <1>4

\* The steps that change ids, or who is inside, or which writers the epoch has.
LEMMA RankSteps ==
  ASSUME RankIInv, SlotIInv', Readers = {}, BatchSize = 2,
         NEW t \in Threads, ClientBegins(t) \/ Step(t)
  PROVE  RankIInv'
<1>1. \A u \in Threads : ~is_ro'[u]
  BY DEF RankIInv, SlotIInv, IInv, TypeOK, ClientBegins, Step, BeginStep, EndStep, CallBegin,
     BeginTurn, TakeSlot, Enter, BeginNext, Refuse, Skip, SkipLoad, Retry, CallEnd, EndTurn,
     Leave, EndNext, Commit, Reset, NewEpoch, Park, ParkLoad, Unpark, localVars
\* The first one gets 1; the second finds the first inside, and gets 2.
<1>2. CASE Enter(t)
  <2>1. /\ pc[t] = "enter" /\ pc' = [pc EXCEPT ![t] = "begin_next"]
        /\ born' = [born EXCEPT ![t] = cnt_epoch]
        /\ tx' = [tx EXCEPT ![t] = cnt_thread + 1]
        /\ UNCHANGED <<cnt_epoch, is_ro>>
    BY <1>2 DEF Enter, Goto, RankIInv, SlotIInv, IInv, TypeOK
  <2>2. t \notin EpochWriters /\ \A u, v \in EpochWriters : u = v
    BY <2>1, OneBefore
  <2>3. EpochWriters' = EpochWriters \cup {t}
    BY <2>1 DEF EpochWriters, RankIInv, SlotIInv, IInv, TypeOK
  <2>4. Closing = {}
    BY <2>1, OneTurn DEF RankIInv, SlotIInv, IInv, TurnExclusive, InTurn, TurnLabels,
       Closing, ClosingLabels
  <2>5. tx \in [Threads -> Int] /\ pc \in [Threads -> Labels]
    BY DEF RankIInv, SlotIInv, IInv, TypeOK
  <2>6. CASE EpochWriters = {}
    <3>1. Inside = {} /\ cnt_thread = 0
      BY <2>6, InsideWriters, FS_EmptySet DEF RankIInv, SlotIInv, IInv, CountExact
    <3>2. EpochWriters' = {t} /\ tx'[t] = 1 /\ t \in Inside'
      BY <2>1, <2>3, <2>5, <2>6, <3>1 DEF Inside, InsideLabels
    <3>. QED  BY <1>1, <3>2 DEF RankIInv, FirstIsInside, UniqueIds, SmallIds
  <2>7. ASSUME NEW u \in EpochWriters PROVE RankIInv'
    <3>1. EpochWriters = {u}
      BY <2>2, <2>7
    <3>2. u \in Inside /\ tx[u] = 1
      BY <2>4, <3>1 DEF RankIInv, FirstIsInside
    <3>3. Inside = {u} /\ cnt_thread = 1
      <4>1. Inside = {u}
        BY <3>1, <3>2, InsideWriters
      <4>. QED  BY <4>1, FS_Singleton DEF RankIInv, SlotIInv, IInv, CountExact
    <3>4. EpochWriters' = {u, t} /\ u # t /\ u \in Threads
      BY <2>2, <2>3, <3>1, WritersFinite
    <3>5. tx'[u] = 1 /\ tx'[t] = 2
      BY <2>1, <2>5, <3>2, <3>3, <3>4
    <3>. QED  BY <1>1, <3>4, <3>5 DEF RankIInv, FirstIsInside, UniqueIds, SmallIds
  <2>. QED  BY <2>6, <2>7
\* A writer that is alone in the epoch closes it when it leaves.
<1>3. CASE Leave(t)
  <2>1. /\ pc[t] = "leave"
        /\ pc' = [pc EXCEPT ![t] = IF IsLast THEN (IF is_writing THEN "commit" ELSE "end_next")
                                   ELSE IF tx[t] = read_only_tx THEN "end_next" ELSE "park"]
        /\ UNCHANGED <<cnt_epoch, is_writing, is_ro, tx, born>>
    BY <1>3 DEF Leave, Goto, localVars, history
  <2>2. EpochWriters' = EpochWriters
    BY <2>1 DEF EpochWriters, RankIInv, SlotIInv, IInv, TypeOK
  <2>3. UniqueIds' /\ SmallIds'
    BY <2>1, <2>2 DEF UniqueIds, SmallIds, RankIInv
  <2>4. t \in Inside /\ Inside' = Inside \ {t}
    BY <1>3, InsideSteps DEF RankIInv, SlotIInv, IInv
  <2>5. ~Reopening /\ Closing = {}
    BY <2>1, OneTurn DEF RankIInv, SlotIInv, IInv, TurnExclusive, InTurn, TurnLabels,
       Reopening, Closing, ClosingLabels
  <2>6. is_writing
    BY <2>4, <2>5, InsideWriters DEF RankIInv, SlotIInv, SlotsInv
  <2>7. CASE IsLast
    <3>1. t \in Closing'
      BY <2>1, <2>6, <2>7 DEF Closing, ClosingLabels, RankIInv, SlotIInv, IInv, TypeOK
    <3>. QED  BY <1>1, <2>3, <3>1 DEF RankIInv, FirstIsInside
  <2>8. CASE ~IsLast
    <3>1. Inside # {t}
      BY <2>8, FS_Singleton DEF IsLast, RankIInv, SlotIInv, IInv, CountExact
    <3>2. \A u : EpochWriters # {u}
      BY <2>4, <3>1, InsideWriters
    <3>. QED  BY <1>1, <2>2, <2>3, <3>2 DEF RankIInv, FirstIsInside
  <2>. QED  BY <2>7, <2>8
<1>4. CASE NewEpoch(t)
  <2>1. /\ pc[t] = "new_epoch" /\ cnt_epoch' = cnt_epoch + 1 /\ UNCHANGED born
    BY <1>4 DEF NewEpoch, Goto, history
  <2>2. \A u \in Threads : born[u] # cnt_epoch'
    BY <2>1 DEF RankIInv, SlotIInv, IInv, TypeOK, WritersWait
  <2>3. EpochWriters' = {}
    BY <2>1, <2>2 DEF EpochWriters
  <2>. QED  BY <1>1, <2>3 DEF RankIInv, FirstIsInside, UniqueIds, SmallIds
<1>5. CASE ~Enter(t) /\ ~Leave(t) /\ ~NewEpoch(t)
  <2>1. EpochWriters' = EpochWriters
    <3>1. CASE TakeSlot(t) \/ Reset(t)
      BY <3>1 DEF TakeSlot, Reset, Goto, localVars, history, EpochWriters,
         RankIInv, SlotIInv, IInv, TypeOK
    <3>2. CASE ~TakeSlot(t) /\ ~Reset(t)
      BY <1>5, <3>2, QuietSteps DEF RankIInv
    <3>. QED  BY <3>1, <3>2
  <2>2. UNCHANGED tx
    BY <1>5 DEF ClientBegins, Step, BeginStep, EndStep, CallBegin, BeginTurn, TakeSlot,
       BeginNext, Refuse, Skip, SkipLoad, Retry, CallEnd, EndTurn, EndNext, Commit, Reset,
       Park, ParkLoad, Unpark, localVars
  <2>3. Inside' = Inside
    BY <1>5, InsideSteps DEF ClientBegins, Step, BeginStep, EndStep, RankIInv, SlotIInv, IInv
  <2>4. Closing' = Closing
    BY <1>5 DEF ClientBegins, Step, BeginStep, EndStep, CallBegin, BeginTurn, TakeSlot,
       BeginNext, Refuse, Skip, SkipLoad, Retry, CallEnd, EndTurn, EndNext, Commit, Reset,
       Park, ParkLoad, Unpark, Goto, Closing, ClosingLabels, RankIInv, SlotIInv, IInv, TypeOK
  <2>. QED  BY <1>1, <2>1, <2>2, <2>3, <2>4 DEF RankIInv, FirstIsInside, UniqueIds, SmallIds
<1>. QED  BY <1>2, <1>3, <1>4, <1>5

\* Every step keeps ids ranks, when nobody begins a reader.
LEMMA RankInvariance ==
  ASSUME Readers = {}, BatchSize = 2
  PROVE  Spec => []RankIInv
<1>1. Init => RankIInv
  <2>. SUFFICES ASSUME Init PROVE RankIInv
    OBVIOUS
  <2>1. EpochWriters = {} /\ \A t \in Threads : ~is_ro[t]
    BY DEF Init, EpochWriters
  <2>. QED  BY <2>1, InitSlotIInv DEF RankIInv, FirstIsInside, UniqueIds, SmallIds
<1>2. RankIInv /\ [Next]_vars => RankIInv'
  <2>. SUFFICES ASSUME RankIInv, [Next]_vars PROVE RankIInv'
    OBVIOUS
  <2>1. SlotIInv'
    BY NextSlotIInv DEF RankIInv
  <2>2. CASE Next
    <3>. PICK t \in Threads : ClientBegins(t) \/ Step(t)
      BY <2>2 DEF Next
    <3>. QED  BY <2>1, RankSteps
  <2>3. CASE UNCHANGED vars
    BY <2>1, <2>3 DEF vars, ticketVars, epochVars, localVars, history, RankIInv,
       FirstIsInside, UniqueIds, SmallIds, Closing, Inside, EpochWriters
  <2>. QED  BY <2>2, <2>3
<1>. QED  BY <1>1, <1>2, PTL DEF Spec

\* No two writers of an epoch have the same id (tm.c:247), for any number of
\* threads, when nobody begins a reader and an epoch admits the two writers of
\* the code's batch_size; lost_update shows that a reader is enough to break it.
THEOREM IdsAreUnique ==
  ASSUME Readers = {}, BatchSize = 2
  PROVE  Spec => []UniqueIds
<1>1. RankIInv => UniqueIds
  BY DEF RankIInv
<1>. QED  BY <1>1, RankInvariance, PTL
=============================================================================
