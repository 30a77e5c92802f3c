---------------------------- MODULE SegmentProofs ----------------------------
(***************************************************************************)
(* Theorems about SegmentList, for any threads and segments: the list is   *)
(* used under the batcher as Batcher models it, its variables keep their   *)
(* types, and two transactions never both free a segment.  While one       *)
(* thread allocates at most, the list keeps its shape (ListInv) and loses  *)
(* no segment (HeapInv).                                                   *)
(***************************************************************************)
EXTENDS SegmentList, BatcherProofs

USE ThreadsAssumption, BoundsAssumption, CharAssumption, SegmentsAssumption

-----------------------------------------------------------------------------
(* The list implements the batcher. *)

\* No call touches the counters or moves a thread.
LEMMA ListLeavesBatcher ==
  ASSUME NEW t \in Threads, ListStep(t)
  PROVE  UNCHANGED vars
  BY DEF ListStep, Call, Alloc, Link, Publish, Free, Delete, Fail, UndoHead, UndoSeg,
     CommitHead, CommitSeg, CommitNext

\* A step of the list is a step of the batcher, or leaves it alone.
LEMMA SegStepIsBatcherStep == [SegNext]_segVars => [Next]_vars
<1>. SUFFICES ASSUME [SegNext]_segVars PROVE [Next]_vars
  OBVIOUS
<1>1. CASE UNCHANGED segVars
  BY <1>1 DEF segVars
<1>2. CASE SegNext
  <2>1. PICK t \in Threads : SegStep(t)
    BY <1>2 DEF SegNext
  <2>2. CASE ListStep(t)
    BY <2>2, ListLeavesBatcher
  <2>3. CASE ~ListStep(t)
    <3>1. ClientBegins(t) \/ Step(t)
      BY <2>1, <2>3 DEF SegStep, SegBegin, SegEnd, SegCommit, Step
    <3>. QED  BY <3>1 DEF Next
  <2>. QED  BY <2>2, <2>3
<1>. QED  BY <1>1, <1>2

\* tm_alloc, tm_free and what Undo and the commit do to the list use the batcher
\* only through tm_end: every theorem about Batcher holds of the list.
THEOREM SegmentsImplementBatcher == SegSpec => Spec
  BY SegStepIsBatcherStep, PTL DEF SegSpec, Spec, SegInit

-----------------------------------------------------------------------------
(* Types *)

Calls == [op : SegOps, at : Pointers]

FieldTypes ==
  /\ allocs \in Pointers
  /\ live \in [Segs -> BOOLEAN]
  /\ creator \in [Segs -> Chars] /\ to_delete \in [Segs -> BOOLEAN]
  /\ next_seg \in [Segs -> Pointers] /\ previous \in [Segs -> Pointers]

ListTypes ==
  /\ FieldTypes
  /\ call \in [Threads -> Calls]
  /\ ops \in [Threads -> Nat]
  /\ heap \subseteq Segs
  /\ made \in [Threads -> SUBSET Segs]
  /\ gone \in [Threads -> SUBSET Segs]

\* A call that needs a segment is at one, and one that has none is at none.
AtSegment == {"link", "publish", "delete", "commit_next", "fault"}
AtNone == {"none", "undo_head"}
CallsAtSegments ==
  \A t \in Threads :
    /\ call[t].op \in AtSegment => call[t].at \in Segs
    /\ call[t].op \in AtNone => call[t].at = NULL

\* A conversion to char yields a char.
LEMMA IdIsChar == \A n \in Int : ToChar(n) \in Chars
<1>. SUFFICES ASSUME NEW n \in Int PROVE ToChar(n) \in Chars
  OBVIOUS
<1>1. n % CharRange \in 0..(CharRange - 1)
  OBVIOUS
<1>. QED  BY <1>1 DEF ToChar, Chars

\* The mark of a free segment fits in a char.
LEMMA NobodyIsChar == it_is_free \in Chars
  BY DEF it_is_free, Chars

\* A call of the list keeps the types of the calls.
LEMMA CallSteps ==
  ASSUME ListTypes, CallsAtSegments, NEW t \in Threads,
         NEW op \in SegOps, NEW s \in Pointers, SetCall(t, op, s),
         op \in AtSegment => s \in Segs, op \in AtNone => s = NULL
  PROVE  call' \in [Threads -> Calls] /\ CallsAtSegments'
<1>1. call' = [call EXCEPT ![t] = [op |-> op, at |-> s]] /\ [op |-> op, at |-> s] \in Calls
  BY DEF SetCall, Calls
<1>. QED  BY <1>1 DEF ListTypes, CallsAtSegments, AtSegment, AtNone

\* Each step of a call keeps the types.
LEMMA ListTypeSteps ==
  ASSUME TypeOK, ListTypes, CallsAtSegments, NEW t \in Threads, ListStep(t)
  PROVE  ListTypes' /\ CallsAtSegments'
<1> USE DEF ListTypes, FieldTypes, promiseVars, listVars, fields, AtSegment, AtNone
<1>0. /\ \A c \in Calls : c.at \in Pointers
      /\ \A s \in Pointers : s # NULL => s \in Segs
      /\ \A s \in Segs : s \in Pointers
      /\ NULL \in Pointers
      /\ ToChar(tx[t]) \in Chars
  BY IdIsChar DEF Calls, Pointers, TypeOK
<1>1. CASE Alloc(t)
  <2>1. ops' \in [Threads -> Nat] /\ UNCHANGED <<allocs, promiseVars>>
    BY <1>1 DEF Alloc, Call
  <2>2. CASE UNCHANGED <<live, fields, call>>
    BY <2>1, <2>2 DEF CallsAtSegments
  <2>3. CASE ~UNCHANGED <<live, fields, call>>
    <3>1. PICK s \in Segs :
            /\ live' = [live EXCEPT ![s] = TRUE]
            /\ creator' = [creator EXCEPT ![s] = ToChar(tx[t])]
            /\ to_delete' = [to_delete EXCEPT ![s] = FALSE]
            /\ next_seg' = [next_seg EXCEPT ![s] = allocs]
            /\ previous' = [previous EXCEPT ![s] = NULL]
            /\ SetCall(t, "link", s)
      BY <1>1, <2>3 DEF Alloc
    <3>2. call' \in [Threads -> Calls] /\ CallsAtSegments'
      BY <1>0, <3>1, CallSteps DEF SegOps
    <3>. QED  BY <1>0, <2>1, <3>1, <3>2
  <2>. QED  BY <2>2, <2>3
<1>2. CASE Link(t)
  <2>1. call[t].at \in Segs
    BY <1>2 DEF Link, At, CallsAtSegments
  <2>2. call' \in [Threads -> Calls] /\ CallsAtSegments'
    BY <1>0, <1>2, <2>1, CallSteps DEF Link, SegOps
  <2>3. previous' \in [Segs -> Pointers]
    BY <1>0, <1>2, <2>1 DEF Link
  <2>. QED  BY <1>2, <2>2, <2>3 DEF Link
<1>3. CASE Publish(t)
  <2>1. call[t].at \in Segs
    BY <1>3 DEF Publish, At, CallsAtSegments
  <2>2. call' \in [Threads -> Calls] /\ CallsAtSegments'
    BY <1>0, <1>3, CallSteps DEF Publish, SegOps
  <2>. QED  BY <1>0, <1>3, <2>1, <2>2 DEF Publish
<1>4. ASSUME NEW s \in Segs, Free(t, s)
      PROVE  ListTypes' /\ CallsAtSegments'
  <2>1. ops' \in [Threads -> Nat] /\ UNCHANGED <<allocs, live, to_delete, next_seg, previous>>
    BY <1>4 DEF Free, Call
  <2>2. creator' \in [Segs -> Chars]
    BY <1>0, <1>4 DEF Free
  <2>3. SetCall(t, "delete", s) \/ SetCall(t, "undo_head", NULL)
    BY <1>4 DEF Free, StartUndo
  <2>4. call' \in [Threads -> Calls] /\ CallsAtSegments'
    BY <1>0, <2>3, CallSteps DEF SegOps
  <2>5. /\ heap' = heap /\ made' \in [Threads -> SUBSET Segs]
        /\ gone' \in [Threads -> SUBSET Segs]
    BY <1>4 DEF Free, StartUndo
  <2>. QED  BY <2>1, <2>2, <2>4, <2>5
<1>5. CASE Delete(t)
  <2>1. call[t].at \in Segs
    BY <1>5 DEF Delete, At, CallsAtSegments
  <2>2. call' \in [Threads -> Calls] /\ CallsAtSegments'
    BY <1>0, <1>5, CallSteps DEF Delete, SegOps
  <2>. QED  BY <1>5, <2>1, <2>2 DEF Delete
<1>6. CASE Fail(t)
  <2>1. call' \in [Threads -> Calls] /\ CallsAtSegments'
    BY <1>0, <1>6, CallSteps DEF Fail, StartUndo, SegOps
  <2>2. ops' \in [Threads -> Nat] /\ UNCHANGED listVars
    BY <1>6 DEF Fail, Call
  <2>3. heap' = heap /\ made' \in [Threads -> SUBSET Segs] /\ gone' \in [Threads -> SUBSET Segs]
    BY <1>6 DEF Fail, StartUndo
  <2>. QED  BY <2>1, <2>2, <2>3
<1>7. CASE UndoHead(t)
  <2>1. call' \in [Threads -> Calls] /\ CallsAtSegments'
    BY <1>7, CallSteps DEF UndoHead, SegOps
  <2>. QED  BY <1>7, <2>1 DEF UndoHead
<1>8. CASE UndoSeg(t)
  <2>1. call[t].at \in Segs
    BY <1>0, <1>8 DEF UndoSeg
  <2>2. call' \in [Threads -> Calls] /\ CallsAtSegments'
    BY <1>0, <1>8, <2>1, CallSteps DEF UndoSeg, SegOps
  <2>3. to_delete' \in [Segs -> BOOLEAN]
    BY <1>8, <2>1 DEF UndoSeg
  <2>. QED  BY <1>8, <2>2, <2>3 DEF UndoSeg
<1>9. CASE CommitHead(t)
  <2>1. call' \in [Threads -> Calls] /\ CallsAtSegments'
    BY <1>9, CallSteps DEF CommitHead, SegOps
  <2>. QED  BY <1>9, <2>1 DEF CommitHead
<1>10. CASE CommitSeg(t)
  <2>1. call[t].at \in Segs
    BY <1>0, <1>10 DEF CommitSeg
  <2>2. FieldTypes'
    <3>1. CASE Reclaim(call[t].at)
      BY <1>0, <2>1, <3>1 DEF Reclaim
    <3>2. CASE Keep(call[t].at)
      BY <2>1, <3>2, NobodyIsChar DEF Keep
    <3>. QED  BY <1>10, <3>1, <3>2 DEF CommitSeg
  <2>3. call' \in [Threads -> Calls] /\ CallsAtSegments'
    BY <1>0, <1>10, <2>1, CallSteps DEF CommitSeg, SegOps
  <2>. QED  BY <1>10, <2>2, <2>3 DEF CommitSeg
<1>11. CASE CommitNext(t)
  <2>1. call[t].at \in Segs
    BY <1>11 DEF CommitNext, CallsAtSegments
  <2>2. call' \in [Threads -> Calls] /\ CallsAtSegments'
    <3>1. CASE SetCall(t, "commit", next_seg[call[t].at])
      BY <1>0, <2>1, <3>1, CallSteps DEF SegOps
    <3>2. CASE SetCall(t, "fault", call[t].at)
      BY <1>0, <2>1, <3>2, CallSteps DEF SegOps
    <3>. QED  BY <1>11, <3>1, <3>2 DEF CommitNext
  <2>. QED  BY <1>11, <2>2 DEF CommitNext
<1>. QED
  BY <1>1, <1>2, <1>3, <1>4, <1>5, <1>6, <1>7, <1>8, <1>9, <1>10, <1>11 DEF ListStep

-----------------------------------------------------------------------------
(* Two transactions never both free a segment: the invariant. *)

\* With more threads than a char has values the id of a transaction may be
\* marked as nobody's.
FewThreads == Cardinality(Threads) < CharRange

\* The segments a transaction has freed, or is about to.
Claims(t) == gone[t] \cup (IF call[t].op = "delete" THEN {call[t].at} ELSE {})

CallsAreLive ==
  \A t \in Threads :
    call[t].op \in {"link", "publish", "delete", "undo_head", "undo"} => pc[t] = "live"

\* The id of a writer is its rank, so there are no more of them than threads.
WriterIds ==
  \A t \in Inside : ~is_ro[t] => tx[t] \in 1..Cardinality(Threads)

\* What a transaction claims has a creator, until the commit of its epoch.
ClaimsMarked ==
  Closing = {} => \A t \in Threads : \A s \in Claims(t) : creator[s] # it_is_free

ClaimsDisjoint ==
  \A t, u \in Threads : t # u => Claims(t) \cap Claims(u) = {}

\* The commit has ended every claim before the next epoch opens.
NoClaimsAfterCommit ==
  \A t, u \in Threads : pc[t] \in {"reset", "new_epoch"} => gone[u] = {}

ClaimsInv ==
  /\ CallsAreLive /\ WriterIds
  /\ ClaimsMarked /\ ClaimsDisjoint /\ NoClaimsAfterCommit

SegTypes == IInv /\ ListTypes /\ CallsAtSegments

SegInv ==
  /\ IInv /\ ListTypes /\ CallsAtSegments
  /\ ClaimsInv

\* With few threads no id is marked as nobody's.
LEMMA IdIsMark ==
  ASSUME FewThreads, NEW n \in 1..Cardinality(Threads)
  PROVE  ToChar(n) # it_is_free
<1>1. Cardinality(Threads) \in Nat
  BY FS_CardinalityType
<1>2. n \in Nat /\ 0 < n /\ n < CharRange
  BY <1>1 DEF FewThreads
<1>3. n % CharRange = n
  BY <1>2
<1>. QED  BY <1>2, <1>3 DEF ToChar, it_is_free

\* A call moves nobody, and leaves the other transactions' claims alone.
LEMMA ListIsLocal ==
  ASSUME ListTypes, NEW t \in Threads, ListStep(t)
  PROVE  /\ UNCHANGED <<pc, is_ro, tx>> /\ Inside' = Inside /\ Closing' = Closing
         /\ \A u \in Threads \ {t} : call'[u] = call[u] /\ Claims(u)' = Claims(u)
         /\ call'[t].op \in {"link", "publish", "delete", "undo_head", "undo"} => pc[t] = "live"
<1> USE DEF ListTypes, promiseVars, SetCall, StartUndo, At, Call
<1>1. UNCHANGED <<pc, is_ro, tx>>
  BY ListLeavesBatcher DEF vars, localVars
<1>2. Inside' = Inside /\ Closing' = Closing
  BY <1>1 DEF Inside, Closing
<1>3. CASE Alloc(t)
  BY <1>1, <1>2, <1>3 DEF Alloc, Claims
<1>4. CASE Link(t) \/ Publish(t) \/ Delete(t)
  BY <1>1, <1>2, <1>4 DEF Link, Publish, Delete, Claims
<1>5. ASSUME NEW s \in Segs, Free(t, s)
      PROVE  /\ \A u \in Threads \ {t} : call'[u] = call[u] /\ Claims(u)' = Claims(u)
             /\ pc[t] = "live"
  BY <1>5 DEF Free, Claims
<1>6. CASE Fail(t) \/ UndoHead(t) \/ UndoSeg(t)
  BY <1>1, <1>2, <1>6 DEF Fail, UndoHead, UndoSeg, Claims
<1>7. CASE CommitHead(t) \/ CommitSeg(t) \/ CommitNext(t)
  BY <1>1, <1>2, <1>7 DEF CommitHead, CommitSeg, CommitNext, Claims
<1>. QED  BY <1>1, <1>2, <1>3, <1>4, <1>5, <1>6, <1>7 DEF ListStep

\* While nobody commits, tm_alloc and tm_free are the only ones to touch
\* creator, and they leave an id in it.
LEMMA NewCreators ==
  ASSUME FewThreads, IInv, ListTypes, WriterIds, NEW t \in Threads, ListStep(t), Closing = {}
  PROVE  \A s \in Segs : creator'[s] # creator[s] => creator'[s] # it_is_free
<1> USE DEF ListTypes, FieldTypes, fields, listVars
<1>1. CASE Alloc(t)
  <2>1. UNCHANGED creator \/ \E s \in Segs : creator' = [creator EXCEPT ![s] = ToChar(tx[t])]
    BY <1>1 DEF Alloc
  <2>2. ToChar(tx[t]) # it_is_free
    BY <1>1, IdIsMark DEF Alloc, Call, At, WriterIds, Inside, InsideLabels
  <2>. QED  BY <2>1, <2>2
<1>2. ASSUME NEW r \in Segs, Free(t, r)
      PROVE  \A s \in Segs : creator'[s] # creator[s] => creator'[s] # it_is_free
  <2>1. UNCHANGED creator \/ creator' = [creator EXCEPT ![r] = ToChar(tx[t])]
    BY <1>2 DEF Free
  <2>2. ToChar(tx[t]) # it_is_free
    BY <1>2, IdIsMark DEF Free, Call, At, WriterIds, Inside, InsideLabels
  <2>. QED  BY <2>1, <2>2
<1>3. CASE Link(t) \/ Publish(t) \/ Delete(t)
  BY <1>3 DEF Link, Publish, Delete
<1>4. CASE Fail(t) \/ UndoHead(t) \/ UndoSeg(t)
  BY <1>4 DEF Fail, UndoHead, UndoSeg
<1>5. CASE CommitHead(t) \/ CommitSeg(t) \/ CommitNext(t)
  <2>1. pc[t] = "commit"
    BY <1>5 DEF CommitHead, CommitSeg, CommitNext
  <2>. QED  BY <2>1 DEF Closing, ClosingLabels
<1>. QED  BY <1>1, <1>2, <1>3, <1>4, <1>5 DEF ListStep

\* A live transaction claims a segment that has no creator, and is it now.
NewClaim(t, s) ==
  /\ pc[t] = "live"
  /\ creator[s] = it_is_free /\ creator'[s] # it_is_free
  /\ Claims(t)' \subseteq Claims(t) \cup {s}

\* Only tm_free makes a claim.
LEMMA NewClaims ==
  ASSUME FewThreads, ListTypes, WriterIds, NEW t \in Threads, ListStep(t)
  PROVE  Claims(t)' \subseteq Claims(t) \/ \E s \in Segs : NewClaim(t, s)
<1> USE DEF ListTypes, promiseVars, SetCall, StartUndo, At, Claims
<1>1. CASE Alloc(t)
  BY <1>1 DEF Alloc
<1>2. CASE Link(t) \/ Publish(t)
  BY <1>2 DEF Link, Publish
<1>3. CASE Delete(t)
  BY <1>3 DEF Delete
<1>4. ASSUME NEW s \in Segs, Free(t, s)
      PROVE  Claims(t)' \subseteq Claims(t) \/ NewClaim(t, s)
  <2>1. ToChar(tx[t]) # it_is_free /\ pc[t] = "live"
    BY <1>4, IdIsMark DEF Free, Call, WriterIds, Inside, InsideLabels
  <2>2. CASE Found(s) /\ creator[s] = it_is_free
    <3>1. creator'[s] # it_is_free
      BY <1>4, <2>1, <2>2 DEF Free, FieldTypes
    <3>2. Claims(t)' \subseteq Claims(t) \cup {s}
      BY <1>4, <2>2 DEF Free
    <3>. QED  BY <2>1, <2>2, <3>1, <3>2 DEF NewClaim
  <2>3. CASE ~(Found(s) /\ creator[s] = it_is_free)
    BY <1>4, <2>3 DEF Free
  <2>. QED  BY <2>2, <2>3
<1>5. CASE Fail(t) \/ UndoHead(t) \/ UndoSeg(t)
  BY <1>5 DEF Fail, UndoHead, UndoSeg
<1>6. CASE CommitHead(t) \/ CommitSeg(t) \/ CommitNext(t)
  BY <1>6 DEF CommitHead, CommitSeg, CommitNext
<1> HIDE DEF Claims
<1>. QED  BY <1>1, <1>2, <1>3, <1>4, <1>5, <1>6 DEF ListStep

\* tm_alloc, tm_free, Undo and the commit's walk keep the invariant.
LEMMA ListKeeps ==
  ASSUME FewThreads, SegInv, NEW t \in Threads, ListStep(t)
  PROVE  ClaimsInv'
<1> USE DEF SegInv, ClaimsInv
<1>1. /\ UNCHANGED <<pc, is_ro, tx>> /\ Inside' = Inside /\ Closing' = Closing
      /\ \A u \in Threads \ {t} : call'[u] = call[u] /\ Claims(u)' = Claims(u)
      /\ call'[t].op \in {"link", "publish", "delete", "undo_head", "undo"} => pc[t] = "live"
  BY ListIsLocal
<1>2. CallsAreLive' /\ WriterIds'
  BY <1>1 DEF CallsAreLive, WriterIds
<1>3. \A u \in Threads : Claims(u) \subseteq Segs
  BY DEF Claims, ListTypes, CallsAtSegments, AtSegment
<1>4. ClaimsMarked'
  <2>. SUFFICES ASSUME Closing = {}, NEW u \in Threads, NEW s \in Claims(u)'
                PROVE  creator'[s] # it_is_free
    BY <1>1 DEF ClaimsMarked
  <2>1. CASE s \in Claims(u)
    BY <1>3, <2>1, NewCreators DEF ClaimsMarked
  <2>2. CASE s \notin Claims(u)
    <3>1. PICK r \in Segs : NewClaim(t, r)
      BY <1>1, <2>2, NewClaims
    <3>. QED  BY <1>1, <2>2, <3>1 DEF NewClaim
  <2>. QED  BY <2>1, <2>2
<1>5. ClaimsDisjoint'
  <2>1. CASE Claims(t)' \subseteq Claims(t)
    BY <1>1, <2>1 DEF ClaimsDisjoint
  <2>2. CASE \E s \in Segs : NewClaim(t, s)
    <3>1. PICK s \in Segs : NewClaim(t, s)
      BY <2>2
    <3>2. Closing = {}
      BY <3>1 DEF NewClaim, IInv, CommitAlone, Inside, InsideLabels
    <3>3. \A u \in Threads : s \notin Claims(u)
      BY <3>1, <3>2 DEF ClaimsMarked, NewClaim
    <3>. QED  BY <1>1, <3>1, <3>3 DEF ClaimsDisjoint, NewClaim
  <2>. QED  BY <2>1, <2>2, NewClaims
<1>6. NoClaimsAfterCommit'
  <2>. SUFFICES ASSUME NEW u \in Threads, pc[u] \in {"reset", "new_epoch"}
                PROVE  \A v \in Threads : gone'[v] = {}
    BY <1>1 DEF NoClaimsAfterCommit
  <2>1. \A v \in Threads : gone[v] = {} /\ Claims(v) = {}
    <3>1. Inside = {}
      BY DEF IInv, CommitAlone, Closing, ClosingLabels
    <3>. QED  BY <3>1 DEF NoClaimsAfterCommit, Claims, CallsAreLive, Inside, InsideLabels
  <2>2. pc[t] # "live"
    BY DEF IInv, CommitAlone, Closing, ClosingLabels, Inside, InsideLabels
  <2>3. Claims(t)' \subseteq Claims(t)
    BY <2>2, NewClaims DEF NewClaim
  <2>4. gone'[t] = {} /\ \A v \in Threads \ {t} : gone'[v] = {}
    BY <1>1, <2>1, <2>3 DEF Claims
  <2>. QED  BY <2>4
<1>. QED  BY <1>2, <1>4, <1>5, <1>6

\* The steps of the batcher make no claim, and a commit has ended them all
\* before the next epoch opens.
LEMMA BatcherKeeps ==
  ASSUME SegInv, NEW t \in Threads, BeginStep(t) \/ EndStep(t),
         UNCHANGED <<listVars, call, ops, promiseVars>>
  PROVE  ClaimsInv'
<1> USE DEF SegInv, ClaimsInv
<1>1. /\ UNCHANGED <<creator, call, gone, is_ro>>
      /\ pc \in [Threads -> Labels] /\ tx \in [Threads -> Int] /\ cnt_thread \in Nat
  BY DEF listVars, fields, promiseVars, BeginStep, EndStep, BeginTurn, TakeSlot, Enter,
     BeginNext, Refuse, Skip, SkipLoad, Retry, EndTurn, Leave, EndNext, Reset, NewEpoch, Park,
     ParkLoad, Unpark, localVars, IInv, TypeOK
<1>2. /\ pc[t] \notin {"live", "commit"} /\ \A u \in Threads \ {t} : pc'[u] = pc[u]
      /\ pc'[t] = "reset" => FALSE
      /\ pc'[t] = "new_epoch" => pc[t] = "reset"
      /\ pc[t] \in ClosingLabels => pc'[t] \in ClosingLabels \/ pc[t] = "new_epoch"
  BY <1>1 DEF BeginStep, EndStep, BeginTurn, TakeSlot, Enter, BeginNext, Refuse, Skip,
     SkipLoad, Retry, EndTurn, Leave, EndNext, Reset, NewEpoch, Park, ParkLoad, Unpark, Goto,
     ClosingLabels
<1>3. \A u \in Threads : Claims(u)' = Claims(u)
  BY <1>1 DEF Claims
<1>4. CallsAreLive' /\ ClaimsDisjoint' /\ NoClaimsAfterCommit'
  BY <1>1, <1>2, <1>3 DEF CallsAreLive, ClaimsDisjoint, NoClaimsAfterCommit
<1>5. ClaimsMarked'
  <2>. SUFFICES ASSUME Closing' = {}, NEW u \in Threads, NEW s \in Claims(u)
                PROVE  creator[s] # it_is_free
    BY <1>1, <1>3 DEF ClaimsMarked
  <2>1. CASE Closing = {}
    BY <2>1 DEF ClaimsMarked
  <2>2. CASE Closing # {}
    <3>1. pc[t] = "new_epoch" /\ Inside = {}
      BY <1>2, <2>2 DEF Closing, IInv, CommitAlone
    <3>. QED  BY <3>1 DEF NoClaimsAfterCommit, Claims, CallsAreLive, Inside, InsideLabels
  <2>. QED  BY <2>1, <2>2
<1>6. WriterIds'
  <2>1. CASE Enter(t)
    <3>1. t \notin Inside /\ Inside' = Inside \cup {t}
      BY <2>1, InsideSteps DEF IInv
    <3>2. cnt_thread + 1 \in 1..Cardinality(Threads)
      <4>1. Inside \subseteq Threads \ {t}
        BY <3>1 DEF Inside
      <4>2. IsFiniteSet(Threads \ {t}) /\ Cardinality(Threads \ {t}) = Cardinality(Threads) - 1
        BY FS_RemoveElement
      <4>3. Cardinality(Inside) <= Cardinality(Threads \ {t})
        BY <4>1, <4>2, FS_Subset
      <4>. QED  BY <1>1, <4>2, <4>3, FS_CardinalityType DEF IInv, CountExact
    <3>. QED  BY <1>1, <2>1, <3>1, <3>2 DEF Enter, WriterIds, Inside
  <2>2. CASE ~Enter(t)
    <3>1. tx' = tx
      BY <2>2 DEF BeginStep, EndStep, BeginTurn, TakeSlot, BeginNext, Refuse, Skip, SkipLoad,
         Retry, EndTurn, Leave, EndNext, Reset, NewEpoch, Park, ParkLoad, Unpark, localVars
    <3>2. Inside' \subseteq Inside
      BY <2>2, InsideSteps DEF BeginStep, EndStep, IInv
    <3>. QED  BY <1>1, <3>1, <3>2 DEF WriterIds
  <2>. QED  BY <2>1, <2>2
<1>. QED  BY <1>4, <1>5, <1>6

\* A transaction begins and ends with no call under way.
LEMMA BeginEndKeep ==
  ASSUME SegInv, NEW t \in Threads, SegBegin(t) \/ SegEnd(t)
  PROVE  ClaimsInv'
<1> USE DEF SegInv, ClaimsInv
<1>1. /\ UNCHANGED <<creator, gone, tx>>
      /\ \/ pc[t] = "idle" /\ pc' = [pc EXCEPT ![t] = "begin_spin"] /\ call' = call
            /\ \A u \in Threads \ {t} : is_ro'[u] = is_ro[u]
         \/ /\ pc[t] = "live" /\ pc' = [pc EXCEPT ![t] = "end_spin"] /\ is_ro' = is_ro
            /\ call[t].op # "delete" /\ call' = [call EXCEPT ![t] = [op |-> "none", at |-> NULL]]
  BY DEF SegBegin, SegEnd, ClientBegins, CallBegin, CallEnd, Goto, SetCall, At, listVars,
     fields, promiseVars, localVars, IInv, TypeOK
<1>2. Inside' = Inside /\ Closing' = Closing
  BY <1>1 DEF Inside, InsideLabels, Closing, ClosingLabels, IInv, TypeOK
<1>3. \A u \in Threads : Claims(u)' = Claims(u)
  BY <1>1 DEF Claims, ListTypes
<1>4. CallsAreLive' /\ NoClaimsAfterCommit'
  BY <1>1 DEF CallsAreLive, NoClaimsAfterCommit, ListTypes, IInv, TypeOK
<1>5. WriterIds'
  BY <1>1, <1>2 DEF WriterIds, Inside, InsideLabels, IInv, TypeOK
<1>6. ClaimsMarked' /\ ClaimsDisjoint'
  BY <1>1, <1>2, <1>3 DEF ClaimsMarked, ClaimsDisjoint
<1>. QED  BY <1>4, <1>5, <1>6

\* The end of the commit ends every claim.
LEMMA CommitKeeps ==
  ASSUME SegInv, NEW t \in Threads, SegCommit(t)
  PROVE  ClaimsInv'
<1> USE DEF SegInv, ClaimsInv
<1>1. /\ UNCHANGED <<is_ro, tx>> /\ gone' = [u \in Threads |-> {}]
      /\ pc[t] = "commit" /\ pc' = [pc EXCEPT ![t] = "reset"]
      /\ call' = [call EXCEPT ![t] = [op |-> "none", at |-> NULL]]
  BY DEF SegCommit, Commit, Goto, SetCall, localVars
<1>2. Inside = {} /\ Inside' = {} /\ t \in Closing'
  BY <1>1 DEF IInv, TypeOK, CommitAlone, Inside, InsideLabels, Closing, ClosingLabels
<1>3. CallsAreLive' /\ WriterIds' /\ NoClaimsAfterCommit' /\ ClaimsMarked'
  BY <1>1, <1>2 DEF CallsAreLive, WriterIds, NoClaimsAfterCommit, ClaimsMarked, ListTypes,
     IInv, TypeOK
<1>4. \A u \in Threads : Claims(u)' = {}
  BY <1>1, <1>2 DEF Claims, ListTypes, CallsAreLive, Inside, InsideLabels
<1>5. ClaimsDisjoint'
  BY <1>4 DEF ClaimsDisjoint
<1>. QED  BY <1>3, <1>5

-----------------------------------------------------------------------------
(* The theorems. *)

\* The region tm_create makes satisfies the invariant.
LEMMA SegInitInv == SegInit => SegTypes /\ SegInv
<1>. SUFFICES ASSUME SegInit PROVE SegInv
  BY DEF SegInv, SegTypes
<1>1. IInv
  BY InitIInv DEF SegInit
<1>2. Idle \in Calls /\ Idle.op = "none" /\ Idle.at = NULL /\ NULL \in Pointers
  BY DEF Idle, Calls, SegOps, Pointers
<1>3. ListTypes /\ CallsAtSegments
  BY <1>2, NobodyIsChar DEF SegInit, ListTypes, FieldTypes, CallsAtSegments, AtSegment, AtNone
<1>4. Inside = {} /\ \A t \in Threads : Claims(t) = {} /\ gone[t] = {}
  BY <1>2 DEF SegInit, Init, Inside, InsideLabels, Claims
<1>5. ClaimsInv
  BY <1>2, <1>4 DEF SegInit, ClaimsInv, CallsAreLive, WriterIds, ClaimsMarked, ClaimsDisjoint,
     NoClaimsAfterCommit
<1>. QED  BY <1>1, <1>3, <1>5 DEF SegInv

\* Every step keeps the types.
LEMMA SegNextTypes == SegTypes /\ [SegNext]_segVars => SegTypes'
<1>. SUFFICES ASSUME SegTypes, [SegNext]_segVars PROVE SegTypes'
  OBVIOUS
<1> USE DEF SegTypes
<1>1. IInv'
  BY SegStepIsBatcherStep, NextIInv
<1>2. CASE UNCHANGED segVars
  BY <1>1, <1>2 DEF segVars, listVars, fields, promiseVars, ListTypes, FieldTypes, CallsAtSegments
<1>3. CASE SegNext
  <2>. PICK t \in Threads : SegStep(t)
    BY <1>3 DEF SegNext
  <2>0. [op |-> "none", at |-> NULL] \in Calls /\ MaxOps[t] \in Nat
    BY SegmentsAssumption DEF Calls, SegOps, Pointers
  <2>1. CASE ListStep(t)
    BY <1>1, <2>1, ListTypeSteps DEF IInv
  <2>2. CASE SegBegin(t) \/ SegEnd(t)
    BY <1>1, <2>0, <2>2 DEF SegBegin, SegEnd, SetCall, ListTypes, FieldTypes, CallsAtSegments,
       AtSegment, AtNone, listVars, fields, promiseVars
  <2>3. CASE SegCommit(t)
    <3>1. heap' \subseteq Segs
      BY <2>3 DEF SegCommit, ListTypes
    <3>. QED
      BY <1>1, <2>0, <2>3, <3>1 DEF SegCommit, SetCall, ListTypes, FieldTypes, CallsAtSegments,
         AtSegment, AtNone, listVars, fields
  <2>4. CASE (BeginStep(t) \/ EndStep(t)) /\ UNCHANGED <<listVars, call, ops, promiseVars>>
    BY <1>1, <2>4 DEF ListTypes, FieldTypes, CallsAtSegments, listVars, fields, promiseVars
  <2>. QED  BY <2>1, <2>2, <2>3, <2>4 DEF SegStep
<1>. QED  BY <1>2, <1>3

\* Every step keeps the invariant.
LEMMA SegNextInv ==
  ASSUME FewThreads
  PROVE  SegInv /\ [SegNext]_segVars => SegInv'
<1>. SUFFICES ASSUME SegInv, [SegNext]_segVars PROVE ClaimsInv'
  BY SegNextTypes DEF SegInv, SegTypes
<1>1. CASE UNCHANGED segVars
  BY <1>1 DEF segVars, vars, listVars, fields, promiseVars, localVars, SegInv, ClaimsInv,
     CallsAreLive, WriterIds, ClaimsMarked, ClaimsDisjoint, NoClaimsAfterCommit, Claims,
     Inside, Closing
<1>2. CASE SegNext
  BY <1>2, ListKeeps, BeginEndKeep, CommitKeeps, BatcherKeeps DEF SegNext, SegStep
<1>. QED  BY <1>1, <1>2

\* The list, the marks and the calls keep their types, whatever the threads do to
\* the list at once: a mark is a char and a link an address or NULL.
THEOREM SegmentsTyped == SegSpec => []SegTypeOK
<1>1. SegTypes => SegTypeOK
  BY DEF SegTypes, SegTypeOK, IInv, ListTypes, FieldTypes, Calls
<1>. QED  BY <1>1, SegInitInv, SegNextTypes, PTL DEF SegSpec

\* With fewer threads than a char has values (ids are ranks in cnt_thread, and
\* tm_free marks a segment with one, tm.c:578-585), no two transactions of an
\* epoch free the same segment, even where the ids of writers collide and where
\* tm_alloc has damaged the list.
THEOREM FreedOnce ==
  ASSUME FewThreads
  PROVE  SegSpec => []OneFreer
<1>1. SegInv => OneFreer
  BY DEF SegInv, ClaimsInv, ClaimsDisjoint, Claims, OneFreer
<1>. QED  BY <1>1, SegInitInv, SegNextInv, PTL DEF SegSpec

-----------------------------------------------------------------------------
(* The shape of the list, when one thread allocates: the invariants. *)

\* With two allocators both may take the same head (alloc_race).
OneAllocator == \A t, u \in Allocators : t = u

\* Every link of the list is doubled, and nothing in the list is before its head.
ListShape ==
  /\ ListedAreLive
  /\ \A s \in Listed : next_seg[s] # NULL => previous[next_seg[s]] = s
  /\ allocs # NULL => previous[allocs] \notin Listed

\* A segment that tm_alloc has not published yet is ready to be the head.
Linking(t) == call[t].op \in {"link", "publish"}
NewSegments ==
  \A t \in Threads : Linking(t) =>
    LET s == call[t].at
    IN  /\ t \in Allocators /\ pc[t] = "live" /\ ~is_ro[t]
        /\ live[s] /\ s \notin Listed
        /\ next_seg[s] = allocs /\ previous[s] = NULL
        /\ creator[s] = ToChar(tx[t]) /\ ~to_delete[s]

\* The head has no previous, or the segment that is about to be published.
HeadLinked ==
  allocs # NULL =>
    /\ \A t \in Threads : call[t].op = "publish" => previous[allocs] = call[t].at
    /\ (\A t \in Threads : call[t].op # "publish") => previous[allocs] = NULL

NothingUnlisted ==
  \A s \in Segs : live[s] => s \in Listed \/ \E t \in Threads : Linking(t) /\ call[t].at = s

\* Where the walk of the commit is to go on from.
Committing == {"commit", "commit_next", "fault"}
Ahead(c) == IF c.op = "commit" THEN c.at ELSE next_seg[c.at]

\* A walk, or a tm_free between its two stores, is at a segment of the list; the
\* commit may be past one that it has taken out of it.
CallsInList ==
  \A t \in Threads :
    /\ call[t].op = "undo" => call[t].at \in Listed \cup {NULL}
    /\ call[t].op = "delete" => call[t].at \in Listed
    /\ call[t].op \in Committing => Ahead(call[t]) \in Listed \cup {NULL}
    /\ call[t].op \in {"commit_next", "fault"} =>
         IF live[call[t].at] THEN call[t].at \in Listed
         ELSE to_delete[call[t].at] /\ call[t].at \notin Listed

CallsInPlace ==
  \A t \in Threads :
    /\ call[t].op \in {"link", "publish", "delete", "undo_head", "undo"} =>
         pc[t] = "live" /\ ~is_ro[t]
    /\ call[t].op \in Committing => pc[t] = "commit"

\* What a commit has passed has no creator and stays.
Passed(s) == creator[s] = it_is_free /\ ~to_delete[s]
CommitPassed ==
  \A t \in Threads :
    /\ call[t].op \in Committing =>
         \A s \in Listed \ WalkFrom(next_seg, Ahead(call[t])) : Passed(s)
    /\ pc[t] \in {"reset", "new_epoch"} => \A s \in Listed : Passed(s)

ListInv ==
  /\ ListShape /\ NewSegments /\ HeadLinked /\ NothingUnlisted
  /\ CallsInList /\ CallsInPlace /\ CommitPassed /\ CreatorsAreCurrent

-----------------------------------------------------------------------------
(* What the list has to do with the promise to clients: the invariants. *)

\* Marks tell the writers of an epoch apart, and from nobody.
IdsTell ==
  /\ UniqueIds
  /\ \A t \in EpochWriters : ToChar(tx[t]) = tx[t] /\ tx[t] # it_is_free

\* A transaction that frees calls nothing else: it could fail after it
\* (abort_frees).
FreersCallOnce == \A t \in Freers : MaxOps[t] <= 1

Undoing(t) == call[t].op \in {"undo_head", "undo"}
Freeing(t, s) == s \in gone[t] \/ (call[t].op = "delete" /\ call[t].at = s)

\* Undo has yet to pass the segment.
UndoComes(t, s) ==
  \/ call[t].op = "undo_head"
  \/ call[t].op = "undo" /\ s \in WalkFrom(next_seg, call[t].at)

\* A transaction has made and freed nothing before its epoch and once it fails;
\* if it frees, it has no call left.
HistoryInPlace ==
  \A t \in Threads :
    /\ made[t] \cup gone[t] # {} => t \in EpochWriters
    /\ Undoing(t) => made[t] = {} /\ gone[t] = {}
    /\ ops[t] <= MaxOps[t]
    /\ gone[t] # {} \/ call[t].op = "delete" => t \in Freers /\ ops[t] = 0

\* While an epoch is under way: what committed transactions left is in the list;
\* the rest of the list its transactions have made, and they keep it, or it is to
\* be deleted, or Undo will come to it; ...
HeapListed == heap \subseteq Listed
NewAreTheirs ==
  \A s \in Listed \ heap : \E t \in EpochWriters :
    creator[s] = tx[t] /\ (s \in made[t] \/ to_delete[s] \/ UndoComes(t, s))
MadeStay ==
  \A t \in Threads : \A s \in made[t] :
    s \in Listed \ heap /\ creator[s] = tx[t] /\ ~to_delete[s]

\* ... and what they free was there before, with the marks that tell so.
FreedAreMarked ==
  \A t \in Threads, s \in Segs : Freeing(t, s) => s \in heap /\ creator[s] = tx[t]
GoneAreDeleted == \A t \in Threads : \A s \in gone[t] : to_delete[s]
MarkedAreFreed ==
  \A s \in heap : creator[s] # it_is_free => \E t \in Threads : Freeing(t, s)
DeletedAreGone ==
  \A s \in heap : to_delete[s] => \E t \in Threads : s \in gone[t]

EpochHeap ==
  /\ HeapListed /\ NewAreTheirs /\ MadeStay
  /\ FreedAreMarked /\ GoneAreDeleted /\ MarkedAreFreed /\ DeletedAreGone

\* What the epoch leaves allocated; a commit keeps it.
Kept == (heap \cup UNION {made[t] : t \in Threads}) \ UNION {gone[t] : t \in Threads}
CommitHeap == {s \in Listed : ~to_delete[s]} = Kept
DoneHeap == Listed = heap /\ \A t \in Threads : made[t] = {} /\ gone[t] = {}

HeapInv ==
  /\ HistoryInPlace
  /\ Closing = {} => EpochHeap
  /\ \A t \in Threads : pc[t] = "commit" => CommitHeap
  /\ \A t \in Threads : pc[t] \in {"reset", "new_epoch"} => DoneHeap

-----------------------------------------------------------------------------
(* Walks *)

\* A walk meets segments: its first one, and with each the next.
LEMMA WalkCloses ==
  ASSUME NEW link \in [Segs -> Pointers], NEW p \in Pointers
  PROVE  WalkFrom(link, p) \subseteq Segs /\ HasWalk(link, p, WalkFrom(link, p))
  BY DEF WalkFrom, HasWalk, Pointers

\* It meets no others.
LEMMA WalkLeast ==
  ASSUME NEW link, NEW p, NEW X \in SUBSET Segs, HasWalk(link, p, X)
  PROVE  WalkFrom(link, p) \subseteq X
  BY DEF WalkFrom

\* Nothing is met from NULL.
LEMMA WalkNull == \A link : WalkFrom(link, NULL) = {}
<1>. SUFFICES ASSUME NEW link PROVE WalkFrom(link, NULL) = {}
  OBVIOUS
<1>1. HasWalk(link, NULL, {})
  BY DEF HasWalk
<1>. QED  BY <1>1, WalkLeast

\* From what a walk meets it meets no more.
LEMMA WalkWithin ==
  ASSUME NEW link \in [Segs -> Pointers], NEW p \in Pointers,
         NEW q \in WalkFrom(link, p) \cup {NULL}
  PROVE  WalkFrom(link, q) \subseteq WalkFrom(link, p)
<1>1. HasWalk(link, q, WalkFrom(link, p))
  BY WalkCloses DEF HasWalk
<1>. QED  BY <1>1, WalkCloses, WalkLeast

\* A walk from a segment meets it, and then what one from the next meets.
LEMMA WalkStep ==
  ASSUME NEW link \in [Segs -> Pointers], NEW s \in Segs
  PROVE  WalkFrom(link, s) = {s} \cup WalkFrom(link, link[s])
<1>0. s \in Pointers /\ s # NULL /\ link[s] \in Pointers
  BY SegmentsAssumption DEF Pointers
<1>1. s \in WalkFrom(link, s) /\ link[s] \in WalkFrom(link, s) \cup {NULL}
  BY <1>0, WalkCloses DEF HasWalk
<1>2. WalkFrom(link, link[s]) \subseteq WalkFrom(link, s)
  BY <1>0, <1>1, WalkWithin
<1>3. HasWalk(link, s, {s} \cup WalkFrom(link, link[s]))
  BY <1>0, WalkCloses DEF HasWalk
<1>4. WalkFrom(link, s) \subseteq {s} \cup WalkFrom(link, link[s])
  BY <1>0, <1>3, WalkCloses, WalkLeast
<1>. QED  BY <1>1, <1>2, <1>4

\* Each segment but the first is the next one of another.
LEMMA WalkBefore ==
  ASSUME NEW link \in [Segs -> Pointers], NEW p \in Pointers,
         NEW s \in WalkFrom(link, p), s # p
  PROVE  \E r \in WalkFrom(link, p) : r # s /\ link[r] = s
<1>. SUFFICES ASSUME \A r \in WalkFrom(link, p) : r # s => link[r] # s PROVE FALSE
  OBVIOUS
<1>1. HasWalk(link, p, WalkFrom(link, p) \ {s})
  BY WalkCloses DEF HasWalk
<1>. QED  BY <1>1, WalkCloses, WalkLeast

\* Links of segments that are not met do not matter.
LEMMA WalkSame ==
  ASSUME NEW link \in [Segs -> Pointers], NEW other \in [Segs -> Pointers],
         NEW p \in Pointers, \A s \in WalkFrom(link, p) : other[s] = link[s]
  PROVE  WalkFrom(other, p) = WalkFrom(link, p)
<1>1. WalkFrom(other, p) \subseteq WalkFrom(link, p)
  <2>1. HasWalk(other, p, WalkFrom(link, p))
    BY WalkCloses DEF HasWalk
  <2>. QED  BY <2>1, WalkCloses, WalkLeast
<1>2. WalkFrom(link, p) \subseteq WalkFrom(other, p)
  <2>1. HasWalk(link, p, WalkFrom(link, p) \cap WalkFrom(other, p))
    BY WalkCloses DEF HasWalk
  <2>. QED  BY <2>1, WalkCloses, WalkLeast
<1>. QED  BY <1>1, <1>2

\* The head of a doubled list is taken off it.
LEMMA HeadTaken ==
  ASSUME NEW link \in [Segs -> Pointers], NEW back \in [Segs -> Pointers], NEW h \in Segs,
         \A s \in WalkFrom(link, h) : link[s] # NULL => back[link[s]] = s,
         back[h] \notin WalkFrom(link, h)
  PROVE  WalkFrom(link, link[h]) = WalkFrom(link, h) \ {h}
<1>1. h \in Pointers /\ link[h] \in Pointers /\ h # NULL
  BY SegmentsAssumption DEF Pointers
<1>2. WalkFrom(link, h) = {h} \cup WalkFrom(link, link[h])
  BY WalkStep
<1>3. \A s \in WalkFrom(link, h) : link[s] # h
  BY <1>1
<1>4. HasWalk(link, link[h], WalkFrom(link, h) \ {h})
  BY <1>1, <1>2, <1>3, WalkCloses DEF HasWalk
<1>5. WalkFrom(link, link[h]) \subseteq WalkFrom(link, h) \ {h}
  BY <1>1, <1>4, WalkCloses, WalkLeast
<1>. QED  BY <1>2, <1>5

\* Another segment of a doubled list is taken out of it.
LEMMA InnerTaken ==
  ASSUME NEW link \in [Segs -> Pointers], NEW back \in [Segs -> Pointers], NEW h \in Segs,
         \A s \in WalkFrom(link, h) : link[s] # NULL => back[link[s]] = s,
         back[h] = NULL,
         NEW s \in WalkFrom(link, h), s # h
  PROVE  LET p == back[s]
             other == [link EXCEPT ![p] = link[s]]
         IN  /\ p \in WalkFrom(link, h) /\ p # s /\ link[p] = s /\ link[s] # s
             /\ WalkFrom(other, h) = WalkFrom(link, h) \ {s}
             /\ WalkFrom(link, s) \subseteq {s} \cup WalkFrom(other, link[s])
<1> DEFINE p == back[s]
           L == WalkFrom(link, h)
           other == [link EXCEPT ![p] = link[s]]
<1>0. h \in Pointers /\ h # NULL /\ L \subseteq Segs /\ HasWalk(link, h, L) /\ s # NULL
  BY WalkCloses, SegmentsAssumption DEF Pointers
<1>1. p \in L /\ p # s /\ link[p] = s
  <2>1. PICK r \in L : r # s /\ link[r] = s
    BY <1>0, WalkBefore
  <2>. QED  BY <1>0, <2>1
<1>2. link[s] # s /\ \A r \in L : link[r] = s => r = p
  BY <1>0, <1>1
<1>3. /\ other \in [Segs -> Pointers] /\ other[p] = link[s] /\ s \in Segs /\ link[s] \in Pointers
      /\ \A r \in Segs \ {p} : other[r] = link[r]
  BY <1>0, <1>1
<1>4. WalkFrom(other, h) \subseteq L \ {s}
  <2>1. HasWalk(other, h, L \ {s})
    BY <1>0, <1>1, <1>2, <1>3 DEF HasWalk
  <2>. QED  BY <1>0, <2>1, WalkLeast
<1> DEFINE M == WalkFrom(other, h)
<1>5. M \subseteq Segs /\ HasWalk(other, h, M)
  BY <1>0, <1>3, WalkCloses
<1>6. p \in M
  <2>. SUFFICES ASSUME p \notin M PROVE FALSE
    OBVIOUS
  <2>1. HasWalk(link, h, M)
    BY <1>3, <1>5 DEF HasWalk
  <2>. QED  BY <1>1, <1>5, <2>1, WalkLeast
<1>7. L \subseteq M \cup {s}
  <2>1. HasWalk(link, h, M \cup {s})
    BY <1>1, <1>3, <1>5, <1>6 DEF HasWalk
  <2>2. M \cup {s} \in SUBSET Segs
    BY <1>3, <1>5
  <2>. QED  BY <2>1, <2>2, WalkLeast
<1>8. WalkFrom(link, s) \subseteq {s} \cup WalkFrom(other, link[s])
  <2>1. /\ WalkFrom(other, link[s]) \subseteq Segs
        /\ HasWalk(other, link[s], WalkFrom(other, link[s]))
    BY <1>3, WalkCloses
  <2>2. HasWalk(link, s, {s} \cup WalkFrom(other, link[s]))
    BY <1>1, <1>3, <2>1 DEF HasWalk
  <2>3. {s} \cup WalkFrom(other, link[s]) \in SUBSET Segs
    BY <1>3, <2>1
  <2>. QED  BY <2>2, <2>3, WalkLeast
<1>. QED  BY <1>1, <1>2, <1>4, <1>7, <1>8

-----------------------------------------------------------------------------
(* Each step keeps the shape of the list. *)

ShapeInv == SegTypes /\ SlotIInv /\ ListInv

\* A call moves nobody.
LEMMA ListStays ==
  ASSUME NEW t \in Threads, ListStep(t)
  PROVE  /\ UNCHANGED <<pc, is_ro, tx, vars>>
         /\ EpochWriters' = EpochWriters /\ Closing' = Closing
<1>1. UNCHANGED vars
  BY ListLeavesBatcher
<1>. QED  BY <1>1 DEF vars, epochVars, localVars, history, EpochWriters, Closing

\* While a transaction is live nobody commits, and it is its epoch's if it writes.
LEMMA LiveWriter ==
  ASSUME ShapeInv, NEW t \in Threads, pc[t] = "live", ~is_ro[t]
  PROVE  /\ t \in EpochWriters /\ Closing = {}
         /\ \A u \in Threads : call[u].op \notin Committing /\ pc[u] \notin {"commit", "reset", "new_epoch"}
<1>1. t \in Inside
  BY DEF Inside, InsideLabels
<1>2. t \in EpochWriters /\ Closing = {}
  BY <1>1 DEF ShapeInv, SlotIInv, IInv, InsideThisEpoch, CommitAlone, EpochWriters
<1>. QED  BY <1>2 DEF ShapeInv, ListInv, CallsInPlace, Closing, ClosingLabels

\* The thread that commits is alone with the list.
LEMMA AloneInCommit ==
  ASSUME ShapeInv, NEW t \in Threads, pc[t] \in ClosingLabels
  PROVE  /\ \A u \in Threads : pc[u] # "live" /\ call[u].op \in {"none"} \cup Committing
         /\ \A u \in Threads \ {t} : pc[u] \notin ClosingLabels /\ call[u].op = "none"
<1>1. Inside = {}
  BY DEF ShapeInv, SlotIInv, IInv, CommitAlone, Closing
<1>2. \A u \in Threads : pc[u] # "live"
  BY <1>1 DEF Inside, InsideLabels
<1>3. \A u \in Threads : call[u].op \in SegOps
  BY DEF ShapeInv, SegTypes, ListTypes, Calls
<1>4. \A u \in Threads : call[u].op \in {"none"} \cup Committing
  BY <1>2, <1>3 DEF ShapeInv, ListInv, CallsInPlace, SegOps, Committing
<1>5. \A u \in Threads \ {t} : pc[u] \notin ClosingLabels
  BY OneTurn DEF ShapeInv, SlotIInv, IInv, TurnExclusive, InTurn, TurnLabels, ClosingLabels
<1>. QED  BY <1>2, <1>4, <1>5 DEF ShapeInv, ListInv, CallsInPlace, ClosingLabels

\* The list is made of segments, closed under next.
LEMMA ListCloses ==
  ASSUME SegTypes
  PROVE  /\ Listed \subseteq Segs /\ next_seg \in [Segs -> Pointers] /\ allocs \in Pointers
         /\ allocs # NULL => allocs \in Listed
         /\ \A s \in Listed : next_seg[s] # NULL => next_seg[s] \in Listed
         /\ NULL \notin Segs /\ \A p \in Pointers : p # NULL => p \in Segs
<1>1. allocs \in Pointers /\ next_seg \in [Segs -> Pointers]
  BY DEF SegTypes, ListTypes, FieldTypes
<1>. QED  BY <1>1, WalkCloses, SegmentsAssumption DEF Listed, HasWalk, Pointers

\* A call of a live transaction that is not about a new segment: it marks
\* segments of the list only, with its own id.
LEMMA CallShape ==
  ASSUME ShapeInv, NEW t \in Threads, ListStep(t), pc[t] = "live", ~is_ro[t],
         NEW c, call' = [call EXCEPT ![t] = c], ~Linking(t),
         c.op \in {"none", "delete", "undo_head", "undo"},
         c.op = "delete" => c.at \in Listed,
         c.op = "undo" => c.at \in Listed \cup {NULL},
         UNCHANGED <<allocs, live, next_seg, previous>>,
         \A s \in Segs : creator'[s] = creator[s] \/ (s \in Listed /\ creator'[s] = ToChar(tx[t])),
         \A s \in Segs : to_delete'[s] = to_delete[s] \/ s \in Listed
  PROVE  ListInv'
<1> USE DEF ShapeInv, ListInv
<1>1. /\ UNCHANGED <<pc, is_ro, tx>> /\ EpochWriters' = EpochWriters
      /\ t \in EpochWriters
      /\ \A u \in Threads : call[u].op \notin Committing /\ pc[u] \notin {"reset", "new_epoch"}
  BY ListStays, LiveWriter
<1>2. /\ Listed' = Listed /\ Listed \subseteq Segs
      /\ \A u \in Threads \ {t} : call'[u] = call[u]
      /\ call'[t] = c
      /\ \A u \in Threads : Linking(u)' <=> Linking(u)
  BY ListCloses DEF Listed, SegTypes, ListTypes, Linking
<1>3. ListShape'
  BY <1>2 DEF ListShape, ListedAreLive
<1>4. NewSegments'
  <2>. SUFFICES ASSUME NEW u \in Threads, Linking(u)
                PROVE  LET s == call[u].at
                       IN  /\ creator'[s] = creator[s] /\ to_delete'[s] = to_delete[s]
                           /\ call'[u] = call[u]
    BY <1>1, <1>2 DEF NewSegments
  <2>1. call[u].at \in Segs /\ call[u].at \notin Listed /\ u # t
    BY DEF NewSegments, SegTypes, CallsAtSegments, AtSegment, Linking
  <2>. QED  BY <1>2, <2>1
<1>5. HeadLinked' /\ NothingUnlisted'
  BY <1>2 DEF HeadLinked, NothingUnlisted, Linking
<1>6. CallsInList' /\ CallsInPlace' /\ CommitPassed'
  BY <1>1, <1>2 DEF CallsInList, CallsInPlace, CommitPassed, Committing
<1>7. CreatorsAreCurrent'
  BY <1>1, <1>2 DEF CreatorsAreCurrent
<1>. QED  BY <1>3, <1>4, <1>5, <1>6, <1>7

\* tm_alloc: a new segment takes the head of the list as its next.
LEMMA AllocShape ==
  ASSUME OneAllocator, ShapeInv, NEW t \in Threads, Alloc(t)
  PROVE  ListInv' /\ Listed' = Listed
<1> USE DEF ShapeInv, ListInv
<1>0. ListStep(t) /\ pc[t] = "live" /\ ~is_ro[t] /\ call[t].op = "none" /\ t \in Allocators
  BY DEF ListStep, Alloc, Call, At
<1>1. /\ UNCHANGED <<pc, is_ro, tx>> /\ EpochWriters' = EpochWriters
      /\ t \in EpochWriters
      /\ \A u \in Threads : call[u].op \notin Committing /\ pc[u] \notin {"reset", "new_epoch"}
  BY <1>0, ListStays, LiveWriter
<1>2. \A u \in Threads : ~Linking(u)
  BY <1>0 DEF OneAllocator, NewSegments, Linking
<1>3. CASE UNCHANGED <<live, fields, call>>
  <2>1. UNCHANGED <<allocs, live, creator, to_delete, next_seg, previous>> /\ call' = call
    BY <1>3 DEF Alloc, fields
  <2>2. Listed' = Listed
    BY <2>1 DEF Listed
  <2>3. ListShape' /\ HeadLinked' /\ NothingUnlisted' /\ CallsInList' /\ CreatorsAreCurrent'
    BY <1>1, <2>1, <2>2 DEF ListShape, ListedAreLive, HeadLinked, NothingUnlisted, CallsInList,
       CreatorsAreCurrent, Linking, Committing
  <2>. QED
    BY <1>1, <1>2, <2>1, <2>2, <2>3 DEF NewSegments, CallsInPlace, CommitPassed, Linking
<1>4. CASE ~UNCHANGED <<live, fields, call>>
  <2>1. PICK s \in Segs :
          /\ ~live[s]
          /\ live' = [live EXCEPT ![s] = TRUE]
          /\ creator' = [creator EXCEPT ![s] = ToChar(tx[t])]
          /\ to_delete' = [to_delete EXCEPT ![s] = FALSE]
          /\ next_seg' = [next_seg EXCEPT ![s] = allocs]
          /\ previous' = [previous EXCEPT ![s] = NULL]
          /\ call' = [call EXCEPT ![t] = [op |-> "link", at |-> s]]
          /\ allocs' = allocs
    BY <1>4 DEF Alloc, SetCall
  <2>2. s \notin Listed /\ s # allocs
    BY <2>1, ListCloses DEF ListShape, ListedAreLive
  <2>3. /\ next_seg \in [Segs -> Pointers] /\ previous \in [Segs -> Pointers]
        /\ live \in [Segs -> BOOLEAN] /\ creator \in [Segs -> Chars]
        /\ to_delete \in [Segs -> BOOLEAN] /\ call \in [Threads -> Calls]
        /\ allocs \in Pointers /\ Listed \subseteq Segs
        /\ next_seg' \in [Segs -> Pointers]
    BY <2>1, ListCloses DEF SegTypes, ListTypes, FieldTypes
  <2>4. Listed' = Listed
    <3>1. \A r \in WalkFrom(next_seg, allocs) : next_seg'[r] = next_seg[r]
      BY <2>1, <2>2, <2>3 DEF Listed
    <3>2. WalkFrom(next_seg', allocs) = WalkFrom(next_seg, allocs)
      BY <2>3, <3>1, WalkSame
    <3>. QED  BY <2>1, <3>2 DEF Listed
  <2>5. /\ \A u \in Threads \ {t} : call'[u] = call[u]
        /\ call'[t].op = "link" /\ call'[t].at = s
    BY <2>1, <2>3
  <2>6. ListShape'
    BY <2>1, <2>2, <2>3, <2>4, ListCloses DEF ListShape, ListedAreLive
  <2>7. NewSegments'
    BY <1>0, <1>1, <1>2, <2>1, <2>2, <2>3, <2>4, <2>5 DEF NewSegments, Linking
  <2>8. HeadLinked'
    BY <1>2, <2>1, <2>2, <2>3, <2>5, ListCloses DEF HeadLinked, Linking
  <2>9. NothingUnlisted'
    BY <1>2, <2>1, <2>3, <2>4, <2>5 DEF NothingUnlisted, Linking
  <2>10. CallsInList' /\ CallsInPlace' /\ CommitPassed'
    BY <1>0, <1>1, <2>4, <2>5 DEF CallsInList, CallsInPlace, CommitPassed, Committing
  <2>11. CreatorsAreCurrent'
    BY <1>1, <2>1, <2>2, <2>3, <2>4 DEF CreatorsAreCurrent
  <2>. QED  BY <2>4, <2>6, <2>7, <2>8, <2>9, <2>10, <2>11
<1>. QED  BY <1>3, <1>4

\* ... which points back to it, ...
LEMMA LinkShape ==
  ASSUME OneAllocator, ShapeInv, NEW t \in Threads, Link(t)
  PROVE  ListInv' /\ Listed' = Listed
<1> USE DEF ShapeInv, ListInv
<1> DEFINE s == call[t].at
<1>0. ListStep(t) /\ pc[t] = "live" /\ call[t].op = "link" /\ s \in Segs
  BY DEF ListStep, Link, At, SegTypes, CallsAtSegments, AtSegment
<1>1. /\ t \in Allocators /\ ~is_ro[t] /\ live[s] /\ s \notin Listed
      /\ next_seg[s] = allocs /\ previous[s] = NULL
      /\ creator[s] = ToChar(tx[t]) /\ ~to_delete[s]
  BY <1>0 DEF NewSegments, Linking
<1>2. /\ UNCHANGED <<pc, is_ro, tx>> /\ EpochWriters' = EpochWriters
      /\ t \in EpochWriters
      /\ \A u \in Threads : call[u].op \notin Committing /\ pc[u] \notin {"reset", "new_epoch"}
  BY <1>0, <1>1, ListStays, LiveWriter
<1>3. /\ UNCHANGED <<allocs, live, creator, to_delete, next_seg>>
      /\ call' = [call EXCEPT ![t] = [op |-> "publish", at |-> s]]
      /\ previous' = IF allocs = NULL THEN previous ELSE [previous EXCEPT ![allocs] = s]
  BY <1>1 DEF Link, SetCall
<1>4. /\ Listed' = Listed /\ Listed \subseteq Segs
      /\ previous \in [Segs -> Pointers] /\ call \in [Threads -> Calls]
  BY <1>3, ListCloses DEF Listed, SegTypes, ListTypes, FieldTypes
<1>5. /\ \A u \in Threads \ {t} : call'[u] = call[u] /\ ~Linking(u) /\ ~Linking(u)'
      /\ call'[t].op = "publish" /\ call'[t].at = s
  BY <1>1, <1>3, <1>4 DEF OneAllocator, NewSegments, Linking
<1>6. ListShape'
  <2>1. \A r \in Listed : next_seg[r] # NULL => next_seg[r] # allocs
    BY ListCloses DEF ListShape
  <2>. QED  BY <1>1, <1>3, <1>4, <2>1, ListCloses DEF ListShape, ListedAreLive
<1>7. NewSegments'
  BY <1>0, <1>1, <1>2, <1>3, <1>4, <1>5, ListCloses DEF NewSegments, Linking
<1>8. HeadLinked'
  BY <1>3, <1>4, <1>5, ListCloses DEF HeadLinked, Linking
<1>9. NothingUnlisted'
  BY <1>0, <1>3, <1>4, <1>5 DEF NothingUnlisted, Linking
<1>10. CallsInList' /\ CallsInPlace' /\ CommitPassed'
  BY <1>0, <1>1, <1>2, <1>4, <1>5 DEF CallsInList, CallsInPlace, CommitPassed, Committing
<1>11. CreatorsAreCurrent'
  BY <1>2, <1>3, <1>4 DEF CreatorsAreCurrent
<1>. QED  BY <1>4, <1>6, <1>7, <1>8, <1>9, <1>10, <1>11

\* ... and becomes the head.
LEMMA PublishShape ==
  ASSUME OneAllocator, ShapeInv, NEW t \in Threads, Publish(t)
  PROVE  ListInv' /\ Listed' = {call[t].at} \cup Listed
<1> USE DEF ShapeInv, ListInv
<1> DEFINE s == call[t].at
<1>0. ListStep(t) /\ pc[t] = "live" /\ call[t].op = "publish" /\ s \in Segs
  BY DEF ListStep, Publish, At, SegTypes, CallsAtSegments, AtSegment
<1>1. /\ t \in Allocators /\ ~is_ro[t] /\ live[s] /\ s \notin Listed
      /\ next_seg[s] = allocs /\ previous[s] = NULL
      /\ creator[s] = ToChar(tx[t]) /\ ~to_delete[s]
  BY <1>0 DEF NewSegments, Linking
<1>2. /\ UNCHANGED <<pc, is_ro, tx>> /\ EpochWriters' = EpochWriters
      /\ t \in EpochWriters
      /\ \A u \in Threads : call[u].op \notin Committing /\ pc[u] \notin {"reset", "new_epoch"}
  BY <1>0, <1>1, ListStays, LiveWriter
<1>3. /\ UNCHANGED <<live, creator, to_delete, next_seg, previous>>
      /\ call' = [call EXCEPT ![t] = [op |-> "none", at |-> NULL]]
      /\ allocs' = s
  BY DEF Publish, SetCall, fields
<1>4. call \in [Threads -> Calls] /\ next_seg \in [Segs -> Pointers] /\ Listed \subseteq Segs
  BY ListCloses DEF SegTypes, ListTypes, FieldTypes
<1>5. Listed' = {s} \cup Listed
  BY <1>0, <1>1, <1>3, <1>4, WalkStep DEF Listed
<1>6. \A u \in Threads : /\ u # t => call'[u] = call[u] /\ ~Linking(u)
                         /\ ~Linking(u)' /\ call'[t].op = "none"
  BY <1>1, <1>3, <1>4 DEF OneAllocator, NewSegments, Linking
<1>7. ListShape'
  <2>1. allocs # NULL => previous[allocs] = s
    BY <1>0 DEF HeadLinked
  <2>. QED  BY <1>0, <1>1, <1>3, <1>4, <1>5, <2>1, ListCloses DEF ListShape, ListedAreLive
<1>8. NewSegments'
  BY <1>6 DEF NewSegments
<1>9. HeadLinked'
  BY <1>1, <1>3, <1>6 DEF HeadLinked, Linking
<1>10. NothingUnlisted'
  BY <1>0, <1>3, <1>4, <1>5, <1>6 DEF NothingUnlisted
<1>11. CallsInList' /\ CallsInPlace' /\ CommitPassed'
  BY <1>0, <1>1, <1>2, <1>5, <1>6 DEF CallsInList, CallsInPlace, CommitPassed, Committing
<1>12. CreatorsAreCurrent'
  BY <1>1, <1>2, <1>3, <1>5 DEF CreatorsAreCurrent
<1>. QED  BY <1>5, <1>7, <1>8, <1>9, <1>10, <1>11, <1>12

\* tm_free, a tm_read or tm_write that fails, and the walk of Undo touch marks of
\* segments of the list only.
LEMMA MarksShape ==
  ASSUME ShapeInv, NEW t \in Threads,
         \/ \E s \in Segs : Free(t, s)
         \/ Delete(t) \/ Fail(t) \/ UndoHead(t) \/ UndoSeg(t)
  PROVE  ListInv' /\ Listed' = Listed
<1> USE DEF ShapeInv, ListInv
<1>0. /\ ListStep(t) /\ pc[t] = "live"
      /\ call \in [Threads -> Calls] /\ creator \in [Segs -> Chars]
      /\ to_delete \in [Segs -> BOOLEAN] /\ next_seg \in [Segs -> Pointers]
  BY DEF ListStep, Free, Delete, Fail, UndoHead, UndoSeg, Call, At, SegTypes, ListTypes,
     FieldTypes
<1>1. /\ UNCHANGED <<allocs, live, next_seg, previous>>
      /\ Listed' = Listed
  BY DEF Free, Delete, Fail, UndoHead, UndoSeg, listVars, fields, Listed
<1>2. ASSUME NEW s \in Segs, Free(t, s)
      PROVE  ListInv'
  <2>1. ~is_ro[t] /\ ~Linking(t)
    BY <1>2 DEF Free, Call, At, Linking
  <2>2. CASE Found(s) /\ creator[s] = it_is_free
    <3>1. call' = [call EXCEPT ![t] = [op |-> "delete", at |-> s]] /\ s \in Listed
      BY <1>2, <2>2 DEF Free, SetCall, Found
    <3>2. creator' = [creator EXCEPT ![s] = ToChar(tx[t])] /\ to_delete' = to_delete
      BY <1>2, <2>2 DEF Free
    <3>. QED  BY <1>0, <1>1, <2>1, <3>1, <3>2, CallShape
  <2>3. CASE ~(Found(s) /\ creator[s] = it_is_free)
    <3>1. /\ call' = [call EXCEPT ![t] = [op |-> "undo_head", at |-> NULL]]
          /\ UNCHANGED <<creator, to_delete>>
      BY <1>2, <2>3 DEF Free, StartUndo, SetCall
    <3>. QED  BY <1>0, <1>1, <2>1, <3>1, CallShape
  <2>. QED  BY <2>2, <2>3
<1>3. CASE Delete(t)
  <2>1. ~is_ro[t] /\ ~Linking(t) /\ call[t].at \in Listed
    BY <1>0, <1>3 DEF Delete, At, Linking, CallsInPlace, CallsInList
  <2>2. /\ call' = [call EXCEPT ![t] = [op |-> "none", at |-> NULL]]
        /\ creator' = creator /\ to_delete' = [to_delete EXCEPT ![call[t].at] = TRUE]
    BY <1>3 DEF Delete, SetCall
  <2>. QED  BY <1>0, <1>1, <2>1, <2>2, CallShape
<1>4. CASE Fail(t)
  <2>1. ~is_ro[t] /\ ~Linking(t)
    BY <1>4 DEF Fail, Call, At, Linking
  <2>2. /\ call' = [call EXCEPT ![t] = [op |-> "undo_head", at |-> NULL]]
        /\ UNCHANGED <<creator, to_delete>>
    BY <1>4 DEF Fail, StartUndo, SetCall, listVars, fields
  <2>. QED  BY <1>0, <1>1, <2>1, <2>2, CallShape
<1>5. CASE UndoHead(t)
  <2>1. ~is_ro[t] /\ ~Linking(t)
    BY <1>0, <1>5 DEF UndoHead, At, Linking, CallsInPlace
  <2>2. /\ call' = [call EXCEPT ![t] = [op |-> "undo", at |-> allocs]]
        /\ UNCHANGED <<creator, to_delete>>
    BY <1>5 DEF UndoHead, SetCall, listVars, fields
  <2>3. allocs \in Listed \cup {NULL}
    BY ListCloses
  <2>. QED  BY <1>0, <1>1, <2>1, <2>2, <2>3, CallShape
<1>6. CASE UndoSeg(t)
  <2>1. ~is_ro[t] /\ ~Linking(t) /\ call[t].at \in Listed /\ Listed \subseteq Segs
    BY <1>0, <1>6, ListCloses DEF UndoSeg, At, Linking, CallsInPlace, CallsInList
  <2>2. /\ call' = [call EXCEPT ![t] = [op |-> "undo", at |-> next_seg[call[t].at]]]
        /\ creator' = creator
        /\ \A s \in Segs : to_delete'[s] = to_delete[s] \/ s \in Listed
    BY <1>0, <1>6, <2>1 DEF UndoSeg, SetCall
  <2>3. next_seg[call[t].at] \in Listed \cup {NULL}
    BY <2>1, ListCloses
  <2>. QED  BY <1>0, <1>1, <2>1, <2>2, <2>3, CallShape
<1>. QED  BY <1>1, <1>2, <1>3, <1>4, <1>5, <1>6

-----------------------------------------------------------------------------
(* The commit *)

\* With nobody inside, the head has no previous.
LEMMA HeadInCommit ==
  ASSUME ShapeInv, NEW t \in Threads, pc[t] \in ClosingLabels
  PROVE  allocs # NULL => previous[allocs] = NULL
  BY AloneInCommit DEF ShapeInv, ListInv, HeadLinked, Committing

\* Commit_seg takes a segment out of the list: its head, or another one.
LEMMA ReclaimTakes ==
  ASSUME ShapeInv, NEW t \in Threads, pc[t] = "commit", NEW s \in Listed, Reclaim(s)
  PROVE  /\ Listed' = Listed \ {s} /\ ListShape'
         /\ allocs' # NULL => previous'[allocs'] = NULL
         /\ next_seg'[s] = next_seg[s] /\ next_seg[s] \in (Listed \ {s}) \cup {NULL}
         /\ WalkFrom(next_seg, s) \subseteq {s} \cup WalkFrom(next_seg', next_seg[s])
<1> DEFINE p == previous[s]
           n == next_seg[s]
<1>0. /\ next_seg \in [Segs -> Pointers] /\ previous \in [Segs -> Pointers]
      /\ live \in [Segs -> BOOLEAN] /\ Listed \subseteq Segs /\ NULL \notin Segs
      /\ allocs \in Segs /\ allocs \in Listed
      /\ \A r \in Listed : next_seg[r] # NULL => next_seg[r] \in Listed
      /\ WalkFrom(next_seg, allocs) = Listed
  <2>1. allocs # NULL
    BY WalkNull DEF Listed
  <2>. QED  BY <2>1, ListCloses DEF ShapeInv, SegTypes, ListTypes, FieldTypes, Listed
<1>1. /\ \A r \in Listed : next_seg[r] # NULL => previous[next_seg[r]] = r
      /\ \A r \in Listed : live[r]
      /\ previous[allocs] = NULL
  BY <1>0, HeadInCommit DEF ShapeInv, ListInv, ListShape, ListedAreLive, ClosingLabels
<1>2. \A r \in Listed : next_seg[r] # NULL => next_seg[r] # allocs
  BY <1>0, <1>1
<1>3. CASE s = allocs
  <2>1. /\ allocs' = n /\ next_seg' = next_seg
        /\ previous' = IF n = NULL THEN previous ELSE [previous EXCEPT ![n] = NULL]
        /\ live' = [live EXCEPT ![s] = FALSE]
    BY <1>1, <1>3 DEF Reclaim
  <2>2. WalkFrom(next_seg, n) = Listed \ {s}
    <3>1. /\ \A r \in WalkFrom(next_seg, s) : next_seg[r] # NULL => previous[next_seg[r]] = r
          /\ previous[s] \notin WalkFrom(next_seg, s)
      BY <1>0, <1>1, <1>3
    <3>. QED  BY <1>0, <1>3, <3>1, HeadTaken
  <2>3. Listed' = Listed \ {s}
    BY <2>1, <2>2 DEF Listed
  <2>4. n \in (Listed \ {s}) \cup {NULL}
    BY <1>0, <1>2, <1>3
  <2>5. WalkFrom(next_seg, s) \subseteq {s} \cup WalkFrom(next_seg', n)
    BY <1>0, <2>1, WalkStep
  <2>6. allocs' # NULL => previous'[allocs'] = NULL
    BY <1>0, <2>1, <2>4
  <2>7. ListShape'
    <3>1. \A r \in Listed' : live'[r]
      BY <1>0, <1>1, <2>1, <2>3
    <3>2. ASSUME NEW r \in Listed', next_seg'[r] # NULL
          PROVE  previous'[next_seg'[r]] = r
      <4>1. r \in Listed /\ r # s /\ next_seg'[r] = next_seg[r] /\ next_seg[r] # n
        BY <1>0, <1>1, <2>1, <2>3, <3>2
      <4>. QED  BY <1>0, <1>1, <2>1, <3>2, <4>1
    <3>3. allocs' # NULL => previous'[allocs'] \notin Listed'
      BY <1>0, <2>3, <2>6
    <3>. QED  BY <3>1, <3>2, <3>3 DEF ListShape, ListedAreLive
  <2>. QED  BY <2>1, <2>3, <2>4, <2>5, <2>6, <2>7
<1>4. CASE s # allocs
  <2> DEFINE other == [next_seg EXCEPT ![p] = n]
  <2>1. /\ p \in Listed /\ p # s /\ next_seg[p] = s /\ n # s
        /\ WalkFrom(other, allocs) = Listed \ {s}
        /\ WalkFrom(next_seg, s) \subseteq {s} \cup WalkFrom(other, n)
    <3>1. /\ s \in WalkFrom(next_seg, allocs)
          /\ \A r \in WalkFrom(next_seg, allocs) :
               next_seg[r] # NULL => previous[next_seg[r]] = r
      BY <1>0, <1>1
    <3>2. /\ p \in WalkFrom(next_seg, allocs) /\ p # s /\ next_seg[p] = s /\ n # s
          /\ WalkFrom(other, allocs) = WalkFrom(next_seg, allocs) \ {s}
          /\ WalkFrom(next_seg, s) \subseteq {s} \cup WalkFrom(other, n)
      BY <1>0, <1>1, <1>4, <3>1, InnerTaken
    <3>. QED  BY <1>0, <3>2
  <2>2. /\ allocs' = allocs /\ next_seg' = other
        /\ previous' = IF n = NULL THEN previous ELSE [previous EXCEPT ![n] = p]
        /\ live' = [live EXCEPT ![s] = FALSE]
    BY <1>0, <2>1 DEF Reclaim
  <2>3. Listed' = Listed \ {s}
    BY <2>1, <2>2 DEF Listed
  <2>4. n \in (Listed \ {s}) \cup {NULL} /\ next_seg'[s] = n
    BY <1>0, <2>1, <2>2
  <2>6. previous'[allocs'] = NULL
    BY <1>0, <1>1, <1>2, <2>2
  <2>7. ListShape'
    <3>1. \A r \in Listed' : live'[r]
      BY <1>0, <1>1, <2>2, <2>3
    <3>2. ASSUME NEW r \in Listed', next_seg'[r] # NULL
          PROVE  previous'[next_seg'[r]] = r
      <4>1. r \in Listed /\ r # s /\ r \in Segs
        BY <1>0, <2>3
      <4>2. CASE r = p
        BY <1>0, <2>1, <2>2, <3>2, <4>1, <4>2
      <4>3. CASE r # p
        <5>1. next_seg'[r] = next_seg[r] /\ next_seg[r] # n
          BY <1>0, <1>1, <2>2, <3>2, <4>1, <4>3
        <5>. QED  BY <1>0, <1>1, <2>2, <3>2, <4>1, <5>1
      <4>. QED  BY <4>2, <4>3
    <3>3. allocs' # NULL => previous'[allocs'] \notin Listed'
      BY <1>0, <2>3, <2>6
    <3>. QED  BY <3>1, <3>2, <3>3 DEF ListShape, ListedAreLive
  <2>. QED  BY <2>1, <2>2, <2>3, <2>4, <2>6, <2>7
<1>. QED  BY <1>3, <1>4

\* What holds of a call of the commit between two of its steps.
WalkGoesOn(c) ==
  /\ c.op \in Committing /\ Ahead(c) \in Listed \cup {NULL}
  /\ c.op # "commit" =>
       IF live[c.at] THEN c.at \in Listed ELSE to_delete[c.at] /\ c.at \notin Listed
  /\ \A s \in Listed \ WalkFrom(next_seg, Ahead(c)) : Passed(s)

\* What the thread that commits keeps when it moves on: nobody else is at the
\* list.
LEMMA CommitShape ==
  ASSUME ShapeInv, NEW t \in Threads, ListStep(t), pc[t] = "commit",
         \A u \in Threads \ {t} : call'[u] = call[u], WalkGoesOn(call[t])',
         ListShape', Listed' \subseteq Listed,
         allocs' # NULL => previous'[allocs'] = NULL,
         \A s \in Segs : live'[s] => live[s] /\ (s \in Listed => s \in Listed'),
         \A s \in Listed' : creator'[s] \in {creator[s], it_is_free}
  PROVE  ListInv'
<1> USE DEF ShapeInv, ListInv
<1>1. UNCHANGED <<pc, is_ro, tx>> /\ EpochWriters' = EpochWriters
  BY ListStays
<1>2. /\ \A u \in Threads : pc[u] # "live" /\ call[u].op \in {"none"} \cup Committing
      /\ \A u \in Threads \ {t} : pc[u] \notin ClosingLabels /\ call[u].op = "none"
  BY AloneInCommit DEF ClosingLabels
<1>3. /\ \A u \in Threads : ~Linking(u) /\ ~Linking(u)'
      /\ call'[t].op \in Committing
      /\ \A u \in Threads \ {t} : call'[u].op = "none"
  BY <1>2 DEF Linking, Committing, WalkGoesOn
<1>4. NewSegments' /\ HeadLinked'
  BY <1>3 DEF NewSegments, HeadLinked, Linking
<1>5. NothingUnlisted'
  BY <1>3 DEF NothingUnlisted
<1>6. CallsInList'
  BY <1>3 DEF CallsInList, Committing, WalkGoesOn
<1>7. CallsInPlace'
  BY <1>1, <1>3 DEF CallsInPlace, Committing
<1>8. CommitPassed'
  BY <1>1, <1>2, <1>3 DEF CommitPassed, ClosingLabels, Committing, WalkGoesOn
<1>9. CreatorsAreCurrent'
  BY <1>1 DEF CreatorsAreCurrent
<1>. QED  BY <1>4, <1>5, <1>6, <1>7, <1>8, <1>9

\* The walk of the commit starts at the head of the list.
LEMMA CommitHeadShape ==
  ASSUME ShapeInv, NEW t \in Threads, CommitHead(t)
  PROVE  ListInv' /\ Listed' = Listed
<1>1. /\ ListStep(t) /\ pc[t] = "commit" /\ pc[t] \in ClosingLabels
      /\ call'[t] = [op |-> "commit", at |-> allocs]
      /\ \A u \in Threads \ {t} : call'[u] = call[u]
      /\ UNCHANGED <<allocs, live, creator, to_delete, next_seg, previous>>
  BY DEF CommitHead, ListStep, SetCall, listVars, fields, ClosingLabels, ShapeInv, SegTypes,
     ListTypes
<1>2. Listed' = Listed /\ ListShape'
  BY <1>1 DEF Listed, ShapeInv, ListInv, ListShape, ListedAreLive
<1>3. allocs \in Listed \cup {NULL} /\ Listed = WalkFrom(next_seg, allocs)
  BY ListCloses DEF ShapeInv, Listed
<1>4. allocs' # NULL => previous'[allocs'] = NULL
  BY <1>1, HeadInCommit
<1>5. WalkGoesOn(call[t])'
  BY <1>1, <1>2, <1>3 DEF WalkGoesOn, Ahead, Committing
<1>. QED  BY <1>1, <1>2, <1>4, <1>5, CommitShape

\* Commit_seg keeps a segment, without its mark, or takes it out.
LEMMA CommitSegShape ==
  ASSUME ShapeInv, NEW t \in Threads, CommitSeg(t)
  PROVE  LET s == call[t].at
         IN  /\ ListInv' /\ s \in Listed
             /\ Listed' = IF to_delete[s] THEN Listed \ {s} ELSE Listed
<1> DEFINE s == call[t].at
           n == next_seg'[s]
<1>1. /\ ListStep(t) /\ pc[t] = "commit" /\ pc[t] \in ClosingLabels /\ call[t].op = "commit"
      /\ s \in Listed
      /\ call'[t] = [op |-> "commit_next", at |-> s]
      /\ \A u \in Threads \ {t} : call'[u] = call[u]
  BY DEF CommitSeg, ListStep, SetCall, ClosingLabels, ShapeInv, ListInv, CallsInList, Committing,
     Ahead, SegTypes, ListTypes
<1>2. /\ \A r \in Listed \ WalkFrom(next_seg, s) : Passed(r)
      /\ next_seg \in [Segs -> Pointers] /\ creator \in [Segs -> Chars]
      /\ live \in [Segs -> BOOLEAN] /\ Listed \subseteq Segs
  BY <1>1, ListCloses DEF ShapeInv, ListInv, CommitPassed, SegTypes, ListTypes, FieldTypes,
     Committing, Ahead
<1>3. CASE to_delete[s]
  <2>1. Reclaim(s)
    BY <1>3 DEF CommitSeg
  <2>2. /\ Listed' = Listed \ {s} /\ ListShape'
        /\ allocs' # NULL => previous'[allocs'] = NULL
        /\ n = next_seg[s] /\ next_seg[s] \in (Listed \ {s}) \cup {NULL}
        /\ WalkFrom(next_seg, s) \subseteq {s} \cup WalkFrom(next_seg', next_seg[s])
    BY <1>1, <2>1, ReclaimTakes
  <2>3. UNCHANGED <<creator, to_delete>> /\ live' = [live EXCEPT ![s] = FALSE]
    BY <2>1 DEF Reclaim
  <2>4. \A r \in Listed' \ WalkFrom(next_seg', n) : Passed(r)'
    BY <1>2, <2>2, <2>3 DEF Passed
  <2>5. \A r \in Segs : live'[r] => live[r] /\ (r \in Listed => r \in Listed')
    BY <1>2, <2>2, <2>3
  <2>6. /\ Listed' \subseteq Listed
        /\ \A r \in Listed' : creator'[r] \in {creator[r], it_is_free}
    BY <2>2, <2>3
  <2>7. ~live'[s] /\ to_delete'[s] /\ s \notin Listed' /\ n \in Listed' \cup {NULL}
    BY <1>1, <1>2, <1>3, <2>2, <2>3
  <2>8. WalkGoesOn(call[t])'
    BY <1>1, <2>4, <2>7 DEF WalkGoesOn, Ahead, Committing
  <2>9. ListInv'
    BY <1>1, <2>2, <2>5, <2>6, <2>8, CommitShape
  <2>. QED  BY <1>1, <1>3, <2>2, <2>9
<1>4. CASE ~to_delete[s]
  <2>1. /\ UNCHANGED <<allocs, live, to_delete, next_seg, previous>>
        /\ creator' = [creator EXCEPT ![s] = it_is_free]
    BY <1>4 DEF CommitSeg, Keep
  <2>2. Listed' = Listed /\ ListShape'
    BY <2>1 DEF Listed, ShapeInv, ListInv, ListShape, ListedAreLive
  <2>3. n \in Listed' \cup {NULL} /\ (allocs' # NULL => previous'[allocs'] = NULL)
    BY <1>1, <2>1, <2>2, ListCloses, HeadInCommit DEF ShapeInv
  <2>4. \A r \in Listed' \ WalkFrom(next_seg', n) : Passed(r)'
    <3>1. WalkFrom(next_seg, s) = {s} \cup WalkFrom(next_seg', n)
      BY <1>1, <1>2, <2>1, WalkStep
    <3>. QED  BY <1>1, <1>2, <1>4, <2>1, <2>2, <3>1 DEF Passed
  <2>5. /\ Listed' \subseteq Listed
        /\ \A r \in Segs : live'[r] => live[r] /\ (r \in Listed => r \in Listed')
        /\ \A r \in Listed' : creator'[r] \in {creator[r], it_is_free}
    BY <1>1, <1>2, <2>1, <2>2
  <2>6. live'[s] /\ s \in Listed'
    BY <1>1, <2>1, <2>2 DEF ShapeInv, ListInv, ListShape, ListedAreLive
  <2>7. WalkGoesOn(call[t])'
    BY <1>1, <2>3, <2>4, <2>6 DEF WalkGoesOn, Ahead, Committing
  <2>8. ListInv'
    BY <1>1, <2>2, <2>3, <2>5, <2>7, CommitShape
  <2>. QED  BY <1>1, <1>4, <2>2, <2>8
<1>. QED  BY <1>3, <1>4

\* The walk of the commit goes on, also from a segment it has taken out, or ends
\* there with the process.
LEMMA CommitNextShape ==
  ASSUME ShapeInv, NEW t \in Threads, CommitNext(t)
  PROVE  ListInv' /\ Listed' = Listed
<1> DEFINE s == call[t].at
           n == next_seg[s]
<1>1. /\ ListStep(t) /\ pc[t] = "commit" /\ pc[t] \in ClosingLabels /\ call[t].op = "commit_next"
      /\ UNCHANGED <<allocs, live, creator, to_delete, next_seg, previous>>
      /\ \A u \in Threads \ {t} : call'[u] = call[u]
      /\ \/ call'[t] = [op |-> "commit", at |-> n]
         \/ call'[t] = [op |-> "fault", at |-> s]
  BY DEF CommitNext, ListStep, ClosingLabels, SetCall, listVars, fields, ShapeInv, SegTypes,
     ListTypes
<1>2. /\ n \in Listed \cup {NULL}
      /\ IF live[s] THEN s \in Listed ELSE to_delete[s] /\ s \notin Listed
      /\ \A r \in Listed \ WalkFrom(next_seg, n) : Passed(r)
  BY <1>1 DEF ShapeInv, ListInv, CallsInList, CommitPassed, Committing, Ahead
<1>3. Listed' = Listed /\ ListShape'
  BY <1>1 DEF Listed, ShapeInv, ListInv, ListShape, ListedAreLive
<1>4. allocs' # NULL => previous'[allocs'] = NULL
  BY <1>1, HeadInCommit
<1>5. WalkGoesOn(call[t])'
  <2>1. \A r \in Listed' \ WalkFrom(next_seg', n) : Passed(r)'
    BY <1>1, <1>2, <1>3 DEF Passed
  <2>2. CASE call'[t] = [op |-> "commit", at |-> n]
    BY <1>2, <1>3, <2>1, <2>2 DEF WalkGoesOn, Ahead, Committing
  <2>3. CASE call'[t] = [op |-> "fault", at |-> s]
    BY <1>1, <1>2, <1>3, <2>1, <2>3 DEF WalkGoesOn, Ahead, Committing
  <2>. QED  BY <1>1, <2>2, <2>3
<1>6. /\ Listed' \subseteq Listed
      /\ \A r \in Segs : live'[r] => live[r] /\ (r \in Listed => r \in Listed')
      /\ \A r \in Listed' : creator'[r] \in {creator[r], it_is_free}
  BY <1>1, <1>3
<1>. QED  BY <1>1, <1>3, <1>4, <1>5, <1>6, CommitShape

-----------------------------------------------------------------------------
(* The steps of the batcher *)

\* The epoch keeps its writers and their ids until the next one opens.
LEMMA WritersStay ==
  ASSUME SlotIInv, NEW t \in Threads, ClientBegins(t) \/ Step(t), ~NewEpoch(t)
  PROVE  \A u \in EpochWriters : u \in EpochWriters' /\ tx'[u] = tx[u]
<1>0. /\ pc \in [Threads -> Labels] /\ tx \in [Threads -> Int]
      /\ born \in [Threads -> Nat \cup {-1}]
  BY DEF SlotIInv, IInv, TypeOK
<1>1. CASE Enter(t)
  BY <1>0, <1>1 DEF Enter, Goto, EpochWriters
<1>2. CASE TakeSlot(t) \/ Leave(t) \/ Reset(t)
  BY <1>0, <1>2 DEF TakeSlot, Leave, Reset, Goto, EpochWriters, localVars, history
<1>3. CASE ~Enter(t) /\ ~TakeSlot(t) /\ ~Leave(t) /\ ~Reset(t)
  <2>1. EpochWriters' = EpochWriters
    BY <1>3, QuietSteps
  <2>2. tx' = tx
    BY <1>3 DEF ClientBegins, Step, BeginStep, EndStep, CallBegin, BeginTurn, BeginNext, Refuse,
       Skip, SkipLoad, Retry, CallEnd, EndTurn, EndNext, Commit, Park, ParkLoad, Unpark,
       localVars
  <2>. QED  BY <2>1, <2>2
<1>. QED  BY <1>1, <1>2, <1>3

\* Where a step of tm_begin or tm_end leads.
LEMMA TurnSteps ==
  ASSUME TypeOK, NEW t \in Threads, BeginStep(t) \/ EndStep(t)
  PROVE  /\ is_ro' = is_ro /\ \A u \in Threads \ {t} : pc'[u] = pc[u] /\ tx'[u] = tx[u]
         /\ pc[t] \notin {"idle", "live", "commit"} /\ pc'[t] # "reset"
         /\ pc'[t] = "new_epoch" => pc[t] = "reset"
         /\ pc[t] = "new_epoch" => NewEpoch(t)
         /\ pc[t] = "reset" => pc'[t] = "new_epoch"
  BY DEF TypeOK, BeginStep, EndStep, BeginTurn, TakeSlot, Enter, BeginNext, Refuse, Skip,
     SkipLoad, Retry, EndTurn, Leave, EndNext, Reset, NewEpoch, Park, ParkLoad, Unpark, Goto,
     localVars

\* The list stays as it is where it and its calls do.
LEMMA ListUntouched ==
  ASSUME ListInv, UNCHANGED <<listVars, call>>,
         \A t \in Threads : call[t].op # "none" =>
           pc'[t] = pc[t] /\ is_ro'[t] = is_ro[t] /\ tx'[t] = tx[t],
         \A t \in Threads : pc'[t] \in {"reset", "new_epoch"} => \A s \in Listed : Passed(s),
         \/ \A s \in Listed : creator[s] = it_is_free
         \/ \A u \in EpochWriters : u \in EpochWriters' /\ tx'[u] = tx[u]
  PROVE  ListInv' /\ Listed' = Listed
<1> USE DEF ListInv
<1>1. /\ UNCHANGED <<allocs, live, creator, to_delete, next_seg, previous, call>>
      /\ Listed' = Listed
      /\ \A t \in Threads : (Linking(t)' <=> Linking(t)) /\ (Linking(t) => call[t].op # "none")
  BY DEF listVars, fields, Listed, Linking
<1>2. ListShape' /\ HeadLinked' /\ NothingUnlisted' /\ CallsInList'
  BY <1>1 DEF ListShape, ListedAreLive, HeadLinked, NothingUnlisted, CallsInList, Ahead
<1>3. NewSegments'
  BY <1>1 DEF NewSegments
<1>4. CallsInPlace'
  BY <1>1 DEF CallsInPlace, Committing
<1>5. CommitPassed'
  BY <1>1 DEF CommitPassed, Passed, Ahead, Committing
<1>6. CreatorsAreCurrent'
  BY <1>1 DEF CreatorsAreCurrent
<1>. QED  BY <1>1, <1>2, <1>3, <1>4, <1>5, <1>6

\* tm_begin and tm_end leave the list alone; the next epoch opens on segments
\* that nobody has marked.
LEMMA BatcherShape ==
  ASSUME ShapeInv, NEW t \in Threads, BeginStep(t) \/ EndStep(t), UNCHANGED <<listVars, call>>
  PROVE  ListInv' /\ Listed' = Listed
<1> USE DEF ShapeInv
<1>0. TypeOK /\ call[t].op \in SegOps
  BY DEF SlotIInv, IInv, SegTypes, ListTypes, Calls
<1>1. /\ is_ro' = is_ro /\ \A u \in Threads \ {t} : pc'[u] = pc[u] /\ tx'[u] = tx[u]
      /\ pc[t] \notin {"idle", "live", "commit"} /\ pc'[t] # "reset"
      /\ pc'[t] = "new_epoch" => pc[t] = "reset"
  BY <1>0, TurnSteps
<1>2. \A u \in Threads : call[u].op # "none" => u # t
  BY <1>0, <1>1 DEF ListInv, CallsInPlace, SegOps, Committing
<1>3. \A u \in Threads : pc'[u] \in {"reset", "new_epoch"} => \A s \in Listed : Passed(s)
  BY <1>1 DEF ListInv, CommitPassed
<1>4. \/ \A s \in Listed : creator[s] = it_is_free
      \/ \A u \in EpochWriters : u \in EpochWriters' /\ tx'[u] = tx[u]
  <2>1. CASE NewEpoch(t)
    BY <2>1 DEF NewEpoch, Goto, ListInv, CommitPassed, Passed
  <2>2. CASE ~NewEpoch(t)
    BY <2>2, WritersStay DEF Step
  <2>. QED  BY <2>1, <2>2
<1>. QED  BY <1>1, <1>2, <1>3, <1>4, ListUntouched

\* A transaction begins with no call under way.
LEMMA BeginShape ==
  ASSUME ShapeInv, NEW t \in Threads, SegBegin(t)
  PROVE  ListInv' /\ Listed' = Listed
<1> USE DEF ShapeInv
<1>1. /\ pc[t] = "idle" /\ pc' = [pc EXCEPT ![t] = "begin_spin"] /\ tx' = tx
      /\ \A u \in Threads \ {t} : is_ro'[u] = is_ro[u]
      /\ pc \in [Threads -> Labels] /\ UNCHANGED <<listVars, call>>
      /\ call[t].op \in SegOps
  BY DEF SegBegin, ClientBegins, CallBegin, Goto, SlotIInv, IInv, TypeOK, SegTypes, ListTypes,
     Calls
<1>2. \A u \in Threads : call[u].op # "none" => u # t
  BY <1>1 DEF ListInv, CallsInPlace, SegOps, Committing
<1>3. \A u \in Threads : pc'[u] \in {"reset", "new_epoch"} => \A s \in Listed : Passed(s)
  BY <1>1 DEF ListInv, CommitPassed
<1>4. \A u \in EpochWriters : u \in EpochWriters' /\ tx'[u] = tx[u]
  BY <1>1, WritersStay DEF SegBegin, NewEpoch, Goto
<1>. QED  BY <1>1, <1>2, <1>3, <1>4, ListUntouched

\* ... and ends so: a new segment has been published by then.
LEMMA EndShape ==
  ASSUME ShapeInv, NEW t \in Threads, SegEnd(t)
  PROVE  ListInv' /\ Listed' = Listed
<1> USE DEF ShapeInv, ListInv
<1>1. /\ pc[t] = "live" /\ pc' = [pc EXCEPT ![t] = "end_spin"] /\ UNCHANGED <<is_ro, tx>>
      /\ call[t].op \in {"none", "undo"}
      /\ call' = [call EXCEPT ![t] = [op |-> "none", at |-> NULL]]
      /\ pc \in [Threads -> Labels] /\ call \in [Threads -> Calls]
      /\ UNCHANGED <<allocs, live, creator, to_delete, next_seg, previous>>
  BY DEF SegEnd, At, CallEnd, Goto, SetCall, localVars, listVars, fields, SlotIInv, IInv, TypeOK,
     SegTypes, ListTypes
<1>2. /\ Listed' = Listed
      /\ \A u \in Threads \ {t} : pc'[u] = pc[u] /\ call'[u] = call[u]
      /\ call'[t].op = "none" /\ pc'[t] = "end_spin"
      /\ \A u \in Threads : (Linking(u)' <=> Linking(u)) /\ (Linking(u) => u # t)
  BY <1>1 DEF Listed, Linking
<1>3. \A u \in EpochWriters : u \in EpochWriters' /\ tx'[u] = tx[u]
  BY <1>1, WritersStay DEF SegEnd, Step, NewEpoch, Goto
<1>4. ListShape' /\ NothingUnlisted' /\ CallsInList'
  BY <1>1, <1>2 DEF ListShape, ListedAreLive, NothingUnlisted, CallsInList, Ahead, Committing
<1>5. NewSegments' /\ HeadLinked'
  BY <1>1, <1>2 DEF NewSegments, HeadLinked, Linking
<1>6. CallsInPlace' /\ CommitPassed'
  BY <1>1, <1>2 DEF CallsInPlace, CommitPassed, Passed, Ahead, Committing
<1>7. CreatorsAreCurrent'
  BY <1>1, <1>2, <1>3 DEF CreatorsAreCurrent
<1>. QED  BY <1>2, <1>4, <1>5, <1>6, <1>7

\* The commit is over: it has passed every segment of the list.
LEMMA CommitEndShape ==
  ASSUME ShapeInv, NEW t \in Threads, SegCommit(t)
  PROVE  ListInv' /\ Listed' = Listed
<1> USE DEF ShapeInv, ListInv
<1>1. /\ pc[t] = "commit" /\ pc' = [pc EXCEPT ![t] = "reset"] /\ UNCHANGED <<is_ro, tx>>
      /\ call[t].op = "commit" /\ call[t].at = NULL
      /\ call' = [call EXCEPT ![t] = [op |-> "none", at |-> NULL]]
      /\ pc \in [Threads -> Labels] /\ call \in [Threads -> Calls]
      /\ UNCHANGED <<allocs, live, creator, to_delete, next_seg, previous>>
  BY DEF SegCommit, Commit, Goto, SetCall, localVars, listVars, fields, SlotIInv, IInv, TypeOK,
     SegTypes, ListTypes
<1>2. /\ Listed' = Listed
      /\ \A u \in Threads \ {t} : pc'[u] = pc[u] /\ call'[u] = call[u]
      /\ call'[t].op = "none" /\ pc'[t] = "reset"
      /\ \A u \in Threads : ~Linking(u) /\ ~Linking(u)'
      /\ \A u \in Threads \ {t} : call[u].op = "none"
  BY <1>1, AloneInCommit DEF Listed, Linking, ClosingLabels
<1>3. \A u \in EpochWriters : u \in EpochWriters' /\ tx'[u] = tx[u]
  BY <1>1, WritersStay DEF SegCommit, Step, NewEpoch, Goto
<1>4. \A s \in Listed : Passed(s)
  <2>1. WalkFrom(next_seg, call[t].at) = {}
    BY <1>1, WalkNull
  <2>. QED  BY <1>1, <2>1 DEF CommitPassed, Committing, Ahead
<1>5. ListShape' /\ NothingUnlisted' /\ CallsInList'
  BY <1>1, <1>2 DEF ListShape, ListedAreLive, NothingUnlisted, CallsInList, Ahead, Committing
<1>6. NewSegments' /\ HeadLinked'
  BY <1>1, <1>2 DEF NewSegments, HeadLinked, Linking
<1>7. CallsInPlace' /\ CommitPassed'
  BY <1>1, <1>2, <1>4 DEF CallsInPlace, CommitPassed, Passed, Ahead, Committing
<1>8. CreatorsAreCurrent'
  BY <1>1, <1>2, <1>3 DEF CreatorsAreCurrent
<1>. QED  BY <1>2, <1>5, <1>6, <1>7, <1>8

\* The list is empty at first.
LEMMA InitShape == SegInit => ShapeInv /\ Listed = {}
<1>. SUFFICES ASSUME SegInit PROVE ShapeInv /\ Listed = {}
  OBVIOUS
<1>1. SegTypes /\ SlotIInv
  BY SegInitInv, InitSlotIInv DEF SegInit
<1>2. Listed = {}
  BY WalkNull DEF SegInit, Listed
<1>3. /\ allocs = NULL /\ \A s \in Segs : ~live[s]
      /\ \A t \in Threads : call[t].op = "none" /\ pc[t] = "idle" /\ ~Linking(t)
  BY DEF SegInit, Init, Idle, Linking
<1>4. ListShape /\ NewSegments /\ HeadLinked /\ NothingUnlisted
  BY <1>2, <1>3 DEF ListShape, ListedAreLive, NewSegments, HeadLinked, NothingUnlisted
<1>5. CallsInList /\ CallsInPlace /\ CommitPassed /\ CreatorsAreCurrent
  BY <1>2, <1>3 DEF CallsInList, CallsInPlace, CommitPassed, CreatorsAreCurrent, Committing
<1>. QED  BY <1>1, <1>2, <1>4, <1>5 DEF ShapeInv, ListInv

\* Each step keeps the shape of the list.
LEMMA NextShape ==
  ASSUME OneAllocator
  PROVE  ShapeInv /\ [SegNext]_segVars => ShapeInv'
<1>. SUFFICES ASSUME ShapeInv, [SegNext]_segVars PROVE ListInv'
  BY SegNextTypes, SegStepIsBatcherStep, NextSlotIInv DEF ShapeInv
<1>1. CASE UNCHANGED segVars
  <2>1. UNCHANGED <<listVars, call, pc, is_ro, tx, born, cnt_epoch>>
    BY <1>1 DEF segVars, vars, epochVars, localVars, history
  <2>2. EpochWriters' = EpochWriters
    BY <2>1 DEF EpochWriters
  <2>3. \A t \in Threads : pc'[t] \in {"reset", "new_epoch"} => \A s \in Listed : Passed(s)
    BY <2>1 DEF ShapeInv, ListInv, CommitPassed
  <2>. QED  BY <2>1, <2>2, <2>3, ListUntouched DEF ShapeInv
<1>2. CASE SegNext
  <2>. PICK t \in Threads : SegStep(t)
    BY <1>2 DEF SegNext
  <2>1. CASE ListStep(t)
    BY <2>1, AllocShape, LinkShape, PublishShape, MarksShape, CommitHeadShape, CommitSegShape,
       CommitNextShape DEF ListStep
  <2>2. CASE ~ListStep(t)
    BY <2>2, BatcherShape, BeginShape, EndShape, CommitEndShape DEF SegStep
  <2>. QED  BY <2>1, <2>2
<1>. QED  BY <1>1, <1>2

\* With one allocator the list is in shape in every state.
LEMMA ShapeInvariance ==
  ASSUME OneAllocator
  PROVE  SegSpec => []ShapeInv
  BY InitShape, NextShape, PTL DEF SegSpec

\* A list in shape: every call is at allocated memory, but for the commit that
\* has just freed a segment.
LEMMA ShapeMeansReadOnce == ShapeInv => FreedIsReadOnce
<1>. SUFFICES ASSUME ShapeInv, NEW t \in Threads, call[t].at # NULL
              PROVE  IF live[call[t].at]
                     THEN call[t].op = "commit_next" => call[t].at \in Listed
                     ELSE JustFreed(t)
  BY DEF FreedIsReadOnce, ShapeInv, ListInv, ListShape
<1> USE DEF ShapeInv, ListInv
<1>1. \A s \in Listed : live[s]
  BY DEF ListShape, ListedAreLive
<1>2. call[t].op \in SegOps \ {"none", "undo_head"}
  BY DEF SegTypes, ListTypes, Calls, CallsAtSegments, AtNone
<1>3. CASE call[t].op \in {"link", "publish"}
  BY <1>3 DEF NewSegments, Linking
<1>4. CASE call[t].op \in {"delete", "undo"}
  BY <1>1, <1>4 DEF CallsInList
<1>5. CASE call[t].op = "commit"
  BY <1>1, <1>5 DEF CallsInList, Committing, Ahead
<1>6. CASE call[t].op \in {"commit_next", "fault"}
  BY <1>6 DEF CallsInList, Committing, Ahead, JustFreed
<1>. QED  BY <1>2, <1>3, <1>4, <1>5, <1>6 DEF SegOps

\* Whoever frees and whoever fails meanwhile, findSegment meets allocated memory
\* only, and so do Link, the exchange of tm_free, Undo and Commit_seg, if one
\* thread allocates.  The exception is the read of next after Commit_seg has freed
\* the segment (tm.c:303, batcher_func.h:124), the only one: the segment is out of
\* the list, its memory has not been handed out again, and its next is in the list.
\* Two allocators can lose a segment to each other (alloc_race).
THEOREM FreedMemoryIsReadOnce ==
  ASSUME OneAllocator
  PROVE  SegSpec => []FreedIsReadOnce
  BY ShapeMeansReadOnce, ShapeInvariance, PTL

\* The shape of the list gives its links, to the head too when nobody is inside.
LEMMA ShapeMeansLinked == ShapeInv => ListLinked
<1>. SUFFICES ASSUME ShapeInv, Inside = {} PROVE ListLinked
  BY DEF ListLinked
<1>1. \A t \in Threads : call[t].op # "publish"
  BY DEF Inside, InsideLabels, ShapeInv, ListInv, CallsInPlace
<1>. QED  BY <1>1 DEF ShapeInv, ListInv, ListShape, HeadLinked, ListLinked

\* With nobody inside every link has its way back, also to the head, when
\* Commit_seg unlinks (batcher_func.h:115-120).
THEOREM ListIsLinked ==
  ASSUME OneAllocator
  PROVE  SegSpec => []ListLinked
  BY ShapeMeansLinked, ShapeInvariance, PTL

\* No mark outlives its epoch (Commit_seg clears it, batcher_func.h:144): no
\* tm_free aborts on a stale one.
THEOREM CreatorsStayCurrent ==
  ASSUME OneAllocator
  PROVE  SegSpec => []CreatorsAreCurrent
<1>1. ShapeInv => CreatorsAreCurrent
  BY DEF ShapeInv, ListInv
<1>. QED  BY <1>1, ShapeInvariance, PTL

-----------------------------------------------------------------------------
(* Each step keeps what the list owes to the clients. *)

PromiseInv == ShapeInv /\ HeapInv /\ IdsTell

\* Who frees a segment is a writer of the epoch.
LEMMA FreerIsWriter ==
  ASSUME ShapeInv, HistoryInPlace, NEW t \in Threads, NEW s, Freeing(t, s)
  PROVE  t \in EpochWriters
<1>1. CASE s \in gone[t]
  BY <1>1 DEF HistoryInPlace
<1>2. CASE call[t].op = "delete"
  BY <1>2, LiveWriter DEF ShapeInv, ListInv, CallsInPlace
<1>. QED  BY <1>1, <1>2 DEF Freeing

\* While a transaction is live its call has the epoch's list to itself and the
\* others who are live.
LEMMA LiveCall ==
  ASSUME PromiseInv, NEW t \in Threads, ListStep(t), pc[t] = "live", ~is_ro[t]
  PROVE  /\ HistoryInPlace /\ EpochHeap
         /\ UNCHANGED <<pc, is_ro, tx>> /\ EpochWriters' = EpochWriters /\ t \in EpochWriters
         /\ ToChar(tx[t]) = tx[t] /\ tx[t] # it_is_free
         /\ HistoryInPlace' /\ EpochHeap' => HeapInv'
<1>1. /\ UNCHANGED <<pc, is_ro, tx>> /\ EpochWriters' = EpochWriters /\ t \in EpochWriters
      /\ Closing = {} /\ \A u \in Threads : pc[u] \notin {"commit", "reset", "new_epoch"}
  BY ListStays, LiveWriter DEF PromiseInv
<1>. QED  BY <1>1 DEF PromiseInv, HeapInv, IdsTell

\* The types of what the promise is about.
LEMMA HeapTypes ==
  ASSUME SegTypes
  PROVE  /\ call \in [Threads -> Calls] /\ creator \in [Segs -> Chars]
         /\ to_delete \in [Segs -> BOOLEAN] /\ next_seg \in [Segs -> Pointers]
         /\ ops \in [Threads -> Nat] /\ MaxOps \in [Threads -> Nat] /\ heap \subseteq Segs
         /\ made \in [Threads -> SUBSET Segs] /\ gone \in [Threads -> SUBSET Segs]
         /\ Listed \subseteq Segs
  BY ListCloses, SegmentsAssumption DEF SegTypes, ListTypes, FieldTypes

\* A segment that is not in the list changes no walk.
LEMMA WalksStay ==
  ASSUME SegTypes, next_seg' \in [Segs -> Pointers], NEW p \in Listed \cup {NULL},
         \A s \in Listed : next_seg'[s] = next_seg[s]
  PROVE  WalkFrom(next_seg', p) = WalkFrom(next_seg, p)
<1>1. p \in Pointers /\ next_seg \in [Segs -> Pointers] /\ allocs \in Pointers
  BY ListCloses DEF Pointers
<1>2. WalkFrom(next_seg, p) \subseteq Listed
  BY <1>1, WalkWithin DEF Listed
<1>3. \A s \in WalkFrom(next_seg, p) : next_seg'[s] = next_seg[s]
  BY <1>2
<1>. QED  BY <1>1, <1>3, WalkSame

\* tm_alloc writes to a segment that nobody knows.
LEMMA AllocHeap ==
  ASSUME OneAllocator, PromiseInv, NEW t \in Threads, Alloc(t)
  PROVE  HeapInv'
<1> USE DEF PromiseInv
<1>0. ListStep(t) /\ pc[t] = "live" /\ ~is_ro[t] /\ call[t].op = "none" /\ ops[t] > 0
  BY DEF ListStep, Alloc, Call, At
<1>1. /\ HistoryInPlace /\ EpochHeap
      /\ UNCHANGED <<pc, is_ro, tx>> /\ EpochWriters' = EpochWriters /\ t \in EpochWriters
      /\ HistoryInPlace' /\ EpochHeap' => HeapInv'
  BY <1>0, LiveCall
<1>2. /\ Listed' = Listed /\ SegTypes'
      /\ UNCHANGED promiseVars /\ ops' = [ops EXCEPT ![t] = @ - 1]
  BY AllocShape, ListTypeSteps, <1>0, ListStays, NextIInv DEF Alloc, Call, ShapeInv, SegTypes, IInv
<1>3. /\ \A u \in Threads \ {t} : call'[u] = call[u]
      /\ call'[t].op \in {"none", "link"}
      /\ \A s \in Listed : /\ creator'[s] = creator[s] /\ to_delete'[s] = to_delete[s]
                           /\ next_seg'[s] = next_seg[s]
  <2>1. CASE UNCHANGED <<live, fields, call>>
    BY <1>0, <2>1 DEF fields
  <2>2. CASE ~UNCHANGED <<live, fields, call>>
    <3>1. PICK s \in Segs :
            /\ ~live[s]
            /\ creator' = [creator EXCEPT ![s] = ToChar(tx[t])]
            /\ to_delete' = [to_delete EXCEPT ![s] = FALSE]
            /\ next_seg' = [next_seg EXCEPT ![s] = allocs]
            /\ call' = [call EXCEPT ![t] = [op |-> "link", at |-> s]]
      BY <2>2 DEF Alloc, SetCall
    <3>2. s \notin Listed
      BY <3>1 DEF ShapeInv, ListInv, ListShape, ListedAreLive
    <3>. QED  BY <3>1, <3>2, HeapTypes DEF ShapeInv
  <2>. QED  BY <2>1, <2>2
<1>4. HistoryInPlace'
  BY <1>0, <1>1, <1>2, <1>3, HeapTypes DEF HistoryInPlace, Undoing, promiseVars, ShapeInv
<1>5. \A u \in Threads, s \in Listed : UndoComes(u, s) => UndoComes(u, s)'
  <2>. SUFFICES ASSUME NEW u \in Threads, NEW s \in Listed, UndoComes(u, s)
                PROVE  UndoComes(u, s)'
    OBVIOUS
  <2>1. u # t /\ call'[u] = call[u]
    BY <1>0, <1>3 DEF UndoComes
  <2>2. CASE call[u].op = "undo"
    <3>1. call[u].at \in Listed \cup {NULL} /\ next_seg' \in [Segs -> Pointers]
      BY <1>2, <2>2 DEF ShapeInv, ListInv, CallsInList, SegTypes, ListTypes, FieldTypes
    <3>2. WalkFrom(next_seg', call[u].at) = WalkFrom(next_seg, call[u].at)
      BY <1>3, <3>1, WalksStay DEF ShapeInv
    <3>. QED  BY <2>1, <3>2 DEF UndoComes
  <2>3. CASE call[u].op = "undo_head"
    BY <2>1, <2>3 DEF UndoComes
  <2>. QED  BY <2>2, <2>3 DEF UndoComes
<1>6. \A u \in Threads, s \in Segs : Freeing(u, s)' <=> Freeing(u, s)
  BY <1>0, <1>2, <1>3 DEF Freeing, promiseVars
<1> USE DEF EpochHeap, promiseVars
<1>7. EpochWriters \subseteq Threads /\ \A u \in Threads : made[u] \subseteq Listed
  BY <1>1 DEF EpochWriters, MadeStay
<1>8. HeapListed' /\ NewAreTheirs'
  BY <1>1, <1>2, <1>3, <1>5, <1>7 DEF HeapListed, NewAreTheirs
<1>9. MadeStay'
  BY <1>1, <1>2, <1>3, <1>7 DEF MadeStay
<1>10. FreedAreMarked'
  BY <1>1, <1>2, <1>3, <1>6 DEF FreedAreMarked, HeapListed
<1>11. MarkedAreFreed'
  BY <1>1, <1>2, <1>3, <1>6, HeapTypes DEF MarkedAreFreed, HeapListed, ShapeInv
<1>12. DeletedAreGone'
  BY <1>1, <1>2, <1>3 DEF DeletedAreGone, HeapListed
<1>13. GoneAreDeleted'
  <2>1. \A u \in Threads : gone[u] \subseteq Listed
    BY <1>1, HeapTypes DEF FreedAreMarked, HeapListed, Freeing, ShapeInv
  <2>. QED  BY <1>1, <1>2, <1>3, <2>1 DEF GoneAreDeleted
<1>. QED  BY <1>1, <1>4, <1>8, <1>9, <1>10, <1>11, <1>12, <1>13

\* The new segment joins the list, and what its transaction has made.
LEMMA PublishHeap ==
  ASSUME OneAllocator, PromiseInv, NEW t \in Threads, Link(t) \/ Publish(t)
  PROVE  HeapInv'
<1> USE DEF PromiseInv
<1> DEFINE s == call[t].at
<1>0. /\ ListStep(t) /\ pc[t] = "live" /\ ~is_ro[t] /\ call[t].op \in {"link", "publish"}
      /\ s \in Segs /\ s \notin Listed /\ creator[s] = ToChar(tx[t]) /\ ~to_delete[s]
  BY DEF ListStep, Link, Publish, At, ShapeInv, ListInv, NewSegments, Linking, SegTypes,
     CallsAtSegments, AtSegment
<1>1. /\ HistoryInPlace /\ EpochHeap
      /\ UNCHANGED <<pc, is_ro, tx>> /\ EpochWriters' = EpochWriters /\ t \in EpochWriters
      /\ HistoryInPlace' /\ EpochHeap' => HeapInv'
      /\ creator[s] = tx[t]
  BY <1>0, LiveCall
<1>2. /\ UNCHANGED <<creator, to_delete, next_seg, ops, heap, gone>>
      /\ \A u \in Threads \ {t} : call'[u] = call[u]
      /\ call'[t].op \in {"none", "publish"}
  BY HeapTypes DEF Link, Publish, SetCall, promiseVars, fields, ShapeInv
<1>3. \/ Listed' = Listed /\ made' = made
      \/ Listed' = {s} \cup Listed /\ made' = [made EXCEPT ![t] = @ \cup {s}]
  BY LinkShape, PublishShape DEF Link, Publish, promiseVars
<1>4. \A u \in Threads : made[u] \subseteq made'[u] /\ (u # t => made'[u] = made[u])
  BY <1>3, HeapTypes DEF ShapeInv
<1>5. HistoryInPlace'
  BY <1>0, <1>1, <1>2, <1>4 DEF HistoryInPlace, Undoing
<1>6. \A u \in Threads, r \in Segs : /\ Freeing(u, r)' <=> Freeing(u, r)
                                     /\ UndoComes(u, r) => UndoComes(u, r)'
  BY <1>0, <1>2 DEF Freeing, UndoComes
<1> USE DEF EpochHeap
<1>7. HeapListed' /\ s \notin heap
  BY <1>0, <1>1, <1>2, <1>3 DEF HeapListed
<1>8. NewAreTheirs'
  <2>. SUFFICES ASSUME NEW r \in Listed' \ heap
                PROVE  \E u \in EpochWriters :
                         creator[r] = tx[u] /\ (r \in made'[u] \/ to_delete[r] \/ UndoComes(u, r)')
    BY <1>1, <1>2 DEF NewAreTheirs
  <2>1. CASE r \in Listed
    <3>1. PICK u \in EpochWriters :
            creator[r] = tx[u] /\ (r \in made[u] \/ to_delete[r] \/ UndoComes(u, r))
      BY <1>1, <2>1 DEF NewAreTheirs
    <3>2. u \in Threads /\ r \in Segs
      BY <2>1, HeapTypes DEF EpochWriters, ShapeInv
    <3>. QED  BY <1>4, <1>6, <3>1, <3>2
  <2>2. CASE r \notin Listed
    <3>1. r = s /\ s \in made'[t]
      BY <1>3, <2>2, HeapTypes DEF ShapeInv
    <3>. QED  BY <1>1, <3>1
  <2>. QED  BY <2>1, <2>2
<1>9. MadeStay'
  <2>. SUFFICES ASSUME NEW u \in Threads, NEW r \in made'[u]
                PROVE  r \in Listed' \ heap /\ creator[r] = tx[u] /\ ~to_delete[r]
    BY <1>1, <1>2 DEF MadeStay
  <2>1. CASE r \in made[u]
    BY <1>1, <1>3, <2>1 DEF MadeStay
  <2>2. CASE r \notin made[u]
    <3>1. u = t /\ r = s /\ s \in Listed'
      BY <1>3, <1>4, <2>2, HeapTypes DEF ShapeInv
    <3>. QED  BY <1>0, <1>1, <1>7, <3>1
  <2>. QED  BY <2>1, <2>2
<1>10. FreedAreMarked' /\ GoneAreDeleted'
  BY <1>1, <1>2, <1>6 DEF FreedAreMarked, GoneAreDeleted
<1>11. MarkedAreFreed' /\ DeletedAreGone'
  BY <1>1, <1>2, <1>6, HeapTypes DEF MarkedAreFreed, DeletedAreGone, ShapeInv
<1>. QED  BY <1>1, <1>5, <1>7, <1>8, <1>9, <1>10, <1>11

\* A failed transaction drops its history: Undo will come to what it made, and it
\* has freed nothing.
LEMMA UndoStarts ==
  ASSUME PromiseInv, NEW t \in Threads, ListStep(t), Call(t), StartUndo(t), UNCHANGED listVars
  PROVE  HeapInv'
<1> USE DEF PromiseInv
<1>0. pc[t] = "live" /\ ~is_ro[t] /\ call[t].op = "none" /\ ops[t] > 0
  BY DEF Call, At
<1>1. /\ HistoryInPlace /\ EpochHeap
      /\ UNCHANGED <<pc, is_ro, tx>> /\ EpochWriters' = EpochWriters /\ t \in EpochWriters
      /\ HistoryInPlace' /\ EpochHeap' => HeapInv'
  BY <1>0, LiveCall
<1>2. /\ UNCHANGED <<creator, to_delete, next_seg, heap>> /\ Listed' = Listed
      /\ ops' = [ops EXCEPT ![t] = @ - 1]
      /\ \A u \in Threads \ {t} : call'[u] = call[u] /\ made'[u] = made[u] /\ gone'[u] = gone[u]
      /\ call'[t].op = "undo_head" /\ made'[t] = {} /\ gone'[t] = {} /\ gone[t] = {}
  <2>1. gone[t] = {}
    BY <1>0, <1>1 DEF HistoryInPlace
  <2>. QED  BY <2>1, HeapTypes DEF Call, StartUndo, SetCall, listVars, fields, Listed, ShapeInv
<1>3. HistoryInPlace'
  BY <1>0, <1>1, <1>2, HeapTypes DEF HistoryInPlace, Undoing, ShapeInv
<1>4. \A u \in Threads, s \in Segs : /\ Freeing(u, s)' <=> Freeing(u, s)
                                     /\ UndoComes(u, s) => UndoComes(u, s)'
                                     /\ s \in made[u] => s \in made'[u] \/ UndoComes(u, s)'
  BY <1>0, <1>2 DEF Freeing, UndoComes
<1>5. \A u \in Threads : made'[u] \subseteq made[u] /\ gone'[u] = gone[u]
  BY <1>2
<1>6. EpochWriters \subseteq Threads /\ Listed \subseteq Segs
  BY HeapTypes DEF EpochWriters, ShapeInv
<1> USE DEF EpochHeap
<1>7. HeapListed' /\ MadeStay' /\ GoneAreDeleted'
  BY <1>1, <1>2, <1>5 DEF HeapListed, MadeStay, GoneAreDeleted
<1>8. NewAreTheirs'
  BY <1>1, <1>2, <1>4, <1>6 DEF NewAreTheirs
<1>9. FreedAreMarked'
  BY <1>1, <1>2, <1>4 DEF FreedAreMarked
<1>10. MarkedAreFreed' /\ DeletedAreGone'
  BY <1>1, <1>2, <1>4, <1>5, HeapTypes DEF MarkedAreFreed, DeletedAreGone, ShapeInv
<1>. QED  BY <1>1, <1>3, <1>7, <1>8, <1>9, <1>10

\* tm_free marks a segment that was there before the epoch: those of the epoch
\* have a creator.
LEMMA FreeHeap ==
  ASSUME FreersCallOnce, PromiseInv, NEW t \in Threads, NEW s \in Segs, Free(t, s)
  PROVE  HeapInv'
<1> USE DEF PromiseInv
<1>0. ListStep(t) /\ pc[t] = "live" /\ ~is_ro[t] /\ call[t].op = "none" /\ ops[t] > 0
      /\ Call(t) /\ t \in Freers /\ s \in Named(t)
  BY DEF ListStep, Free, Call, At
<1>1. /\ HistoryInPlace /\ EpochHeap
      /\ UNCHANGED <<pc, is_ro, tx>> /\ EpochWriters' = EpochWriters /\ t \in EpochWriters
      /\ HistoryInPlace' /\ EpochHeap' => HeapInv'
      /\ ToChar(tx[t]) = tx[t] /\ tx[t] # it_is_free
  BY <1>0, LiveCall
<1>2. CASE ~(Found(s) /\ creator[s] = it_is_free)
  <2>1. StartUndo(t) /\ UNCHANGED listVars
    BY <1>2 DEF Free, listVars, fields
  <2>. QED  BY <1>0, <2>1, UndoStarts
<1>3. CASE Found(s) /\ creator[s] = it_is_free
  <2>1. /\ UNCHANGED <<to_delete, next_seg, heap, made, gone>> /\ Listed' = Listed
        /\ creator' = [creator EXCEPT ![s] = tx[t]]
        /\ ops' = [ops EXCEPT ![t] = @ - 1]
        /\ call' = [call EXCEPT ![t] = [op |-> "delete", at |-> s]]
    BY <1>1, <1>3, MarksShape DEF Free, Call, SetCall, promiseVars
  <2>2. /\ \A r \in Segs \ {s} : creator'[r] = creator[r]
        /\ creator'[s] = tx[t]
        /\ \A u \in Threads \ {t} : call'[u] = call[u] /\ ops'[u] = ops[u]
        /\ call'[t].op = "delete" /\ call'[t].at = s
    BY <2>1, HeapTypes DEF ShapeInv
  <2>2a. ops'[t] = 0 /\ MaxOps[t] \in Nat
    <3>1. ops[t] \in Nat /\ MaxOps[t] \in Nat /\ ops \in [Threads -> Nat]
      BY HeapTypes DEF ShapeInv
    <3>2. ops[t] <= MaxOps[t] /\ MaxOps[t] <= 1
      BY <1>0, <1>1 DEF HistoryInPlace, FreersCallOnce
    <3>. QED  BY <1>0, <2>1, <3>1, <3>2
  <2>3. s \in heap
    <3>1. s \notin made[t]
      BY <1>1, <1>3 DEF EpochHeap, MadeStay
    <3>. QED  BY <1>0, <3>1 DEF Named
  <2>4. \A u \in Threads : ~Freeing(u, s)
    <3>. SUFFICES ASSUME NEW u \in Threads, Freeing(u, s) PROVE FALSE
      OBVIOUS
    <3>1. tx[u] # it_is_free
      BY <1>1, FreerIsWriter DEF IdsTell
    <3>. QED  BY <1>1, <1>3, <3>1 DEF EpochHeap, FreedAreMarked
  <2>5. HistoryInPlace'
    BY <1>0, <1>1, <2>1, <2>2, <2>2a DEF HistoryInPlace, Undoing
  <2>6. \A u \in Threads, r \in Segs :
          /\ UndoComes(u, r) => UndoComes(u, r)'
          /\ Freeing(u, r) => Freeing(u, r)'
          /\ Freeing(u, r)' => Freeing(u, r) \/ (u = t /\ r = s)
    BY <1>0, <2>1, <2>2 DEF UndoComes, Freeing
  <2>7. Freeing(t, s)'
    BY <2>2 DEF Freeing
  <2>8. EpochWriters \subseteq Threads /\ Listed \subseteq Segs /\ heap \subseteq Segs
        /\ \A u \in Threads : made[u] \subseteq Segs
    BY HeapTypes DEF EpochWriters, ShapeInv
  <2> USE DEF EpochHeap
  <2>9. HeapListed' /\ GoneAreDeleted'
    BY <1>1, <2>1 DEF HeapListed, GoneAreDeleted
  <2>10. NewAreTheirs'
    BY <1>1, <2>1, <2>2, <2>3, <2>6, <2>8 DEF NewAreTheirs
  <2>11. MadeStay'
    BY <1>1, <2>1, <2>2, <2>3, <2>8 DEF MadeStay
  <2>12. FreedAreMarked'
    BY <1>1, <2>1, <2>2, <2>3, <2>4, <2>6 DEF FreedAreMarked
  <2>13. MarkedAreFreed' /\ DeletedAreGone'
    BY <1>1, <2>1, <2>2, <2>6, <2>7, <2>8 DEF MarkedAreFreed, DeletedAreGone
  <2>. QED  BY <1>1, <2>5, <2>9, <2>10, <2>11, <2>12, <2>13
<1>. QED  BY <1>2, <1>3

\* Its second store makes good on the mark.
LEMMA DeleteHeap ==
  ASSUME PromiseInv, NEW t \in Threads, Delete(t)
  PROVE  HeapInv'
<1> USE DEF PromiseInv, EpochHeap
<1> DEFINE s == call[t].at
<1>0. ListStep(t) /\ pc[t] = "live" /\ ~is_ro[t] /\ call[t].op = "delete" /\ s \in Segs
  BY DEF ListStep, Delete, At, ShapeInv, ListInv, CallsInPlace, SegTypes, CallsAtSegments,
     AtSegment
<1>1. /\ HistoryInPlace /\ EpochHeap
      /\ UNCHANGED <<pc, is_ro, tx>> /\ EpochWriters' = EpochWriters /\ t \in EpochWriters
      /\ HistoryInPlace' /\ EpochHeap' => HeapInv'
  BY <1>0, LiveCall
<1>2. /\ UNCHANGED <<creator, next_seg, ops, heap, made>> /\ Listed' = Listed
      /\ \A u \in Threads \ {t} : call'[u] = call[u] /\ gone'[u] = gone[u]
      /\ call'[t].op = "none" /\ gone'[t] = gone[t] \cup {s}
      /\ \A r \in Segs \ {s} : to_delete'[r] = to_delete[r]
      /\ to_delete'[s]
  BY <1>0, MarksShape, HeapTypes DEF Delete, SetCall, ShapeInv
<1>3. s \in heap
  BY <1>0, <1>1 DEF FreedAreMarked, Freeing
<1>4. HistoryInPlace'
  BY <1>0, <1>1, <1>2 DEF HistoryInPlace, Undoing
<1>5. \A u \in Threads, r \in Segs : /\ UndoComes(u, r) => UndoComes(u, r)'
                                     /\ Freeing(u, r)' <=> Freeing(u, r)
  BY <1>0, <1>2 DEF UndoComes, Freeing
<1>6. /\ EpochWriters \subseteq Threads /\ Listed \subseteq Segs /\ heap \subseteq Segs
      /\ \A u \in Threads : made[u] \subseteq Segs /\ gone[u] \subseteq Segs
  BY HeapTypes DEF EpochWriters, ShapeInv
<1>7. HeapListed' /\ NewAreTheirs'
  BY <1>1, <1>2, <1>3, <1>5, <1>6 DEF HeapListed, NewAreTheirs
<1>8. MadeStay' /\ FreedAreMarked'
  BY <1>1, <1>2, <1>3, <1>5, <1>6 DEF MadeStay, FreedAreMarked
<1>9. GoneAreDeleted' /\ MarkedAreFreed' /\ DeletedAreGone'
  BY <1>1, <1>2, <1>5, <1>6 DEF GoneAreDeleted, MarkedAreFreed, DeletedAreGone
<1>. QED  BY <1>1, <1>4, <1>7, <1>8, <1>9

\* Undo starts at the head of the list, so it comes to every segment ...
LEMMA UndoHeadHeap ==
  ASSUME PromiseInv, NEW t \in Threads, UndoHead(t)
  PROVE  HeapInv'
<1> USE DEF PromiseInv, EpochHeap
<1>0. ListStep(t) /\ pc[t] = "live" /\ ~is_ro[t] /\ call[t].op = "undo_head"
  BY DEF ListStep, UndoHead, At, ShapeInv, ListInv, CallsInPlace
<1>1. /\ HistoryInPlace /\ EpochHeap
      /\ UNCHANGED <<pc, is_ro, tx>> /\ EpochWriters' = EpochWriters /\ t \in EpochWriters
      /\ HistoryInPlace' /\ EpochHeap' => HeapInv'
  BY <1>0, LiveCall
<1>2. /\ UNCHANGED <<creator, to_delete, next_seg, ops, heap, made, gone>> /\ Listed' = Listed
      /\ \A u \in Threads \ {t} : call'[u] = call[u]
      /\ call'[t].op = "undo" /\ call'[t].at = allocs /\ Listed = WalkFrom(next_seg, allocs)
  BY <1>0, MarksShape, HeapTypes DEF UndoHead, SetCall, listVars, fields, promiseVars, ShapeInv,
     Listed
<1>3. HistoryInPlace'
  BY <1>0, <1>1, <1>2 DEF HistoryInPlace, Undoing
<1>4. \A u \in Threads, r \in Segs :
        /\ UndoComes(u, r) /\ r \in Listed => UndoComes(u, r)'
        /\ Freeing(u, r)' <=> Freeing(u, r)
  BY <1>0, <1>2 DEF UndoComes, Freeing
<1>5. EpochWriters \subseteq Threads /\ Listed \subseteq Segs /\ heap \subseteq Segs
  BY HeapTypes DEF EpochWriters, ShapeInv
<1>6. NewAreTheirs'
  BY <1>1, <1>2, <1>4, <1>5 DEF NewAreTheirs
<1>7. HeapListed' /\ MadeStay' /\ FreedAreMarked'
  BY <1>1, <1>2, <1>4 DEF HeapListed, MadeStay, FreedAreMarked
<1>8. GoneAreDeleted' /\ MarkedAreFreed' /\ DeletedAreGone'
  BY <1>1, <1>2, <1>4, <1>5 DEF GoneAreDeleted, MarkedAreFreed, DeletedAreGone
<1>. QED  BY <1>1, <1>3, <1>6, <1>7, <1>8

\* ... and deletes those its transaction has made, and no other: nobody else has
\* its id, and it has freed nothing.
LEMMA UndoSegHeap ==
  ASSUME PromiseInv, NEW t \in Threads, UndoSeg(t)
  PROVE  HeapInv'
<1> USE DEF PromiseInv, EpochHeap
<1> DEFINE s == call[t].at
<1>0. /\ ListStep(t) /\ pc[t] = "live" /\ ~is_ro[t] /\ call[t].op = "undo"
      /\ s \in Listed /\ Undoing(t) /\ s \in Segs
  BY HeapTypes DEF ListStep, UndoSeg, At, ShapeInv, ListInv, CallsInPlace, CallsInList, Undoing
<1>1. /\ HistoryInPlace /\ EpochHeap
      /\ UNCHANGED <<pc, is_ro, tx>> /\ EpochWriters' = EpochWriters /\ t \in EpochWriters
      /\ HistoryInPlace' /\ EpochHeap' => HeapInv'
      /\ tx[t] # it_is_free
  BY <1>0, LiveCall
<1>2. /\ UNCHANGED <<creator, next_seg, ops, heap, made, gone>> /\ Listed' = Listed
      /\ \A u \in Threads \ {t} : call'[u] = call[u]
      /\ call'[t].op = "undo" /\ call'[t].at = next_seg[s]
      /\ \A r \in Segs \ {s} : to_delete'[r] = to_delete[r]
      /\ to_delete'[s] = (to_delete[s] \/ creator[s] = tx[t])
  BY <1>0, MarksShape, HeapTypes DEF UndoSeg, SetCall, promiseVars, ShapeInv
<1>3. made[t] = {} /\ \A r \in Segs : ~Freeing(t, r)
  BY <1>0, <1>1 DEF HistoryInPlace, Freeing
<1>4. \A u \in EpochWriters \ {t} : tx[u] # tx[t]
  BY <1>1 DEF IdsTell, UniqueIds
<1>5. \A u \in Threads : s \in made[u] => creator[s] # tx[t]
  BY <1>1, <1>3, <1>4 DEF MadeStay, HistoryInPlace
<1>6. s \in heap => creator[s] # tx[t]
  <2>. SUFFICES ASSUME s \in heap, creator[s] = tx[t] PROVE FALSE
    OBVIOUS
  <2>1. PICK u \in Threads : Freeing(u, s)
    BY <1>1 DEF MarkedAreFreed
  <2>2. u \in EpochWriters /\ tx[u] = tx[t]
    BY <1>0, <1>1, <2>1, FreerIsWriter DEF FreedAreMarked
  <2>. QED  BY <1>0, <1>3, <1>4, <2>1, <2>2
<1>7. HistoryInPlace'
  BY <1>0, <1>1, <1>2 DEF HistoryInPlace, Undoing
<1>8. /\ \A u \in Threads, r \in Segs : Freeing(u, r)' <=> Freeing(u, r)
      /\ \A u \in Threads \ {t}, r \in Segs : UndoComes(u, r)' <=> UndoComes(u, r)
      /\ \A r \in Segs : UndoComes(t, r) => r = s \/ UndoComes(t, r)'
  <2>1. WalkFrom(next_seg, s) = {s} \cup WalkFrom(next_seg, next_seg[s])
    BY <1>0, HeapTypes, WalkStep DEF ShapeInv
  <2>. QED  BY <1>0, <1>2, <2>1 DEF Freeing, UndoComes
<1>9. /\ EpochWriters \subseteq Threads /\ Listed \subseteq Segs /\ heap \subseteq Segs
      /\ \A u \in Threads : made[u] \subseteq Segs /\ gone[u] \subseteq Segs
  BY HeapTypes DEF EpochWriters, ShapeInv
<1>10. \A r \in Segs : /\ to_delete[r] => to_delete'[r]
                       /\ r \in heap \/ (\E u \in Threads : r \in made[u])
                            => (to_delete'[r] <=> to_delete[r])
  <2>. SUFFICES ASSUME NEW r \in Segs
                PROVE  /\ to_delete[r] => to_delete'[r]
                       /\ r \in heap \/ (\E u \in Threads : r \in made[u])
                            => (to_delete'[r] <=> to_delete[r])
    OBVIOUS
  <2>1. CASE r = s
    BY <1>2, <1>5, <1>6, <2>1
  <2>2. CASE r # s
    BY <1>2, <2>2
  <2>. QED  BY <2>1, <2>2
<1>11. NewAreTheirs'
  <2>. SUFFICES ASSUME NEW r \in Listed \ heap
                PROVE  \E u \in EpochWriters :
                         creator[r] = tx[u] /\ (r \in made[u] \/ to_delete'[r] \/ UndoComes(u, r)')
    BY <1>1, <1>2 DEF NewAreTheirs
  <2>1. PICK u \in EpochWriters :
          creator[r] = tx[u] /\ (r \in made[u] \/ to_delete[r] \/ UndoComes(u, r))
    BY <1>1 DEF NewAreTheirs
  <2>2. CASE u = t
    BY <1>2, <1>8, <1>9, <1>10, <2>1, <2>2
  <2>3. CASE u # t
    BY <1>8, <1>9, <1>10, <2>1, <2>3
  <2>. QED  BY <2>2, <2>3
<1>12. HeapListed' /\ MadeStay' /\ FreedAreMarked'
  BY <1>1, <1>2, <1>8, <1>9, <1>10 DEF HeapListed, MadeStay, FreedAreMarked
<1>13. GoneAreDeleted' /\ MarkedAreFreed' /\ DeletedAreGone'
  BY <1>1, <1>2, <1>8, <1>9, <1>10 DEF GoneAreDeleted, MarkedAreFreed, DeletedAreGone
<1>. QED  BY <1>1, <1>7, <1>11, <1>12, <1>13

\* The commit's walk takes out what is to be deleted: the rest is what the epoch
\* leaves allocated.
LEMMA CommitWalkHeap ==
  ASSUME PromiseInv, NEW t \in Threads, CommitHead(t) \/ CommitSeg(t) \/ CommitNext(t)
  PROVE  HeapInv'
<1> USE DEF PromiseInv
<1>1. /\ pc[t] = "commit" /\ UNCHANGED <<pc, is_ro, tx, ops, promiseVars, to_delete>>
      /\ EpochWriters' = EpochWriters /\ Closing' = Closing /\ t \in Closing
      /\ call'[t].op \in Committing /\ \A u \in Threads \ {t} : call'[u] = call[u]
  <2>1. ListStep(t) /\ pc[t] = "commit" /\ t \in Closing
    BY DEF CommitHead, CommitSeg, CommitNext, ListStep, Closing, ClosingLabels
  <2>. QED
    BY <2>1, ListStays, HeapTypes DEF CommitHead, CommitSeg, CommitNext, Reclaim, Keep,
       SetCall, listVars, fields, ShapeInv, Committing
<1>2. \A u \in Threads : call'[u].op = call[u].op \/ call'[u].op \in Committing
  BY <1>1
<1>3. HistoryInPlace'
  BY <1>1, <1>2 DEF HeapInv, HistoryInPlace, Undoing, promiseVars, Committing
<1>4. {s \in Listed' : ~to_delete'[s]} = {s \in Listed : ~to_delete[s]}
  BY <1>1, CommitHeadShape, CommitSegShape, CommitNextShape
<1>5. CommitHeap'
  BY <1>1, <1>4 DEF HeapInv, CommitHeap, Kept, promiseVars
<1>6. \A u \in Threads : pc'[u] \notin {"reset", "new_epoch"}
  <2>1. pc[t] \in ClosingLabels
    BY <1>1 DEF ClosingLabels
  <2>. QED  BY <1>1, <2>1, AloneInCommit DEF ClosingLabels
<1>. QED  BY <1>1, <1>3, <1>5, <1>6 DEF HeapInv

\* At its end the list is the new heap.
LEMMA CommitEndHeap ==
  ASSUME PromiseInv, NEW t \in Threads, SegCommit(t)
  PROVE  HeapInv'
<1> USE DEF PromiseInv
<1>1. /\ pc[t] = "commit" /\ pc' = [pc EXCEPT ![t] = "reset"] /\ pc \in [Threads -> Labels]
      /\ call[t].op = "commit" /\ call[t].at = NULL
      /\ call' = [call EXCEPT ![t] = [op |-> "none", at |-> NULL]]
      /\ heap' = Kept /\ made' = [u \in Threads |-> {}] /\ gone' = [u \in Threads |-> {}]
      /\ UNCHANGED <<ops, to_delete>> /\ Listed' = Listed
  <2>1. heap' = Kept
    BY DEF SegCommit, Kept
  <2>2. Listed' = Listed
    BY CommitEndShape
  <2>3. pc \in [Threads -> Labels]
    BY DEF ShapeInv, SlotIInv, IInv, TypeOK
  <2>. QED
    BY <2>1, <2>2, <2>3 DEF SegCommit, Commit, Goto, SetCall, listVars, fields
<1>2. \A u \in Threads : call'[u].op = "none"
  BY <1>1, AloneInCommit, HeapTypes DEF ClosingLabels, ShapeInv
<1>3. HistoryInPlace'
  BY <1>1, <1>2 DEF HeapInv, HistoryInPlace, Undoing
<1>4. Listed = heap'
  <2>1. \A s \in Listed : ~to_delete[s]
    <3>1. WalkFrom(next_seg, call[t].at) = {}
      BY <1>1, WalkNull
    <3>. QED  BY <1>1, <3>1 DEF ShapeInv, ListInv, CommitPassed, Passed, Committing, Ahead
  <2>2. CommitHeap
    BY <1>1 DEF HeapInv
  <2>. QED  BY <1>1, <2>1, <2>2 DEF CommitHeap
<1>5. DoneHeap' /\ t \in Closing'
  BY <1>1, <1>4 DEF DoneHeap, Closing, ClosingLabels
<1>6. \A u \in Threads : pc'[u] # "commit"
  BY <1>1, AloneInCommit DEF ClosingLabels
<1>. QED  BY <1>3, <1>5, <1>6 DEF HeapInv

\* The heap stays as it is with the list, its marks and its calls, and with the
\* writers of the epoch.
LEMMA HeapUntouched ==
  ASSUME PromiseInv, UNCHANGED <<listVars, call, promiseVars>>, Listed' = Listed,
         \A u \in EpochWriters : u \in EpochWriters' /\ tx'[u] = tx[u]
  PROVE  /\ EpochHeap => EpochHeap'
         /\ CommitHeap => CommitHeap'
         /\ DoneHeap => DoneHeap'
         /\ \A u \in Threads : /\ made'[u] \cup gone'[u] # {} => u \in EpochWriters'
                               /\ Undoing(u)' => made'[u] = {} /\ gone'[u] = {}
<1> USE DEF PromiseInv
<1>1. /\ UNCHANGED <<creator, to_delete, next_seg, call, heap, made, gone>>
      /\ HistoryInPlace
  BY DEF listVars, fields, promiseVars, HeapInv
<1>2. CommitHeap => CommitHeap'
  BY <1>1 DEF CommitHeap, Kept
<1>3. DoneHeap => DoneHeap'
  BY <1>1 DEF DoneHeap
<1>4. \A u \in Threads : /\ made'[u] \cup gone'[u] # {} => u \in EpochWriters'
                         /\ Undoing(u)' => made'[u] = {} /\ gone'[u] = {}
  BY <1>1 DEF HistoryInPlace, Undoing
<1>5. \A u \in Threads, s \in Segs : /\ Freeing(u, s)' <=> Freeing(u, s)
                                     /\ UndoComes(u, s)' <=> UndoComes(u, s)
                                     /\ Freeing(u, s) => tx'[u] = tx[u]
                                     /\ s \in made[u] => tx'[u] = tx[u]
  BY <1>1, FreerIsWriter DEF Freeing, UndoComes, HistoryInPlace
<1>6. EpochHeap => EpochHeap'
  <2>. SUFFICES ASSUME EpochHeap PROVE EpochHeap'
    OBVIOUS
  <2> USE DEF EpochHeap
  <2>1. /\ EpochWriters \subseteq Threads /\ Listed \subseteq Segs /\ heap \subseteq Segs
        /\ \A u \in Threads : made[u] \subseteq Segs
    BY HeapTypes DEF EpochWriters, ShapeInv
  <2>2. NewAreTheirs'
    BY <1>1, <1>5, <2>1 DEF NewAreTheirs
  <2>3. HeapListed' /\ MadeStay' /\ FreedAreMarked'
    BY <1>1, <1>5, <2>1 DEF HeapListed, MadeStay, FreedAreMarked
  <2>4. GoneAreDeleted' /\ MarkedAreFreed' /\ DeletedAreGone'
    BY <1>1, <1>5, <2>1 DEF GoneAreDeleted, MarkedAreFreed, DeletedAreGone
  <2>. QED  BY <2>2, <2>3, <2>4
<1>. QED  BY <1>2, <1>3, <1>4, <1>6

\* The last one out finds the list ready for the commit: what is not to be
\* deleted is what the epoch leaves allocated.
LEMMA LastHeap ==
  ASSUME PromiseInv, EpochHeap, \A u \in Threads : call[u].op = "none"
  PROVE  CommitHeap
<1> USE DEF PromiseInv, EpochHeap
<1>1. ASSUME NEW s \in Listed, ~to_delete[s] PROVE s \in Kept
  <2>1. s \in heap \/ \E u \in Threads : s \in made[u]
    BY <1>1 DEF NewAreTheirs, UndoComes, EpochWriters
  <2>2. \A u \in Threads : s \notin gone[u]
    BY <1>1 DEF GoneAreDeleted
  <2>. QED  BY <2>1, <2>2 DEF Kept
<1>2. ASSUME NEW s \in Kept PROVE s \in Listed /\ ~to_delete[s]
  <2>1. CASE s \in heap
    BY <1>2, <2>1 DEF Kept, HeapListed, DeletedAreGone
  <2>2. CASE s \notin heap
    BY <1>2, <2>2 DEF Kept, MadeStay
  <2>. QED  BY <2>1, <2>2
<1>. QED  BY <1>1, <1>2 DEF CommitHeap

\* The next epoch opens on the heap that the commit has left: nothing is marked.
LEMMA NewEpochHeap ==
  ASSUME PromiseInv, NEW t \in Threads, NewEpoch(t), UNCHANGED <<listVars, call, ops, promiseVars>>
  PROVE  HeapInv'
<1> USE DEF PromiseInv
<1>1. /\ pc[t] = "new_epoch" /\ pc[t] \in ClosingLabels /\ pc'[t] = "end_next"
      /\ \A u \in Threads \ {t} : pc'[u] = pc[u]
      /\ UNCHANGED <<creator, to_delete, call, ops, heap, made, gone>>
  BY DEF NewEpoch, Goto, ClosingLabels, listVars, fields, promiseVars, ShapeInv, SlotIInv, IInv,
     TypeOK
<1>2. \A u \in Threads : call'[u].op = "none" /\ pc'[u] \notin ClosingLabels
  <2>1. call[t].op \notin Committing
    BY <1>1 DEF ShapeInv, ListInv, CallsInPlace
  <2>. QED  BY <1>1, <2>1, AloneInCommit DEF ClosingLabels
<1>3. /\ Listed' = Listed /\ Listed = heap
      /\ \A u \in Threads : made'[u] = {} /\ gone'[u] = {}
      /\ \A s \in Listed : creator'[s] = it_is_free /\ ~to_delete'[s]
  BY <1>1, BatcherShape DEF EndStep, HeapInv, DoneHeap, ShapeInv, ListInv, CommitPassed, Passed
<1>4. HistoryInPlace'
  BY <1>1, <1>2, <1>3 DEF HeapInv, HistoryInPlace, Undoing
<1>5. \A u \in Threads, s \in Segs : ~Freeing(u, s)'
  BY <1>2, <1>3 DEF Freeing
<1>6. EpochHeap'
  BY <1>1, <1>3, <1>5 DEF EpochHeap, HeapListed, NewAreTheirs, MadeStay, FreedAreMarked,
     GoneAreDeleted, MarkedAreFreed, DeletedAreGone
<1>. QED  BY <1>2, <1>4, <1>6 DEF HeapInv, ClosingLabels

\* The other steps of tm_begin and tm_end leave it as it is; the last one out
\* leaves it to its commit.
LEMMA BatcherHeap ==
  ASSUME PromiseInv, NEW t \in Threads, BeginStep(t) \/ EndStep(t),
         UNCHANGED <<listVars, call, ops, promiseVars>>
  PROVE  HeapInv'
<1> USE DEF PromiseInv
<1>1. CASE NewEpoch(t)
  BY <1>1, NewEpochHeap
<1>2. CASE ~NewEpoch(t)
  <2>1. /\ TypeOK /\ CountExact /\ CommitAlone
        /\ \A u \in EpochWriters : u \in EpochWriters' /\ tx'[u] = tx[u]
    BY <1>2, WritersStay DEF Step, ShapeInv, SlotIInv, IInv
  <2>2. /\ EpochHeap => EpochHeap'
        /\ CommitHeap => CommitHeap'
        /\ DoneHeap => DoneHeap'
        /\ \A u \in Threads : /\ made'[u] \cup gone'[u] # {} => u \in EpochWriters'
                              /\ Undoing(u)' => made'[u] = {} /\ gone'[u] = {}
    BY <2>1, BatcherShape, HeapUntouched
  <2>3. HistoryInPlace'
    BY <2>2 DEF HeapInv, HistoryInPlace, promiseVars
  <2>4. /\ \A u \in Threads \ {t} : pc'[u] = pc[u]
        /\ pc[t] \notin {"idle", "live", "commit"} /\ pc'[t] # "reset"
        /\ pc'[t] = "new_epoch" => pc[t] = "reset"
        /\ pc[t] = "new_epoch" => NewEpoch(t)
        /\ pc[t] = "reset" => pc'[t] = "new_epoch"
    BY <2>1, TurnSteps
  <2>5. Closing' = {} => EpochHeap'
    <3>1. Closing' = {} => Closing = {}
      BY <1>2, <2>4 DEF Closing, ClosingLabels
    <3>. QED  BY <2>2, <3>1 DEF HeapInv
  <2>6. \A u \in Threads : pc'[u] \in {"reset", "new_epoch"} => DoneHeap'
    BY <2>2, <2>4 DEF HeapInv
  <2>7. ASSUME pc'[t] = "commit" PROVE CommitHeap'
    <3>1. Leave(t) /\ IsLast
      BY <2>1, <2>7 DEF BeginStep, EndStep, BeginTurn, TakeSlot, Enter, BeginNext, Refuse, Skip,
         SkipLoad, Retry, EndTurn, Leave, EndNext, Reset, NewEpoch, Park, ParkLoad, Unpark, Goto,
         TypeOK
    <3>2. Inside' = {} /\ t \in Inside
      BY <2>1, <3>1, LeaveCounted, InsideSteps
    <3>3. Closing = {}
      BY <2>1, <3>2 DEF CommitAlone
    <3>4. \A u \in Threads : pc[u] # "live" /\ pc[u] # "commit"
      BY <2>4, <3>2, <3>3 DEF Inside, InsideLabels, Closing, ClosingLabels
    <3>5. \A u \in Threads : call[u].op = "none"
      BY <3>4, HeapTypes DEF ShapeInv, ListInv, CallsInPlace, Calls, SegOps, Committing
    <3>. QED  BY <2>2, <3>3, <3>5, LastHeap DEF HeapInv
  <2>8. \A u \in Threads : pc'[u] = "commit" => CommitHeap'
    BY <2>2, <2>4, <2>7 DEF HeapInv
  <2>. QED  BY <2>3, <2>5, <2>6, <2>8 DEF HeapInv
<1>. QED  BY <1>1, <1>2

\* A transaction begins with nothing made or freed: its thread was in no epoch.
LEMMA BeginHeap ==
  ASSUME PromiseInv, NEW t \in Threads, SegBegin(t)
  PROVE  HeapInv'
<1> USE DEF PromiseInv
<1>1. /\ pc[t] = "idle" /\ pc'[t] = "begin_spin" /\ \A u \in Threads \ {t} : pc'[u] = pc[u]
      /\ UNCHANGED <<listVars, call, promiseVars>>
      /\ ops' = [ops EXCEPT ![t] = MaxOps[t]] /\ ops \in [Threads -> Nat]
      /\ MaxOps \in [Threads -> Nat]
  BY HeapTypes DEF SegBegin, ClientBegins, CallBegin, Goto, ShapeInv, SlotIInv, IInv, TypeOK
<1>2. t \notin EpochWriters /\ call[t].op = "none"
  <2>1. ~is_ro[t] => born[t] < cnt_epoch
    BY <1>1 DEF ShapeInv, SlotIInv, WritersWait
  <2>2. born[t] < cnt_epoch => born[t] # cnt_epoch
    BY DEF ShapeInv, SlotIInv, IInv, TypeOK
  <2>. QED
    BY <1>1, <2>1, <2>2, HeapTypes DEF EpochWriters, ShapeInv, ListInv, CallsInPlace, Calls, SegOps,
       Committing
<1>3. \A u \in EpochWriters : u \in EpochWriters' /\ tx'[u] = tx[u]
  BY <1>1, WritersStay DEF SegBegin, NewEpoch, Goto, ShapeInv
<1>4. /\ EpochHeap => EpochHeap'
      /\ CommitHeap => CommitHeap'
      /\ DoneHeap => DoneHeap'
      /\ \A u \in Threads : /\ made'[u] \cup gone'[u] # {} => u \in EpochWriters'
                            /\ Undoing(u)' => made'[u] = {} /\ gone'[u] = {}
  BY <1>1, <1>3, BeginShape, HeapUntouched
<1>5. gone'[t] = {} /\ call'[t].op = "none"
  BY <1>1, <1>2 DEF HeapInv, HistoryInPlace, promiseVars
<1>6. HistoryInPlace'
  BY <1>1, <1>4, <1>5 DEF HeapInv, HistoryInPlace, promiseVars
<1>7. Closing' = Closing
  BY <1>1 DEF Closing, ClosingLabels
<1>. QED  BY <1>1, <1>4, <1>6, <1>7 DEF HeapInv

\* It ends after the last segment that Undo had to come to.
LEMMA EndHeap ==
  ASSUME PromiseInv, NEW t \in Threads, SegEnd(t)
  PROVE  HeapInv'
<1> USE DEF PromiseInv
<1>1. /\ pc[t] = "live" /\ pc'[t] = "end_spin" /\ \A u \in Threads \ {t} : pc'[u] = pc[u]
      /\ UNCHANGED <<creator, to_delete, next_seg, ops, heap, made, gone, tx>>
      /\ call[t].op = "none" \/ (call[t].op = "undo" /\ call[t].at = NULL)
      /\ call'[t].op = "none" /\ \A u \in Threads \ {t} : call'[u] = call[u]
      /\ Listed' = Listed
  <2>1. Listed' = Listed
    BY EndShape
  <2>2. pc \in [Threads -> Labels] /\ call \in [Threads -> Calls]
    BY HeapTypes DEF ShapeInv, SlotIInv, IInv, TypeOK
  <2>. QED
    BY <2>1, <2>2 DEF SegEnd, At, CallEnd, Goto, SetCall, localVars, listVars, fields, promiseVars
<1>2. /\ Closing = {} /\ \A u \in Threads : pc'[u] \notin {"commit", "reset", "new_epoch"}
      /\ EpochHeap /\ HistoryInPlace
  <2>1. Closing = {}
    BY <1>1 DEF ShapeInv, SlotIInv, IInv, CommitAlone, Inside, InsideLabels
  <2>. QED  BY <1>1, <2>1 DEF HeapInv, Closing, ClosingLabels
<1>3. \A u \in EpochWriters : u \in EpochWriters' /\ tx'[u] = tx[u]
  BY <1>1, WritersStay DEF SegEnd, Step, NewEpoch, Goto, ShapeInv
<1>4. HistoryInPlace'
  BY <1>1, <1>2, <1>3 DEF HistoryInPlace, Undoing
<1>5. \A u \in Threads, s \in Segs : /\ Freeing(u, s)' <=> Freeing(u, s)
                                     /\ UndoComes(u, s) => UndoComes(u, s)'
  <2>1. WalkFrom(next_seg, NULL) = {}
    BY WalkNull
  <2>. QED  BY <1>1, <2>1 DEF Freeing, UndoComes
<1> USE DEF EpochHeap
<1>6. EpochWriters \subseteq Threads /\ Listed \subseteq Segs /\ heap \subseteq Segs
  BY HeapTypes DEF EpochWriters, ShapeInv
<1>7. NewAreTheirs'
  BY <1>1, <1>2, <1>3, <1>5, <1>6 DEF NewAreTheirs
<1>8. HeapListed' /\ MadeStay' /\ FreedAreMarked'
  BY <1>1, <1>2, <1>5 DEF HeapListed, MadeStay, FreedAreMarked
<1>9. GoneAreDeleted' /\ MarkedAreFreed' /\ DeletedAreGone'
  BY <1>1, <1>2, <1>5, <1>6 DEF GoneAreDeleted, MarkedAreFreed, DeletedAreGone
<1>. QED  BY <1>2, <1>4, <1>7, <1>8, <1>9 DEF HeapInv

\* A tm_read or tm_write that fails starts Undo.
LEMMA FailHeap ==
  ASSUME PromiseInv, NEW t \in Threads, Fail(t)
  PROVE  HeapInv'
  BY UndoStarts DEF Fail, ListStep

\* Nothing is allocated at first.
LEMMA InitHeap == SegInit => HeapInv
<1>. SUFFICES ASSUME SegInit PROVE HeapInv
  OBVIOUS
<1>1. /\ Listed = {} /\ heap = {} /\ ops = MaxOps
      /\ \A t \in Threads : /\ pc[t] = "idle" /\ call[t].op = "none"
                            /\ made[t] = {} /\ gone[t] = {}
  BY InitShape DEF SegInit, Init, Idle
<1>2. \A t \in Threads : ops[t] <= MaxOps[t]
  BY <1>1, SegmentsAssumption
<1>3. HistoryInPlace
  BY <1>1, <1>2 DEF HistoryInPlace, Undoing
<1>4. EpochHeap
  BY <1>1 DEF EpochHeap, HeapListed, NewAreTheirs, MadeStay, FreedAreMarked, GoneAreDeleted,
     MarkedAreFreed, DeletedAreGone, Freeing
<1>. QED  BY <1>1, <1>3, <1>4 DEF HeapInv

\* Each step keeps the promise, as long as marks tell transactions apart.
LEMMA NextHeap ==
  ASSUME OneAllocator, FreersCallOnce
  PROVE  PromiseInv /\ [SegNext]_segVars => HeapInv'
<1>. SUFFICES ASSUME PromiseInv, [SegNext]_segVars PROVE HeapInv'
  OBVIOUS
<1>1. CASE UNCHANGED segVars
  <2>1. /\ UNCHANGED <<listVars, call, ops, promiseVars, pc, is_ro, tx, born, cnt_epoch>>
        /\ EpochWriters' = EpochWriters /\ Closing' = Closing /\ Listed' = Listed
    BY <1>1 DEF segVars, vars, epochVars, localVars, history, EpochWriters, Closing, Listed,
       listVars, fields
  <2>2. /\ EpochHeap => EpochHeap'
        /\ CommitHeap => CommitHeap'
        /\ DoneHeap => DoneHeap'
        /\ \A u \in Threads : /\ made'[u] \cup gone'[u] # {} => u \in EpochWriters'
                              /\ Undoing(u)' => made'[u] = {} /\ gone'[u] = {}
    BY <2>1, HeapUntouched
  <2>3. HistoryInPlace'
    BY <2>1, <2>2 DEF PromiseInv, HeapInv, HistoryInPlace, promiseVars
  <2>. QED  BY <2>1, <2>2, <2>3 DEF PromiseInv, HeapInv
<1>2. CASE SegNext
  <2>. PICK t \in Threads : SegStep(t)
    BY <1>2 DEF SegNext
  <2>1. CASE ListStep(t)
    BY <2>1, AllocHeap, PublishHeap, FreeHeap, DeleteHeap, FailHeap, UndoHeadHeap, UndoSegHeap,
       CommitWalkHeap DEF ListStep
  <2>2. CASE ~ListStep(t)
    BY <2>2, BatcherHeap, BeginHeap, EndHeap, CommitEndHeap DEF SegStep
  <2>. QED  BY <2>1, <2>2
<1>. QED  BY <1>1, <1>2

\* Between epochs the promise is that nothing is lost.
LEMMA PromiseMeansNothingLost == ShapeInv /\ HeapInv => NothingLost
<1>. SUFFICES ASSUME ShapeInv, HeapInv,
                     \A t \in Threads : pc[t] \in {"idle", "new_epoch", "end_next"}
              PROVE  Listed = heap /\ {s \in Segs : live[s]} = heap
  BY DEF NothingLost
<1>1. {s \in Segs : live[s]} = Listed
  <2>1. \A t \in Threads : ~Linking(t)
    BY DEF Linking, ShapeInv, ListInv, CallsInPlace
  <2>. QED
    BY <2>1, HeapTypes DEF ShapeInv, ListInv, NothingUnlisted, ListShape, ListedAreLive
<1>2. CASE \E t \in Threads : pc[t] = "new_epoch"
  BY <1>1, <1>2 DEF HeapInv, DoneHeap
<1>3. CASE \A t \in Threads : pc[t] # "new_epoch"
  <2>1. EpochWriters = {}
    BY <1>3 DEF EpochWriters, ShapeInv, SlotIInv, WritersWait, IInv, TypeOK
  <2>2. EpochHeap
    BY <1>3 DEF HeapInv, Closing, ClosingLabels
  <2>3. Listed = heap
    BY <2>1, <2>2 DEF EpochHeap, HeapListed, NewAreTheirs
  <2>. QED  BY <1>1, <2>3
<1>. QED  BY <1>2, <1>3

\* With one allocator, transactions that free and do nothing else, and ids that
\* tell the writers of an epoch apart, whenever no epoch is under way the list,
\* the memory in use and what the committed transactions left are the same:
\* tm_free of a committed transaction has freed, tm_alloc of an aborted one has
\* left nothing (batcher_func.h:58-60, 108-125).
THEOREM NothingIsLost ==
  ASSUME OneAllocator, FreersCallOnce
  PROVE  SegSpec /\ []IdsTell => []NothingLost
<1>1. SegInit => HeapInv
  BY InitHeap
<1>2. ShapeInv /\ HeapInv /\ IdsTell /\ [SegNext]_segVars => HeapInv'
  BY NextHeap DEF PromiseInv
<1>. QED
  BY <1>1, <1>2, ShapeInvariance, PromiseMeansNothingLost, PTL DEF SegSpec

\* Marks do tell them apart where ids are small and differ.
LEMMA SmallIdsTell ==
  ASSUME BatchSize = 2, CharRange > 4
  PROVE  UniqueIds /\ SmallIds => IdsTell
<1>. SUFFICES ASSUME SmallIds, NEW t \in EpochWriters
              PROVE  ToChar(tx[t]) = tx[t] /\ tx[t] # it_is_free
  BY DEF IdsTell
<1>1. tx[t] = 1 \/ tx[t] = 2
  BY DEF SmallIds
<1>2. 1 % CharRange = 1 /\ 2 % CharRange = 2
  BY CharAssumption
<1>. QED  BY <1>1, <1>2, CharAssumption DEF ToChar, it_is_free

\* So they do in a region that no reader uses, with the batch_size of the code and
\* its chars.
THEOREM NothingIsLostWithoutReaders ==
  ASSUME OneAllocator, FreersCallOnce, Readers = {}, BatchSize = 2, CharRange > 4
  PROVE  SegSpec => []NothingLost
<1>1. RankIInv => IdsTell
  BY SmallIdsTell DEF RankIInv
<1>. QED  BY <1>1, SegmentsImplementBatcher, RankInvariance, NothingIsLost, PTL
=============================================================================
