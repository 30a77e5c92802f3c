---------------------------- MODULE RegionProofs ----------------------------
(***************************************************************************)
(* What is proved of the batcher and of the list of segments holds of a    *)
(* region that is created and destroyed, and it leaks nothing.             *)
(***************************************************************************)
EXTENDS Region, SegmentProofs

\* tm_create and tm_destroy leave the batcher alone, and transactions run
\* between them only.
THEOREM RegionImplementsBatcher == RegionSpec => Spec
<1>1. [RegionNext]_regionVars => [Next]_vars
  <2>. SUFFICES ASSUME [RegionNext]_regionVars PROVE [Next]_vars
    OBVIOUS
  <2>1. CASE SegNext
    BY <2>1, SegStepIsBatcherStep
  <2>2. CASE ~SegNext
    BY <2>2 DEF RegionNext, regionVars, segVars, Create, CreatePiece, CreateFailsAt,
       BatcherMissing, Destroy, FreeHead, WalkEnds, FreeRegion
  <2>. QED  BY <2>1, <2>2
<1>2. RegionInit => Init
  BY DEF RegionInit, SegInit
<1>. QED  BY <1>1, <1>2, PTL DEF RegionSpec, Spec

\* The ids of an epoch's writers differ (tm.c:247) in a region that no reader
\* uses, with the batch_size of the code, as the run segments has it.
THEOREM RegionIdsAreUnique ==
  ASSUME Readers = {}, BatchSize = 2
  PROVE  RegionSpec => []UniqueIds
  BY RegionImplementsBatcher, IdsAreUnique, PTL

-----------------------------------------------------------------------------
\* Once tm_destroy has begun the marks and calls of transactions that are over
\* mean nothing; what was freed by whom stays as it was.
RegionInv ==
  /\ SegTypes /\ OneFreer
  /\ rpc \notin {"walk", "free", "destroyed"} => SegInv

\* The walk of tm_destroy unlinks one segment and touches nothing else.
LEMMA FreeHeadKeepsTypes ==
  ASSUME SegTypes, FreeHead
  PROVE  SegTypes' /\ (OneFreer => OneFreer')
<1>1. /\ IInv' /\ UNCHANGED <<vars, fields, call, ops, made, gone>>
      /\ next_seg[allocs] \in Pointers
  <2>1. UNCHANGED vars
    BY DEF FreeHead
  <2>2. IInv'
    BY <2>1, NextIInv DEF SegTypes
  <2>3. allocs \in Segs
    BY DEF FreeHead, SegTypes, ListTypes, FieldTypes, Pointers
  <2>. QED  BY <2>2, <2>3 DEF FreeHead, SegTypes, ListTypes, FieldTypes
<1>2. ListTypes'
  BY <1>1 DEF FreeHead, SegTypes, ListTypes, FieldTypes, fields
<1>. QED  BY <1>1, <1>2 DEF SegTypes, OneFreer, CallsAtSegments

LEMMA RegionInvInit == RegionInit => RegionInv
<1>1. SegInv => OneFreer /\ SegTypes
  BY DEF SegInv, ClaimsInv, ClaimsDisjoint, Claims, OneFreer, SegTypes
<1>. QED  BY <1>1, SegInitInv DEF RegionInit, RegionInv

LEMMA RegionInvNext ==
  ASSUME FewThreads
  PROVE  RegionInv /\ [RegionNext]_regionVars => RegionInv'
<1>. SUFFICES ASSUME RegionInv, [RegionNext]_regionVars PROVE RegionInv'
  OBVIOUS
<1>1. SegInv' => OneFreer' /\ SegTypes'
  BY DEF SegInv, ClaimsInv, ClaimsDisjoint, Claims, OneFreer, SegTypes
<1>2. CASE rpc = "up" /\ SegNext
  BY <1>1, <1>2, SegNextInv DEF RegionInv
<1>3. CASE FreeHead
  BY <1>3, FreeHeadKeepsTypes DEF RegionInv, FreeHead
<1>4. CASE UNCHANGED segVars
  <2>1. SegTypes' /\ (SegInv => SegInv') /\ OneFreer'
    <3>1. SegTypes'
      BY <1>4, SegNextTypes DEF RegionInv
    <3>2. SegInv => SegInv'
      BY <1>4, SegNextInv
    <3>. QED  BY <1>4, <3>1, <3>2 DEF RegionInv, OneFreer, segVars, promiseVars
  <2>2. rpc \in {"walk", "free", "destroyed"} => rpc' \in {"walk", "free", "destroyed"}
    BY DEF RegionNext, regionVars, Create, CreatePiece, CreateFailsAt, BatcherMissing,
       Destroy, FreeHead, WalkEnds, FreeRegion, RGoto
  <2>. QED  BY <2>1, <2>2 DEF RegionInv
<1>5. CASE ~(rpc = "up" /\ SegNext) /\ ~FreeHead
  <2>1. UNCHANGED segVars
    BY <1>5 DEF RegionNext, regionVars, Create, CreatePiece, CreateFailsAt,
       BatcherMissing, Destroy, WalkEnds, FreeRegion
  <2>. QED  BY <2>1, <1>4
<1>. QED  BY <1>2, <1>3, <1>5

\* The list keeps its types to the end of tm_destroy: its walk meets addresses
\* or NULL, whatever tm_alloc has done to the list.
THEOREM RegionTyped ==
  ASSUME FewThreads
  PROVE  RegionSpec => []SegTypeOK
<1>1. RegionInv => SegTypeOK
  BY DEF RegionInv, SegTypes, SegTypeOK, IInv, ListTypes, FieldTypes, Calls
<1>. QED  BY <1>1, RegionInvInit, RegionInvNext, PTL DEF RegionSpec

\* From tm_create to tm_destroy no two transactions of an epoch free the same
\* segment (tm.c:578), as the run segments checks.
THEOREM RegionFreesOnce ==
  ASSUME FewThreads
  PROVE  RegionSpec => []OneFreer
<1>1. RegionInv => OneFreer
  BY DEF RegionInv
<1>. QED  BY <1>1, RegionInvInit, RegionInvNext, PTL DEF RegionSpec

-----------------------------------------------------------------------------
(* The shape of the list and the memory, with one allocator. *)

Creating == {"region", "start", "lock", "batcher", "invalid", "crashed"}
Destroying == {"walk", "free", "destroyed"}

\* What is allocated of the region itself at each place.
BlocksInPlace ==
  /\ rpc \in Creating \cup Destroying \cup {"up"}
  /\ rpc \in {"region", "invalid", "destroyed"} => blocks = {}
  /\ rpc = "start" => blocks = {"region"}
  /\ rpc = "lock" => blocks = {"region", "start"}
  /\ rpc \in {"batcher", "crashed"} => blocks = {"region", "start", "lock"}
  /\ rpc \in {"up", "walk", "free"} => blocks = Blocks

\* tm_destroy finds a list in shape, that has all the memory in use and nobody's
\* marks, and no call under way; it leaves its marks and links behind but for the
\* head.
ShapeInDestroy ==
  /\ ListShape
  /\ \A s \in Segs : live[s] => s \in Listed
  /\ \A s \in Listed : creator[s] = it_is_free
  /\ \A t \in Threads : call[t].at = NULL
  /\ rpc # "walk" => allocs = NULL

RegionShape ==
  /\ SegTypes /\ BlocksInPlace
  /\ rpc \in Creating => \A s \in Segs : ~live[s]
  /\ IF rpc \in Destroying THEN ShapeInDestroy ELSE ShapeInv

\* Before a transaction runs nothing is allocated.
LEMMA RegionShapeInit == RegionInit => RegionShape
<1>1. SegInit => \A s \in Segs : ~live[s]
  BY DEF SegInit
<1>. QED
  BY <1>1, InitShape DEF RegionInit, RegionShape, ShapeInv, BlocksInPlace, Creating, Destroying

\* A region that no transaction uses any more.
LEMMA DestroyFinds ==
  ASSUME RegionShape, Destroy
  PROVE  RegionShape'
<1>1. /\ rpc = "up" /\ rpc' = "walk" /\ \A t \in Threads : pc[t] = "idle"
      /\ ShapeInv /\ UNCHANGED segVars /\ blocks' = blocks
  BY DEF Destroy, RGoto, RegionShape, Destroying
<1>2. SegTypes'
  BY <1>1, SegNextTypes DEF RegionShape
<1>3. EpochWriters = {}
  BY <1>1 DEF EpochWriters, ShapeInv, SlotIInv, WritersWait, IInv, TypeOK
<1>4. /\ \A s \in Listed : creator[s] = it_is_free
      /\ \A s \in Segs : live[s] => s \in Listed
  BY <1>1, <1>3 DEF ShapeInv, ListInv, CreatorsAreCurrent, NothingUnlisted, Linking, CallsInPlace
<1>5. ShapeInDestroy'
  <2>1. /\ UNCHANGED <<allocs, live, creator, next_seg, previous, call>> /\ Listed' = Listed
    BY <1>1 DEF segVars, listVars, fields, Listed
  <2>2. \A t \in Threads : call[t].at = NULL
    <3>1. \A t \in Threads : call[t].op \in SegOps /\ pc[t] \notin {"live", "commit"}
      BY <1>1 DEF ShapeInv, SegTypes, ListTypes, Calls
    <3>2. \A t \in Threads : call[t].op = "none"
      BY <1>1, <3>1 DEF ShapeInv, ListInv, CallsInPlace, Committing, SegOps
    <3>. QED  BY <1>1, <3>2 DEF ShapeInv, SegTypes, CallsAtSegments, AtNone
  <2>. QED
    BY <1>1, <1>4, <2>1, <2>2 DEF ShapeInDestroy, ShapeInv, ListInv, ListShape, ListedAreLive
<1>6. BlocksInPlace'
  BY <1>1 DEF RegionShape, BlocksInPlace, Creating, Destroying
<1>. QED  BY <1>1, <1>2, <1>5, <1>6 DEF RegionShape, Creating, Destroying

\* The walk of tm_destroy takes the head off the list, and frees it.
LEMMA FreeHeadTakes ==
  ASSUME RegionShape, FreeHead
  PROVE  /\ RegionShape' /\ Listed' = Listed \ {allocs} /\ allocs \in Listed
         /\ live' = [live EXCEPT ![allocs] = FALSE]
<1>1. /\ rpc = "walk" /\ rpc' = "walk" /\ blocks' = blocks
      /\ allocs # NULL /\ allocs' = next_seg[allocs]
      /\ live' = [live EXCEPT ![allocs] = FALSE]
      /\ UNCHANGED <<creator, to_delete, next_seg, previous, call>>
      /\ SegTypes /\ ShapeInDestroy
  BY DEF FreeHead, fields, RegionShape, Destroying
<1>2. SegTypes' /\ BlocksInPlace'
  BY <1>1, FreeHeadKeepsTypes DEF RegionShape, BlocksInPlace
<1>3. /\ next_seg \in [Segs -> Pointers] /\ previous \in [Segs -> Pointers]
      /\ live \in [Segs -> BOOLEAN] /\ allocs \in Segs /\ allocs \in Listed /\ Listed \subseteq Segs
      /\ \A s \in Listed : next_seg[s] # NULL => next_seg[s] \in Listed
      /\ NULL \notin Segs
  BY <1>1, ListCloses DEF SegTypes, ListTypes, FieldTypes
<1>4. /\ \A s \in Listed : next_seg[s] # NULL => previous[next_seg[s]] = s
      /\ previous[allocs] \notin Listed /\ \A s \in Listed : live[s]
  BY <1>1 DEF ShapeInDestroy, ListShape, ListedAreLive
<1>5. WalkFrom(next_seg, next_seg[allocs]) = WalkFrom(next_seg, allocs) \ {allocs}
  <2>1. /\ \A s \in WalkFrom(next_seg, allocs) : next_seg[s] # NULL => previous[next_seg[s]] = s
        /\ previous[allocs] \notin WalkFrom(next_seg, allocs)
    BY <1>4 DEF Listed
  <2>. QED  BY <1>3, <2>1, HeadTaken
<1>6. Listed' = Listed \ {allocs}
  BY <1>1, <1>5 DEF Listed
<1>7. ListShape'
  <2>1. allocs' # NULL => previous'[allocs'] = allocs
    BY <1>1, <1>3, <1>4
  <2>2. ListedAreLive'
    BY <1>1, <1>3, <1>4, <1>6 DEF ListedAreLive
  <2>. QED  BY <1>1, <1>4, <1>6, <2>1, <2>2 DEF ListShape
<1>8. ShapeInDestroy'
  BY <1>1, <1>3, <1>6, <1>7 DEF ShapeInDestroy
<1>. QED  BY <1>1, <1>2, <1>3, <1>6, <1>8 DEF RegionShape, Creating, Destroying

\* Other steps of tm_create and tm_destroy leave the list alone.
LEMMA PiecesShape ==
  ASSUME RegionShape, Create \/ WalkEnds \/ FreeRegion \/ UNCHANGED regionVars
  PROVE  RegionShape'
<1>1. UNCHANGED segVars
  BY DEF Create, CreatePiece, CreateFailsAt, BatcherMissing, WalkEnds, FreeRegion, regionVars
<1>2. /\ SegTypes' /\ Listed' = Listed
      /\ UNCHANGED <<allocs, live, creator, next_seg, previous, call>>
  BY <1>1, SegNextTypes DEF RegionShape, segVars, listVars, fields, Listed
<1>3. /\ rpc' \in Creating => rpc \in Creating
      /\ rpc' \in Destroying <=> rpc \in Destroying
      /\ rpc' \in Destroying /\ rpc' # "walk" => allocs = NULL \/ rpc # "walk"
  BY DEF Create, CreatePiece, CreateFailsAt, BatcherMissing, WalkEnds, FreeRegion, regionVars,
     RGoto, Creating, Destroying
<1>4. BlocksInPlace'
  <2>1. CASE \E piece \in {"region", "start", "lock"} : CreateFailsAt(piece)
    BY <2>1 DEF CreateFailsAt, RGoto, Before, RegionShape, BlocksInPlace, Creating, Destroying
  <2>2. CASE CreatePiece("region", "start") \/ CreatePiece("start", "lock")
    BY <2>2 DEF CreatePiece, RGoto, RegionShape, BlocksInPlace, Creating, Destroying
  <2>3. CASE CreatePiece("lock", "batcher") \/ CreatePiece("batcher", "up")
    BY <2>3 DEF CreatePiece, RGoto, RegionShape, BlocksInPlace, Creating, Destroying, Blocks
  <2>4. CASE BatcherMissing \/ WalkEnds \/ FreeRegion \/ UNCHANGED regionVars
    BY <2>4 DEF BatcherMissing, WalkEnds, FreeRegion, regionVars, RGoto, RegionShape,
       BlocksInPlace, Creating, Destroying, Blocks
  <2>. QED  BY <2>1, <2>2, <2>3, <2>4 DEF Create
<1>5. ShapeInv => ShapeInv'
  <2>1. SegTypes' /\ SlotIInv /\ [Next]_vars => SlotIInv'
    BY <1>2, NextSlotIInv
  <2>2. UNCHANGED <<listVars, call, pc, is_ro, tx, born, cnt_epoch, vars>>
    BY <1>1 DEF segVars, vars, epochVars, localVars, history
  <2>3. ShapeInv => ListInv'
    <3>1. EpochWriters' = EpochWriters
      BY <2>2 DEF EpochWriters
    <3>2. ShapeInv =>
            \A t \in Threads : pc'[t] \in {"reset", "new_epoch"} => \A s \in Listed : Passed(s)
      BY <2>2 DEF ShapeInv, ListInv, CommitPassed
    <3>. QED  BY <2>2, <3>1, <3>2, ListUntouched DEF ShapeInv
  <2>. QED  BY <1>2, <2>1, <2>2, <2>3 DEF ShapeInv
<1>6. rpc' \in Destroying => ShapeInDestroy'
  BY <1>2, <1>3 DEF RegionShape, ShapeInDestroy, ListShape, ListedAreLive
<1>. QED  BY <1>2, <1>3, <1>4, <1>5, <1>6 DEF RegionShape

\* Each step of a region keeps the shape of its list and the account of its pieces.
LEMMA RegionShapeNext ==
  ASSUME OneAllocator
  PROVE  RegionShape /\ [RegionNext]_regionVars => RegionShape'
<1>. SUFFICES ASSUME RegionShape, [RegionNext]_regionVars PROVE RegionShape'
  OBVIOUS
<1>1. CASE rpc = "up" /\ SegNext /\ UNCHANGED <<rpc, blocks>>
  <2>1. ShapeInv'
    BY <1>1, NextShape DEF RegionShape, Destroying
  <2>. QED
    BY <1>1, <2>1 DEF RegionShape, ShapeInv, BlocksInPlace, Creating, Destroying
<1>. QED  BY <1>1, DestroyFinds, FreeHeadTakes, PiecesShape DEF RegionNext

\* Hence they are kept along a behaviour.
LEMMA RegionShapeInvariance ==
  ASSUME OneAllocator
  PROVE  RegionSpec => []RegionShape
  BY RegionShapeInit, RegionShapeNext, PTL DEF RegionSpec

\* From tm_create to the last free of tm_destroy (tm.c:124) findSegment, Undo,
\* Commit_seg and the walk of tm_destroy are at allocated memory, if one thread
\* allocates, and the loop of the commit reads next from the segment it has just
\* freed (tm.c:303) and from no other that is gone.
THEOREM RegionFreedMemoryIsReadOnce ==
  ASSUME OneAllocator
  PROVE  RegionSpec => []FreedIsReadOnce
<1>1. RegionShape => FreedIsReadOnce
  <2>1. ShapeInDestroy => FreedIsReadOnce
    BY DEF ShapeInDestroy, ListShape, FreedIsReadOnce
  <2>. QED  BY <2>1, ShapeMeansReadOnce DEF RegionShape
<1>. QED  BY <1>1, RegionShapeInvariance, PTL

\* Commit_seg finds the list doubly linked for as long as it may run.
THEOREM RegionIsLinkedWhileUp ==
  ASSUME OneAllocator
  PROVE  RegionSpec => []LinkedWhileUp
<1>1. RegionShape => LinkedWhileUp
  BY ShapeMeansLinked DEF RegionShape, LinkedWhileUp, Destroying
<1>. QED  BY <1>1, RegionShapeInvariance, PTL

\* No mark outlives its epoch, nor the last one.
THEOREM RegionCreatorsAreCurrent ==
  ASSUME OneAllocator
  PROVE  RegionSpec => []CreatorsAreCurrent
<1>1. RegionShape => CreatorsAreCurrent
  BY DEF RegionShape, ShapeInDestroy, ShapeInv, ListInv, CreatorsAreCurrent
<1>. QED  BY <1>1, RegionShapeInvariance, PTL

\* Whatever threads there are, whatever they free or abort and whichever piece
\* tm_create cannot get, a region that is gone leaves no memory allocated, if one
\* thread allocates.
THEOREM RegionLeaksNothing ==
  ASSUME OneAllocator
  PROVE  RegionSpec => []NothingLeaks
<1>1. RegionShape => NothingLeaks
  <2>. SUFFICES ASSUME RegionShape, rpc \in {"invalid", "destroyed"}
                PROVE  blocks = {} /\ \A s \in Segs : ~live[s]
    BY DEF NothingLeaks
  <2>1. blocks = {}
    BY DEF RegionShape, BlocksInPlace
  <2>2. CASE rpc = "invalid"
    BY <2>1, <2>2 DEF RegionShape, Creating
  <2>3. CASE rpc = "destroyed"
    <3>1. allocs = NULL /\ \A s \in Segs : live[s] => s \in Listed
      BY <2>3 DEF RegionShape, ShapeInDestroy, Destroying
    <3>2. Listed = {}
      BY <3>1, WalkNull DEF Listed
    <3>. QED  BY <2>1, <3>1, <3>2
  <2>. QED  BY <2>2, <2>3
<1>. QED  BY <1>1, RegionShapeInvariance, PTL

-----------------------------------------------------------------------------
(* The promise to clients, to the end of tm_destroy. *)

RegionHeap == IF rpc \in Destroying THEN Listed = heap ELSE HeapInv

\* Each step keeps it, as long as marks tell transactions apart.
LEMMA RegionHeapNext ==
  ASSUME OneAllocator, FreersCallOnce
  PROVE  RegionShape /\ RegionHeap /\ IdsTell /\ [RegionNext]_regionVars => RegionHeap'
<1>. SUFFICES ASSUME RegionShape, RegionHeap, IdsTell, [RegionNext]_regionVars PROVE RegionHeap'
  OBVIOUS
<1>1. CASE rpc = "up" /\ SegNext /\ UNCHANGED <<rpc, blocks>>
  <2>1. HeapInv'
    BY <1>1, NextHeap DEF PromiseInv, RegionShape, RegionHeap, Destroying
  <2>. QED  BY <1>1, <2>1 DEF RegionHeap, Destroying
<1>2. CASE Destroy
  <2>1. /\ ShapeInv /\ HeapInv /\ rpc' = "walk" /\ UNCHANGED segVars
        /\ \A t \in Threads : pc[t] = "idle"
    BY <1>2 DEF Destroy, RGoto, RegionShape, RegionHeap, Destroying
  <2>2. Listed = heap
    BY <2>1, PromiseMeansNothingLost DEF NothingLost
  <2>. QED  BY <2>1, <2>2 DEF RegionHeap, Destroying, segVars, listVars, fields, promiseVars, Listed
<1>3. CASE FreeHead
  BY <1>3, FreeHeadTakes DEF FreeHead, RegionHeap, Destroying
<1>4. CASE Create \/ WalkEnds \/ FreeRegion \/ UNCHANGED regionVars
  <2>1. UNCHANGED segVars /\ (rpc' \in Destroying <=> rpc \in Destroying)
    BY <1>4 DEF Create, CreatePiece, CreateFailsAt, BatcherMissing, WalkEnds, FreeRegion,
       regionVars, RGoto, Destroying
  <2>2. HeapInv /\ ShapeInv => HeapInv'
    BY <2>1, NextHeap DEF PromiseInv
  <2>3. Listed' = Listed /\ heap' = heap
    BY <2>1 DEF segVars, listVars, fields, promiseVars, Listed
  <2>. QED  BY <2>1, <2>2, <2>3 DEF RegionHeap, RegionShape
<1>. QED  BY <1>1, <1>2, <1>3, <1>4 DEF RegionNext

\* What committed transactions left allocated, the list and the memory in use are
\* the same whenever no epoch is under way, and as tm_destroy frees the list.
THEOREM RegionLosesNothing ==
  ASSUME OneAllocator, FreersCallOnce
  PROVE  RegionSpec /\ []IdsTell => []NothingLost
<1>1. RegionInit => RegionHeap
  BY InitHeap DEF RegionInit, RegionHeap, Destroying
<1>2. RegionShape /\ RegionHeap => NothingLost
  <2>1. RegionShape /\ RegionHeap /\ rpc \notin Destroying => NothingLost
    BY PromiseMeansNothingLost DEF RegionShape, RegionHeap
  <2>2. RegionShape /\ RegionHeap /\ rpc \in Destroying => NothingLost
    BY ListCloses DEF RegionShape, RegionHeap, ShapeInDestroy, ListShape, ListedAreLive, NothingLost
  <2>. QED  BY <2>1, <2>2
<1>. QED
  BY <1>1, <1>2, RegionShapeInvariance, RegionHeapNext, PTL DEF RegionSpec

\* ... as they do in a region that no reader uses, with the batch_size of the code
\* and its chars.
THEOREM RegionLosesNothingWithoutReaders ==
  ASSUME OneAllocator, FreersCallOnce, Readers = {}, BatchSize = 2, CharRange > 4
  PROVE  RegionSpec => []NothingLost
<1>1. RankIInv => IdsTell
  BY SmallIdsTell DEF RankIInv
<1>. QED  BY <1>1, RegionImplementsBatcher, RankInvariance, RegionLosesNothing, PTL
=============================================================================
