-------------------------------- MODULE Region --------------------------------
(***************************************************************************)
(* The life of a region of 353324/: tm_create of tm.c, which allocates it  *)
(* piece by piece and gives back what it has when a piece cannot be had,   *)
(* the transactions of SegmentList on it, and tm_destroy, which walks the  *)
(* list of segments they leave and frees everything.                       *)
(*                                                                         *)
(* What tm_create stores in the region is taken as there from the start    *)
(* (SegInit): nobody sees it before tm_create returns.                     *)
(***************************************************************************)
EXTENDS SegmentList

VARIABLES
  rpc,        \* where the thread that creates and destroys the region is: at
              \* a piece in tm_create, "up", at "walk" or "free" in tm_destroy,
              \* or after: "invalid", "crashed", "destroyed"
  blocks      \* the pieces of the region that are allocated

regionVars == <<segVars, rpc, blocks>>

\* The lock is initialized with the others, but nothing takes it.
Blocks == {"region", "start", "lock", "batcher"}

\* What an error path of tm_create gives back.
Before == [region |-> {}, start |-> {"region"}, lock |-> {"start", "region"}]

RegionInit == SegInit /\ rpc = "region" /\ blocks = {}

RGoto(from, to) == rpc = from /\ rpc' = to

-----------------------------------------------------------------------------
(* tm_create *)

\* The next piece is allocated.
CreatePiece(piece, to) ==
  /\ RGoto(piece, to)
  /\ blocks' = blocks \cup {piece}
  /\ UNCHANGED segVars

\* It cannot be: those before it are freed.  (A size that is no multiple of
\* align ends in the same way, before the first.)
\* (Mutant: what was allocated for a lock that failed is left.)
CreateFailsLeaks(piece) ==
  /\ RGoto(piece, "invalid")
  /\ blocks' = IF piece = "start" THEN blocks \ {"region"} ELSE blocks
  /\ UNCHANGED segVars
CreateFailsAt(piece) ==
  /\ RGoto(piece, "invalid")
  /\ blocks' = blocks \ Before[piece]
  /\ UNCHANGED segVars

\* The batcher is not asked for: its counters are stored through NULL.
BatcherMissing == RGoto("batcher", "crashed") /\ UNCHANGED <<segVars, blocks>>

Create ==
  \/ CreatePiece("region", "start") \/ CreatePiece("start", "lock")
  \/ CreatePiece("lock", "batcher") \/ CreatePiece("batcher", "up")
  \/ (\E piece \in {"region", "start", "lock"} : CreateFailsAt(piece))
  \/ BatcherMissing

-----------------------------------------------------------------------------
(* tm_destroy, which is called with no transaction running *)

Destroy ==
  /\ RGoto("up", "walk")
  /\ \A t \in Threads : pc[t] = "idle"
  /\ UNCHANGED <<segVars, blocks>>

\* The head of the list is unlinked, then freed.
FreeHead ==
  /\ rpc = "walk" /\ allocs # NULL
  /\ allocs' = next_seg[allocs]
  /\ live' = [live EXCEPT ![allocs] = FALSE]
  /\ heap' = heap \ {allocs}
  /\ UNCHANGED <<vars, fields, call, ops, made, gone, rpc, blocks>>

\* (Mutant: the walk ends one segment early.)
WalkEndsEarly ==
  /\ RGoto("walk", "free") /\ (allocs # NULL => next_seg[allocs] = NULL)
  /\ UNCHANGED <<segVars, blocks>>
WalkEnds ==
  /\ RGoto("walk", "free") /\ allocs = NULL
  /\ UNCHANGED <<segVars, blocks>>

FreeRegion ==
  /\ RGoto("free", "destroyed")
  /\ blocks' = blocks \ Blocks
  /\ UNCHANGED segVars

-----------------------------------------------------------------------------
RegionNext ==
  \/ Create \/ Destroy \/ FreeHead \/ WalkEnds \/ FreeRegion
  \/ rpc = "up" /\ SegNext /\ UNCHANGED <<rpc, blocks>>

RegionSpec == RegionInit /\ [][RegionNext]_regionVars

-----------------------------------------------------------------------------
\* What Commit_seg needs to unlink a segment holds for as long as it may run;
\* tm_destroy, which leaves previous of the rest behind, does not need it.
LinkedWhileUp == rpc = "up" => ListLinked

\* Whatever transactions allocate, free, abort or leave behind, and whichever
\* piece of it cannot be had, a region that is gone has left no memory
\* allocated.
NothingLeaks ==
  rpc \in {"invalid", "destroyed"} =>
    blocks = {} /\ \A s \in Segs : ~live[s]
=============================================================================
