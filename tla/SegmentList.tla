----------------------------- MODULE SegmentList -----------------------------
(***************************************************************************)
(* The allocated segments of 353324/: tm_alloc and tm_free of tm.c, and    *)
(* what findSegment, Undo_seg and Commit_seg of batcher_func.h do with the *)
(* list region->allocs, under the batcher.                                 *)
(*                                                                         *)
(* A transaction that allocates or frees a segment leaves its id in        *)
(* creator; to_delete tells the last transaction out of the epoch to       *)
(* unlink and free the segment.  The words of the segments are             *)
(* DualVersion's; here a tm_read or tm_write may meet another's mark and   *)
(* fail, and that is all.                                                  *)
(*                                                                         *)
(* Each action is one access to the list or to the marks of a segment that *)
(* another thread can see.  A walk of the list sees what a read of its     *)
(* head sees: segments are inserted in front, and unlinked by a commit,    *)
(* with nobody inside.                                                     *)
(***************************************************************************)
EXTENDS Batcher, CharWord

CONSTANTS
  Segs,         \* the addresses malloc may return
  NULL,         \* not an address
  Allocators,   \* the threads that call tm_alloc
  Freers,       \* the threads that call tm_free
  Failing,      \* the threads whose tm_read and tm_write may fail
  MaxOps        \* bound: the calls of a transaction of each thread

ASSUME SegmentsAssumption ==
  /\ IsFiniteSet(Segs) /\ NULL \notin Segs
  /\ MaxOps \in [Threads -> Nat]

VARIABLES
  allocs,       \* region->allocs
  live,         \* is the memory of the segment allocated?
  creator, to_delete, next_seg, previous,   \* the fields of each segment
                \* (freed memory keeps them: what free writes over, 32 bytes at
                \* most, ends before them)
  call,         \* the call each thread is in, and the segment it is at
  ops,          \* bound: the calls left to each thread's transaction
  heap,         \* history: the segments committed transactions left allocated
  made, gone    \* history: what each transaction has allocated, and freed

fields == <<creator, to_delete, next_seg, previous>>
listVars == <<allocs, live, fields>>
promiseVars == <<heap, made, gone>>
segVars == <<vars, listVars, call, ops, promiseVars>>

Pointers == Segs \cup {NULL}
Idle == [op |-> "none", at |-> NULL]

At(t, op) == pc[t] = "live" /\ call[t].op = op
SetCall(t, op, s) == call' = [call EXCEPT ![t] = [op |-> op, at |-> s]]

\* The segments that a walk along link from the pointer p meets: the smallest
\* set that has p and, with a segment, the next one.
HasWalk(link, p, X) ==
  /\ p # NULL => p \in X
  /\ \A s \in X : link[s] # NULL => link[s] \in X
WalkFrom(link, p) == {s \in Segs : \A X \in SUBSET Segs : HasWalk(link, p, X) => s \in X}
Listed == WalkFrom(next_seg, allocs)

\* findSegment on an address of the segment s.
Found(s) == s \in Listed

SegInit ==
  /\ Init
  /\ allocs = NULL
  /\ live = [s \in Segs |-> FALSE]
  /\ creator = [s \in Segs |-> it_is_free]
  /\ to_delete = [s \in Segs |-> FALSE]
  /\ next_seg = [s \in Segs |-> NULL]
  /\ previous = [s \in Segs |-> NULL]
  /\ call = [t \in Threads |-> Idle]
  /\ ops = MaxOps
  /\ heap = {}
  /\ made = [t \in Threads |-> {}]
  /\ gone = [t \in Threads |-> {}]

\* Unlink and free a segment.
Reclaim(s) ==
  LET p == previous[s]
      n == next_seg[s]
  IN  /\ allocs' = IF p = NULL THEN n ELSE allocs
      /\ next_seg' = IF p = NULL THEN next_seg ELSE [next_seg EXCEPT ![p] = n]
      /\ previous' = IF n = NULL THEN previous ELSE [previous EXCEPT ![n] = p]
      /\ live' = [live EXCEPT ![s] = FALSE]
      /\ UNCHANGED <<creator, to_delete>>

\* The client calls; the segments it may name are those of its snapshot.
Call(t) ==
  /\ At(t, "none") /\ ops[t] > 0 /\ ~is_ro[t]
  /\ ops' = [ops EXCEPT ![t] = @ - 1]
  /\ UNCHANGED vars
Named(t) == (heap \cup made[t]) \ gone[t]

\* Undo starts; the transaction has failed, its history is dropped.
StartUndo(t) ==
  /\ SetCall(t, "undo_head", NULL)
  /\ made' = [made EXCEPT ![t] = {}]
  /\ gone' = [gone EXCEPT ![t] = {}]
  /\ UNCHANGED heap

-----------------------------------------------------------------------------
(* tm_alloc *)

\* A new segment, still private, takes the head of the list as its next; or
\* there is no memory left and the call has no effect.
Alloc(t) ==
  /\ t \in Allocators /\ Call(t)
  /\ \/ \E s \in Segs :
          /\ ~live[s]
          /\ live' = [live EXCEPT ![s] = TRUE]
          /\ creator' = [creator EXCEPT ![s] = ToChar(tx[t])]
          /\ to_delete' = [to_delete EXCEPT ![s] = FALSE]
          /\ next_seg' = [next_seg EXCEPT ![s] = allocs]
          /\ previous' = [previous EXCEPT ![s] = NULL]
          /\ SetCall(t, "link", s)
     \/ (\A s \in Segs : live[s]) /\ UNCHANGED <<live, fields, call>>
  /\ UNCHANGED <<allocs, promiseVars>>

\* if (seg->next) seg->next->previous = seg  (Mutant: left out.)
LinkSkipped(t) ==
  /\ At(t, "link")
  /\ SetCall(t, "publish", call[t].at)
  /\ UNCHANGED <<vars, listVars, ops, promiseVars>>
Link(t) ==
  LET s == call[t].at
  IN  /\ At(t, "link")
      /\ previous' = IF next_seg[s] = NULL THEN previous
                      ELSE [previous EXCEPT ![next_seg[s]] = s]
      /\ SetCall(t, "publish", s)
      /\ UNCHANGED <<vars, allocs, live, creator, to_delete, next_seg, ops, promiseVars>>

Publish(t) ==
  LET s == call[t].at
  IN  /\ At(t, "publish")
      /\ allocs' = s
      /\ made' = [made EXCEPT ![t] = @ \cup {s}]
      /\ SetCall(t, "none", NULL)
      /\ UNCHANGED <<vars, live, fields, ops, heap, gone>>

-----------------------------------------------------------------------------
(* tm_free, and a tm_read or tm_write that fails *)

\* (Mutant of Free: the exchange is a plain store.)
FreeUnasked(t, s) ==
  /\ t \in Freers /\ s \in Named(t) /\ Call(t)
  /\ IF Found(s)
     THEN /\ creator' = [creator EXCEPT ![s] = ToChar(tx[t])]
          /\ SetCall(t, "delete", s)
          /\ UNCHANGED promiseVars
     ELSE StartUndo(t) /\ UNCHANGED creator
  /\ UNCHANGED <<allocs, live, to_delete, next_seg, previous>>

\* The exchange of creator.  It does not succeed on a segment that has a
\* creator in this epoch, be it the transaction itself.
Free(t, s) ==
  /\ t \in Freers /\ s \in Named(t) /\ Call(t)
  /\ IF Found(s) /\ creator[s] = it_is_free
     THEN /\ creator' = [creator EXCEPT ![s] = ToChar(tx[t])]
          /\ SetCall(t, "delete", s)
          /\ UNCHANGED promiseVars
     ELSE StartUndo(t) /\ UNCHANGED creator
  /\ UNCHANGED <<allocs, live, to_delete, next_seg, previous>>

Delete(t) ==
  LET s == call[t].at
  IN  /\ At(t, "delete")
      /\ to_delete' = [to_delete EXCEPT ![s] = TRUE]
      /\ gone' = [gone EXCEPT ![t] = @ \cup {s}]
      /\ SetCall(t, "none", NULL)
      /\ UNCHANGED <<vars, allocs, live, creator, next_seg, previous, ops, heap, made>>

\* A word is marked by another transaction of the epoch.
Fail(t) ==
  /\ t \in Failing /\ Call(t)
  /\ \E u \in EpochWriters : u # t
  /\ StartUndo(t)
  /\ UNCHANGED listVars

-----------------------------------------------------------------------------
(* Undo: the walk of the list, then tm_end *)

UndoHead(t) ==
  /\ At(t, "undo_head")
  /\ SetCall(t, "undo", allocs)
  /\ UNCHANGED <<vars, listVars, ops, promiseVars>>

\* Undo_seg: a segment the transaction created is to be deleted.  (Mutants: it
\* is left to the others; it is freed at once.)
UndoSegLeaks(t) ==
  LET s == call[t].at
  IN  /\ At(t, "undo") /\ s # NULL
      /\ SetCall(t, "undo", next_seg[s])
      /\ UNCHANGED <<vars, listVars, ops, promiseVars>>
UndoSegFrees(t) ==
  LET s == call[t].at
  IN  /\ At(t, "undo") /\ s # NULL
      /\ IF creator[s] = tx[t] THEN Reclaim(s) ELSE UNCHANGED listVars
      /\ SetCall(t, "undo", next_seg[s])
      /\ UNCHANGED <<vars, ops, promiseVars>>
UndoSeg(t) ==
  LET s == call[t].at
  IN  /\ At(t, "undo") /\ s # NULL
      /\ to_delete' = [to_delete EXCEPT ![s] = @ \/ creator[s] = tx[t]]
      /\ SetCall(t, "undo", next_seg[s])
      /\ UNCHANGED <<vars, allocs, live, creator, next_seg, previous, ops, promiseVars>>

\* The client calls tm_end, or Undo does.
SegEnd(t) ==
  /\ At(t, "none") \/ (At(t, "undo") /\ call[t].at = NULL)
  /\ CallEnd(t)
  /\ SetCall(t, "none", NULL)
  /\ UNCHANGED <<listVars, ops, promiseVars>>

SegBegin(t) ==
  /\ ClientBegins(t)
  /\ ops' = [ops EXCEPT ![t] = MaxOps[t]]
  /\ UNCHANGED <<listVars, call, promiseVars>>

-----------------------------------------------------------------------------
(* The commit: the walk of the list in tm_end, one Commit_seg a step *)

CommitHead(t) ==
  /\ pc[t] = "commit" /\ call[t].op = "none"
  /\ SetCall(t, "commit", allocs)
  /\ UNCHANGED <<vars, listVars, ops, promiseVars>>

\* Its words are committed, and it has no creator any more.  (Mutant: it has.)
KeepOwned(s) == UNCHANGED listVars
Keep(s) ==
  /\ creator' = [creator EXCEPT ![s] = it_is_free]
  /\ UNCHANGED <<allocs, live, to_delete, next_seg, previous>>

CommitSeg(t) ==
  LET s == call[t].at
  IN  /\ pc[t] = "commit" /\ call[t].op = "commit" /\ s # NULL
      /\ IF to_delete[s] THEN Reclaim(s) ELSE Keep(s)
      /\ SetCall(t, "commit_next", s)
      /\ UNCHANGED <<vars, ops, promiseVars>>

\* The loop reads next from the segment, which Commit_seg may have freed.  That
\* is undefined: next is still there, or free has given the memory back to the
\* system and the process faults.
CommitNext(t) ==
  LET s == call[t].at
  IN  /\ pc[t] = "commit" /\ call[t].op = "commit_next"
      /\ \/ SetCall(t, "commit", next_seg[s])
         \/ ~live[s] /\ SetCall(t, "fault", s)
      /\ UNCHANGED <<vars, listVars, ops, promiseVars>>

SegCommit(t) ==
  /\ call[t] = [op |-> "commit", at |-> NULL]
  /\ Commit(t)
  /\ SetCall(t, "none", NULL)
  /\ heap' = (heap \cup UNION {made[u] : u \in Threads}) \ UNION {gone[u] : u \in Threads}
  /\ made' = [u \in Threads |-> {}]
  /\ gone' = [u \in Threads |-> {}]
  /\ UNCHANGED <<listVars, ops>>

-----------------------------------------------------------------------------
ListStep(t) ==
  \/ Alloc(t) \/ Link(t) \/ Publish(t)
  \/ \E s \in Segs : Free(t, s)
  \/ Delete(t) \/ Fail(t) \/ UndoHead(t) \/ UndoSeg(t)
  \/ CommitHead(t) \/ CommitSeg(t) \/ CommitNext(t)

SegStep(t) ==
  \/ (BeginStep(t) \/ EndStep(t)) /\ UNCHANGED <<listVars, call, ops, promiseVars>>
  \/ SegBegin(t) \/ SegEnd(t) \/ SegCommit(t)
  \/ ListStep(t)

\* A fault ends the process, with every thread of it.
Running == \A t \in Threads : call[t].op # "fault"

SegNext == Running /\ \E t \in Threads : SegStep(t)

SegSpec == SegInit /\ [][SegNext]_segVars

-----------------------------------------------------------------------------
SegOps ==
  {"none", "link", "publish", "delete", "undo_head", "undo",
   "commit", "commit_next", "fault"}

SegTypeOK ==
  /\ TypeOK
  /\ allocs \in Pointers
  /\ live \in [Segs -> BOOLEAN]
  /\ creator \in [Segs -> Chars] /\ to_delete \in [Segs -> BOOLEAN]
  /\ next_seg \in [Segs -> Pointers] /\ previous \in [Segs -> Pointers]
  /\ call \in [Threads -> [op : SegOps, at : Pointers]]
  /\ ops \in [Threads -> Nat]
  /\ heap \subseteq Segs
  /\ made \in [Threads -> SUBSET Segs]
  /\ gone \in [Threads -> SUBSET Segs]

\* What a walk of the list (findSegment) meets is allocated, ...
ListedAreLive == \A s \in Listed : live[s]

\* ... and so is every segment a call is at, though segments are freed and their
\* memory is used again, but for one access: the loop of the commit reads next
\* from the segment it has just freed (tm.c:303, batcher_func.h:124).  That one is
\* out of the list, nobody has its memory again, and its next is in the list.
JustFreed(t) ==
  LET s == call[t].at
  IN  /\ call[t].op \in {"commit_next", "fault"} /\ to_delete[s]
      /\ s \notin Listed /\ next_seg[s] \in Listed \cup {NULL}
FreedIsReadOnce ==
  /\ ListedAreLive
  /\ \A t \in Threads : LET s == call[t].at IN s # NULL =>
       IF live[s] THEN call[t].op = "commit_next" => s \in Listed
       ELSE JustFreed(t)

\* What Commit_seg needs to unlink a segment: with nobody inside, the list is
\* doubly linked.
ListLinked ==
  Inside = {} =>
    /\ allocs # NULL => previous[allocs] = NULL
    /\ \A s \in Listed : next_seg[s] # NULL => previous[next_seg[s]] = s

\* When no epoch is under way the list, the memory in use and what committed
\* transactions left allocated are the same: a commit frees what it must and
\* nothing more, an aborted allocation does not leak.
NothingLost ==
  (\A t \in Threads : pc[t] \in {"idle", "new_epoch", "end_next"}) =>
    Listed = heap /\ {s \in Segs : live[s]} = heap

\* An id stays in creator no longer than its epoch: a stale one would make
\* every tm_free of the segment abort.
CreatorsAreCurrent ==
  \A s \in Listed : creator[s] # it_is_free =>
    \E t \in EpochWriters : creator[s] = ToChar(tx[t])

\* A segment is freed by one transaction of an epoch, though two may see it and
\* call tm_free at once.
OneFreer ==
  \A t, u \in Threads : t # u => gone[t] \cap gone[u] = {}

\* What tm_alloc returned is in the list, where tm_read, tm_write and tm_free
\* look for it, until the commit ("[thread-safe] Memory allocation", tm.c:507).
AllocatedIsListed == \A t \in Threads : made[t] \subseteq Listed

\* A segment is freed by transactions that commit, never by one that aborts
\* ("transaction aborted and can be retried", transactional.hpp:54).
AbortedFreesNothing ==
  Closing = {} => \A s \in heap : live[s]
=============================================================================
