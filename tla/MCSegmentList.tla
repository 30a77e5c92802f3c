---------------------------- MODULE MCSegmentList ----------------------------
(***************************************************************************)
(* SegmentList for TLC: malloc returns any free address, and threads that  *)
(* only free are interchangeable.                                          *)
(***************************************************************************)
EXTENDS SegmentList, TLC

Symmetry == Permutations(Segs) \cup Permutations(Freers \ (Allocators \cup Failing))

\* Bounds: the transactions and the calls of each thread.
Once == [t \in Threads |-> 1]
Twice == [t \in Threads |-> 2]
=============================================================================
