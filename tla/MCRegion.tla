------------------------------ MODULE MCRegion ------------------------------
(***************************************************************************)
(* Region for TLC: malloc returns any free address, and threads that       *)
(* only free are interchangeable.                                          *)
(***************************************************************************)
EXTENDS Region, TLC

Symmetry == Permutations(Segs) \cup Permutations(Freers \ (Allocators \cup Failing))

\* Bounds: the transactions and the calls of each thread.
AllocatorTwice == [t \in Threads |-> IF t \in Allocators THEN 2 ELSE 1]
FreerOnce == [t \in Threads |-> IF t \in Freers THEN 1 ELSE 2]
=============================================================================
