---------------------------- MODULE WorkerThreads ----------------------------
(***************************************************************************)
(* The worker threads of the grader (nbworkers of main(), at least one).   *)
(***************************************************************************)
EXTENDS Integers, FiniteSets

CONSTANT Workers

ASSUME WorkersAssumption == IsFiniteSet(Workers) /\ Workers # {}
=============================================================================
