------------------------------ MODULE MCBatcher ------------------------------
(***************************************************************************)
(* Batcher for TLC.                                                        *)
(***************************************************************************)
EXTENDS Batcher

\* Bounds on the transactions of each thread.
Once == [t \in Threads |-> 1]
ReaderOnce == [t \in Threads |-> IF t \in Readers THEN 1 ELSE 2]
=============================================================================
