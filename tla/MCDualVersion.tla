---------------------------- MODULE MCDualVersion ----------------------------
(***************************************************************************)
(* DualVersion for TLC: threads with the same rights are interchangeable.  *)
(***************************************************************************)
EXTENDS DualVersion, TLC

Symmetry ==
  Permutations(Readers \ Writers) \cup Permutations(Writers \ Readers)
    \cup Permutations(Readers \cap Writers)

\* One word, or two, one at a time.
OneWord == {<<1, 1>>}
SingleWords == {<<1, 1>>, <<2, 2>>}
\* ... and both at once, or a word that is in no segment.
SomeSpans == SingleWords \cup {<<1, 2>>}
AnySpans == SomeSpans \cup {<<0, 0>>}

\* Bounds on the transactions of each thread.
Once == [t \in Threads |-> 1]
ReaderOnce == [t \in Threads |-> IF t \in Readers THEN 1 ELSE 2]
=============================================================================
