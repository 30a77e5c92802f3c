---------------------------- MODULE SerialMemory ----------------------------
(***************************************************************************)
(* What the transactional memory promises its clients, with no batcher, no *)
(* shadow and no control word: a transaction reads one unchanging snapshot *)
(* with its own writes on top, an aborted transaction leaves no trace, and *)
(* the transactions that committed together are serialisable.              *)
(***************************************************************************)
EXTENDS Integers, FiniteSets, SequencesExt

CONSTANTS Threads, Words, Values, NoValue

VARIABLES
  mem,    \* the committed memory
  open,   \* the threads in a transaction
  rd,     \* rd[t][w]: what t read of w in the committed memory, or NoValue
  wr      \* wr[t][w]: what t last wrote in w, or NoValue

absVars == <<mem, open, rd, wr>>

Nothing == [w \in Words |-> NoValue]

Init ==
  /\ mem = [w \in Words |-> 0]
  /\ open = {}
  /\ rd = [t \in Threads |-> Nothing]
  /\ wr = [t \in Threads |-> Nothing]

Begin(t) ==
  /\ t \notin open
  /\ rd[t] = Nothing /\ wr[t] = Nothing
  /\ open' = open \cup {t}
  /\ UNCHANGED <<mem, rd, wr>>

\* A word the transaction has not written reads as the committed memory.
Read(t, w) ==
  /\ t \in open /\ wr[t][w] = NoValue
  /\ rd' = [rd EXCEPT ![t][w] = mem[w]]
  /\ UNCHANGED <<mem, open, wr>>

Write(t, w, v) ==
  /\ t \in open
  /\ wr' = [wr EXCEPT ![t][w] = v]
  /\ UNCHANGED <<mem, open, rd>>

\* The transaction ends: one that wrote nothing may be forgotten at once, the
\* others wait for the commit.
End(t) ==
  /\ t \in open /\ open' = open \ {t}
  /\ \/ UNCHANGED rd
     \/ wr[t] = Nothing /\ rd' = [rd EXCEPT ![t] = Nothing]
  /\ UNCHANGED <<mem, wr>>

Abort(t) ==
  /\ t \in open /\ open' = open \ {t}
  /\ rd' = [rd EXCEPT ![t] = Nothing]
  /\ wr' = [wr EXCEPT ![t] = Nothing]
  /\ UNCHANGED mem

\* The memory after the first k transactions of the serial order s.
After(s, k) ==
  [w \in Words |->
     LET writers == {i \in 1..k : wr[s[i]][w] # NoValue}
     IN  IF writers = {} THEN mem[w] ELSE wr[s[Max(writers)]][w]]

\* In the order s every transaction read what those before it left.
Serial(s) ==
  \A k \in 1..Len(s), w \in Words :
    rd[s[k]][w] \in {NoValue, After(s, k - 1)[w]}

\* The new memory is what the transactions leave, one after the other.
SerialCommit ==
  \E s \in SetToSeqs({t \in Threads : <<rd[t], wr[t]>> # <<Nothing, Nothing>>}) :
    Serial(s) /\ mem' = After(s, Len(s))

\* The transactions that ended commit together, while none is open.
CommitBatch ==
  /\ open = {}
  /\ SerialCommit
  /\ rd' = [t \in Threads |-> Nothing]
  /\ wr' = [t \in Threads |-> Nothing]
  /\ UNCHANGED open

Next ==
  \/ CommitBatch
  \/ \E t \in Threads :
       \/ Begin(t) \/ End(t) \/ Abort(t)
       \/ \E w \in Words : Read(t, w) \/ \E v \in Values : Write(t, w, v)

Spec == Init /\ [][Next]_absVars
=============================================================================
