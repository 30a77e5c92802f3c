----------------------------- MODULE DualVersion -----------------------------
(***************************************************************************)
(* The dual-versioned words of 353324/: tm_read and tm_write of tm.c,      *)
(* try_write, Undo and Commit_seg of batcher_func.h, under the batcher.    *)
(*                                                                         *)
(* A word has a committed version (data), a version its writer of the      *)
(* epoch works on (shadow) and a control word: 0 when nobody uses it, the  *)
(* id of the transaction that writes it, or minus the id of the one that   *)
(* reads it.  A transaction that meets another's mark undoes its own marks *)
(* and ends; the last one out of the epoch copies shadow over data.        *)
(*                                                                         *)
(* Each action is one access to a control word, or the copy of one word.   *)
(* A "word" is the align bytes the loops step over, and its control the    *)
(* byte of its first one.                                                  *)
(***************************************************************************)
EXTENDS Batcher, CharWord

CONSTANTS
  NumWords,     \* the words of the (first) segment
  Values,       \* what clients write
  NoValue,      \* not a value
  Spans,        \* the <<first, last>> a call of tm_read or tm_write may name
  MaxOps        \* bound: the tm_read and tm_write calls of a transaction

Words == 1..NumWords

\* A span that begins in the segment ends in it (tm.h asks it of a client).
ASSUME MemoryAssumption ==
  /\ NumWords \in Nat \ {0} /\ MaxOps \in Nat
  /\ Spans \subseteq Int \X Int
  /\ \A s \in Spans : s[1] \in Words => s[2] \in s[1]..NumWords
  /\ NoValue \notin Values \cup {0}

VARIABLES
  control, data, shadow,
  call,         \* the memory call each thread is in, and its loop variables
  ops,          \* bound: the calls left to each thread's transaction
  rd, wr        \* history: what each transaction read in data, and wrote

memVars == <<control, data, shadow>>
logVars == <<rd, wr>>
dualVars == <<vars, memVars, call, ops, logVars>>

Quiet == [op |-> "none", first |-> 0, last |-> 0, at |-> 0, val |-> NoValue]
Nothing == [w \in Words |-> NoValue]

\* findSegment: a segment is found by the first address.
Found(c) == c.first \in Words

At(t, op) == pc[t] = "live" /\ call[t].op = op
SetCall(t, c) == call' = [call EXCEPT ![t] = c]

DualInit ==
  /\ Init
  /\ control = [w \in Words |-> it_is_free]
  /\ data = [w \in Words |-> 0]
  /\ shadow = [w \in Words |-> 0]
  /\ call = [t \in Threads |-> Quiet]
  /\ ops = [t \in Threads |-> MaxOps]
  /\ rd = [t \in Threads |-> Nothing]
  /\ wr = [t \in Threads |-> Nothing]

\* Undo starts; the transaction has failed, its history is dropped.
StartUndo(t) ==
  /\ SetCall(t, [Quiet EXCEPT !.op = "undo", !.at = 1])
  /\ rd' = [rd EXCEPT ![t] = Nothing]
  /\ wr' = [wr EXCEPT ![t] = Nothing]

-----------------------------------------------------------------------------
(* tm_read and tm_write *)

\* The client calls tm_read or tm_write; op is what its loop starts with.  A
\* read-only transaction copies data and looks at nothing else.
Access(t, span, op, v) ==
  LET c == [op |-> op, first |-> span[1], last |-> span[2], at |-> span[1], val |-> v]
  IN  /\ At(t, "none") /\ ops[t] > 0
      /\ ops' = [ops EXCEPT ![t] = @ - 1]
      /\ IF Found(c) THEN SetCall(t, c) /\ UNCHANGED logVars ELSE StartUndo(t)
      /\ UNCHANGED <<vars, memVars>>

FirstTest(t) == IF tx[t] = read_only_tx THEN "data" ELSE "test"

CallRead(t, span) ==
  /\ is_ro[t] => span[1] \in Words
  /\ Access(t, span, FirstTest(t), NoValue)

CallWrite(t, span, v) == ~is_ro[t] /\ Access(t, span, "lock", v)

\* Go on to the next word of the span, or to op "done" after the last one.
NextWord(t, loop, done) ==
  LET c == call[t]
  IN  SetCall(t, IF c.at = c.last THEN done ELSE [c EXCEPT !.op = loop, !.at = @ + 1])

\* Does the transaction write the word itself?  (Mutant: not asked.)
ReadTestSkipped(t) ==
  /\ At(t, "test")
  /\ SetCall(t, [call[t] EXCEPT !.op = IF control[call[t].at] = tx[t] THEN "data" ELSE "mark"])
  /\ UNCHANGED <<vars, memVars, ops, logVars>>
ReadTest(t) ==
  /\ At(t, "test")
  /\ SetCall(t, [call[t] EXCEPT !.op = IF control[call[t].at] = tx[t] THEN "shadow" ELSE "mark"])
  /\ UNCHANGED <<vars, memVars, ops, logVars>>

\* Mark a free word as read, or find the mark of this transaction on it.
ReadMark(t) ==
  LET w == call[t].at
  IN  /\ At(t, "mark")
      /\ IF control[w] \in {it_is_free, -tx[t]}
         THEN /\ control' = [control EXCEPT ![w] = ToChar(-tx[t])]
              /\ SetCall(t, [call[t] EXCEPT !.op = "data"])
              /\ UNCHANGED logVars
         ELSE StartUndo(t) /\ UNCHANGED control
      /\ UNCHANGED <<vars, data, shadow, ops>>

\* To read one's own write back is no read of the committed memory.
ReadCopy(t) ==
  LET w == call[t].at
      v == IF call[t].op = "shadow" THEN shadow[w] ELSE data[w]
  IN  /\ At(t, "shadow") \/ At(t, "data")
      /\ rd' = IF v = wr[t][w] THEN rd ELSE [rd EXCEPT ![t][w] = v]
      /\ NextWord(t, FirstTest(t), Quiet)
      /\ UNCHANGED <<vars, memVars, ops, wr>>

\* try_write, first exchange: a free word, or one this transaction writes.
Lock(t) ==
  LET w == call[t].at
  IN  /\ At(t, "lock")
      /\ IF control[w] \in {it_is_free, tx[t]}
         THEN /\ control' = [control EXCEPT ![w] = IF @ = it_is_free THEN ToChar(tx[t]) ELSE @]
              /\ NextWord(t, "lock", [call[t] EXCEPT !.op = "store", !.at = call[t].first])
         ELSE SetCall(t, [call[t] EXCEPT !.op = "upgrade"]) /\ UNCHANGED control
      /\ UNCHANGED <<vars, data, shadow, ops, logVars>>

\* Second exchange: a word this transaction has read.  If it fails, bzero
\* clears the control of the words before it in the span, and Undo starts.
\* (Mutant: a word any transaction has read.)
UpgradeAnyReader(t) ==
  LET w == call[t].at
  IN  /\ At(t, "upgrade")
      /\ IF control[w] < it_is_free
         THEN /\ control' = [control EXCEPT ![w] = ToChar(tx[t])]
              /\ NextWord(t, "lock", [call[t] EXCEPT !.op = "store", !.at = call[t].first])
              /\ UNCHANGED logVars
         ELSE /\ control' = [u \in Words |-> IF u \in call[t].first..(w - 1)
                                             THEN it_is_free ELSE control[u]]
              /\ StartUndo(t)
      /\ UNCHANGED <<vars, data, shadow, ops>>
Upgrade(t) ==
  LET w == call[t].at
  IN  /\ At(t, "upgrade")
      /\ IF control[w] = ToChar(-tx[t])
         THEN /\ control' = [control EXCEPT ![w] = ToChar(tx[t])]
              /\ NextWord(t, "lock", [call[t] EXCEPT !.op = "store", !.at = call[t].first])
              /\ UNCHANGED logVars
         ELSE /\ control' = [u \in Words |-> IF u \in call[t].first..(w - 1)
                                             THEN it_is_free ELSE control[u]]
              /\ StartUndo(t)
      /\ UNCHANGED <<vars, data, shadow, ops>>

Store(t) ==
  LET w == call[t].at
  IN  /\ At(t, "store")
      /\ shadow' = [shadow EXCEPT ![w] = call[t].val]
      /\ wr' = [wr EXCEPT ![t][w] = call[t].val]
      /\ NextWord(t, "store", Quiet)
      /\ UNCHANGED <<vars, control, data, ops, rd>>

-----------------------------------------------------------------------------
(* Undo, word by word, then tm_end *)

NextUndo(t) ==
  SetCall(t, IF call[t].at = NumWords THEN [Quiet EXCEPT !.op = "end"]
             ELSE [call[t] EXCEPT !.op = "undo", !.at = @ + 1])

\* A word it writes is restored; a word it marked as read is freed.  (Mutants:
\* the word is not restored; marks of reads stay; any written word is restored.)
UndoWordUnrestored(t) ==
  LET w == call[t].at
  IN  /\ At(t, "undo")
      /\ IF control[w] = tx[t]
         THEN SetCall(t, [call[t] EXCEPT !.op = "release"]) /\ UNCHANGED control
         ELSE /\ control' = [control EXCEPT ![w] = IF @ = ToChar(-tx[t]) THEN it_is_free ELSE @]
              /\ NextUndo(t)
      /\ UNCHANGED <<vars, data, shadow, ops, logVars>>
UndoWordStaysRead(t) ==
  LET w == call[t].at
  IN  /\ At(t, "undo")
      /\ IF control[w] = tx[t]
         THEN /\ shadow' = [shadow EXCEPT ![w] = data[w]]
              /\ SetCall(t, [call[t] EXCEPT !.op = "release"])
         ELSE NextUndo(t) /\ UNCHANGED shadow
      /\ UNCHANGED <<vars, control, data, ops, logVars>>
UndoWordAnyWriter(t) ==
  LET w == call[t].at
  IN  /\ At(t, "undo")
      /\ IF control[w] > it_is_free
         THEN /\ shadow' = [shadow EXCEPT ![w] = data[w]]
              /\ SetCall(t, [call[t] EXCEPT !.op = "release"])
              /\ UNCHANGED control
         ELSE /\ control' = [control EXCEPT ![w] = IF @ = ToChar(-tx[t]) THEN it_is_free ELSE @]
              /\ NextUndo(t)
              /\ UNCHANGED shadow
      /\ UNCHANGED <<vars, data, ops, logVars>>
UndoWord(t) ==
  LET w == call[t].at
  IN  /\ At(t, "undo")
      /\ IF control[w] = tx[t]
         THEN /\ shadow' = [shadow EXCEPT ![w] = data[w]]
              /\ SetCall(t, [call[t] EXCEPT !.op = "release"])
              /\ UNCHANGED control
         ELSE /\ control' = [control EXCEPT ![w] = IF @ = ToChar(-tx[t]) THEN it_is_free ELSE @]
              /\ NextUndo(t)
              /\ UNCHANGED shadow
      /\ UNCHANGED <<vars, data, ops, logVars>>

UndoRelease(t) ==
  /\ At(t, "release")
  /\ control' = [control EXCEPT ![call[t].at] = it_is_free]
  /\ NextUndo(t)
  /\ UNCHANGED <<vars, data, shadow, ops, logVars>>

-----------------------------------------------------------------------------
(* The batcher's steps *)

DualBegin(t) ==
  /\ ClientBegins(t)
  /\ ops' = [ops EXCEPT ![t] = MaxOps]
  /\ UNCHANGED <<memVars, call, logVars>>

\* The client, or Undo, calls tm_end.  A read-only transaction needs no commit:
\* its history is dropped.
DualEnd(t) ==
  /\ At(t, "none") \/ At(t, "end")
  /\ CallEnd(t)
  /\ SetCall(t, Quiet)
  /\ ops' = [ops EXCEPT ![t] = 0]
  /\ rd' = IF is_ro[t] THEN [rd EXCEPT ![t] = Nothing] ELSE rd
  /\ UNCHANGED <<memVars, wr>>

\* Commit_seg: shadow over data, and every word free.
DualCommit(t) ==
  /\ Commit(t)
  /\ data' = shadow
  /\ control' = [w \in Words |-> it_is_free]
  /\ rd' = [u \in Threads |-> IF u \in Inside THEN rd[u] ELSE Nothing]
  /\ wr' = [u \in Threads |-> IF u \in Inside THEN wr[u] ELSE Nothing]
  /\ UNCHANGED <<shadow, call, ops>>

Memory(t) ==
  \/ \E span \in Spans : CallRead(t, span) \/ \E v \in Values : CallWrite(t, span, v)
  \/ ReadTest(t) \/ ReadMark(t) \/ ReadCopy(t)
  \/ Lock(t) \/ Upgrade(t) \/ Store(t)
  \/ UndoWord(t) \/ UndoRelease(t)

DualStep(t) ==
  \/ (BeginStep(t) \/ EndStep(t)) /\ UNCHANGED <<memVars, call, ops, logVars>>
  \/ DualBegin(t) \/ DualEnd(t) \/ DualCommit(t)
  \/ Memory(t)

DualNext == \E t \in Threads : DualStep(t)

DualSpec == DualInit /\ [][DualNext]_dualVars

-----------------------------------------------------------------------------
Ops == {"none", "test", "mark", "shadow", "data", "lock", "upgrade", "store",
        "undo", "release", "end"}

\* A control word is a signed char and a word has been written by a client.
DualTypeOK ==
  /\ TypeOK
  /\ control \in [Words -> Chars]
  /\ data \in [Words -> Values \cup {0}]
  /\ shadow \in [Words -> Values \cup {0}]
  /\ call \in [Threads -> [op : Ops, first : Int, last : Int, at : Int,
                           val : Values \cup {NoValue}]]
  /\ ops \in [Threads -> 0..MaxOps]
  /\ rd \in [Threads -> [Words -> Values \cup {0, NoValue}]]
  /\ wr \in [Threads -> [Words -> Values \cup {NoValue}]]

\* A read-only transaction sees one snapshot until it ends, though it takes no
\* mark and data has no lock, whatever the writers of its epoch do.
ReadOnlySnapshot ==
  \A t \in Inside, w \in Words : is_ro[t] => rd[t][w] \in {NoValue, data[w]}

\* From its write to the commit of its epoch a transaction that has not failed
\* owns the word, and shadow holds what it wrote: no other transaction
\* overwrites it, undoes it or takes it over.
WritesKept ==
  \A t \in Threads, w \in Words :
    wr[t][w] # NoValue => control[w] = ToChar(tx[t]) /\ shadow[w] = wr[t][w]

\* A failed transaction leaves no trace: a word nobody writes has a shadow
\* that equals data, so the commit of its epoch publishes nothing ("undo the
\* write", batcher_func.h:73).
FreeWordsClean ==
  \A w \in Words : control[w] <= 0 => shadow[w] = data[w]

\* A word stays marked only for a transaction of the epoch that has used it and
\* not failed, or is in the call that marks or unmarks it: an undone operation
\* blocks nobody.
MarksHaveOwners ==
  \A w \in Words : control[w] # it_is_free =>
    \E t \in EpochWriters :
      /\ control[w] \in {ToChar(tx[t]), ToChar(-tx[t])}
      /\ \/ {rd[t][w], wr[t][w]} # {NoValue}
         \/ call[t].op \notin {"none", "end"}

\* The transactions that use the memory are serialisable, read from snapshots,
\* and leave no trace if they fail.
Promise == INSTANCE SerialMemory WITH
  mem <- data,
  open <- {t \in Threads : /\ pc[t] \in {"begin_next", "live"}
                           /\ call[t].op \notin {"undo", "release", "end"}}
Serialisable == Promise!Spec

\* The part of it that no client can argue about: what an epoch publishes is
\* what its transactions that did not fail would leave one after the other,
\* each reading what it did read (workload.hpp:309 and 373 report a "violated
\* isolation or atomicity").
CommitsSerially ==
  [][\A t \in Threads : DualCommit(t) => Promise!SerialCommit]_dualVars
=============================================================================
