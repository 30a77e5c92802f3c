------------------------------ MODULE DualProofs ------------------------------
(***************************************************************************)
(* Theorems about DualVersion, for any threads, words, values and widths   *)
(* of a char: the memory runs under the batcher as Batcher models it, its  *)
(* variables keep their types, and a read-only transaction sees one        *)
(* snapshot.  Where ids tell the writers of an epoch apart, what they      *)
(* write is theirs until the commit; where each call is also of one word,  *)
(* the memory implements SerialMemory.                                     *)
(***************************************************************************)
EXTENDS DualVersion, BatcherProofs, Sequences

USE ThreadsAssumption, BoundsAssumption, CharAssumption, MemoryAssumption

-----------------------------------------------------------------------------
(* The memory implements the batcher. *)

\* No memory call touches the counters or moves a thread.
LEMMA MemoryLeavesBatcher ==
  ASSUME NEW t \in Threads, Memory(t)
  PROVE  UNCHANGED vars
  BY DEF Memory, CallRead, CallWrite, Access, ReadTest, ReadMark, ReadCopy, Lock, Upgrade,
     Store, UndoWord, UndoRelease

\* A step of the memory is a step of the batcher, or leaves it alone.
LEMMA DualStepIsBatcherStep == [DualNext]_dualVars => [Next]_vars
<1>. SUFFICES ASSUME [DualNext]_dualVars PROVE [Next]_vars
  OBVIOUS
<1>1. CASE UNCHANGED dualVars
  BY <1>1 DEF dualVars
<1>2. CASE DualNext
  <2>1. PICK t \in Threads : DualStep(t)
    BY <1>2 DEF DualNext
  <2>2. CASE Memory(t)
    BY <2>2, MemoryLeavesBatcher
  <2>3. CASE ~Memory(t)
    <3>1. ClientBegins(t) \/ Step(t)
      BY <2>1, <2>3 DEF DualStep, DualBegin, DualEnd, DualCommit, Step
    <3>. QED  BY <3>1 DEF Next
  <2>. QED  BY <2>2, <2>3
<1>. QED  BY <1>1, <1>2

\* tm_read, tm_write, Undo and Commit_seg use the batcher only through tm_end:
\* every theorem about Batcher holds of the memory.
THEOREM DualImplementsBatcher == DualSpec => Spec
  BY DualStepIsBatcherStep, PTL DEF DualSpec, Spec, DualInit

-----------------------------------------------------------------------------
(* Types *)

MemoryTypes ==
  /\ control \in [Words -> Chars]
  /\ data \in [Words -> Values \cup {0}]
  /\ shadow \in [Words -> Values \cup {0}]
  /\ ops \in [Threads -> 0..MaxOps]
  /\ rd \in [Threads -> [Words -> Values \cup {0, NoValue}]]
  /\ wr \in [Threads -> [Words -> Values \cup {NoValue}]]

Calls == [op : Ops, first : Int, last : Int, at : Int, val : Values \cup {NoValue}]

\* A call that writes has a value to write.
WriteOps == {"lock", "upgrade", "store"}
WritesHaveValues == \A t \in Threads : call[t].op \in WriteOps => call[t].val \in Values

\* A conversion to char yields a char.
LEMMA ToCharType == \A n \in Int : ToChar(n) \in Chars
<1>. SUFFICES ASSUME NEW n \in Int PROVE ToChar(n) \in Chars
  OBVIOUS
<1>1. n % CharRange \in 0..(CharRange - 1)
  OBVIOUS
<1>. QED  BY <1>1 DEF ToChar, Chars

\* The mark of a free word fits in a char.
LEMMA FreeIsChar == it_is_free \in Chars
  BY DEF it_is_free, Chars

\* A call at another line, or another word, is a call.
LEMMA CallAt == \A c \in Calls, op \in Ops, i \in Int : [c EXCEPT !.op = op, !.at = i] \in Calls
  BY DEF Calls

\* The record of a thread that is in no memory call is a call.
LEMMA QuietType == Quiet \in Calls
  BY DEF Quiet, Calls, Ops

\* An update of call keeps its type.
LEMMA CallTypes ==
  ASSUME call \in [Threads -> Calls], NEW t \in Threads
  PROVE  /\ Quiet \in Calls
         /\ \A op \in Ops : [call[t] EXCEPT !.op = op] \in Calls
         /\ \A c \in Calls : SetCall(t, c) => call' \in [Threads -> Calls]
         /\ call[t].at \in Int /\ call[t].first \in Int /\ call[t].val \in Values \cup {NoValue}
<1>1. call[t] \in Calls
  OBVIOUS
<1>2. Quiet \in Calls
  BY QuietType
<1>3. \A c \in Calls : SetCall(t, c) => call' \in [Threads -> Calls]
  BY DEF SetCall
<1>. QED  BY <1>1, <1>2, <1>3 DEF Calls

\* try_write done: the copy starts at the first word.
LEMMA StoreType ==
  ASSUME call \in [Threads -> Calls], NEW t \in Threads
  PROVE  [call[t] EXCEPT !.op = "store", !.at = call[t].first] \in Calls
<1>1. call[t] \in Calls /\ call[t].first \in Int /\ "store" \in Ops
  BY CallTypes DEF Ops
<1>. QED  BY <1>1, CallAt, Zenon

\* The loop over the words of a span.
LEMMA NextWordType ==
  ASSUME call \in [Threads -> Calls], NEW t \in Threads, NEW loop \in Ops,
         NEW done \in Calls, NextWord(t, loop, done)
  PROVE  call' \in [Threads -> Calls]
<1>. DEFINE more == [call[t] EXCEPT !.op = loop, !.at = call[t].at + 1]
<1>1. more \in Calls
  <2>1. call[t] \in Calls /\ call[t].at + 1 \in Int
    BY CallTypes
  <2>. QED  BY <2>1, CallAt, Zenon DEF more
<1>. HIDE DEF more
<1>2. SetCall(t, done) \/ SetCall(t, more)
  BY DEF NextWord, more
<1>. QED  BY <1>1, <1>2, CallTypes

\* The start of Undo.
LEMMA StartUndoType ==
  ASSUME call \in [Threads -> Calls], MemoryTypes, NEW t \in Threads, StartUndo(t)
  PROVE  /\ call' \in [Threads -> Calls]
         /\ rd' \in [Threads -> [Words -> Values \cup {0, NoValue}]]
         /\ wr' \in [Threads -> [Words -> Values \cup {NoValue}]]
<1>1. [Quiet EXCEPT !.op = "undo", !.at = 1] \in Calls
  <2>1. "undo" \in Ops /\ 1 \in Int
    BY DEF Ops
  <2>. QED  BY <2>1, QuietType, CallAt, Zenon
<1>2. call' \in [Threads -> Calls]
  BY <1>1, CallTypes DEF StartUndo
<1>3. Nothing \in [Words -> Values \cup {0, NoValue}] /\ Nothing \in [Words -> Values \cup {NoValue}]
  BY DEF Nothing
<1>. QED  BY <1>2, <1>3 DEF StartUndo, MemoryTypes

\* Each memory call keeps the types.
LEMMA MemorySteps ==
  ASSUME MemoryTypes, call \in [Threads -> Calls], WritesHaveValues, TypeOK, NEW t \in Threads, Memory(t)
  PROVE  MemoryTypes' /\ call' \in [Threads -> Calls]
<1> USE DEF MemoryTypes
<1>0. call[t] \in Calls /\ call[t].at \in Int /\ tx[t] \in Int
  BY CallTypes DEF TypeOK
\* A step that changes call alone.
<1>1. ASSUME NEW c \in Calls, SetCall(t, c), UNCHANGED <<memVars, ops, logVars>>
      PROVE  MemoryTypes' /\ call' \in [Threads -> Calls]
  BY <1>1, CallTypes DEF memVars, logVars
<1>2. ASSUME NEW span \in Spans, NEW op \in Ops, NEW v \in Values \cup {NoValue},
             Access(t, span, op, v)
      PROVE  MemoryTypes' /\ call' \in [Threads -> Calls]
  <2>. DEFINE start == [op |-> op, first |-> span[1], last |-> span[2],
                        at |-> span[1], val |-> v]
  <2>1. start \in Calls
    BY DEF Calls
  <2>. HIDE DEF start
  <2>2. ops' \in [Threads -> 0..MaxOps] /\ UNCHANGED memVars
    BY <1>2 DEF Access
  <2>3. CASE SetCall(t, start) /\ UNCHANGED logVars
    BY <2>1, <2>2, <2>3, CallTypes DEF memVars, logVars
  <2>4. CASE StartUndo(t)
    BY <2>2, <2>4, StartUndoType DEF memVars
  <2>. QED  BY <1>2, <2>3, <2>4 DEF Access, start
<1>3. ASSUME ReadTest(t)
      PROVE  MemoryTypes' /\ call' \in [Threads -> Calls]
  <2>1. PICK op \in Ops : SetCall(t, [call[t] EXCEPT !.op = op])
    BY <1>3 DEF ReadTest, Ops
  <2>2. [call[t] EXCEPT !.op = op] \in Calls
    BY <1>0 DEF Calls
  <2>. QED  BY <1>1, <1>3, <2>1, <2>2 DEF ReadTest
<1>4. ASSUME ReadMark(t)
      PROVE  MemoryTypes' /\ call' \in [Threads -> Calls]
  <2>1. CASE StartUndo(t) /\ UNCHANGED control
    BY <1>4, <2>1, StartUndoType DEF ReadMark
  <2>2. CASE /\ control' = [control EXCEPT ![call[t].at] = ToChar(-tx[t])]
             /\ SetCall(t, [call[t] EXCEPT !.op = "data"]) /\ UNCHANGED logVars
    <3>1. ToChar(-tx[t]) \in Chars
      BY <1>0, ToCharType
    <3>2. [call[t] EXCEPT !.op = "data"] \in Calls
      BY <1>0, CallTypes DEF Ops
    <3>. QED  BY <1>4, <2>2, <3>1, <3>2, CallTypes DEF ReadMark, logVars
  <2>. QED  BY <1>4, <2>1, <2>2 DEF ReadMark
<1>5. ASSUME ReadCopy(t)
      PROVE  MemoryTypes' /\ call' \in [Threads -> Calls]
  <2>1. FirstTest(t) \in Ops
    BY DEF FirstTest, Ops
  <2>2. call' \in [Threads -> Calls]
    BY <1>5, <2>1, QuietType, NextWordType DEF ReadCopy
  <2>3. rd' \in [Threads -> [Words -> Values \cup {0, NoValue}]]
    BY <1>5, ZenonT(60) DEF ReadCopy
  <2>. QED  BY <1>5, <2>2, <2>3 DEF ReadCopy, memVars
\* Both exchanges of try_write, and the bzero of a failed one.
<1>6. ASSUME Lock(t)
      PROVE  MemoryTypes' /\ call' \in [Threads -> Calls]
  <2>1. control' \in [Words -> Chars]
    BY <1>0, <1>6, ToCharType DEF Lock
  <2>2. call' \in [Threads -> Calls]
    <3>. DEFINE store == [call[t] EXCEPT !.op = "store", !.at = call[t].first]
    <3>1. store \in Calls /\ [call[t] EXCEPT !.op = "upgrade"] \in Calls /\ "lock" \in Ops
      BY <1>0, StoreType DEF Calls, Ops
    <3>. HIDE DEF store
    <3>2. NextWord(t, "lock", store) \/ SetCall(t, [call[t] EXCEPT !.op = "upgrade"])
      BY <1>6 DEF Lock, store
    <3>. QED  BY <3>1, <3>2, CallTypes, NextWordType
  <2>. QED  BY <1>6, <2>1, <2>2 DEF Lock, logVars
<1>7. ASSUME Upgrade(t)
      PROVE  MemoryTypes' /\ call' \in [Threads -> Calls]
  <2>1. control' \in [Words -> Chars]
    BY <1>0, <1>7, ToCharType, FreeIsChar DEF Upgrade
  <2>2. CASE StartUndo(t)
    BY <1>7, <2>1, <2>2, StartUndoType DEF Upgrade
  <2>3. CASE NextWord(t, "lock", [call[t] EXCEPT !.op = "store", !.at = call[t].first])
             /\ UNCHANGED logVars
    <3>. DEFINE store == [call[t] EXCEPT !.op = "store", !.at = call[t].first]
    <3>1. store \in Calls /\ "lock" \in Ops
      BY StoreType DEF Ops
    <3>. HIDE DEF store
    <3>2. NextWord(t, "lock", store)
      BY <2>3 DEF store
    <3>3. call' \in [Threads -> Calls]
      BY <3>1, <3>2, NextWordType
    <3>. QED  BY <1>7, <2>1, <2>3, <3>3 DEF Upgrade, logVars
  <2>. QED  BY <1>7, <2>2, <2>3 DEF Upgrade
<1>8. ASSUME Store(t)
      PROVE  MemoryTypes' /\ call' \in [Threads -> Calls]
  <2>1. call[t].val \in Values
    BY <1>8 DEF Store, At, WritesHaveValues, WriteOps
  <2>2. call' \in [Threads -> Calls]
    <3>1. "store" \in Ops
      BY DEF Ops
    <3>. QED  BY <1>8, <3>1, QuietType, NextWordType DEF Store
  <2>. QED  BY <1>8, <2>1, <2>2 DEF Store
\* Undo.
<1>9. NextUndo(t) => call' \in [Threads -> Calls]
  <2>1. /\ [Quiet EXCEPT !.op = "end"] \in Calls
        /\ [call[t] EXCEPT !.op = "undo", !.at = call[t].at + 1] \in Calls
    <3>1. {"undo", "end"} \subseteq Ops /\ call[t].at + 1 \in Int
      BY <1>0 DEF Ops
    <3>2. [Quiet EXCEPT !.op = "end"] \in Calls
      BY <3>1, QuietType DEF Calls
    <3>3. \A i \in Int : [call[t] EXCEPT !.op = "undo", !.at = i] \in Calls
      BY <1>0, <3>1 DEF Calls
    <3>. QED  BY <3>1, <3>2, <3>3, Zenon
  <2>2. NextUndo(t) => \/ SetCall(t, [Quiet EXCEPT !.op = "end"])
                       \/ SetCall(t, [call[t] EXCEPT !.op = "undo", !.at = call[t].at + 1])
    BY DEF NextUndo
  <2>. QED  BY <2>1, <2>2, CallTypes, Zenon
<1>10. ASSUME UndoWord(t)
       PROVE  MemoryTypes' /\ call' \in [Threads -> Calls]
  <2>1. [call[t] EXCEPT !.op = "release"] \in Calls
    BY <1>0, CallTypes DEF Ops
  <2>2. call' \in [Threads -> Calls]
    BY <1>9, <1>10, <2>1, CallTypes DEF UndoWord
  <2>. QED  BY <1>10, <2>2, FreeIsChar, ZenonT(60) DEF UndoWord, logVars
<1>11. ASSUME UndoRelease(t)
       PROVE  MemoryTypes' /\ call' \in [Threads -> Calls]
  BY <1>9, <1>11, FreeIsChar DEF UndoRelease, logVars
<1>12. FirstTest(t) \in Ops /\ "lock" \in Ops
  BY DEF FirstTest, Ops
<1>. QED
  BY <1>2, <1>3, <1>4, <1>5, <1>6, <1>7, <1>8, <1>10, <1>11, <1>12
     DEF Memory, CallRead, CallWrite

-----------------------------------------------------------------------------
(* The invariant behind ReadOnlySnapshot *)

HasHistory(t) == rd[t] # Nothing \/ wr[t] # Nothing

\* Only a live transaction is in a memory call.
CallsAreLive == \A t \in Threads : pc[t] # "live" => call[t].op = "none"

\* A thread that is inside has the id its tm_begin gave it, and a writer has
\* set is_writing.
IdsTell ==
  \A t \in Inside : /\ is_ro[t] <=> tx[t] = read_only_tx
                    /\ ~is_ro[t] => is_writing

\* A history lasts from the transaction's first call to the commit of its epoch,
\* and that is before the transaction's thread can return.
HistoryLabels ==
  {"live", "end_spin", "leave", "park", "park_load", "park_spin", "commit"}
HistoryEnds ==
  \A t \in Threads : HasHistory(t) =>
    /\ pc[t] \in HistoryLabels
    /\ pc[t] = "park_spin" => this_epoch[t] = cnt_epoch
    /\ \A u \in Threads : pc[u] \notin {"reset", "new_epoch"}

\* A read-only transaction reads data and nothing else.
ReadersOnlyRead ==
  \A t \in Threads : is_ro[t] =>
    /\ call[t].op \in {"none", "data"}
    /\ HasHistory(t) => pc[t] = "live" /\ wr[t] = Nothing

DualInv ==
  /\ IInv
  /\ MemoryTypes /\ call \in [Threads -> Calls] /\ WritesHaveValues
  /\ CallsAreLive /\ IdsTell /\ HistoryEnds /\ ReadersOnlyRead
  /\ ReadOnlySnapshot

\* A memory call is one live thread's, and changes nothing of the others.
LEMMA MemoryIsLocal ==
  ASSUME MemoryTypes, call \in [Threads -> Calls], NEW t \in Threads, Memory(t)
  PROVE  /\ pc[t] = "live" /\ data' = data
         /\ \A u \in Threads \ {t} : call'[u] = call[u] /\ rd'[u] = rd[u] /\ wr'[u] = wr[u]
<1> USE DEF MemoryTypes, memVars, logVars, SetCall, StartUndo, At
<1>1. CASE \/ \E span \in Spans : CallRead(t, span) \/ \E v \in Values : CallWrite(t, span, v)
  BY <1>1, ZenonT(60) DEF CallRead, CallWrite, Access
<1>2. CASE ReadTest(t) \/ ReadMark(t) \/ ReadCopy(t)
  BY <1>2 DEF ReadTest, ReadMark, ReadCopy, NextWord
<1>3. CASE Lock(t) \/ Upgrade(t) \/ Store(t)
  BY <1>3 DEF Lock, Upgrade, Store, NextWord
<1>4. CASE UndoWord(t) \/ UndoRelease(t)
  BY <1>4 DEF UndoWord, UndoRelease, NextUndo
<1>. QED  BY <1>1, <1>2, <1>3, <1>4 DEF Memory

\* A memory call of a read-only transaction copies words of data.
LEMMA ReaderCopies ==
  ASSUME MemoryTypes, call \in [Threads -> Calls], NEW t \in Threads, Memory(t),
         ReadersOnlyRead, IdsTell, is_ro[t]
  PROVE  /\ wr' = wr
         /\ call'[t].op \in {"none", "data"}
         /\ \A w \in Words : rd'[t][w] \in {rd[t][w], data[w]}
<1> USE DEF MemoryTypes, logVars, SetCall, At
<1>1. /\ pc[t] = "live" /\ call[t].op \in {"none", "data"}
      /\ tx[t] = read_only_tx
  BY MemoryIsLocal DEF ReadersOnlyRead, IdsTell, Inside, InsideLabels
<1>2. FirstTest(t) = "data"
  BY <1>1 DEF FirstTest
<1>3. ASSUME NEW span \in Spans, CallRead(t, span)
      PROVE  UNCHANGED logVars /\ call'[t].op = "data"
  BY <1>2, <1>3 DEF CallRead, Access, Found
<1>4. ASSUME ReadCopy(t)
      PROVE  /\ wr' = wr /\ call'[t].op \in {"none", "data"}
             /\ \A w \in Words : rd'[t][w] \in {rd[t][w], data[w]}
  <2>1. call'[t].op \in {"none", "data"}
    BY <1>2, <1>4 DEF ReadCopy, NextWord, Quiet, Calls
  <2>2. call[t].op = "data"
    BY <1>1, <1>4 DEF ReadCopy
  <2>. QED  BY <1>4, <2>1, <2>2 DEF ReadCopy
<1>5. (\E span \in Spans : CallRead(t, span)) \/ ReadCopy(t)
  BY <1>1 DEF Memory, CallWrite, ReadTest, ReadMark, Lock, Upgrade, Store, UndoWord, UndoRelease
<1>. QED  BY <1>3, <1>4, <1>5

\* What the updates of call that the actions share leave in op and val.
LEMMA NewCall ==
  ASSUME call \in [Threads -> Calls], NEW t \in Threads
  PROVE  /\ \A c : SetCall(t, c) => call'[t] = c
         /\ \A op \in Ops : /\ [call[t] EXCEPT !.op = op].op = op
                            /\ [call[t] EXCEPT !.op = op].val = call[t].val
         /\ \A op \in Ops, i \in Int : /\ [call[t] EXCEPT !.op = op, !.at = i].op = op
                                       /\ [call[t] EXCEPT !.op = op, !.at = i].val = call[t].val
         /\ StartUndo(t) => call'[t].op = "undo"
         /\ NextUndo(t) => call'[t].op \in {"undo", "end"}
<1>1. \A c : SetCall(t, c) => call'[t] = c
  BY DEF SetCall
<1>2. ASSUME NEW c \in Calls, NEW op \in Ops, NEW i \in Int
      PROVE  /\ [c EXCEPT !.op = op].op = op /\ [c EXCEPT !.op = op].val = c.val
             /\ [c EXCEPT !.op = op, !.at = i].op = op
             /\ [c EXCEPT !.op = op, !.at = i].val = c.val
  BY DEF Calls
<1>3. call[t] \in Calls /\ {"undo", "end"} \subseteq Ops /\ {1, call[t].at + 1} \subseteq Int
  <2>1. {"undo", "end"} \subseteq Ops
    BY DEF Ops
  <2>. QED  BY <2>1, CallTypes
<1>4. StartUndo(t) => call'[t].op = "undo"
  <2>1. [Quiet EXCEPT !.op = "undo", !.at = 1].op = "undo"
    BY <1>2, <1>3, QuietType
  <2>. QED  BY <1>1, <2>1 DEF StartUndo
<1>5. NextUndo(t) => call'[t].op \in {"undo", "end"}
  <2>1. [Quiet EXCEPT !.op = "end"].op = "end"
    BY <1>2, <1>3, QuietType
  <2>2. [call[t] EXCEPT !.op = "undo", !.at = call[t].at + 1].op = "undo"
    BY <1>2, <1>3
  <2>. QED  BY <1>1, <2>1, <2>2 DEF NextUndo
<1>. QED  BY <1>1, <1>2, <1>3, <1>4, <1>5

\* A call that writes keeps its value.
LEMMA ValueSteps ==
  ASSUME MemoryTypes, call \in [Threads -> Calls], WritesHaveValues,
         NEW t \in Threads, Memory(t)
  PROVE  WritesHaveValues'
<1>. DEFINE Good(c) == c.op \in WriteOps => c.val \in Values
<1>0. call[t] \in Calls /\ Good(call[t])
  BY DEF WritesHaveValues
<1>1. Good(call'[t])
  <2>1. ASSUME StartUndo(t) \/ NextUndo(t)
        PROVE  Good(call'[t])
    BY <2>1, NewCall DEF WriteOps
  <2>2. ASSUME NEW loop \in Ops, NEW done, Good(done), NextWord(t, loop, done),
               loop \in WriteOps => call[t].op \in WriteOps
        PROVE  Good(call'[t])
    <3>1. call[t].at + 1 \in Int
      BY CallTypes
    <3>2. Good([call[t] EXCEPT !.op = loop, !.at = call[t].at + 1])
      BY <1>0, <2>2, <3>1, NewCall
    <3>. QED  BY <2>2, <3>2, NewCall DEF NextWord
  <2>3. ASSUME NEW op \in Ops, SetCall(t, [call[t] EXCEPT !.op = op]),
               op \in WriteOps => call[t].op \in WriteOps
        PROVE  Good(call'[t])
    <3>1. call'[t] = [call[t] EXCEPT !.op = op]
      BY <2>3, NewCall
    <3>2. call'[t].op = op /\ call'[t].val = call[t].val
      BY <1>0, <3>1 DEF Calls
    <3>. QED  BY <1>0, <2>3, <3>2
  <2>4. Good(Quiet)
    BY DEF Quiet, WriteOps
  <2>5. call[t].op \in WriteOps =>
          Good([call[t] EXCEPT !.op = "store", !.at = call[t].first])
    <3>1. "store" \in Ops /\ call[t].first \in Int
      BY CallTypes DEF Ops
    <3>. QED  BY <1>0, <3>1, NewCall
  <2>6. CASE ReadTest(t) \/ ReadMark(t)
    <3>1. StartUndo(t) \/ \E op \in {"shadow", "mark", "data"} :
                            SetCall(t, [call[t] EXCEPT !.op = op])
      BY <2>6 DEF ReadTest, ReadMark
    <3>2. {"shadow", "mark", "data"} \subseteq Ops \ WriteOps
      BY DEF Ops, WriteOps
    <3>. QED  BY <2>1, <2>3, <3>1, <3>2
  <2>7. CASE ReadCopy(t)
    BY <2>2, <2>4, <2>7 DEF ReadCopy, FirstTest, Ops, WriteOps
  <2>8. CASE Lock(t) \/ Upgrade(t)
    <3>1. call[t].op \in WriteOps /\ {"lock", "upgrade"} \subseteq Ops \cap WriteOps
      BY <2>8 DEF Lock, Upgrade, At, WriteOps, Ops
    <3>. HIDE DEF Good
    <3>. QED  BY <2>1, <2>2, <2>3, <2>5, <2>8, <3>1 DEF Lock, Upgrade
  <2>9. CASE Store(t)
    BY <2>2, <2>4, <2>9 DEF Store, At, Ops, WriteOps
  <2>10. CASE UndoWord(t) \/ UndoRelease(t)
    BY <2>1, <2>3, <2>10 DEF UndoWord, UndoRelease, Ops, WriteOps
  <2>11. CASE \E span \in Spans : CallRead(t, span) \/ \E v \in Values : CallWrite(t, span, v)
    <3>1. ASSUME NEW span, NEW op, NEW v, Access(t, span, op, v),
                 op \in WriteOps => v \in Values
          PROVE  Good(call'[t])
      <4>. DEFINE start == [op |-> op, first |-> span[1], last |-> span[2],
                            at |-> span[1], val |-> v]
      <4>1. Good(start)
        BY <3>1
      <4>. HIDE DEF start, Good
      <4>2. SetCall(t, start) \/ StartUndo(t)
        BY <3>1 DEF Access, start
      <4>. QED  BY <2>1, <4>1, <4>2, NewCall
    <3>2. FirstTest(t) \notin WriteOps
      BY DEF FirstTest, WriteOps
    <3>. QED  BY <2>11, <3>1, <3>2 DEF CallRead, CallWrite
  <2>. QED  BY <2>6, <2>7, <2>8, <2>9, <2>10, <2>11 DEF Memory
<1>. QED  BY <1>1, MemoryIsLocal DEF WritesHaveValues

\* The part of the invariant that relates the memory to the batcher.
MemoryInv ==
  CallsAreLive /\ IdsTell /\ HistoryEnds /\ ReadersOnlyRead /\ ReadOnlySnapshot

\* tm_read, tm_write and Undo keep the invariant.
LEMMA MemoryKeeps ==
  ASSUME DualInv, NEW t \in Threads, Memory(t)
  PROVE  MemoryInv'
<1> USE DEF DualInv
<1>1. UNCHANGED vars
  BY MemoryLeavesBatcher
<1>2. /\ UNCHANGED <<cnt_epoch, is_writing, pc, is_ro, tx, this_epoch>>
      /\ Inside' = Inside
  BY <1>1 DEF vars, epochVars, localVars, Inside
<1>3. /\ pc[t] = "live" /\ data' = data
      /\ \A u \in Threads \ {t} : call'[u] = call[u] /\ rd'[u] = rd[u] /\ wr'[u] = wr[u]
  BY MemoryIsLocal
<1>4. CallsAreLive' /\ IdsTell'
  BY <1>2, <1>3 DEF CallsAreLive, IdsTell
<1>5. HistoryEnds'
  <2>1. \A u \in Threads : pc[u] \notin {"reset", "new_epoch"}
    BY <1>3 DEF IInv, CommitAlone, Inside, InsideLabels, Closing, ClosingLabels
  <2>. QED  BY <1>2, <1>3, <2>1 DEF HistoryEnds, HasHistory, HistoryLabels
<1>6. ReadersOnlyRead' /\ ReadOnlySnapshot'
  <2>1. CASE is_ro[t]
    <3>1. /\ wr' = wr
          /\ call'[t].op \in {"none", "data"}
          /\ \A w \in Words : rd'[t][w] \in {rd[t][w], data[w]}
      BY <2>1, ReaderCopies
    <3>2. wr[t] = Nothing
      BY <2>1 DEF ReadersOnlyRead, HasHistory
    <3>3. ReadersOnlyRead'
      <4>. SUFFICES ASSUME NEW u \in Threads, is_ro'[u]
                    PROVE  /\ call'[u].op \in {"none", "data"}
                           /\ HasHistory(u)' => pc'[u] = "live" /\ wr'[u] = Nothing
        BY DEF ReadersOnlyRead
      <4>. QED  BY <1>2, <1>3, <3>1, <3>2 DEF ReadersOnlyRead, HasHistory
    <3>4. ReadOnlySnapshot'
      <4>. SUFFICES ASSUME NEW u \in Inside, NEW w \in Words, is_ro[u]
                    PROVE  rd'[u][w] \in {NoValue, data[w]}
        BY <1>2, <1>3 DEF ReadOnlySnapshot
      <4>. QED  BY <1>3, <3>1 DEF ReadOnlySnapshot, Inside
    <3>. QED  BY <3>3, <3>4
  <2>2. CASE ~is_ro[t]
    <3>1. ReadersOnlyRead'
      BY <1>2, <1>3, <2>2 DEF ReadersOnlyRead, HasHistory
    <3>2. ReadOnlySnapshot'
      BY <1>2, <1>3, <2>2 DEF ReadOnlySnapshot, Inside
    <3>. QED  BY <3>1, <3>2
  <2>. QED  BY <2>1, <2>2
<1>. QED  BY <1>4, <1>5, <1>6 DEF MemoryInv

\* A new transaction has no history, so it keeps the invariant.
LEMMA DualBeginKeeps ==
  ASSUME DualInv, NEW t \in Threads, DualBegin(t)
  PROVE  MemoryInv'
<1> USE DEF DualInv
<1>1. /\ UNCHANGED <<memVars, call, logVars, cnt_epoch, is_writing, tx, this_epoch>>
      /\ pc[t] = "idle" /\ pc' = [pc EXCEPT ![t] = "begin_spin"]
      /\ \A u \in Threads \ {t} : is_ro'[u] = is_ro[u]
  BY DEF DualBegin, ClientBegins, CallBegin, Goto, epochVars, IInv, TypeOK
<1>2. Inside' = Inside /\ t \notin Inside
  BY <1>1 DEF Inside, InsideLabels, IInv, TypeOK
<1>3. ~HasHistory(t) /\ call[t].op = "none"
  BY <1>1 DEF HistoryEnds, HistoryLabels, CallsAreLive
<1>. QED
  BY <1>1, <1>2, <1>3 DEF MemoryInv, memVars, logVars, CallsAreLive, IdsTell, HistoryEnds,
     HistoryLabels, HasHistory, ReadersOnlyRead, ReadOnlySnapshot, IInv, TypeOK, Inside

\* The call of tm_end keeps the invariant: a reader's history is dropped.
LEMMA DualEndKeeps ==
  ASSUME DualInv, NEW t \in Threads, DualEnd(t)
  PROVE  MemoryInv'
<1> USE DEF DualInv
<1>1. /\ UNCHANGED <<memVars, wr, cnt_epoch, is_writing, is_ro, tx, this_epoch>>
      /\ pc[t] = "live" /\ pc' = [pc EXCEPT ![t] = "end_spin"]
      /\ call' = [call EXCEPT ![t] = Quiet]
      /\ rd' = IF is_ro[t] THEN [rd EXCEPT ![t] = Nothing] ELSE rd
  BY DEF DualEnd, CallEnd, Goto, SetCall, epochVars, localVars
<1>2. Inside' = Inside
  BY <1>1 DEF Inside, InsideLabels, IInv, TypeOK
<1>3. Quiet.op = "none"
  BY DEF Quiet
<1>4. CallsAreLive' /\ IdsTell'
  BY <1>1, <1>2, <1>3 DEF CallsAreLive, IdsTell, IInv, TypeOK
<1>5. HistoryEnds'
  BY <1>1 DEF HistoryEnds, HistoryLabels, HasHistory, IInv, TypeOK, MemoryTypes
<1>6. ReadersOnlyRead'
  BY <1>1, <1>3 DEF ReadersOnlyRead, HasHistory, IInv, TypeOK, MemoryTypes
<1>7. ReadOnlySnapshot'
  BY <1>1, <1>2 DEF ReadOnlySnapshot, Nothing, MemoryTypes, memVars
<1>. QED  BY <1>4, <1>5, <1>6, <1>7 DEF MemoryInv

\* The commit changes data, and nobody inside has read it: CommitAlone.
LEMMA DualCommitKeeps ==
  ASSUME DualInv, NEW t \in Threads, DualCommit(t)
  PROVE  MemoryInv'
<1> USE DEF DualInv
<1>1. /\ UNCHANGED <<call, cnt_epoch, is_writing, is_ro, tx, this_epoch>>
      /\ pc[t] = "commit" /\ pc' = [pc EXCEPT ![t] = "reset"]
  BY DEF DualCommit, Commit, Goto, epochVars, localVars
<1>2. Inside = {} /\ Inside' = {}
  BY <1>1 DEF IInv, TypeOK, CommitAlone, Inside, InsideLabels, Closing, ClosingLabels
<1>3. \A u \in Threads : rd'[u] = Nothing /\ wr'[u] = Nothing
  BY <1>2 DEF DualCommit
<1>4. CallsAreLive' /\ IdsTell' /\ ReadOnlySnapshot'
  BY <1>1, <1>2 DEF CallsAreLive, IdsTell, ReadOnlySnapshot, IInv, TypeOK
<1>5. HistoryEnds' /\ ReadersOnlyRead'
  BY <1>1, <1>3 DEF HistoryEnds, ReadersOnlyRead, HasHistory
<1>. QED  BY <1>4, <1>5 DEF MemoryInv

\* The other steps of the batcher leave the memory alone.  The writer that
\* waits for its epoch to end returns after the commit, so its history is gone.
LEMMA OtherKeeps ==
  ASSUME DualInv, NEW t \in Threads, BeginStep(t) \/ EndStep(t),
         UNCHANGED <<memVars, call, ops, logVars>>
  PROVE  MemoryInv'
<1> USE DEF DualInv
<1>0. /\ UNCHANGED <<data, call, rd, wr, is_ro>>
      /\ pc \in [Threads -> Labels] /\ tx \in [Threads -> Int] /\ cnt_thread \in Nat
      /\ this_epoch \in [Threads -> Nat] /\ cnt_epoch \in Nat
  BY DEF memVars, logVars, BeginStep, EndStep, BeginTurn, TakeSlot, Enter, BeginNext,
     Refuse, Skip, SkipLoad, Retry, EndTurn, Leave, EndNext, Reset, NewEpoch, Park, ParkLoad,
     Unpark, localVars, IInv, TypeOK
<1>1. pc[t] # "live" /\ \A u \in Threads \ {t} : pc'[u] = pc[u] /\ this_epoch'[u] = this_epoch[u]
  <2>1. pc[t] # "live"
    BY DEF BeginStep, EndStep, BeginTurn, TakeSlot, Enter, BeginNext, Refuse, Skip, SkipLoad,
       Retry, EndTurn, Leave, EndNext, Reset, NewEpoch, Park, ParkLoad, Unpark, Goto
  <2>2. \A u \in Threads \ {t} : pc'[u] = pc[u]
    BY <1>0 DEF BeginStep, EndStep, BeginTurn, TakeSlot, Enter, BeginNext, Refuse, Skip,
       SkipLoad, Retry, EndTurn, Leave, EndNext, Reset, NewEpoch, Park, ParkLoad, Unpark, Goto
  <2>3. \A u \in Threads \ {t} : this_epoch'[u] = this_epoch[u]
    BY <1>0 DEF BeginStep, EndStep, BeginTurn, TakeSlot, Enter, BeginNext, Refuse, Skip,
       SkipLoad, Retry, EndTurn, Leave, EndNext, Reset, NewEpoch, Park, ParkLoad, Unpark,
       localVars
  <2>. QED  BY <2>1, <2>2, <2>3
<1>2. \A u \in Threads : HasHistory(u)' <=> HasHistory(u)
  BY <1>0 DEF HasHistory
<1>3. CallsAreLive' /\ ReadersOnlyRead'
  BY <1>0, <1>1, <1>2 DEF CallsAreLive, ReadersOnlyRead
<1>4. ReadOnlySnapshot'
  <2>1. Inside' \subseteq Inside \cup {t}
    BY <1>1 DEF Inside
  <2>2. is_ro[t] => rd[t] = Nothing
    BY <1>1 DEF ReadersOnlyRead, HasHistory
  <2>. QED  BY <1>0, <2>1, <2>2 DEF ReadOnlySnapshot, Nothing, Inside
<1>5. IdsTell'
  <2>1. CASE Enter(t)
    <3>1. cnt_thread + 1 # read_only_tx
      BY <1>0 DEF read_only_tx
    <3>2. /\ tx' = [tx EXCEPT ![t] = IF is_ro[t] THEN read_only_tx ELSE cnt_thread + 1]
          /\ is_writing' = (is_writing \/ ~is_ro[t])
          /\ Inside' = Inside \cup {t}
      BY <2>1, InsideSteps DEF Enter, IInv
    <3>. QED  BY <1>0, <3>1, <3>2 DEF IdsTell, Inside
  <2>2. CASE Reset(t)
    BY <2>2, InsideSteps DEF Reset, IdsTell, IInv, CommitAlone, Closing, ClosingLabels, Goto
  <2>3. CASE ~Enter(t) /\ ~Reset(t)
    <3>1. tx' = tx /\ is_writing' = is_writing
      BY <2>3 DEF BeginStep, EndStep, BeginTurn, TakeSlot, BeginNext, Refuse, Skip, SkipLoad,
         Retry, EndTurn, Leave, EndNext, NewEpoch, Park, ParkLoad, Unpark, localVars, epochVars
    <3>2. Inside' \subseteq Inside
      BY <2>3, InsideSteps DEF BeginStep, EndStep, IInv
    <3>. QED  BY <1>0, <3>1, <3>2 DEF IdsTell
  <2>. QED  BY <2>1, <2>2, <2>3
<1>6. HistoryEnds'
  <2>. SUFFICES ASSUME NEW u \in Threads, HasHistory(u)
                PROVE  /\ pc'[u] \in HistoryLabels
                       /\ pc'[u] = "park_spin" => this_epoch'[u] = cnt_epoch'
                       /\ \A v \in Threads : pc'[v] \notin {"reset", "new_epoch"}
    BY <1>2 DEF HistoryEnds
  <2>1. /\ pc[u] \in HistoryLabels
        /\ pc[u] = "park_spin" => this_epoch[u] = cnt_epoch
        /\ \A v \in Threads : pc[v] \notin {"reset", "new_epoch"}
    BY DEF HistoryEnds
  <2>2. cnt_epoch' = cnt_epoch /\ ~Reset(t) /\ ~NewEpoch(t)
    BY <2>1 DEF BeginStep, EndStep, BeginTurn, TakeSlot, Enter, BeginNext, Refuse, Skip,
       SkipLoad, Retry, EndTurn, Leave, EndNext, Reset, NewEpoch, Park, ParkLoad, Unpark, Goto,
       epochVars
  <2>3. pc'[t] \notin {"reset", "new_epoch"}
    BY <1>0, <2>2 DEF BeginStep, EndStep, BeginTurn, TakeSlot, Enter, BeginNext, Refuse, Skip,
       SkipLoad, Retry, EndTurn, Leave, EndNext, Park, ParkLoad, Unpark, Goto
  <2>4. CASE u # t
    BY <1>1, <2>1, <2>2, <2>3, <2>4
  <2>5. CASE u = t
    <3>1. EndTurn(t) \/ Leave(t) \/ Park(t) \/ ParkLoad(t) \/ Unpark(t)
      BY <2>1, <2>2, <2>5 DEF BeginStep, EndStep, BeginTurn, TakeSlot, Enter, BeginNext, Refuse,
         Skip, SkipLoad, Retry, EndNext, Goto, HistoryLabels
    <3>2. CASE EndTurn(t) \/ Park(t)
      BY <1>0, <1>1, <2>1, <2>3, <2>5, <3>2 DEF EndTurn, Park, Goto, HistoryLabels
    <3>3. CASE Leave(t)
      <4>1. ~is_ro[t]
        BY <1>1, <2>5 DEF ReadersOnlyRead
      <4>2. is_writing /\ tx[t] # read_only_tx
        BY <3>3, <4>1, InsideSteps DEF IdsTell, IInv
      <4>. QED  BY <1>0, <1>1, <2>1, <2>3, <2>5, <3>3, <4>2 DEF Leave, Goto, HistoryLabels
    <3>4. CASE ParkLoad(t)
      BY <1>0, <1>1, <2>1, <2>2, <2>3, <2>5, <3>4 DEF ParkLoad, Goto, HistoryLabels
    <3>5. CASE Unpark(t)
      BY <2>1, <2>5, <3>5 DEF Unpark, Goto
    <3>. QED  BY <3>1, <3>2, <3>3, <3>4, <3>5
  <2>. QED  BY <2>4, <2>5
<1>. QED  BY <1>3, <1>4, <1>5, <1>6 DEF MemoryInv

-----------------------------------------------------------------------------
(* The theorems *)

\* The region tm_create makes satisfies the invariant.
LEMMA DualInitInv == DualInit => DualInv
<1>. SUFFICES ASSUME DualInit PROVE DualInv
  OBVIOUS
<1>1. IInv
  BY InitIInv DEF DualInit
<1>2. MemoryTypes
  BY FreeIsChar DEF DualInit, MemoryTypes, Nothing
<1>3. call \in [Threads -> Calls]
  BY QuietType DEF DualInit
<1>4. \A t \in Threads : call[t].op = "none" /\ ~HasHistory(t)
  BY DEF DualInit, Quiet, HasHistory
<1>5. Inside = {}
  BY DEF DualInit, Init, Inside, InsideLabels
<1>. QED
  BY <1>1, <1>2, <1>3, <1>4, <1>5 DEF DualInv, WritesHaveValues, WriteOps, CallsAreLive,
     IdsTell, HistoryEnds, ReadersOnlyRead, ReadOnlySnapshot

\* Every step keeps the invariant.
LEMMA DualNextInv == DualInv /\ [DualNext]_dualVars => DualInv'
<1>. SUFFICES ASSUME DualInv, [DualNext]_dualVars PROVE DualInv'
  OBVIOUS
<1>1. IInv'
  BY DualStepIsBatcherStep, NextIInv DEF DualInv
<1>2. CASE UNCHANGED dualVars
  BY <1>1, <1>2 DEF dualVars, vars, epochVars, localVars, memVars, logVars, DualInv,
     MemoryTypes, WritesHaveValues, CallsAreLive, IdsTell, HistoryEnds, HasHistory,
     ReadersOnlyRead, ReadOnlySnapshot, Inside
<1>3. CASE DualNext
  <2>. PICK t \in Threads : DualStep(t)
    BY <1>3 DEF DualNext
  <2>1. CASE Memory(t)
    BY <1>1, <2>1, MemorySteps, ValueSteps, MemoryKeeps DEF DualInv, MemoryInv, IInv
  <2>2. CASE DualBegin(t)
    <3>1. MemoryTypes' /\ call' \in [Threads -> Calls] /\ WritesHaveValues'
      BY <2>2 DEF DualBegin, DualInv, MemoryTypes, WritesHaveValues, memVars, logVars
    <3>. QED  BY <1>1, <2>2, <3>1, DualBeginKeeps DEF DualInv, MemoryInv
  <2>3. CASE DualEnd(t)
    <3>1. call' \in [Threads -> Calls] /\ WritesHaveValues'
      BY <2>3, QuietType DEF DualEnd, SetCall, DualInv, WritesHaveValues, Quiet, WriteOps
    <3>2. MemoryTypes'
      BY <2>3 DEF DualEnd, DualInv, MemoryTypes, Nothing, memVars
    <3>. QED  BY <1>1, <2>3, <3>1, <3>2, DualEndKeeps DEF DualInv, MemoryInv
  <2>4. CASE DualCommit(t)
    <3>1. MemoryTypes' /\ call' \in [Threads -> Calls] /\ WritesHaveValues'
      BY <2>4, FreeIsChar DEF DualCommit, DualInv, MemoryTypes, WritesHaveValues, Nothing
    <3>. QED  BY <1>1, <2>4, <3>1, DualCommitKeeps DEF DualInv, MemoryInv
  <2>5. CASE (BeginStep(t) \/ EndStep(t)) /\ UNCHANGED <<memVars, call, ops, logVars>>
    <3>1. MemoryTypes' /\ call' \in [Threads -> Calls] /\ WritesHaveValues'
      BY <2>5 DEF DualInv, MemoryTypes, WritesHaveValues, memVars, logVars
    <3>. QED  BY <1>1, <2>5, <3>1, OtherKeeps DEF DualInv, MemoryInv
  <2>. QED  BY <2>1, <2>2, <2>3, <2>4, <2>5 DEF DualStep
<1>. QED  BY <1>2, <1>3

\* The invariant behind ReadOnlySnapshot holds in every reachable state of the
\* batcher and the memory together.
THEOREM DualInvariance == DualSpec => []DualInv
  BY DualInitInv, DualNextInv, PTL DEF DualSpec

\* Every control word is a char, whatever the id written in it, and the words
\* hold what clients wrote.
THEOREM DualTypeCorrect == DualSpec => []DualTypeOK
<1>1. DualInv => DualTypeOK
  BY DEF DualInv, DualTypeOK, IInv, MemoryTypes, Calls
<1>. QED  BY <1>1, DualInvariance, PTL

\* A read-only transaction (tm.c:376-379) sees one snapshot, for any number of
\* threads and words, even where the ids of writers collide.
THEOREM ReadersSeeOneSnapshot == DualSpec => []ReadOnlySnapshot
<1>1. DualInv => ReadOnlySnapshot
  BY DEF DualInv
<1>. QED  BY <1>1, DualInvariance, PTL

-----------------------------------------------------------------------------
(* Why the words are kept.  Marks tell transactions apart as long as the   *)
(* ids of an epoch are unique and fit a char; each mark is then its        *)
(* transaction's alone, and says what the transaction has done.            *)

MarksTell ==
  UniqueIds /\ \A t \in EpochWriters : 2 * tx[t] < CharRange

Writes(t, w) == control[w] = tx[t]
Reads(t, w)  == control[w] = -tx[t]

\* A call that is not an Undo is at a word of its span; an Undo at any word, and
\* the history of its transaction is gone.
CallPlaced(t) ==
  LET c == call[t]
  IN  /\ c.op \notin {"none", "undo", "release", "end"} =>
           /\ <<c.first, c.last>> \in Spans /\ c.first \in Words
           /\ c.at \in c.first..c.last
      /\ c.op \in {"undo", "release"} => c.at \in Words
      /\ c.op \in {"undo", "release", "end"} => rd[t] = Nothing /\ wr[t] = Nothing

\* The marks that a call has made, or found, are there.
CallHolds(t) ==
  LET c == call[t]
  IN  /\ c.op \in {"lock", "upgrade"} => \A w \in c.first..(c.at - 1) : Writes(t, w)
      /\ c.op = "store" => \A w \in c.first..c.last : Writes(t, w)
      /\ c.op = "shadow" => Writes(t, c.at)
      /\ c.op = "data" /\ ~is_ro[t] => Reads(t, c.at)
      /\ c.op = "release" => Writes(t, c.at) /\ shadow[c.at] = data[c.at]

\* The words a call has marked and not used, or has still to unmark.
CallLeft(t) ==
  LET c == call[t]
  IN  {w \in Words :
         \/ c.op = "data" /\ w = c.at
         \/ c.op \in {"lock", "upgrade"} /\ w \in c.first..(c.at - 1)
         \/ c.op = "store" /\ w \in c.at..c.last
         \/ c.op \in {"undo", "release"} /\ w >= c.at}

\* What a transaction has read and written is marked, and what is marked has
\* been read or written, but for the words its call is at.
WordHeld(t, w) ==
  /\ wr[t][w] # NoValue => Writes(t, w) /\ shadow[w] = wr[t][w]
  /\ rd[t][w] # NoValue => rd[t][w] = data[w] /\ (is_ro[t] \/ Writes(t, w) \/ Reads(t, w))
  /\ t \in EpochWriters /\ Writes(t, w) => wr[t][w] # NoValue \/ w \in CallLeft(t)
  /\ t \in EpochWriters /\ Reads(t, w) => rd[t][w] # NoValue \/ w \in CallLeft(t)

\* A word that its owner has not written, or has restored, is clean.
OneWordCalls == \A s \in Spans : s[1] = s[2]
WordClean(t, w) ==
  t \in EpochWriters /\ Writes(t, w) /\ wr[t][w] = NoValue
    /\ call[t].op \notin {"undo", "release"} => shadow[w] = data[w]

ThreadHolds(t) ==
  /\ {rd[t], wr[t]} = {Nothing} \/ is_ro[t] \/ t \in EpochWriters
  /\ CallPlaced(t) /\ CallHolds(t)
  /\ \A w \in Words : WordHeld(t, w) /\ (OneWordCalls => WordClean(t, w))

\* Every mark is somebody's, and the commit leaves none to the next epoch.
MarksAreIds ==
  \A w \in Words : control[w] # it_is_free =>
    \E t \in EpochWriters : Writes(t, w) \/ Reads(t, w)
NoneAfterCommit ==
  (\E t \in Threads : pc[t] \in {"reset", "new_epoch"}) =>
    \A w \in Words : control[w] = it_is_free

HoldInv ==
  /\ \A t \in EpochWriters : tx[t] > 0
  /\ MarksAreIds /\ NoneAfterCommit
  /\ OneWordCalls => FreeWordsClean
  /\ \A t \in Threads : ThreadHolds(t)


\* An id of less than half the values of a char is its own mark.
LEMMA SmallIdsFit ==
  ASSUME NEW n \in Int, 0 < n, 2 * n < CharRange
  PROVE  ToChar(n) = n /\ ToChar(-n) = -n
<1>1. n % CharRange = n
  OBVIOUS
<1>2. (-n) % CharRange = CharRange - n
  OBVIOUS
<1>. QED  BY <1>1, <1>2 DEF ToChar

\* No mark of a writer of the epoch is a mark of another.
LEMMA MarksDiffer ==
  ASSUME TypeOK, HoldInv, MarksTell
  PROVE  \A t \in EpochWriters :
           /\ t \in Threads /\ tx[t] \in Int /\ tx[t] > 0
           /\ ToChar(tx[t]) = tx[t] /\ ToChar(-tx[t]) = -tx[t]
           /\ \A u \in EpochWriters \ {t} : tx[u] # tx[t]
<1>. TAKE t \in EpochWriters
<1>1. t \in Threads /\ tx[t] \in Int /\ tx[t] > 0 /\ 2 * tx[t] < CharRange
  BY DEF EpochWriters, TypeOK, HoldInv, MarksTell
<1>. QED  BY <1>1, SmallIdsFit DEF MarksTell, UniqueIds

\* A transaction that is in a call that marks words is a writer of the epoch.
LEMMA CallersAreWriters ==
  ASSUME DualInv, NEW t \in Threads, pc[t] = "live",
         ~is_ro[t] \/ call[t].op \notin {"none", "data"}
  PROVE  t \in EpochWriters /\ ~is_ro[t]
<1>1. t \in Inside /\ ~is_ro[t]
  BY DEF Inside, InsideLabels, DualInv, ReadersOnlyRead
<1>. QED  BY <1>1 DEF DualInv, IInv, InsideThisEpoch, EpochWriters

\* The fields of a call that moves on.
LEMMA CallFields ==
  ASSUME NEW c \in Calls, NEW op \in Ops, NEW i \in Int
  PROVE  /\ [c EXCEPT !.op = op].op = op /\ [c EXCEPT !.op = op].at = c.at
         /\ [c EXCEPT !.op = op].first = c.first /\ [c EXCEPT !.op = op].last = c.last
         /\ [c EXCEPT !.op = op, !.at = i].op = op /\ [c EXCEPT !.op = op, !.at = i].at = i
         /\ [c EXCEPT !.op = op, !.at = i].first = c.first
         /\ [c EXCEPT !.op = op, !.at = i].last = c.last
  BY DEF Calls

\* What a call changes in the words carries its transaction's own mark.
LEMMA ForeignWords ==
  ASSUME DualInv, HoldInv, MarksTell, NEW t \in Threads, Memory(t)
  PROVE  \A w \in Words :
           /\ control'[w] # control[w] =>
                t \in EpochWriters /\ {control[w], control'[w]} \subseteq {it_is_free, tx[t], -tx[t]}
           /\ shadow'[w] # shadow[w] => t \in EpochWriters /\ Writes(t, w) /\ Writes(t, w)'
<1> USE DEF DualInv, MemoryTypes
<1>1. pc[t] = "live" /\ UNCHANGED <<tx, data>>
  BY MemoryIsLocal, MemoryLeavesBatcher DEF vars, localVars
<1>2. call[t].op \notin {"none", "data"} => t \in EpochWriters
  BY <1>1, CallersAreWriters
<1>3. t \in EpochWriters => ToChar(tx[t]) = tx[t] /\ ToChar(-tx[t]) = -tx[t]
  BY MarksDiffer DEF IInv
<1>4. ThreadHolds(t) /\ call[t] \in Calls
  BY DEF HoldInv
<1>5. CASE \/ \E span \in Spans : CallRead(t, span) \/ \E v \in Values : CallWrite(t, span, v)
           \/ ReadTest(t) \/ ReadCopy(t)
  BY <1>5 DEF CallRead, CallWrite, Access, ReadTest, ReadCopy, memVars
<1>6. CASE ReadMark(t) \/ Lock(t)
  BY <1>2, <1>3, <1>6 DEF ReadMark, Lock, At
<1>7. CASE Upgrade(t)
  <2>1. \A w \in call[t].first..(call[t].at - 1) : Writes(t, w)
    BY <1>4, <1>7 DEF Upgrade, At, ThreadHolds, CallHolds
  <2>. QED  BY <1>2, <1>3, <1>7, <2>1 DEF Upgrade, At, Writes
<1>8. CASE Store(t)
  <2>1. \A w \in call[t].first..call[t].last : Writes(t, w)
    BY <1>4, <1>8 DEF Store, At, ThreadHolds, CallHolds
  <2>2. call[t].at \in call[t].first..call[t].last
    BY <1>4, <1>8 DEF Store, At, ThreadHolds, CallPlaced
  <2>. QED  BY <1>1, <1>2, <1>8, <2>1, <2>2 DEF Store, At, Writes
<1>9. CASE UndoWord(t)
  BY <1>1, <1>2, <1>3, <1>9 DEF UndoWord, At, Writes
<1>10. CASE UndoRelease(t)
  <2>1. Writes(t, call[t].at)
    BY <1>4, <1>10 DEF UndoRelease, At, ThreadHolds, CallHolds
  <2>. QED  BY <1>2, <1>10, <2>1 DEF UndoRelease, At, Writes
<1>. QED  BY <1>5, <1>6, <1>7, <1>8, <1>9, <1>10 DEF Memory

\* A call leaves the marks of others, and what they wrote.
LEMMA MarksStay ==
  ASSUME DualInv, HoldInv, MarksTell, NEW t \in Threads, Memory(t),
         NEW u \in EpochWriters \ {t}, NEW w \in Words
  PROVE  /\ Writes(u, w)' <=> Writes(u, w)
         /\ Reads(u, w)' <=> Reads(u, w)
         /\ Writes(u, w) => shadow'[w] = shadow[w]
<1>1. tx' = tx
  BY MemoryLeavesBatcher DEF vars, localVars
<1>2. /\ tx[u] \in Int /\ tx[u] > 0
      /\ t \in EpochWriters => tx[t] \in Int /\ tx[t] > 0 /\ tx[u] # tx[t]
  BY MarksDiffer DEF DualInv, IInv
<1>3. /\ control'[w] # control[w] =>
           t \in EpochWriters /\ {control[w], control'[w]} \subseteq {it_is_free, tx[t], -tx[t]}
      /\ shadow'[w] # shadow[w] => t \in EpochWriters /\ Writes(t, w)
  BY ForeignWords
<1>. QED  BY <1>1, <1>2, <1>3 DEF Writes, Reads, it_is_free

\* A call leaves the invariant of the other threads.
LEMMA OthersHold ==
  ASSUME DualInv, HoldInv, MarksTell, NEW t \in Threads, Memory(t), NEW u \in Threads \ {t}
  PROVE  ThreadHolds(u)'
<1>1. UNCHANGED <<tx, is_ro, pc, born, cnt_epoch, data>> /\ EpochWriters' = EpochWriters
  BY MemoryIsLocal, MemoryLeavesBatcher
  DEF vars, localVars, epochVars, history, EpochWriters, DualInv
<1>2. call'[u] = call[u] /\ rd'[u] = rd[u] /\ wr'[u] = wr[u]
  BY MemoryIsLocal DEF DualInv
<1>3. ThreadHolds(u) /\ call[u] \in Calls
  BY DEF HoldInv, DualInv
<1>4. CallPlaced(u)'
  BY <1>2, <1>3 DEF ThreadHolds, CallPlaced
<1>5. CASE u \in EpochWriters
  <2>1. \A w \in Words : /\ Writes(u, w)' <=> Writes(u, w)
                         /\ Reads(u, w)' <=> Reads(u, w)
                         /\ Writes(u, w) => shadow'[w] = shadow[w]
    BY <1>5, MarksStay
  <2>2. CallHolds(u)'
    <3>1. CallHolds(u) /\ CallPlaced(u)
      BY <1>3 DEF ThreadHolds
    <3>2. /\ call[u].op \in {"lock", "upgrade"} => call[u].first..(call[u].at - 1) \subseteq Words
          /\ call[u].op = "store" => call[u].first..call[u].last \subseteq Words
          /\ call[u].op \in {"shadow", "data", "release"} => call[u].at \in Words
      BY <1>3, <3>1 DEF CallPlaced, Calls, Words
    <3>. QED  BY <1>1, <1>2, <2>1, <3>1, <3>2 DEF CallHolds
  <2>3. ASSUME NEW w \in Words PROVE WordHeld(u, w)' /\ (OneWordCalls => WordClean(u, w)')
    BY <1>1, <1>2, <1>3, <2>1 DEF ThreadHolds, WordHeld, WordClean, CallLeft
  <2>. QED  BY <1>1, <1>4, <1>5, <2>2, <2>3 DEF ThreadHolds, OneWordCalls
<1>6. CASE u \notin EpochWriters
  <2>1. is_ro[u] \/ {rd[u], wr[u]} = {Nothing}
    BY <1>3, <1>6 DEF ThreadHolds
  <2>2. call[u].op \in {"none", "data"} /\ (call[u].op = "data" => is_ro[u])
    BY <1>6, CallersAreWriters DEF DualInv, CallsAreLive
  <2>3. wr[u] = Nothing
    BY <2>1 DEF DualInv, ReadersOnlyRead, HasHistory
  <2>4. CallHolds(u)'
    BY <1>1, <1>2, <2>2 DEF CallHolds
  <2>5. ASSUME NEW w \in Words PROVE WordHeld(u, w)' /\ WordClean(u, w)'
    BY <1>1, <1>2, <1>3, <1>6, <2>1, <2>3 DEF ThreadHolds, WordHeld, WordClean, Nothing
  <2>. QED  BY <1>1, <1>2, <1>4, <2>1, <2>4, <2>5 DEF ThreadHolds
<1>. QED  BY <1>5, <1>6

\* What no call changes.
LEMMA CallContext ==
  ASSUME DualInv, HoldInv, NEW t \in Threads, Memory(t)
  PROVE  /\ UNCHANGED <<tx, is_ro, pc, born, cnt_epoch, data>> /\ EpochWriters' = EpochWriters
         /\ pc[t] = "live" /\ ThreadHolds(t) /\ call[t] \in Calls
         /\ {call[t].first, call[t].last, call[t].at} \subseteq Int
         /\ ~is_ro[t] => t \in EpochWriters
<1>1. UNCHANGED <<tx, is_ro, pc, born, cnt_epoch, data>> /\ EpochWriters' = EpochWriters
  BY MemoryIsLocal, MemoryLeavesBatcher
  DEF vars, localVars, epochVars, history, EpochWriters, DualInv
<1>2. pc[t] = "live" /\ ThreadHolds(t) /\ call[t] \in Calls
  BY MemoryIsLocal DEF DualInv, HoldInv
<1>3. {call[t].first, call[t].last, call[t].at} \subseteq Int
  BY <1>2 DEF Calls
<1>. QED  BY <1>1, <1>2, <1>3, CallersAreWriters

\* The start of Undo: the history is gone and every mark is still to be undone.
LEMMA StartUndoHolds ==
  ASSUME DualInv, NEW t \in Threads, StartUndo(t)
  PROVE  ThreadHolds(t)'
<1>1. call'[t] = [Quiet EXCEPT !.op = "undo", !.at = 1]
  BY DEF StartUndo, SetCall, DualInv
<1>2. call'[t].op = "undo" /\ call'[t].at = 1
  BY <1>1, QuietType, CallFields DEF Ops
<1>3. rd'[t] = Nothing /\ wr'[t] = Nothing
  BY DEF StartUndo, DualInv, MemoryTypes
<1>4. CallPlaced(t)' /\ CallHolds(t)'
  BY <1>2, <1>3 DEF CallPlaced, CallHolds, Words, Nothing
<1>5. ASSUME NEW w \in Words PROVE WordHeld(t, w)' /\ WordClean(t, w)'
  <2>1. w \in CallLeft(t)'
    BY <1>2 DEF CallLeft, Words
  <2>. QED  BY <1>2, <1>3, <2>1 DEF WordHeld, WordClean, Nothing
<1>. QED  BY <1>3, <1>4, <1>5 DEF ThreadHolds, Nothing

\* A call that goes on without a change of the words or the history.
LEMMA CallMoves ==
  ASSUME NEW t \in Threads, ThreadHolds(t), UNCHANGED <<control, data, shadow, rd, wr, tx, is_ro>>,
         EpochWriters' = EpochWriters, CallPlaced(t)', CallHolds(t)',
         CallLeft(t) \subseteq CallLeft(t)', call[t].op \notin {"undo", "release"}
  PROVE  ThreadHolds(t)'
  BY DEF ThreadHolds, WordHeld, WordClean, Writes, Reads, Nothing, OneWordCalls

\* The next word of the span, or what comes after the last one.
LEMMA NextWordFields ==
  ASSUME call \in [Threads -> Calls], NEW t \in Threads, NEW loop \in Ops, NEW done,
         NextWord(t, loop, done)
  PROVE  LET c == call[t] IN
         \/ c.at = c.last /\ call'[t] = done
         \/ /\ c.at # c.last /\ call'[t].op = loop /\ call'[t].at = c.at + 1
            /\ call'[t].first = c.first /\ call'[t].last = c.last
<1>1. call[t] \in Calls /\ call[t].at + 1 \in Int
  BY DEF Calls
<1>. DEFINE more == [call[t] EXCEPT !.op = loop, !.at = call[t].at + 1]
<1>2. /\ more.op = loop /\ more.at = call[t].at + 1
      /\ more.first = call[t].first /\ more.last = call[t].last
  BY <1>1, CallFields
<1>3. call'[t] = IF call[t].at = call[t].last THEN done ELSE more
  BY DEF NextWord, SetCall
<1>. HIDE DEF more
<1>. QED  BY <1>2, <1>3

\* The client's call.
LEMMA AccessHolds ==
  ASSUME DualInv, HoldInv, NEW t \in Threads, NEW span \in Spans,
         CallRead(t, span) \/ \E v \in Values : CallWrite(t, span, v)
  PROVE  ThreadHolds(t)'
<1>1. PICK op \in {FirstTest(t), "lock"}, v \in Values \cup {NoValue} : Access(t, span, op, v)
  BY DEF CallRead, CallWrite
<1>2. CASE StartUndo(t)
  BY <1>2, StartUndoHolds
<1>3. CASE ~StartUndo(t)
  <2>. DEFINE start == [op |-> op, first |-> span[1], last |-> span[2],
                        at |-> span[1], val |-> v]
  <2>1. /\ UNCHANGED <<control, data, shadow, rd, wr, tx, is_ro>> /\ EpochWriters' = EpochWriters
        /\ call'[t] = start /\ span[1] \in Words /\ call[t].op = "none"
    BY <1>1, <1>3 DEF Access, SetCall, Found, At, DualInv, vars, localVars, memVars, logVars,
       epochVars, history, EpochWriters
  <2>2. /\ call'[t].op = op /\ call'[t].first = span[1] /\ call'[t].last = span[2]
        /\ call'[t].at = span[1]
    BY <2>1
  <2>. HIDE DEF start
  <2>3. \/ op = "data" /\ is_ro[t]
        \/ op \in {"test", "lock"}
    <3>1. tx[t] = read_only_tx => is_ro[t]
      BY <1>1 DEF Access, At, DualInv, IdsTell, Inside, InsideLabels
    <3>. QED  BY <3>1 DEF FirstTest
  <2>4. CallPlaced(t)'
    <3>1. span[1] \in Int /\ span[2] \in Int /\ <<span[1], span[2]>> = span
          /\ span[2] \in span[1]..NumWords
      BY <2>1
    <3>. QED  BY <2>2, <2>1, <2>3, <3>1 DEF CallPlaced
  <2>5. CallHolds(t)'
    BY <2>1, <2>2, <2>3 DEF CallHolds, Words
  <2>6. CallLeft(t) = {}
    BY <2>1 DEF CallLeft
  <2>. QED  BY <2>1, <2>4, <2>5, <2>6, CallMoves DEF HoldInv
<1>. QED  BY <1>2, <1>3

\* tm_read: the word is tested, marked, and copied.
LEMMA ReadTestHolds ==
  ASSUME DualInv, HoldInv, NEW t \in Threads, ReadTest(t)
  PROVE  ThreadHolds(t)'
<1>1. /\ UNCHANGED <<control, data, shadow, rd, wr, tx, is_ro>> /\ EpochWriters' = EpochWriters
      /\ ThreadHolds(t) /\ call[t] \in Calls /\ call[t].op = "test"
  BY CallContext DEF ReadTest, At, memVars, logVars, Memory
<1>2. PICK op \in {"shadow", "mark"} :
        /\ call'[t] = [call[t] EXCEPT !.op = op]
        /\ op = "shadow" => Writes(t, call[t].at)
  BY DEF ReadTest, SetCall, DualInv, Writes
<1>3. /\ call'[t].op = op /\ call'[t].first = call[t].first
      /\ call'[t].last = call[t].last /\ call'[t].at = call[t].at
  BY <1>1, <1>2, CallFields DEF Ops
<1>4. CallPlaced(t)' /\ CallHolds(t)'
  BY <1>1, <1>2, <1>3 DEF ThreadHolds, CallPlaced, CallHolds, Writes
<1>5. CallLeft(t) = {}
  BY <1>1 DEF CallLeft
<1>. QED  BY <1>1, <1>4, <1>5, CallMoves

\* tm_read marks a free word, or one it has marked, or starts Undo.
LEMMA ReadMarkHolds ==
  ASSUME DualInv, HoldInv, MarksTell, NEW t \in Threads, ReadMark(t)
  PROVE  ThreadHolds(t)'
<1>1. /\ UNCHANGED <<data, shadow, tx, is_ro>> /\ EpochWriters' = EpochWriters
      /\ ThreadHolds(t) /\ call[t] \in Calls /\ call[t].op = "mark" /\ pc[t] = "live"
  BY CallContext DEF ReadMark, At, Memory
<1>2. t \in EpochWriters /\ ~is_ro[t]
  BY <1>1, CallersAreWriters
<1>3. /\ tx[t] \in Int /\ tx[t] > 0 /\ ToChar(-tx[t]) = -tx[t]
  BY <1>2, MarksDiffer DEF DualInv, IInv
<1>4. CASE StartUndo(t)
  BY <1>4, StartUndoHolds
<1>5. CASE ~StartUndo(t)
  <2>1. /\ control[call[t].at] \in {it_is_free, -tx[t]}
        /\ control' = [control EXCEPT ![call[t].at] = -tx[t]]
        /\ call'[t] = [call[t] EXCEPT !.op = "data"]
        /\ UNCHANGED <<rd, wr>>
    BY <1>3, <1>5 DEF ReadMark, SetCall, DualInv, logVars
  <2>2. /\ call'[t].op = "data" /\ call'[t].first = call[t].first
        /\ call'[t].last = call[t].last /\ call'[t].at = call[t].at
    BY <1>1, <2>1, CallFields DEF Ops
  <2>3. CallPlaced(t)' /\ call[t].at \in Words
    BY <1>1, <2>2 DEF ThreadHolds, CallPlaced, Calls, Words
  <2>4. CallHolds(t)'
    BY <1>1, <2>1, <2>2, <2>3 DEF CallHolds, Reads, DualInv, MemoryTypes
  <2>5. ASSUME NEW w \in Words PROVE WordHeld(t, w)' /\ (OneWordCalls => WordClean(t, w))'
    <3>1. CallLeft(t) = {} /\ call[t].at \in CallLeft(t)'
      BY <1>1, <2>2, <2>3 DEF CallLeft
    <3>2. /\ w # call[t].at => control'[w] = control[w]
          /\ w = call[t].at => control'[w] = -tx[t]
      BY <2>1, <2>3 DEF DualInv, MemoryTypes
    <3>3. w = call[t].at => wr[t][w] = NoValue
      BY <1>1, <1>3, <2>1 DEF ThreadHolds, WordHeld, Writes, it_is_free
    <3>. QED  BY <1>1, <1>2, <1>3, <2>1, <3>1, <3>2, <3>3 
              DEF ThreadHolds, WordHeld, WordClean, Writes, Reads
  <2>. QED  BY <1>1, <2>1, <2>3, <2>4, <2>5, <1>2 DEF ThreadHolds, OneWordCalls
<1>. QED  BY <1>4, <1>5

\* What the copy adds to the history: a committed word, or nothing, for what the
\* transaction has itself written.
LEMMA CopiedWord ==
  ASSUME DualInv, HoldInv, MarksTell, NEW t \in Threads, ReadCopy(t)
  PROVE  LET w == call[t].at
         IN  /\ w \in Words
             /\ call[t].op = "shadow" => rd' = rd
             /\ call[t].op = "data" => wr[t][w] = NoValue /\ rd' = [rd EXCEPT ![t][w] = data[w]]
<1>1. /\ ThreadHolds(t) /\ call[t] \in Calls /\ pc[t] = "live" /\ (~is_ro[t] => t \in EpochWriters)
      /\ call[t].op \in {"shadow", "data"}
  BY CallContext DEF ReadCopy, At, Memory, memVars
<1>2. CallPlaced(t) /\ call[t].at \in Words
  BY <1>1 DEF ThreadHolds, CallPlaced, Words, Calls
<1>3. CASE call[t].op = "shadow"
  <2>1. t \in EpochWriters /\ Writes(t, call[t].at) /\ CallLeft(t) = {}
    BY <1>1, <1>3, CallersAreWriters DEF ThreadHolds, CallHolds, CallLeft
  <2>2. wr[t][call[t].at] = shadow[call[t].at]
    BY <1>1, <1>2, <2>1 DEF ThreadHolds, WordHeld
  <2>. QED  BY <1>2, <1>3, <2>2 DEF ReadCopy
<1>4. CASE call[t].op = "data"
  <2>1. wr[t][call[t].at] = NoValue
    <3>1. CASE is_ro[t]
      BY <1>2, <3>1 DEF DualInv, ReadersOnlyRead, HasHistory, Nothing
    <3>2. CASE ~is_ro[t]
      <4>1. tx[t] \in Int /\ tx[t] > 0
        BY <1>1, <3>2, MarksDiffer DEF DualInv, IInv
      <4>2. ~Writes(t, call[t].at)
        BY <1>1, <1>4, <3>2, <4>1 DEF ThreadHolds, CallHolds, Writes, Reads
      <4>. QED  BY <1>1, <1>2, <4>2 DEF ThreadHolds, WordHeld
    <3>. QED  BY <3>1, <3>2
  <2>2. data[call[t].at] # NoValue
    BY <1>2 DEF DualInv, MemoryTypes
  <2>. QED  BY <1>2, <1>4, <2>1, <2>2 DEF ReadCopy
<1>. QED  BY <1>1, <1>3, <1>4

\* tm_read copies a word it has marked, or written.
LEMMA ReadCopyHolds ==
  ASSUME DualInv, HoldInv, MarksTell, NEW t \in Threads, ReadCopy(t)
  PROVE  ThreadHolds(t)'
<1>1. /\ UNCHANGED <<control, data, shadow, wr, tx, is_ro>> /\ EpochWriters' = EpochWriters
      /\ ThreadHolds(t) /\ call[t] \in Calls /\ pc[t] = "live"
      /\ {call[t].first, call[t].last, call[t].at} \subseteq Int
      /\ call[t].op \in {"shadow", "data"}
  BY CallContext DEF ReadCopy, At, Memory, memVars
<1>2. CallPlaced(t) /\ call[t].at \in Words
  BY <1>1 DEF ThreadHolds, CallPlaced, Words
<1>3. FirstTest(t) \in {"data", "test"} /\ (FirstTest(t) = "data" <=> is_ro[t])
  BY <1>1 DEF FirstTest, DualInv, IdsTell, Inside, InsideLabels
<1>4. \/ call'[t] = Quiet
      \/ /\ call[t].at # call[t].last /\ call'[t].op = FirstTest(t) /\ call'[t].at = call[t].at + 1
         /\ call'[t].first = call[t].first /\ call'[t].last = call[t].last
  <2>1. FirstTest(t) \in Ops
    BY <1>3 DEF Ops
  <2>. QED  BY <2>1, NextWordFields DEF ReadCopy, DualInv
<1>5. CallPlaced(t)' /\ CallHolds(t)'
  BY <1>1, <1>2, <1>3, <1>4 DEF CallPlaced, CallHolds, Quiet
<1>6. ~is_ro[t] => CallLeft(t)' = {}
  BY <1>3, <1>4 DEF CallLeft, Quiet
<1>7. ASSUME NEW w \in Words
      PROVE  /\ rd'[t][w] \in {rd[t][w], data[w]}
             /\ rd'[t][w] # rd[t][w] => w = call[t].at /\ call[t].op = "data"
             /\ ~is_ro[t] /\ w = call[t].at /\ call[t].op = "data" => rd'[t][w] = data[w]
  BY <1>1, CopiedWord DEF DualInv, MemoryTypes
<1>8. ~is_ro[t] => CallLeft(t) \subseteq {call[t].at} /\ (CallLeft(t) # {} => call[t].op = "data")
  BY <1>1 DEF CallLeft
<1>9. ASSUME NEW w \in Words PROVE WordHeld(t, w)' /\ (OneWordCalls => WordClean(t, w))'
  <2>0. WordHeld(t, w) /\ (OneWordCalls => WordClean(t, w)) /\ call[t].op \notin {"undo", "release"}
    BY <1>1 DEF ThreadHolds
  <2>1. t \in EpochWriters => ~is_ro[t]
    BY DEF EpochWriters
  <2>2. CallHolds(t) /\ data[w] # NoValue
    BY <1>1 DEF ThreadHolds, DualInv, MemoryTypes
  <2>3. rd'[t][w] # NoValue => rd'[t][w] = data[w] /\ (is_ro[t] \/ Writes(t, w) \/ Reads(t, w))
    BY <1>7, <2>0, <2>2 DEF WordHeld, CallHolds
  <2>4. t \in EpochWriters /\ Writes(t, w) => wr[t][w] # NoValue
    <3>. SUFFICES ASSUME t \in EpochWriters, Writes(t, w) PROVE w \notin CallLeft(t)
      BY <2>0 DEF WordHeld
    <3>1. tx[t] \in Int /\ tx[t] > 0
      BY MarksDiffer DEF DualInv, IInv
    <3>. QED  BY <1>8, <2>1, <2>2, <3>1 DEF CallHolds, Writes, Reads
  <2>5. t \in EpochWriters /\ Reads(t, w) => rd'[t][w] # NoValue
    BY <1>7, <1>8, <2>0, <2>1, <2>2 DEF WordHeld
  <2>. QED  BY <1>1, <2>0, <2>3, <2>4, <2>5 DEF WordHeld, WordClean, Writes, Reads, OneWordCalls
<1>10. {rd'[t], wr'[t]} = {Nothing} \/ is_ro[t] \/ t \in EpochWriters
  BY <1>1, CallersAreWriters
<1>. QED  BY <1>1, <1>5, <1>9, <1>10 DEF ThreadHolds, OneWordCalls, Nothing

\* tm_write: a word that is this transaction's now, or was already.
LEMMA TakenHolds ==
  ASSUME DualInv, HoldInv, MarksTell, NEW t \in Threads, call[t].op \in {"lock", "upgrade"},
         pc[t] = "live", control[call[t].at] \in {it_is_free, tx[t], -tx[t]},
         control' = [control EXCEPT ![call[t].at] = tx[t]],
         NextWord(t, "lock", [call[t] EXCEPT !.op = "store", !.at = call[t].first]),
         UNCHANGED <<data, shadow, rd, wr, tx, is_ro>>, EpochWriters' = EpochWriters
  PROVE  ThreadHolds(t)'
<1>1. /\ ThreadHolds(t) /\ call[t] \in Calls
      /\ {call[t].first, call[t].last, call[t].at} \subseteq Int
      /\ t \in EpochWriters /\ ~is_ro[t]
  <2>1. ThreadHolds(t) /\ call[t] \in Calls
    BY DEF HoldInv, DualInv
  <2>2. {call[t].first, call[t].last, call[t].at} \subseteq Int
    BY <2>1 DEF Calls
  <2>. QED  BY <2>1, <2>2, CallersAreWriters
<1>2. CallPlaced(t) /\ CallHolds(t) /\ call[t].at \in Words /\ call[t].first..call[t].last \subseteq Words
  BY <1>1 DEF ThreadHolds, CallPlaced, Words
<1>3. /\ call'[t].first = call[t].first /\ call'[t].last = call[t].last
      /\ \/ call[t].at = call[t].last /\ call'[t].op = "store" /\ call'[t].at = call[t].first
         \/ call[t].at # call[t].last /\ call'[t].op = "lock" /\ call'[t].at = call[t].at + 1
  <2>. DEFINE store == [call[t] EXCEPT !.op = "store", !.at = call[t].first]
  <2>1. /\ store.op = "store" /\ store.at = call[t].first
        /\ store.first = call[t].first /\ store.last = call[t].last
    BY <1>1, CallFields DEF Ops
  <2>. HIDE DEF store
  <2>2. NextWord(t, "lock", store)
    BY DEF store
  <2>. QED  BY <2>1, <2>2, NextWordFields DEF Ops, DualInv
<1>4. \A w \in Words : control'[w] = IF w = call[t].at THEN tx[t] ELSE control[w]
  BY <1>2 DEF DualInv, MemoryTypes
<1>5. CallPlaced(t)'
  BY <1>1, <1>2, <1>3 DEF CallPlaced
<1>6. CallHolds(t)'
  BY <1>1, <1>2, <1>3, <1>4 DEF CallPlaced, CallHolds, Writes
<1>7. tx[t] \in Int /\ tx[t] > 0
  BY <1>1, MarksDiffer DEF DualInv, IInv
<1>8. CallLeft(t)' = CallLeft(t) \cup {call[t].at}
  BY <1>1, <1>2, <1>3 DEF CallLeft, CallPlaced, Words
<1>9. ASSUME NEW w \in Words PROVE WordHeld(t, w)' /\ (OneWordCalls => WordClean(t, w))'
  <2>1. WordHeld(t, w) /\ (OneWordCalls => WordClean(t, w)) /\ (OneWordCalls => FreeWordsClean)
    BY <1>1 DEF ThreadHolds, HoldInv
  <2>2. WordHeld(t, w)'
    BY <1>4, <1>7, <1>8, <2>1 DEF WordHeld, Writes, Reads
  <2>3. OneWordCalls => WordClean(t, w)'
    BY <1>1, <1>4, <1>7, <2>1 DEF WordClean, FreeWordsClean, Writes, it_is_free
  <2>. QED  BY <2>2, <2>3 DEF OneWordCalls
<1>. QED  BY <1>1, <1>5, <1>6, <1>9 DEF ThreadHolds, OneWordCalls

\* The first exchange of try_write takes the word or leaves it to the second.
LEMMA LockHolds ==
  ASSUME DualInv, HoldInv, MarksTell, NEW t \in Threads, Lock(t)
  PROVE  ThreadHolds(t)'
<1>1. /\ UNCHANGED <<data, shadow, rd, wr, tx, is_ro>> /\ EpochWriters' = EpochWriters
      /\ ThreadHolds(t) /\ call[t] \in Calls /\ call[t].op = "lock" /\ pc[t] = "live"
  BY CallContext DEF Lock, At, Memory, logVars
<1>2. CASE control[call[t].at] \in {it_is_free, tx[t]}
  <2>1. t \in EpochWriters /\ ToChar(tx[t]) = tx[t] /\ tx[t] \in Int
    BY <1>1, CallersAreWriters, MarksDiffer DEF DualInv, IInv
  <2>2. /\ control' = [control EXCEPT ![call[t].at] = tx[t]]
        /\ NextWord(t, "lock", [call[t] EXCEPT !.op = "store", !.at = call[t].first])
    BY <1>2, <2>1 DEF Lock
  <2>. QED  BY <1>1, <1>2, <2>2, TakenHolds
<1>3. CASE control[call[t].at] \notin {it_is_free, tx[t]}
  <2>1. UNCHANGED control /\ call'[t] = [call[t] EXCEPT !.op = "upgrade"]
    BY <1>3 DEF Lock, SetCall, DualInv
  <2>2. /\ call'[t].op = "upgrade" /\ call'[t].first = call[t].first
        /\ call'[t].last = call[t].last /\ call'[t].at = call[t].at
    BY <1>1, <2>1, CallFields DEF Ops
  <2>3. CallPlaced(t)' /\ CallHolds(t)'
    BY <1>1, <2>1, <2>2 DEF ThreadHolds, CallPlaced, CallHolds, Writes
  <2>4. CallLeft(t)' = CallLeft(t)
    BY <1>1, <2>2, SMTT(30) DEF CallLeft
  <2>. QED  BY <1>1, <2>1, <2>3, <2>4, CallMoves
<1>. QED  BY <1>2, <1>3, SMTT(30)

\* The second one takes a word the transaction has read, or starts Undo.
LEMMA UpgradeHolds ==
  ASSUME DualInv, HoldInv, MarksTell, NEW t \in Threads, Upgrade(t)
  PROVE  ThreadHolds(t)'
<1>1. /\ UNCHANGED <<data, shadow, tx, is_ro>> /\ EpochWriters' = EpochWriters
      /\ call[t].op = "upgrade" /\ pc[t] = "live"
  BY CallContext DEF Upgrade, At, Memory
<1>2. CASE StartUndo(t)
  BY <1>2, StartUndoHolds
<1>3. CASE ~StartUndo(t)
  <2>1. t \in EpochWriters /\ ToChar(tx[t]) = tx[t] /\ ToChar(-tx[t]) = -tx[t]
    BY <1>1, CallersAreWriters, MarksDiffer DEF DualInv, IInv
  <2>2. /\ control[call[t].at] = -tx[t] /\ control' = [control EXCEPT ![call[t].at] = tx[t]]
        /\ NextWord(t, "lock", [call[t] EXCEPT !.op = "store", !.at = call[t].first])
        /\ UNCHANGED <<rd, wr>>
    BY <1>3, <2>1 DEF Upgrade, logVars
  <2>. QED  BY <1>1, <2>2, TakenHolds
<1>. QED  BY <1>2, <1>3

\* The copy to shadow of the words the call has taken.
LEMMA StoreHolds ==
  ASSUME DualInv, HoldInv, MarksTell, NEW t \in Threads, Store(t)
  PROVE  ThreadHolds(t)'
<1>1. /\ UNCHANGED <<control, data, rd, tx, is_ro>> /\ EpochWriters' = EpochWriters
      /\ ThreadHolds(t) /\ call[t] \in Calls /\ call[t].op = "store" /\ pc[t] = "live"
      /\ {call[t].first, call[t].last, call[t].at} \subseteq Int
      /\ call[t].val \in Values /\ call[t].val # NoValue
  BY CallContext DEF Store, At, Memory, DualInv, WritesHaveValues, WriteOps
<1>2. CallPlaced(t) /\ CallHolds(t) /\ call[t].at \in Words /\ call[t].first..call[t].last \subseteq Words
  BY <1>1 DEF ThreadHolds, CallPlaced, Words
<1>3. t \in EpochWriters /\ tx[t] \in Int /\ tx[t] > 0
  BY <1>1, CallersAreWriters, MarksDiffer DEF DualInv, IInv
<1>4. \/ call[t].at = call[t].last /\ call'[t] = Quiet
      \/ /\ call[t].at # call[t].last /\ call'[t].op = "store" /\ call'[t].at = call[t].at + 1
         /\ call'[t].first = call[t].first /\ call'[t].last = call[t].last
  BY NextWordFields DEF Store, DualInv, Ops
<1>5. CallPlaced(t)' /\ CallHolds(t)'
  BY <1>1, <1>2, <1>4 DEF CallPlaced, CallHolds, Writes, Quiet
<1>6. \A w \in Words : /\ shadow'[w] = IF w = call[t].at THEN call[t].val ELSE shadow[w]
                       /\ wr'[t][w] = IF w = call[t].at THEN call[t].val ELSE wr[t][w]
  BY <1>2 DEF Store, DualInv, MemoryTypes
<1>7. Writes(t, call[t].at)
  BY <1>1, <1>2 DEF CallHolds, CallPlaced
<1>8. CallLeft(t) \subseteq CallLeft(t)' \cup {call[t].at}
  BY <1>1, <1>2, <1>4 DEF CallLeft, CallPlaced
<1>9. ASSUME NEW w \in Words PROVE WordHeld(t, w)' /\ (OneWordCalls => WordClean(t, w))'
  <2>1. WordHeld(t, w) /\ (OneWordCalls => WordClean(t, w))
    BY <1>1 DEF ThreadHolds
  <2>. QED  BY <1>1, <1>3, <1>6, <1>7, <1>8, <2>1 DEF WordHeld, WordClean, Writes, Reads, OneWordCalls
<1>. QED  BY <1>1, <1>3, <1>5, <1>9 DEF ThreadHolds, OneWordCalls

\* The next word of Undo, or its end.
LEMMA NextUndoFields ==
  ASSUME call \in [Threads -> Calls], NEW t \in Threads, NextUndo(t)
  PROVE  \/ call[t].at = NumWords /\ call'[t].op = "end"
         \/ call[t].at # NumWords /\ call'[t].op = "undo" /\ call'[t].at = call[t].at + 1
<1>1. call[t] \in Calls /\ call[t].at + 1 \in Int
  BY DEF Calls
<1>. DEFINE more == [call[t] EXCEPT !.op = "undo", !.at = call[t].at + 1]
             done == [Quiet EXCEPT !.op = "end"]
<1>2. more.op = "undo" /\ more.at = call[t].at + 1 /\ done.op = "end"
  BY <1>1, QuietType, CallFields DEF Ops
<1>3. call'[t] = IF call[t].at = NumWords THEN done ELSE more
  BY DEF NextUndo, SetCall
<1>. HIDE DEF more, done
<1>. QED  BY <1>2, <1>3

\* Undo leaves behind it no mark of its transaction.
LEMMA UndoneHolds ==
  ASSUME DualInv, HoldInv, MarksTell, NEW t \in Threads, call[t].op \in {"undo", "release"},
         pc[t] = "live", NextUndo(t), UNCHANGED <<data, shadow, rd, wr, tx, is_ro>>,
         EpochWriters' = EpochWriters,
         \A w \in Words \ {call[t].at} : control'[w] = control[w],
         control'[call[t].at] \notin {tx[t], -tx[t]}
  PROVE  ThreadHolds(t)'
<1>1. /\ ThreadHolds(t) /\ call[t] \in Calls /\ t \in EpochWriters
      /\ rd[t] = Nothing /\ wr[t] = Nothing /\ call[t].at \in Words
  BY CallersAreWriters DEF HoldInv, DualInv, ThreadHolds, CallPlaced
<1>2. \/ call[t].at = NumWords /\ call'[t].op = "end"
      \/ call[t].at # NumWords /\ call'[t].op = "undo" /\ call'[t].at = call[t].at + 1
  BY NextUndoFields DEF DualInv
<1>3. CallPlaced(t)' /\ CallHolds(t)'
  BY <1>1, <1>2 DEF CallPlaced, CallHolds, Words
<1>4. CallLeft(t) \subseteq CallLeft(t)' \cup {call[t].at}
  BY <1>1, <1>2 DEF CallLeft, Words
<1>5. ASSUME NEW w \in Words
      PROVE  /\ rd'[t][w] = NoValue /\ wr'[t][w] = NoValue
             /\ Writes(t, w)' \/ Reads(t, w)' => w \in CallLeft(t)'
  BY <1>1, <1>4 DEF ThreadHolds, WordHeld, Writes, Reads, Nothing
<1>6. ASSUME NEW w \in Words PROVE WordHeld(t, w)' /\ WordClean(t, w)'
  <2>1. Writes(t, w)' => call'[t].op = "undo"
    BY <1>2, <1>5 DEF CallLeft
  <2>. QED  BY <1>5, <2>1 DEF WordHeld, WordClean
<1>. QED  BY <1>1, <1>3, <1>6 DEF ThreadHolds

\* Undo restores a word the transaction writes, and frees one it has read.
LEMMA UndoWordHolds ==
  ASSUME DualInv, HoldInv, MarksTell, NEW t \in Threads, UndoWord(t)
  PROVE  ThreadHolds(t)'
<1>1. /\ UNCHANGED <<data, rd, wr, tx, is_ro>> /\ EpochWriters' = EpochWriters
      /\ ThreadHolds(t) /\ call[t] \in Calls /\ call[t].op = "undo" /\ pc[t] = "live"
  BY CallContext DEF UndoWord, At, Memory, logVars
<1>2. CallPlaced(t) /\ call[t].at \in Words
  BY <1>1 DEF ThreadHolds, CallPlaced
<1>3. t \in EpochWriters /\ tx[t] \in Int /\ tx[t] > 0 /\ ToChar(-tx[t]) = -tx[t]
  BY <1>1, CallersAreWriters, MarksDiffer DEF DualInv, IInv
<1>4. CASE control[call[t].at] = tx[t]
  <2>1. /\ UNCHANGED control /\ shadow' = [shadow EXCEPT ![call[t].at] = data[call[t].at]]
        /\ call'[t] = [call[t] EXCEPT !.op = "release"]
    BY <1>4 DEF UndoWord, SetCall, DualInv
  <2>2. call'[t].op = "release" /\ call'[t].at = call[t].at
    BY <1>1, <2>1, CallFields DEF Ops
  <2>3. CallPlaced(t)' /\ CallHolds(t)'
    BY <1>1, <1>2, <1>4, <2>1, <2>2 DEF CallPlaced, CallHolds, Writes, DualInv, MemoryTypes
  <2>4. CallLeft(t)' = CallLeft(t)
    BY <1>1, <2>2 DEF CallLeft
  <2>5. ASSUME NEW w \in Words PROVE WordHeld(t, w)' /\ WordClean(t, w)'
    BY <1>1, <1>2, <2>1, <2>2, <2>4 DEF ThreadHolds, WordHeld, WordClean, CallPlaced, Nothing,
       Writes, Reads
  <2>. QED  BY <1>1, <1>3, <2>3, <2>5 DEF ThreadHolds
<1>5. CASE control[call[t].at] # tx[t]
  <2>1. /\ control' = [control EXCEPT ![call[t].at] =
                         IF @ = ToChar(-tx[t]) THEN it_is_free ELSE @]
        /\ NextUndo(t) /\ UNCHANGED shadow
    BY <1>5 DEF UndoWord
  <2>2. /\ \A w \in Words \ {call[t].at} : control'[w] = control[w]
        /\ control'[call[t].at] \notin {tx[t], -tx[t]}
    BY <1>2, <1>3, <1>5, <2>1 DEF DualInv, MemoryTypes, it_is_free
  <2>. QED  BY <1>1, <2>1, <2>2, UndoneHolds
<1>. QED  BY <1>4, <1>5

\* Undo frees the word it has restored.
LEMMA UndoReleaseHolds ==
  ASSUME DualInv, HoldInv, MarksTell, NEW t \in Threads, UndoRelease(t)
  PROVE  ThreadHolds(t)'
<1>1. /\ UNCHANGED <<data, shadow, rd, wr, tx, is_ro>> /\ EpochWriters' = EpochWriters
      /\ ThreadHolds(t) /\ call[t].op = "release" /\ pc[t] = "live" /\ NextUndo(t)
  BY CallContext DEF UndoRelease, At, Memory, logVars
<1>2. tx[t] \in Int /\ tx[t] > 0
  BY <1>1, CallersAreWriters, MarksDiffer DEF DualInv, IInv
<1>3. /\ \A w \in Words \ {call[t].at} : control'[w] = control[w]
      /\ control'[call[t].at] \notin {tx[t], -tx[t]}
  BY <1>1, <1>2 DEF UndoRelease, ThreadHolds, CallPlaced, DualInv, MemoryTypes, it_is_free
<1>. QED  BY <1>1, <1>3, UndoneHolds

\* A call keeps the invariant of its own thread.
LEMMA CallerHolds ==
  ASSUME DualInv, HoldInv, MarksTell, NEW t \in Threads, Memory(t)
  PROVE  ThreadHolds(t)'
<1>1. CASE \E span \in Spans : CallRead(t, span) \/ \E v \in Values : CallWrite(t, span, v)
  BY <1>1, AccessHolds
<1>2. CASE ReadTest(t) \/ ReadMark(t) \/ ReadCopy(t)
  BY <1>2, ReadTestHolds, ReadMarkHolds, ReadCopyHolds
<1>3. CASE Lock(t) \/ Upgrade(t) \/ Store(t)
  BY <1>3, LockHolds, UpgradeHolds, StoreHolds
<1>4. CASE UndoWord(t) \/ UndoRelease(t)
  BY <1>4, UndoWordHolds, UndoReleaseHolds
<1>. QED  BY <1>1, <1>2, <1>3, <1>4 DEF Memory

\* A call changes only marks of its own thread, and releases words clean.
LEMMA MemoryKeepsHold ==
  ASSUME DualInv, HoldInv, MarksTell, NEW t \in Threads, Memory(t)
  PROVE  HoldInv'
<1>1. /\ UNCHANGED <<tx, pc, data>> /\ EpochWriters' = EpochWriters
      /\ ThreadHolds(t) /\ call[t] \in Calls /\ pc[t] = "live"
  BY CallContext
<1>2. \A u \in Threads : ThreadHolds(u)'
  BY CallerHolds, OthersHold
<1>3. NoneAfterCommit'
  <2>1. \A u \in Threads : pc[u] \notin {"reset", "new_epoch"}
    BY <1>1 DEF DualInv, IInv, CommitAlone, Inside, InsideLabels, Closing, ClosingLabels
  <2>. QED  BY <1>1, <2>1 DEF NoneAfterCommit
<1>4. MarksAreIds'
  BY <1>1, ForeignWords DEF MarksAreIds, HoldInv, Writes, Reads
<1>5. OneWordCalls => FreeWordsClean'
  <2>. SUFFICES ASSUME OneWordCalls, NEW w \in Words, control'[w] <= 0
                PROVE  shadow'[w] = data[w]
    BY <1>1 DEF FreeWordsClean
  <2>0. control[w] \in Int /\ (control[w] <= 0 => shadow[w] = data[w])
    BY DEF HoldInv, FreeWordsClean, DualInv, MemoryTypes, Chars
  <2>1. t \in EpochWriters => tx[t] \in Int /\ tx[t] > 0
    BY MarksDiffer DEF DualInv, IInv
  <2>2. shadow'[w] = shadow[w]
    BY <1>1, <2>1, ForeignWords DEF Writes
  <2>3. CASE control[w] <= 0
    BY <2>0, <2>2, <2>3
  <2>4. CASE control[w] > 0
    <3>1. Writes(t, w) /\ t \in EpochWriters /\ control'[w] # tx[t]
      BY <2>0, <2>1, <2>4, ForeignWords DEF Writes, it_is_free
    <3>2. UndoRelease(t) /\ w = call[t].at
      <4>1. ToChar(-tx[t]) = -tx[t] /\ control[w] # -tx[t] /\ control[w] # it_is_free
        BY <2>1, <3>1, MarksDiffer DEF DualInv, IInv, Writes, it_is_free
      <4>2. control'[w] # control[w]
        BY <3>1 DEF Writes
      <4>3. ~Upgrade(t)
        <5>. SUFFICES ASSUME Upgrade(t) PROVE FALSE
          OBVIOUS
        <5>1. call[t].first..(call[t].at - 1) = {}
          BY <1>1 DEF Upgrade, At, ThreadHolds, CallPlaced, OneWordCalls, Calls
        <5>2. CASE control[call[t].at] = ToChar(-tx[t])
          BY <4>1, <4>2, <5>2 DEF Upgrade, DualInv, MemoryTypes
        <5>3. CASE control[call[t].at] # ToChar(-tx[t])
          BY <4>2, <5>1, <5>3 DEF Upgrade
        <5>. QED  BY <5>2, <5>3
      <4>4. ~ReadMark(t) /\ ~Lock(t)
        BY <3>1, <4>1, <4>2 DEF ReadMark, Lock, DualInv, MemoryTypes, Writes
      <4>5. ~UndoWord(t)
        BY <3>1, <4>1, <4>2 DEF UndoWord, DualInv, MemoryTypes, Writes
      <4>6. ~Store(t) /\ ~ReadTest(t) /\ ~ReadCopy(t)
        BY <4>2 DEF Store, ReadTest, ReadCopy, memVars
      <4>7. \A span \in Spans : ~CallRead(t, span) /\ \A v \in Values : ~CallWrite(t, span, v)
        BY <4>2 DEF CallRead, CallWrite, Access, memVars
      <4>8. UndoRelease(t)
        BY <4>3, <4>4, <4>5, <4>6, <4>7 DEF Memory
      <4>. QED  BY <4>2, <4>8 DEF UndoRelease, DualInv, MemoryTypes
    <3>. QED  BY <1>1, <2>2, <3>2 DEF UndoRelease, At, ThreadHolds, CallHolds
  <2>. QED  BY <2>0, <2>3, <2>4
<1>. QED  BY <1>1, <1>2, <1>3, <1>4, <1>5 DEF HoldInv, OneWordCalls

-----------------------------------------------------------------------------
(* The other steps *)

\* A thread with no history that is in no call has marked nothing.
LEMMA NoMarks ==
  ASSUME HoldInv, NEW t \in EpochWriters, rd[t] = Nothing, wr[t] = Nothing,
         call[t].op \in {"none", "end"}, NEW w \in Words
  PROVE  ~Writes(t, w) /\ ~Reads(t, w)
<1>1. t \in Threads /\ CallLeft(t) = {}
  BY DEF EpochWriters, CallLeft
<1>2. WordHeld(t, w)
  BY <1>1 DEF HoldInv, ThreadHolds
<1>. QED  BY <1>1, <1>2 DEF WordHeld, Nothing

\* A thread whose call, history and id stay holds on, if its words do.
LEMMA StillHolds ==
  ASSUME NEW u \in Threads, ThreadHolds(u),
         UNCHANGED <<control, data, shadow, call, rd, wr>>,
         tx'[u] = tx[u], is_ro'[u] = is_ro[u], u \in EpochWriters' <=> u \in EpochWriters
  PROVE  ThreadHolds(u)'
<1>1. CallPlaced(u)' /\ CallHolds(u)' /\ CallLeft(u)' = CallLeft(u)
  BY DEF ThreadHolds, CallPlaced, CallHolds, CallLeft, Writes, Reads
<1>2. ASSUME NEW w \in Words PROVE WordHeld(u, w)' /\ (OneWordCalls => WordClean(u, w)')
  BY <1>1 DEF ThreadHolds, WordHeld, WordClean, Writes, Reads
<1>. QED  BY <1>1, <1>2 DEF ThreadHolds, OneWordCalls

\* tm_begin is called by a thread that has nothing marked.
LEMMA DualBeginHolds ==
  ASSUME DualInv, HoldInv, NEW t \in Threads, DualBegin(t)
  PROVE  HoldInv'
<1>1. /\ UNCHANGED <<control, data, shadow, call, rd, wr, cnt_epoch, tx, born>>
      /\ pc[t] = "idle" /\ pc' = [pc EXCEPT ![t] = "begin_spin"]
      /\ \A u \in Threads \ {t} : is_ro'[u] = is_ro[u]
  BY DEF DualBegin, ClientBegins, CallBegin, Goto, epochVars, memVars, logVars, DualInv, IInv,
     TypeOK
<1>2. call[t].op = "none" /\ rd[t] = Nothing /\ wr[t] = Nothing
  BY <1>1 DEF DualInv, CallsAreLive, HistoryEnds, HistoryLabels, HasHistory
<1>3. EpochWriters' = EpochWriters \ {t}
  BY <1>1 DEF EpochWriters, DualInv, IInv, TypeOK
<1>4. ThreadHolds(t)'
  <2>1. CallPlaced(t)' /\ CallHolds(t)'
    BY <1>1, <1>2 DEF CallPlaced, CallHolds
  <2>2. \A w \in Words : WordHeld(t, w)' /\ WordClean(t, w)'
    BY <1>1, <1>2, <1>3 DEF WordHeld, WordClean, Nothing
  <2>. QED  BY <1>1, <1>2, <2>1, <2>2 DEF ThreadHolds
<1>5. \A u \in Threads : ThreadHolds(u)'
  BY <1>1, <1>3, <1>4, StillHolds DEF HoldInv
<1>6. MarksAreIds'
  BY <1>1, <1>2, <1>3, NoMarks DEF HoldInv, MarksAreIds, Writes, Reads
<1>7. NoneAfterCommit' /\ (OneWordCalls' => FreeWordsClean')
  BY <1>1 DEF HoldInv, NoneAfterCommit, FreeWordsClean, OneWordCalls, DualInv, IInv, TypeOK
<1>. QED  BY <1>1, <1>3, <1>5, <1>6, <1>7 DEF HoldInv

\* tm_end is called with every mark used, or undone.
LEMMA DualEndHolds ==
  ASSUME DualInv, HoldInv, NEW t \in Threads, DualEnd(t)
  PROVE  HoldInv'
<1>1. /\ UNCHANGED <<control, data, shadow, wr, cnt_epoch, tx, is_ro, born>>
      /\ pc[t] = "live" /\ pc' = [pc EXCEPT ![t] = "end_spin"]
      /\ call' = [call EXCEPT ![t] = Quiet] /\ call[t].op \in {"none", "end"}
      /\ rd' = IF is_ro[t] THEN [rd EXCEPT ![t] = Nothing] ELSE rd
  BY DEF DualEnd, CallEnd, Goto, SetCall, At, epochVars, localVars, history, memVars
<1>2. EpochWriters' = EpochWriters
  BY <1>1 DEF EpochWriters, DualInv, IInv, TypeOK
<1>3. call'[t].op = "none"
  BY <1>1 DEF Quiet, DualInv
<1>4. ThreadHolds(t)'
  <2>1. ThreadHolds(t) /\ CallLeft(t) = {} /\ CallLeft(t)' = {}
    BY <1>1, <1>3 DEF HoldInv, CallLeft
  <2>2. CallPlaced(t)' /\ CallHolds(t)'
    BY <1>3 DEF CallPlaced, CallHolds
  <2>3. ASSUME NEW w \in Words PROVE WordHeld(t, w)' /\ (OneWordCalls => WordClean(t, w)')
    <3>1. is_ro[t] => rd'[t] = Nothing /\ t \notin EpochWriters
      BY <1>1 DEF EpochWriters, DualInv, MemoryTypes
    <3>2. ~is_ro[t] => rd' = rd
      BY <1>1
    <3>. QED  BY <1>1, <1>2, <1>3, <2>1, <3>1, <3>2
              DEF ThreadHolds, WordHeld, WordClean, Writes, Reads, Nothing
  <2>. QED  BY <1>1, <1>2, <2>1, <2>2, <2>3 DEF ThreadHolds, OneWordCalls
<1>5. ASSUME NEW u \in Threads \ {t} PROVE ThreadHolds(u)'
  <2>1. call'[u] = call[u] /\ rd'[u] = rd[u] /\ ThreadHolds(u)
    BY <1>1 DEF HoldInv, DualInv, MemoryTypes
  <2>2. CallPlaced(u)' /\ CallHolds(u)' /\ CallLeft(u)' = CallLeft(u)
    BY <1>1, <2>1 DEF ThreadHolds, CallPlaced, CallHolds, CallLeft, Writes, Reads
  <2>3. ASSUME NEW w \in Words PROVE WordHeld(u, w)' /\ (OneWordCalls => WordClean(u, w)')
    BY <1>1, <1>2, <2>1, <2>2 DEF ThreadHolds, WordHeld, WordClean, Writes, Reads
  <2>. QED  BY <1>1, <1>2, <2>1, <2>2, <2>3 DEF ThreadHolds, OneWordCalls
<1>6. MarksAreIds' /\ NoneAfterCommit' /\ (OneWordCalls' => FreeWordsClean')
  BY <1>1, <1>2 DEF HoldInv, MarksAreIds, Writes, Reads, NoneAfterCommit, FreeWordsClean,
     OneWordCalls, DualInv, IInv, TypeOK
<1>. QED  BY <1>1, <1>2, <1>4, <1>5, <1>6 DEF HoldInv

\* The commit leaves no mark and no history, and every word clean.
LEMMA DualCommitHolds ==
  ASSUME DualInv, HoldInv, NEW t \in Threads, DualCommit(t)
  PROVE  HoldInv'
<1>1. /\ UNCHANGED <<shadow, call, cnt_epoch, tx, is_ro, born>> /\ data' = shadow
      /\ control' = [w \in Words |-> it_is_free]
      /\ pc[t] = "commit" /\ pc' = [pc EXCEPT ![t] = "reset"]
  BY DEF DualCommit, Commit, Goto, epochVars, localVars, history
<1>2. Inside = {}
  BY <1>1 DEF DualInv, IInv, CommitAlone, Inside, Closing, ClosingLabels
<1>3. \A u \in Threads : rd'[u] = Nothing /\ wr'[u] = Nothing /\ call'[u].op = "none"
  BY <1>1, <1>2 DEF DualCommit, DualInv, CallsAreLive, Inside, InsideLabels
<1>4. EpochWriters' = EpochWriters
  BY <1>1 DEF EpochWriters, DualInv, IInv, TypeOK
<1>5. \A u \in EpochWriters, w \in Words : ~Writes(u, w)' /\ ~Reads(u, w)'
  <2>1. \A u \in EpochWriters : tx[u] \in Int /\ tx[u] > 0
    BY DEF EpochWriters, HoldInv, DualInv, IInv, TypeOK
  <2>. QED  BY <1>1, <2>1 DEF Writes, Reads, it_is_free
<1>6. ASSUME NEW u \in Threads PROVE ThreadHolds(u)'
  <2>1. CallPlaced(u)' /\ CallHolds(u)'
    BY <1>3 DEF CallPlaced, CallHolds
  <2>2. \A w \in Words : WordHeld(u, w)' /\ WordClean(u, w)'
    BY <1>3, <1>4, <1>5 DEF WordHeld, WordClean, Nothing
  <2>. QED  BY <1>3, <2>1, <2>2 DEF ThreadHolds
<1>7. MarksAreIds' /\ NoneAfterCommit' /\ FreeWordsClean'
  BY <1>1 DEF MarksAreIds, NoneAfterCommit, FreeWordsClean
<1>. QED  BY <1>1, <1>4, <1>6, <1>7 DEF HoldInv

\* A thread that enters the epoch gets an id that marks no word yet; the next
\* epoch begins with no mark; nothing else changes ids or the epoch's writers.
LEMMA OtherHolds ==
  ASSUME DualInv, SlotIInv, HoldInv, MarksTell', NEW t \in Threads, BeginStep(t) \/ EndStep(t),
         UNCHANGED <<memVars, call, ops, logVars>>
  PROVE  HoldInv'
<1>1. /\ UNCHANGED <<control, data, shadow, call, rd, wr, is_ro>> /\ pc[t] # "live"
      /\ pc \in [Threads -> Labels] /\ tx \in [Threads -> Int] /\ cnt_thread \in Nat
      /\ \A u \in Threads \ {t} : pc'[u] = pc[u]
  BY DEF memVars, logVars, BeginStep, EndStep, BeginTurn, TakeSlot, Enter, BeginNext,
     Refuse, Skip, SkipLoad, Retry, EndTurn, Leave, EndNext, Reset, NewEpoch, Park, ParkLoad,
     Unpark, localVars, DualInv, IInv, TypeOK, Goto
<1>2. NoneAfterCommit'
  <2>1. pc'[t] \in {"reset", "new_epoch"} => pc[t] \in {"reset", "new_epoch"}
    BY <1>1 DEF BeginStep, EndStep, BeginTurn, TakeSlot, Enter, BeginNext, Refuse, Skip,
       SkipLoad, Retry, EndTurn, Leave, EndNext, Reset, NewEpoch, Park, ParkLoad, Unpark, Goto
  <2>. QED  BY <1>1, <2>1 DEF HoldInv, NoneAfterCommit
<1>3. OneWordCalls' => FreeWordsClean'
  BY <1>1 DEF HoldInv, FreeWordsClean, OneWordCalls
<1>4. CASE Enter(t)
  <2>1. /\ pc[t] = "enter" /\ cnt_epoch' = cnt_epoch
        /\ pc' = [pc EXCEPT ![t] = "begin_next"]
        /\ born' = [born EXCEPT ![t] = cnt_epoch]
        /\ tx' = [tx EXCEPT ![t] = IF is_ro[t] THEN read_only_tx ELSE cnt_thread + 1]
    BY <1>4 DEF Enter, Goto
  <2>2. rd[t] = Nothing /\ wr[t] = Nothing /\ call[t].op = "none"
    BY <2>1 DEF DualInv, CallsAreLive, HistoryEnds, HistoryLabels, HasHistory
  <2>3. /\ t \notin EpochWriters /\ EpochWriters' \subseteq EpochWriters \cup {t}
        /\ EpochWriters \subseteq EpochWriters' /\ (t \in EpochWriters' => ~is_ro[t])
    BY <1>1, <2>1 DEF EpochWriters, DualInv, IInv, TypeOK
  <2>4. \A u \in Threads \ {t} : tx'[u] = tx[u]
    BY <1>1, <2>1
  <2>5. \A u \in EpochWriters' : tx'[u] > 0 /\ tx'[u] \in Int
    BY <1>1, <2>1, <2>3, <2>4 DEF HoldInv, EpochWriters
  <2>6. MarksAreIds'
    BY <1>1, <2>3, <2>4 DEF HoldInv, MarksAreIds, Writes, Reads, EpochWriters
  <2>7. \A w \in Words : t \in EpochWriters' => ~Writes(t, w)' /\ ~Reads(t, w)'
    <3>. SUFFICES ASSUME NEW w \in Words, t \in EpochWriters',
                         control[w] \in {tx'[t], -tx'[t]}
                  PROVE  FALSE
      BY <1>1 DEF Writes, Reads
    <3>1. PICK u \in EpochWriters : Writes(u, w) \/ Reads(u, w)
      BY <2>5 DEF HoldInv, MarksAreIds, it_is_free
    <3>2. u # t /\ tx'[u] = tx[u] /\ tx'[u] # tx'[t]
      BY <2>3, <2>4 DEF EpochWriters, MarksTell, UniqueIds
    <3>. QED  BY <2>3, <2>5, <3>1, <3>2 DEF Writes, Reads
  <2>8. ThreadHolds(t)'
    <3>1. CallPlaced(t)' /\ CallHolds(t)'
      BY <1>1, <2>2 DEF CallPlaced, CallHolds
    <3>2. \A w \in Words : WordHeld(t, w)' /\ WordClean(t, w)'
      BY <1>1, <2>2, <2>7 DEF WordHeld, WordClean, Nothing
    <3>. QED  BY <1>1, <2>2, <3>1, <3>2 DEF ThreadHolds
  <2>9. \A u \in Threads \ {t} : ThreadHolds(u)'
    BY <1>1, <2>3, <2>4, StillHolds DEF HoldInv
  <2>. QED  BY <1>2, <1>3, <2>5, <2>6, <2>8, <2>9 DEF HoldInv
<1>5. CASE NewEpoch(t)
  <2>1. pc[t] = "new_epoch" /\ cnt_epoch' = cnt_epoch + 1 /\ UNCHANGED <<born, tx>>
    BY <1>5 DEF NewEpoch, Goto, history, localVars
  <2>2. EpochWriters' = {}
    BY <2>1 DEF EpochWriters, SlotIInv, WritersWait, DualInv, IInv, TypeOK
  <2>3. \A w \in Words : control[w] = it_is_free
    BY <2>1 DEF HoldInv, NoneAfterCommit
  <2>4. \A u \in Threads : rd[u] = Nothing /\ wr[u] = Nothing /\ call[u].op = "none"
    <3>1. \A u \in Threads : pc[u] # "live"
      BY <2>1 DEF DualInv, IInv, CommitAlone, Inside, InsideLabels, Closing, ClosingLabels
    <3>. QED  BY <2>1, <3>1 DEF DualInv, HistoryEnds, HasHistory, CallsAreLive
  <2>5. ASSUME NEW u \in Threads PROVE ThreadHolds(u)'
    <3>1. CallPlaced(u)' /\ CallHolds(u)'
      BY <1>1, <2>4 DEF CallPlaced, CallHolds
    <3>2. \A w \in Words : WordHeld(u, w)' /\ WordClean(u, w)'
      BY <1>1, <2>2, <2>4 DEF WordHeld, WordClean, Nothing
    <3>. QED  BY <1>1, <2>4, <3>1, <3>2 DEF ThreadHolds
  <2>6. MarksAreIds'
    BY <1>1, <2>3 DEF MarksAreIds
  <2>. QED  BY <1>2, <1>3, <2>2, <2>5, <2>6 DEF HoldInv
<1>6. CASE ~Enter(t) /\ ~NewEpoch(t)
  <2>1. tx' = tx /\ born' = born /\ cnt_epoch' = cnt_epoch
    BY <1>6 DEF BeginStep, EndStep, BeginTurn, TakeSlot, BeginNext, Refuse, Skip, SkipLoad,
       Retry, EndTurn, Leave, EndNext, Reset, Park, ParkLoad, Unpark, localVars, epochVars, history
  <2>2. LET out == {"begin_spin", "admit", "enter", "skip", "skip_load", "skip_spin"}
        IN  pc'[t] \in out <=> pc[t] \in out
    BY <1>1, <1>6 DEF BeginStep, EndStep, BeginTurn, TakeSlot, BeginNext, Refuse, Skip, SkipLoad,
       Retry, EndTurn, Leave, EndNext, Reset, Park, ParkLoad, Unpark, Goto
  <2>3. EpochWriters' = EpochWriters
    BY <1>1, <2>1, <2>2 DEF EpochWriters
  <2>4. \A u \in Threads : ThreadHolds(u)'
    BY <1>1, <2>1, <2>3, StillHolds DEF HoldInv
  <2>5. MarksAreIds'
    BY <1>1, <2>1, <2>3 DEF HoldInv, MarksAreIds, Writes, Reads
  <2>. QED  BY <1>2, <1>3, <2>1, <2>3, <2>4, <2>5 DEF HoldInv
<1>. QED  BY <1>4, <1>5, <1>6

-----------------------------------------------------------------------------
(* Isolation *)

\* The region tm_create makes has no mark.
LEMMA HoldInit == DualInit => HoldInv
<1>. SUFFICES ASSUME DualInit PROVE HoldInv
  OBVIOUS
<1>1. EpochWriters = {}
  BY DEF DualInit, Init, EpochWriters
<1>2. MarksAreIds /\ NoneAfterCommit /\ FreeWordsClean
  BY DEF DualInit, MarksAreIds, NoneAfterCommit, FreeWordsClean
<1>3. ASSUME NEW t \in Threads PROVE ThreadHolds(t)
  <2>1. rd[t] = Nothing /\ wr[t] = Nothing /\ call[t].op = "none"
    BY DEF DualInit, Quiet
  <2>2. CallPlaced(t) /\ CallHolds(t)
    BY <2>1 DEF CallPlaced, CallHolds
  <2>3. \A w \in Words : WordHeld(t, w) /\ WordClean(t, w)
    BY <1>1, <2>1 DEF WordHeld, WordClean, Nothing
  <2>. QED  BY <2>1, <2>2, <2>3 DEF ThreadHolds
<1>. QED  BY <1>1, <1>2, <1>3 DEF HoldInv

\* Every step keeps it, while marks tell transactions apart.
LEMMA HoldNext ==
  DualInv /\ SlotIInv /\ HoldInv /\ MarksTell /\ MarksTell' /\ [DualNext]_dualVars => HoldInv'
<1>. SUFFICES ASSUME DualInv, SlotIInv, HoldInv, MarksTell, MarksTell', [DualNext]_dualVars
              PROVE  HoldInv'
  OBVIOUS
<1>1. CASE DualNext
  <2>. PICK t \in Threads : DualStep(t)
    BY <1>1 DEF DualNext
  <2>. QED
    BY MemoryKeepsHold, DualBeginHolds, DualEndHolds, DualCommitHolds, OtherHolds DEF DualStep
<1>2. CASE UNCHANGED dualVars
  <2>1. /\ UNCHANGED <<control, data, shadow, call, rd, wr, tx, is_ro, pc>>
        /\ EpochWriters' = EpochWriters
    BY <1>2 DEF dualVars, vars, epochVars, localVars, history, memVars, logVars, EpochWriters
  <2>2. \A u \in Threads : ThreadHolds(u)'
    BY <2>1, StillHolds DEF HoldInv
  <2>3. MarksAreIds' /\ NoneAfterCommit' /\ (OneWordCalls' => FreeWordsClean')
    BY <2>1 DEF HoldInv, MarksAreIds, Writes, Reads, NoneAfterCommit, FreeWordsClean, OneWordCalls
  <2>. QED  BY <2>1, <2>2, <2>3 DEF HoldInv
<1>. QED  BY <1>1, <1>2

\* The invariant holds as long as marks tell transactions apart.
THEOREM HoldInvariance == DualSpec /\ []MarksTell => []HoldInv
<1>1. DualSpec => []SlotIInv
  BY DualImplementsBatcher, SlotInvariance, PTL
<1>. QED  BY <1>1, HoldInit, HoldNext, DualInvariance, PTL DEF DualSpec

\* As long as the ids of an epoch's writers are unique and fit a char, nobody
\* else overwrites, undoes or takes over what a transaction wrote, for any
\* number of threads, readers among them, any batch size and any spans
\* (batcher_func.h:32-52 and 61-85).
THEOREM WrittenIsKept == DualSpec /\ []MarksTell => []WritesKept
<1>1. DualInv /\ HoldInv /\ MarksTell => WritesKept
  <2>. SUFFICES ASSUME DualInv, HoldInv, MarksTell, NEW t \in Threads, NEW w \in Words,
                       wr[t][w] # NoValue
                PROVE  control[w] = ToChar(tx[t]) /\ shadow[w] = wr[t][w]
    BY DEF WritesKept
  <2>1. ThreadHolds(t) /\ wr[t] # Nothing
    BY DEF HoldInv, Nothing
  <2>2. t \in EpochWriters
    BY <2>1 DEF ThreadHolds, DualInv, ReadersOnlyRead, HasHistory
  <2>. QED  BY <2>1, <2>2, MarksDiffer DEF ThreadHolds, WordHeld, Writes, DualInv, IInv
<1>. QED  BY <1>1, HoldInvariance, DualInvariance, PTL

\* Under the same condition a mark has an owner that has used the word or is in
\* the call that marks or unmarks it: an operation that was undone blocks
\* nobody.
THEOREM MarksAreOwned == DualSpec /\ []MarksTell => []MarksHaveOwners
<1>1. DualInv /\ HoldInv /\ MarksTell => MarksHaveOwners
  <2>. SUFFICES ASSUME DualInv, HoldInv, MarksTell, NEW w \in Words, control[w] # it_is_free
                PROVE  \E t \in EpochWriters :
                         /\ control[w] \in {ToChar(tx[t]), ToChar(-tx[t])}
                         /\ \/ {rd[t][w], wr[t][w]} # {NoValue}
                            \/ call[t].op \notin {"none", "end"}
    BY DEF MarksHaveOwners
  <2>1. PICK t \in EpochWriters : Writes(t, w) \/ Reads(t, w)
    BY DEF HoldInv, MarksAreIds
  <2>2. WordHeld(t, w) /\ (w \in CallLeft(t) => call[t].op \notin {"none", "end"})
    BY DEF HoldInv, ThreadHolds, EpochWriters, CallLeft
  <2>. QED  BY <2>1, <2>2, MarksDiffer, SMTT(30) DEF WordHeld, Writes, Reads, DualInv, IInv
<1>. QED  BY <1>1, HoldInvariance, DualInvariance, PTL

\* And if each call is of one word, a word that nobody writes has a shadow equal
\* to data: a failed transaction leaves no trace (batcher_func.h:73).  Calls of
\* more words break this (failed_write_stays).
THEOREM FailuresLeaveNoTrace ==
  ASSUME OneWordCalls
  PROVE  DualSpec /\ []MarksTell => []FreeWordsClean
<1>1. HoldInv => FreeWordsClean
  BY DEF HoldInv
<1>. QED  BY <1>1, HoldInvariance, PTL

-----------------------------------------------------------------------------
(* The refinement of SerialMemory *)

\* At the commit, the writers of the epoch used different words, and the words
\* they did not write are clean.
LEMMA CommitState ==
  ASSUME DualInv, HoldInv, MarksTell, OneWordCalls, NEW t \in Threads, pc[t] = "commit"
  PROVE  /\ \A u \in Threads, w \in Words :
              /\ rd[u][w] # NoValue => rd[u][w] = data[w]
              /\ wr[u][w] # NoValue => wr[u][w] = shadow[w]
         /\ \A u, v \in Threads, w \in Words :
              wr[u][w] # NoValue /\ (rd[v][w] # NoValue \/ wr[v][w] # NoValue) => u = v
         /\ \A w \in Words : (\A u \in Threads : wr[u][w] = NoValue) => shadow[w] = data[w]
<1>1. Inside = {}
  BY DEF DualInv, IInv, CommitAlone, Inside, Closing, ClosingLabels
<1>2. ASSUME NEW u \in Threads PROVE call[u].op = "none" /\ (HasHistory(u) => u \in EpochWriters)
  <2>1. pc[u] # "live"
    BY <1>1 DEF Inside, InsideLabels
  <2>2. ThreadHolds(u) /\ (HasHistory(u) => ~is_ro[u])
    BY <2>1 DEF HoldInv, DualInv, ReadersOnlyRead
  <2>. QED  BY <2>1, <2>2 DEF DualInv, CallsAreLive, ThreadHolds, HasHistory
<1>3. \A u \in Threads, w \in Words : rd[u][w] # NoValue \/ wr[u][w] # NoValue => HasHistory(u)
  BY DEF HasHistory, Nothing
<1>4. ASSUME NEW u \in Threads, NEW w \in Words
      PROVE  /\ rd[u][w] # NoValue => rd[u][w] = data[w] /\ (Writes(u, w) \/ Reads(u, w))
             /\ wr[u][w] # NoValue => wr[u][w] = shadow[w] /\ Writes(u, w)
  <2>1. WordHeld(u, w)
    BY DEF HoldInv, ThreadHolds
  <2>2. rd[u][w] # NoValue => ~is_ro[u]
    BY <1>2, <1>3 DEF EpochWriters
  <2>. QED  BY <2>1, <2>2 DEF WordHeld
<1>5. ASSUME NEW u \in EpochWriters, NEW v \in EpochWriters, NEW w \in Words,
             Writes(u, w), Writes(v, w) \/ Reads(v, w)
      PROVE  u = v
  BY <1>5, MarksDiffer DEF DualInv, IInv, Writes, Reads
<1>6. ASSUME NEW w \in Words, \A u \in Threads : wr[u][w] = NoValue
      PROVE  shadow[w] = data[w]
  <2>1. CASE control[w] <= 0
    BY <2>1 DEF HoldInv, FreeWordsClean
  <2>2. CASE ~(control[w] <= 0)
    <3>1. control[w] \in Int /\ control[w] # it_is_free
      BY <2>2 DEF DualInv, MemoryTypes, Chars, it_is_free
    <3>2. PICK u \in EpochWriters : Writes(u, w)
      BY <2>2, <3>1, MarksDiffer DEF HoldInv, MarksAreIds, DualInv, IInv, Writes, Reads
    <3>. QED  BY <1>2, <1>6, <3>2 DEF EpochWriters, HoldInv, ThreadHolds, WordClean
  <2>. QED  BY <2>1, <2>2
<1>. QED  BY <1>2, <1>3, <1>4, <1>5, <1>6

\* Any order of the epoch's transactions explains what they read and what the
\* commit publishes.
LEMMA CommitIsSerial ==
  ASSUME DualInv, HoldInv, MarksTell, OneWordCalls, NEW t \in Threads, DualCommit(t)
  PROVE  Promise!SerialCommit
<1>. DEFINE S == {u \in Threads : <<rd[u], wr[u]>> # <<Nothing, Nothing>>}
            n == Cardinality(S)
            Wrote(s, k, w) == {i \in 1..k : wr[s[i]][w] # NoValue}
            Left(s, k) == [w \in Words |-> IF Wrote(s, k, w) = {} THEN data[w]
                                           ELSE wr[s[Promise!Max(Wrote(s, k, w))]][w]]
<1>1. pc[t] = "commit" /\ data' = shadow
  BY DEF DualCommit, Commit, Goto
<1>2. IsFiniteSet(S) /\ n \in Nat /\ ExistsBijection(1..n, S)
  <2>1. IsFiniteSet(S)
    BY FS_Subset, ThreadsAssumption
  <2>. QED  BY <2>1, FS_CardinalityType
<1>3. PICK s \in Bijection(1..n, S) : TRUE
  BY <1>2 DEF ExistsBijection
<1>. HIDE DEF S
<1>4. /\ s \in [1..n -> S] /\ \A i, j \in 1..n : i # j => s[i] # s[j]
      /\ \A u \in S : \E i \in 1..n : s[i] = u
  BY <1>3 DEF Bijection, Injection, Surjection, IsInjective
<1>5. s \in Promise!SetToSeqs(S)
  <2>1. Promise!Cardinality(S) = n
    BY DEF Promise!Cardinality, Cardinality
  <2>. QED  BY <1>4, <2>1 DEF Promise!SetToSeqs
<1>. HIDE DEF n
<1>. USE DEF S
<1>6. Len(s) = n
  BY <1>2, <1>4
<1>7. ASSUME NEW k \in 1..n, NEW w \in Words, rd[s[k]][w] # NoValue
      PROVE  rd[s[k]][w] = Left(s, k - 1)[w]
  <2>1. \A i \in 1..(k - 1) : i \in 1..n /\ i # k /\ s[i] # s[k] /\ s[i] \in Threads /\ s[k] \in Threads
    BY <1>2, <1>4
  <2>2. Wrote(s, k - 1, w) = {}
    BY <1>1, <1>7, <2>1, CommitState
  <2>3. rd[s[k]][w] = data[w]
    BY <1>1, <1>4, <1>7, CommitState
  <2>. QED  BY <2>2, <2>3
<1>8. ASSUME NEW w \in Words PROVE Left(s, n)[w] = shadow[w]
  <2>1. CASE Wrote(s, n, w) = {}
    <3>1. \A u \in Threads : wr[u][w] = NoValue
      BY <1>4, <2>1 DEF Nothing
    <3>. QED  BY <1>1, <2>1, <3>1, CommitState
  <2>2. CASE Wrote(s, n, w) # {}
    <3>1. PICK i \in Wrote(s, n, w) : TRUE
      BY <2>2
    <3>2. \A j \in Wrote(s, n, w) : j = i
      BY <1>1, <1>4, <3>1, CommitState
    <3>3. Wrote(s, n, w) = {i} /\ i \in Int
      BY <1>2, <3>1, <3>2
    <3>4. Promise!Max({i}) = i
      BY <3>3 DEF Promise!Max
    <3>5. Left(s, n)[w] = wr[s[i]][w]
      BY <2>2, <3>3, <3>4
    <3>6. s[i] \in Threads /\ wr[s[i]][w] # NoValue
      BY <1>4, <3>1
    <3>. QED  BY <1>1, <3>5, <3>6, CommitState
  <2>. QED  BY <2>1, <2>2
<1>9. \A k : Promise!After(s, k) = Left(s, k)
  BY DEF Promise!After
<1>. HIDE DEF Left, Wrote
<1>10. Promise!Serial(s)
  BY <1>6, <1>7, <1>9 DEF Promise!Serial
<1>11. data' = Promise!After(s, Len(s))
  <2>1. Left(s, n) = [w \in Words |-> Left(s, n)[w]] /\ shadow = [w \in Words |-> shadow[w]]
    BY DEF Left, DualInv, MemoryTypes
  <2>2. Left(s, n) = shadow
    BY <1>8, <2>1
  <2>. QED  BY <1>1, <1>6, <1>9, <2>2
<1>12. Promise!Nothing = Nothing
  BY DEF Promise!Nothing, Nothing
<1>. QED  BY <1>5, <1>10, <1>11, <1>12 DEF Promise!SerialCommit

\* The transactions open in SerialMemory.
Open == {t \in Threads : /\ pc[t] \in {"begin_next", "live"}
                         /\ call[t].op \notin {"undo", "release", "end"}}

\* A call is a read, a write or an abort, or changes nothing that clients see.
LEMMA MemoryRefines ==
  ASSUME DualInv, HoldInv, MarksTell, NEW t \in Threads, Memory(t)
  PROVE  [Promise!Next]_(Promise!absVars)
<1>. USE DEF DualInv
<1>1. /\ UNCHANGED <<pc, data>> /\ pc[t] = "live" /\ ThreadHolds(t) /\ call[t] \in Calls
      /\ \A u \in Threads \ {t} : call'[u] = call[u]
  BY CallContext, MemoryIsLocal
<1>2. ASSUME call[t].op \notin {"undo", "release", "end"}, StartUndo(t)
      PROVE  Promise!Next
  <2>1. call'[t].op = "undo"
    BY <1>2, NewCall
  <2>2. t \in Open /\ Open' = Open \ {t}
    BY <1>1, <1>2, <2>1 DEF Open
  <2>3. Promise!Abort(t)
    BY <1>1, <1>2, <2>2 DEF Promise!Abort, Promise!Nothing, Nothing, StartUndo, Open
  <2>. QED  BY <2>3 DEF Promise!Next
<1>3. ASSUME call[t].op \in {"undo", "release", "end"} <=> call'[t].op \in {"undo", "release", "end"}
      PROVE  Open' = Open
  BY <1>1, <1>3 DEF Open
<1>4. CASE \E span \in Spans : CallRead(t, span) \/ \E v \in Values : CallWrite(t, span, v)
  <2>1. /\ call[t].op = "none"
        /\ \/ StartUndo(t)
           \/ call'[t].op \in {"data", "test", "lock"} /\ UNCHANGED <<rd, wr>>
    <3>1. PICK span \in Spans, op \in {"data", "test", "lock"}, v \in Values \cup {NoValue} :
            Access(t, span, op, v)
      BY <1>4 DEF CallRead, CallWrite, FirstTest
    <3>. DEFINE start == [op |-> op, first |-> span[1], last |-> span[2],
                          at |-> span[1], val |-> v]
    <3>2. start.op = op
      OBVIOUS
    <3>. HIDE DEF start
    <3>3. StartUndo(t) \/ (SetCall(t, start) /\ UNCHANGED <<rd, wr>>)
      BY <3>1 DEF Access, logVars, start
    <3>. QED  BY <3>1, <3>2, <3>3 DEF Access, At, SetCall
  <2>. QED  BY <1>1, <1>2, <1>3, <2>1 DEF Promise!absVars, Open
<1>5. CASE ReadTest(t) \/ ReadMark(t)
  <2>1. /\ call[t].op \in {"test", "mark"}
        /\ \/ StartUndo(t)
           \/ /\ \E op \in {"shadow", "mark", "data"} : call'[t] = [call[t] EXCEPT !.op = op]
              /\ UNCHANGED <<rd, wr>>
    BY <1>5 DEF ReadTest, ReadMark, At, SetCall, logVars
  <2>2. \A op \in {"shadow", "mark", "data"} : [call[t] EXCEPT !.op = op].op = op
    BY <1>1, CallFields DEF Ops
  <2>3. StartUndo(t) \/ (call'[t].op \in {"shadow", "mark", "data"} /\ UNCHANGED <<rd, wr>>)
    BY <2>1, <2>2
  <2>. QED  BY <1>1, <1>2, <1>3, <2>1, <2>3 DEF Promise!absVars, Open
<1>6. CASE ReadCopy(t)
  <2>1. /\ call[t].op \in {"shadow", "data"} /\ call'[t].op \in {"none", "test", "data"}
        /\ wr' = wr
    <3>1. FirstTest(t) \in {"data", "test"} /\ FirstTest(t) \in Ops
      BY DEF FirstTest, Ops
    <3>2. call'[t] = Quiet \/ call'[t].op = FirstTest(t)
      BY <1>6, <3>1, NextWordFields DEF ReadCopy
    <3>. QED  BY <1>6, <3>1, <3>2 DEF ReadCopy, At, Quiet
  <2>2. Open' = Open /\ t \in Open
    BY <1>1, <1>3, <2>1 DEF Open
  <2>3. CASE rd' = rd
    BY <1>1, <2>1, <2>2, <2>3 DEF Promise!absVars, Open
  <2>4. CASE rd' # rd
    <3>1. /\ call[t].at \in Words /\ wr[t][call[t].at] = NoValue
          /\ rd' = [rd EXCEPT ![t][call[t].at] = data[call[t].at]]
      BY <1>6, <2>1, <2>4, CopiedWord
    <3>2. Promise!Read(t, call[t].at)
      BY <1>1, <2>1, <2>2, <3>1 DEF Promise!Read, Open
    <3>. QED  BY <3>1, <3>2 DEF Promise!Next
  <2>. QED  BY <2>3, <2>4
<1>7. CASE Lock(t) \/ Upgrade(t)
  <2>1. /\ call[t].op \in {"lock", "upgrade"}
        /\ StartUndo(t) \/ (call'[t].op \in {"lock", "store", "upgrade"} /\ UNCHANGED <<rd, wr>>)
    <3>. DEFINE store == [call[t] EXCEPT !.op = "store", !.at = call[t].first]
                upgrade == [call[t] EXCEPT !.op = "upgrade"]
    <3>1. store.op = "store" /\ upgrade.op = "upgrade"
      BY <1>1, CallFields DEF Ops, Calls
    <3>. HIDE DEF store, upgrade
    <3>2. \/ StartUndo(t)
          \/ UNCHANGED <<rd, wr>> /\ (NextWord(t, "lock", store) \/ call'[t] = upgrade)
      BY <1>7 DEF Lock, Upgrade, SetCall, logVars, store, upgrade
    <3>3. NextWord(t, "lock", store) => call'[t] = store \/ call'[t].op = "lock"
      BY NextWordFields DEF Ops
    <3>. QED  BY <1>7, <3>1, <3>2, <3>3 DEF Lock, Upgrade, At
  <2>. QED  BY <1>1, <1>2, <1>3, <2>1 DEF Promise!absVars, Open
<1>8. CASE Store(t)
  <2>1. call[t].op = "store" /\ call'[t].op \in {"none", "store"} /\ rd' = rd
    <3>1. call'[t] = Quiet \/ call'[t].op = "store"
      BY <1>8, NextWordFields DEF Store, Ops
    <3>. QED  BY <1>8, <3>1 DEF Store, At, Quiet
  <2>2. Open' = Open /\ t \in Open
    BY <1>1, <1>3, <2>1 DEF Open
  <2>3. call[t].at \in Words /\ call[t].val \in Values
    BY <1>1, <2>1 DEF ThreadHolds, CallPlaced, WritesHaveValues, WriteOps, Calls, Words
  <2>4. Promise!Write(t, call[t].at, call[t].val)
    BY <1>1, <1>8, <2>1, <2>2, <2>3 DEF Store, Promise!Write, Open
  <2>. QED  BY <2>3, <2>4 DEF Promise!Next
<1>9. CASE UndoWord(t) \/ UndoRelease(t)
  <2>1. call[t].op \in {"undo", "release"} /\ UNCHANGED <<rd, wr>>
    BY <1>9 DEF UndoWord, UndoRelease, At, logVars
  <2>2. call'[t].op \in {"undo", "release", "end"}
    <3>1. NextUndo(t) \/ call'[t] = [call[t] EXCEPT !.op = "release"]
      BY <1>9 DEF UndoWord, UndoRelease, SetCall
    <3>2. [call[t] EXCEPT !.op = "release"].op = "release"
      BY <1>1, CallFields DEF Ops
    <3>. QED  BY <3>1, <3>2, NewCall
  <2>. QED  BY <1>1, <1>3, <2>1, <2>2 DEF Promise!absVars, Open
<1>. QED  BY <1>4, <1>5, <1>6, <1>7, <1>8, <1>9 DEF Memory

\* A step of the memory and the batcher is one of SerialMemory, or stutters.
LEMMA DualRefines ==
  ASSUME DualInv, HoldInv, MarksTell, OneWordCalls, [DualNext]_dualVars
  PROVE  [Promise!Next]_(Promise!absVars)
<1>1. CASE UNCHANGED dualVars
  BY <1>1 DEF dualVars, vars, memVars, logVars, Promise!absVars
<1>2. ASSUME NEW t \in Threads, DualBegin(t) PROVE UNCHANGED Promise!absVars
  <2>1. /\ UNCHANGED <<data, call, rd, wr>> /\ pc[t] = "idle"
        /\ pc' = [pc EXCEPT ![t] = "begin_spin"]
    BY <1>2 DEF DualBegin, ClientBegins, CallBegin, Goto, memVars, logVars
  <2>. QED  BY <2>1 DEF Promise!absVars, DualInv, IInv, TypeOK
<1>3. ASSUME NEW t \in Threads, DualEnd(t) PROVE [Promise!Next]_(Promise!absVars)
  <2>1. /\ UNCHANGED <<data, wr>> /\ pc[t] = "live" /\ pc' = [pc EXCEPT ![t] = "end_spin"]
        /\ call' = [call EXCEPT ![t] = Quiet] /\ call[t].op \in {"none", "end"}
        /\ rd' = IF is_ro[t] THEN [rd EXCEPT ![t] = Nothing] ELSE rd
    BY <1>3 DEF DualEnd, CallEnd, Goto, SetCall, At, memVars
  <2>2. Open' = Open \ {t} /\ (t \in Open <=> call[t].op = "none")
    BY <2>1 DEF Open, DualInv, IInv, TypeOK
  <2>3. is_ro[t] => wr[t] = Nothing /\ call[t].op = "none"
    BY <2>1 DEF DualInv, ReadersOnlyRead, HasHistory
  <2>4. CASE call[t].op = "none"
    <3>1. Promise!End(t)
      BY <2>1, <2>2, <2>3, <2>4 DEF Promise!End, Promise!Nothing, Nothing, Open
    <3>. QED  BY <3>1 DEF Promise!Next
  <2>5. CASE call[t].op = "end"
    <3>1. rd' = rd /\ Open' = Open
      BY <2>1, <2>2, <2>3, <2>5
    <3>. QED  BY <2>1, <3>1 DEF Promise!absVars, Open
  <2>. QED  BY <2>1, <2>4, <2>5
<1>4. ASSUME NEW t \in Threads, DualCommit(t) PROVE Promise!Next
  <2>1. pc[t] = "commit" /\ pc' = [pc EXCEPT ![t] = "reset"] /\ call' = call
    BY <1>4 DEF DualCommit, Commit, Goto
  <2>2. Inside = {}
    BY <2>1 DEF DualInv, IInv, CommitAlone, Closing, ClosingLabels
  <2>3. Open = {} /\ Open' = {}
    BY <2>1, <2>2 DEF Open, Inside, InsideLabels, DualInv, IInv, TypeOK
  <2>4. /\ rd' = [u \in Threads |-> Promise!Nothing] /\ wr' = [u \in Threads |-> Promise!Nothing]
    BY <1>4, <2>2 DEF DualCommit, Promise!Nothing, Nothing
  <2>5. Promise!CommitBatch
    BY <1>4, <2>3, <2>4, CommitIsSerial DEF Promise!CommitBatch, Open
  <2>. QED  BY <2>5 DEF Promise!Next
<1>5. ASSUME NEW t \in Threads, BeginStep(t) \/ EndStep(t), UNCHANGED <<memVars, call, ops, logVars>>
      PROVE  [Promise!Next]_(Promise!absVars)
  <2>1. UNCHANGED <<data, call, rd, wr>> /\ pc \in [Threads -> Labels]
    BY <1>5 DEF memVars, logVars, DualInv, IInv, TypeOK
  <2>2. CASE Enter(t)
    <3>1. pc[t] = "enter" /\ pc' = [pc EXCEPT ![t] = "begin_next"]
      BY <2>2 DEF Enter, Goto
    <3>2. rd[t] = Nothing /\ wr[t] = Nothing /\ call[t].op = "none"
      BY <3>1 DEF DualInv, CallsAreLive, HistoryEnds, HistoryLabels, HasHistory
    <3>3. t \notin Open /\ Open' = Open \cup {t}
      BY <2>1, <3>1, <3>2 DEF Open
    <3>4. Promise!Begin(t)
      BY <2>1, <3>2, <3>3 DEF Promise!Begin, Promise!Nothing, Nothing, Open
    <3>. QED  BY <3>4 DEF Promise!Next
  <2>3. CASE ~Enter(t)
    <3>1. /\ pc'[t] \in {"begin_next", "live"} <=> pc[t] \in {"begin_next", "live"}
          /\ \A u \in Threads \ {t} : pc'[u] = pc[u]
      BY <1>5, <2>1, <2>3 DEF BeginStep, EndStep, BeginTurn, TakeSlot, BeginNext, Refuse, Skip,
         SkipLoad, Retry, EndTurn, Leave, EndNext, Reset, NewEpoch, Park, ParkLoad, Unpark, Goto
    <3>2. Open' = Open
      BY <2>1, <3>1 DEF Open
    <3>. QED  BY <2>1, <3>2 DEF Promise!absVars, Open
  <2>. QED  BY <2>2, <2>3
<1>6. CASE DualNext
  <2>1. PICK t \in Threads : DualStep(t)
    BY <1>6 DEF DualNext
  <2>. QED  BY <1>2, <1>3, <1>4, <1>5, <2>1, MemoryRefines DEF DualStep
<1>. QED  BY <1>1, <1>6

\* The region of tm_create is the empty serial memory.
LEMMA DualInitRefines == DualInit => Promise!Init
  BY DEF DualInit, Init, Promise!Init, Promise!Nothing, Nothing

\* The transactions that use the memory are serialisable, read from snapshots,
\* and leave no trace if they fail (tm_read, tm_write, Undo and Commit_seg under
\* the batcher), for any number of threads and words, if each call is of one
\* word, and as long as the ids of an epoch's writers are unique and fit a char.
THEOREM MemoryIsSerialisable ==
  ASSUME OneWordCalls
  PROVE  DualSpec /\ []MarksTell => Serialisable
<1>1. DualInv /\ HoldInv /\ MarksTell /\ [DualNext]_dualVars => [Promise!Next]_(Promise!absVars)
  BY DualRefines
<1>. QED
  BY <1>1, DualInitRefines, HoldInvariance, DualInvariance, PTL
  DEF DualSpec, Serialisable, Promise!Spec

\* Without readers, with batches of two and a char of more than four values the
\* ids of an epoch's writers are 1 and 2, and they tell marks apart.
LEMMA MarksTellApart ==
  ASSUME Readers = {}, BatchSize = 2, CharRange > 4
  PROVE  DualSpec => []MarksTell
<1>1. RankIInv => MarksTell
  BY DEF RankIInv, SmallIds, MarksTell
<1>2. Spec => []RankIInv
  BY RankInvariance
<1>. QED  BY <1>1, <1>2, DualImplementsBatcher, PTL

\* What the code's transactions write is theirs until the commit, for any number
\* of threads, when nobody begins a reader.
THEOREM WritersAreIsolated ==
  ASSUME Readers = {}, BatchSize = 2, CharRange > 4
  PROVE  DualSpec => []WritesKept
  BY MarksTellApart, WrittenIsKept, PTL

\* Without readers and with calls of one word, the memory of the code, with its
\* batches of two and its chars, is serialisable for any number of threads, of
\* words and of transactions: what dual_writers checks, for every instance with
\* no reader.  A reader breaks it (lost_update), and so does a failed write of
\* two words (failed_write_stays).
THEOREM WritersAreSerialisable ==
  ASSUME Readers = {}, BatchSize = 2, CharRange > 4, OneWordCalls
  PROVE  DualSpec => Serialisable
  BY MarksTellApart, MemoryIsSerialisable, PTL
=============================================================================
