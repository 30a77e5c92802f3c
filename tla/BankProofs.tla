------------------------------ MODULE BankProofs ------------------------------
(***************************************************************************)
(* Theorems about the bank, for any number of workers, accounts and        *)
(* transactions: every transaction is ended once, the lock of the          *)
(* reference memory is held by one writer or by readers, money is          *)
(* conserved, accounts stay packed, and no worker complains.               *)
(*                                                                         *)
(* Money is summed up by recursive functions on sequences.  What they      *)
(* compute is proved by induction over the numbers that have a property,   *)
(* named as a set: the least one outside it cannot exist (Upwards).        *)
(***************************************************************************)
EXTENDS Bank, TLAPS, WellFoundedInduction, SequenceTheorems

-----------------------------------------------------------------------------
(* What a step of worker w does to the Transaction objects. *)

\* Only the object of w changes, and its flag becomes b.
Flagged(w, b) ==
  /\ tx' = [v \in Workers |-> tx'[v]]
  /\ \A v \in Workers \ {w} : tx'[v] = tx[v]
  /\ "aborted" \in DOMAIN tx'[w] /\ tx'[w].aborted = b

\* An object that is assigned a record as a whole.
LEMMA WholeRecord ==
  ASSUME ShapeOK, NEW w \in Workers, NEW r, tx' = [tx EXCEPT ![w] = r],
         "aborted" \in DOMAIN r
  PROVE  Flagged(w, r.aborted)
  <1>1. DOMAIN tx = Workers
    BY DEF ShapeOK
  <1> QED BY <1>1 DEF Flagged

\* A new object is not aborted.
LEMMA NewRecord == "aborted" \in DOMAIN NewTx /\ NewTx.aborted = FALSE
  BY DEF NewTx

\* The assignments to fields of an object, by their effect on the flag.
LEMMA RetKept ==
  ASSUME NEW f, "aborted" \in DOMAIN f, NEW x
  PROVE  LET r == [f EXCEPT !.ret = x] IN "aborted" \in DOMAIN r /\ r.aborted = f.aborted
  BY Zenon

\* ... to what it throws, ...
LEMMA ThrownKept ==
  ASSUME NEW f, "aborted" \in DOMAIN f, NEW x
  PROVE  LET r == [f EXCEPT !.thrown = x] IN "aborted" \in DOMAIN r /\ r.aborted = f.aborted
  BY Zenon

\* ... when a call has failed, ...
LEMMA FailedSet ==
  ASSUME NEW f, "aborted" \in DOMAIN f
  PROVE  LET r == [f EXCEPT !.aborted = TRUE, !.thrown = "retry"]
         IN "aborted" \in DOMAIN r /\ r.aborted = TRUE
  BY Zenon

\* ... when long_tx passes a segment, ...
LEMMA LongKept ==
  ASSUME NEW f, "aborted" \in DOMAIN f, NEW x, NEW y, NEW z
  PROVE  LET r == [f EXCEPT !.at = x, !.sum = y, !.seen = z]
         IN "aborted" \in DOMAIN r /\ r.aborted = f.aborted
  BY Zenon

\* ... when alloc_tx does, ...
LEMMA AllocKept ==
  ASSUME NEW f, "aborted" \in DOMAIN f, NEW x, NEW y
  PROVE  LET r == [f EXCEPT !.at = x, !.seen = y]
         IN "aborted" \in DOMAIN r /\ r.aborted = f.aborted
  BY Zenon

\* ... and when short_tx does.
LEMMA ShortKept ==
  ASSUME NEW f, "aborted" \in DOMAIN f, NEW x, NEW y, NEW z, NEW u
  PROVE  LET r == [f EXCEPT !.send = x, !.recv = y, !.ret = z, !.at = u]
         IN "aborted" \in DOMAIN r /\ r.aborted = f.aborted
  BY Zenon

-----------------------------------------------------------------------------
(* Three kinds of step preserve the invariant. *)

Moved(w, p) == pc' = [pc EXCEPT ![w] = p]
InClosure == {"body", "debit", "credit"}

\* A step of the closure: the transaction stays open.
LEMMA StaysOpen ==
  ASSUME BankInv, NEW w \in Workers, NEW p \in InClosure \cup {"destroy"},
         w \in open, Flagged(w, FALSE), Moved(w, p),
         UNCHANGED <<lib, job, open, misused>>
  PROVE  BankInv'
  BY ZenonT(60) DEF BankInv, ShapeOK, OpenExact, AbortedLate, LockExclusive, Ending, is_ro,
    Flagged, Moved, InClosure, BankLabels

\* A step that begins a transaction: the lock lets it in.
LEMMA Opens ==
  ASSUME BankInv, NEW w \in Workers, lib = "reference" => Acquire(w),
         Flagged(w, FALSE), Moved(w, "body"), open' = open \cup {w},
         UNCHANGED <<lib, job, misused>>
  PROVE  BankInv'
  BY DEF BankInv, ShapeOK, OpenExact, AbortedLate, LockExclusive, Ending, is_ro,
    Flagged, Moved, BankLabels, Acquire

\* A step after which the transaction is over: it has failed and is to be
\* destroyed, or the object is gone.
LEMMA Closes ==
  ASSUME BankInv, NEW w \in Workers, NEW p \in BankLabels \ InClosure, NEW j \in Jobs,
         NEW b \in BOOLEAN, b <=> p = "destroy", ~misused',
         Flagged(w, b), Moved(w, p), job' = [job EXCEPT ![w] = j],
         open' = open \ {w}, lib' = lib
  PROVE  BankInv'
  BY DEF BankInv, ShapeOK, OpenExact, AbortedLate, LockExclusive, Ending, is_ro,
    Flagged, Moved, InClosure, BankLabels

-----------------------------------------------------------------------------
(* The actions. *)

\* An object that a step leaves alone.
LEMMA Unflagged ==
  ASSUME BankInv, NEW w \in Workers, UNCHANGED tx
  PROVE  Flagged(w, tx[w].aborted)
  BY DEF BankInv, ShapeOK, Flagged

\* In its closure a transaction is open and not aborted.
LEMMA InsideOpen ==
  ASSUME BankInv, NEW w \in Workers, pc[w] \in InClosure
  PROVE  w \in open /\ tx[w].aborted = FALSE /\ "aborted" \in DOMAIN tx[w]
  BY DEF BankInv, ShapeOK, OpenExact, AbortedLate, InClosure

\* The constructor; it may throw before there is a transaction.
LEMMA BeginSteps ==
  ASSUME BankInv, NEW w \in Workers, Begin(w) \/ BeginThrows(w)
  PROVE  BankInv'
  <1>1. CASE Begin(w)
    <2>1. Flagged(w, FALSE)
      BY <1>1, WholeRecord, NewRecord DEF Begin, BankInv
    <2>2. /\ lib = "reference" => Acquire(w)
          /\ Moved(w, "body") /\ open' = open \cup {w} /\ UNCHANGED <<lib, job, misused>>
      BY <1>1 DEF Begin, LibBegin, Goto, Moved
    <2> QED BY <2>1, <2>2, Opens
  <1>2. CASE BeginThrows(w)
    <2>1. w \notin open /\ tx[w].aborted = FALSE
      BY <1>2 DEF BeginThrows, Goto, BankInv, ShapeOK, OpenExact, AbortedLate, Ending
    <2>2. Flagged(w, FALSE)
      BY <1>2, <2>1, Unflagged DEF BeginThrows
    <2>3. /\ Moved(w, "gone") /\ job' = [job EXCEPT ![w] = job[w]] /\ job[w] \in Jobs
          /\ open' = open \ {w} /\ lib' = lib /\ ~misused'
      BY <1>2, <2>1 DEF BeginThrows, Goto, Moved, BankInv, ShapeOK
    <2> QED BY <2>2, <2>3, Closes DEF BankLabels, InClosure
  <1> QED BY <1>1, <1>2

\* A call that fails ends the transaction, and marks the object.
LEMMA FailSteps ==
  ASSUME BankInv, NEW w \in Workers, Fail(w)
  PROVE  BankInv'
  <1>1. pc[w] \in InClosure
    BY DEF Fail, InClosure
  <1>2. Flagged(w, TRUE)
    <2> DEFINE r == [tx[w] EXCEPT !.aborted = TRUE, !.thrown = "retry"]
    <2>1. "aborted" \in DOMAIN r /\ r.aborted = TRUE
      BY <1>1, InsideOpen, FailedSet
    <2>2. tx' = [tx EXCEPT ![w] = r]
      BY Zenon DEF Fail
    <2> HIDE DEF r
    <2> QED BY <2>1, <2>2, WholeRecord DEF BankInv
  <1>3. /\ Moved(w, "destroy") /\ job' = [job EXCEPT ![w] = job[w]] /\ job[w] \in Jobs
        /\ open' = open \ {w} /\ lib' = lib /\ ~misused'
    BY DEF Fail, LibFail, Moved, BankInv, ShapeOK
  <1> QED BY <1>2, <1>3, Closes DEF BankLabels, InClosure

\* The closure goes on, with an object r that has kept its flag.
LEMMA ClosureStep ==
  ASSUME BankInv, NEW w \in Workers, NEW p \in InClosure \cup {"destroy"}, NEW r,
         pc[w] \in InClosure, "aborted" \in DOMAIN r, r.aborted = tx[w].aborted,
         tx' = [tx EXCEPT ![w] = r], Moved(w, p), UNCHANGED <<lib, job, open, misused>>
  PROVE  BankInv'
  <1>1. Flagged(w, FALSE)
    BY InsideOpen, WholeRecord DEF BankInv
  <1> QED BY <1>1, InsideOpen, StaysOpen

\* The closure goes on and leaves the object alone.
LEMMA ClosureStepUnflagged ==
  ASSUME BankInv, NEW w \in Workers, NEW p \in InClosure \cup {"destroy"},
         pc[w] \in InClosure, Moved(w, p), UNCHANGED <<tx, lib, job, open, misused>>
  PROVE  BankInv'
  <1>1. Flagged(w, FALSE)
    BY InsideOpen, Unflagged
  <1> QED BY <1>1, InsideOpen, StaysOpen

\* The closure returns a value.
LEMMA ReturnSteps ==
  ASSUME BankInv, NEW w \in Workers, NEW value, Return(w, "body", value),
         UNCHANGED <<lib, job, open, misused>>
  PROVE  BankInv'
  <1> DEFINE r == [tx[w] EXCEPT !.ret = value]
  <1>1. pc[w] \in InClosure /\ Moved(w, "destroy")
    BY DEF Return, Goto, Moved, InClosure
  <1>2. "aborted" \in DOMAIN r /\ r.aborted = tx[w].aborted
    BY <1>1, InsideOpen, RetKept
  <1>3. tx' = [tx EXCEPT ![w] = r]
    BY Zenon DEF Return
  <1> HIDE DEF r
  <1> QED BY <1>1, <1>2, <1>3, ClosureStep

\* Memory changes only in the words.
LEMMA WriteKeeps ==
  ASSUME NEW w, NEW m, LibWrite(w, m)
  PROVE  UNCHANGED <<lib, open, misused>>
  BY DEF LibWrite

\* The closures that return at once: init and its check, and the end of alloc_tx.
LEMMA ReturningSteps ==
  ASSUME BankInv, NEW w \in Workers, Fill(w) \/ CheckFill(w) \/ Resize(w)
  PROVE  BankInv'
  <1>1. CASE Fill(w)
    BY <1>1, WriteKeeps, ReturnSteps DEF Fill, Kept
  <1>2. CASE CheckFill(w)
    BY <1>2, ReturnSteps DEF CheckFill, Kept, libVars
  <1>3. CASE Resize(w)
    BY <1>3, WriteKeeps, ReturnSteps DEF Resize, Kept
  <1> QED BY <1>1, <1>2, <1>3

\* A segment of long_tx, or its end.
LEMMA LongSteps ==
  ASSUME BankInv, NEW w \in Workers, LongVisit(w)
  PROVE  BankInv'
  <1>1. UNCHANGED <<lib, job, open, misused>> /\ pc[w] \in InClosure
    BY DEF LongVisit, libVars, InClosure
  <1>2. CASE \E value : Return(w, "body", value)
    BY <1>1, <1>2, ReturnSteps
  <1>3. CASE /\ tx' = [tx EXCEPT ![w].at = @ + 1, ![w].sum = Sum1(w), ![w].seen = Seen1(w)]
             /\ UNCHANGED pc
    <2> DEFINE r == [tx[w] EXCEPT !.at = @ + 1, !.sum = Sum1(w), !.seen = Seen1(w)]
    <2>1. "aborted" \in DOMAIN r /\ r.aborted = tx[w].aborted
      BY <1>1, InsideOpen, LongKept
    <2>2. tx' = [tx EXCEPT ![w] = r]
      BY <1>3, Zenon DEF BankInv, ShapeOK
    <2> HIDE DEF r
    <2>3. Moved(w, pc[w])
      BY <1>3 DEF Moved, BankInv, ShapeOK
    <2> QED BY <1>1, <2>1, <2>2, <2>3, ClosureStep
  <1> QED BY <1>2, <1>3 DEF LongVisit

\* A segment of alloc_tx.
LEMMA AllocSteps ==
  ASSUME BankInv, NEW w \in Workers, AllocVisit(w)
  PROVE  BankInv'
  <1> DEFINE r == [tx[w] EXCEPT !.at = @ + 1, !.seen = Seen1(w)]
  <1>1. UNCHANGED <<lib, job, open, misused>> /\ pc[w] \in InClosure /\ UNCHANGED pc
    BY DEF AllocVisit, InBody, Kept, libVars, InClosure
  <1>2. "aborted" \in DOMAIN r /\ r.aborted = tx[w].aborted
    BY <1>1, InsideOpen, AllocKept
  <1>3. tx' = [tx EXCEPT ![w] = r]
    BY Zenon DEF AllocVisit
  <1> HIDE DEF r
  <1>4. Moved(w, pc[w])
    BY <1>1 DEF Moved, BankInv, ShapeOK
  <1> QED BY <1>1, <1>2, <1>3, <1>4, ClosureStep

\* There is no memory: an exception unwinds, and the transaction is open.
LEMMA NoMemorySteps ==
  ASSUME BankInv, NEW w \in Workers, NoMemory(w)
  PROVE  BankInv'
  <1> DEFINE r == [tx[w] EXCEPT !.thrown = "nomem"]
  <1>1. /\ UNCHANGED <<lib, job, open, misused>> /\ pc[w] \in InClosure
        /\ Moved(w, "destroy")
    BY DEF NoMemory, InBody, Goto, Moved, Kept, InClosure
  <1>2. "aborted" \in DOMAIN r /\ r.aborted = tx[w].aborted
    BY <1>1, InsideOpen, ThrownKept
  <1>3. tx' = [tx EXCEPT ![w] = r]
    BY Zenon DEF NoMemory
  <1> HIDE DEF r
  <1> QED BY <1>1, <1>2, <1>3, ClosureStep

\* A segment of short_tx.
LEMMA ShortSteps ==
  ASSUME BankInv, NEW w \in Workers, ShortVisit(w)
  PROVE  BankInv'
  <1> DEFINE send == Place(w, args[w][1], tx[w].send)
             recv == Place(w, args[w][2], tx[w].recv)
             found == send # NULL /\ recv # NULL
             to == IF found THEN "debit" ELSE IF AtLast(w) THEN "destroy" ELSE "body"
             r == [tx[w] EXCEPT !.send = send, !.recv = recv, !.ret = found,
                                !.at = IF to = "body" THEN @ + 1 ELSE @]
  <1>1. Goto(w, "body", to) /\ tx' = [tx EXCEPT ![w] = r]
    BY Zenon DEF ShortVisit
  <1>2. "aborted" \in DOMAIN tx[w]
    BY <1>1, InsideOpen DEF Goto, InClosure
  <1>3. "aborted" \in DOMAIN r /\ r.aborted = tx[w].aborted
    BY <1>2, ShortKept
  <1>4. to \in InClosure \cup {"destroy"}
    BY DEF InClosure
  <1> HIDE DEF to, r
  <1>5. UNCHANGED <<lib, job, open, misused>> /\ pc[w] \in InClosure /\ Moved(w, to)
    BY <1>1 DEF ShortVisit, libVars, Goto, Moved, InClosure
  <1> QED BY <1>1, <1>3, <1>4, <1>5, ClosureStep

\* The two halves of a payment.
LEMMA PaymentSteps ==
  ASSUME BankInv, NEW w \in Workers, Debit(w) \/ Credit(w)
  PROVE  BankInv'
  <1>1. UNCHANGED <<tx, lib, job, open, misused>> /\ pc[w] \in InClosure
    BY WriteKeeps DEF Debit, Credit, Goto, Kept, libVars, InClosure
  <1>2. Moved(w, "credit") \/ Moved(w, "destroy")
    BY DEF Debit, Credit, Goto, Moved
  <1> QED BY <1>1, <1>2, ClosureStepUnflagged DEF InClosure

\* The destructor: tm_end is called on a transaction that is open, and on no
\* other.
LEMMA DestroyedSteps ==
  ASSUME BankInv, NEW w \in Workers, Destroyed(w)
  PROVE  BankInv'
  <1>1. Flagged(w, FALSE)
    BY WholeRecord, NewRecord DEF Destroyed, BankInv
  <1>2. pc[w] = "destroy" /\ (w \in open <=> ~tx[w].aborted) /\ job[w] \in Jobs
    BY DEF Destroyed, Destroy, Ending, Goto, BankInv, ShapeOK, OpenExact
  <1>3. \E p \in BankLabels \ InClosure, j \in Jobs :
          p # "destroy" /\ Moved(w, p) /\ job' = [job EXCEPT ![w] = j]
    <2>1. CASE Resume(w)
      <3> DEFINE refused == job[w] = "short" /\ ~tx[w].ret
                 wrong == job[w] # "short" /\ ~tx[w].ret
                 p == CASE job[w] = "init" -> "begin"
                        [] refused -> "again"
                        [] wrong \/ job[w] = "last_long" -> "gone"
                        [] OTHER -> "next"
                 j == CASE job[w] = "init" -> "init_check"
                        [] refused \/ wrong \/ job[w] = "last_long" -> job[w]
                        [] OTHER -> "run"
      <3>1. Moved(w, p) /\ job' = [job EXCEPT ![w] = j]
        BY <2>1, Zenon DEF Resume, Moved
      <3>2. p \in {"begin", "again", "gone", "next"}
        BY Zenon
      <3>3. j \in {"init_check", job[w], "run"}
        BY Zenon
      <3> HIDE DEF p, j
      <3> QED BY <1>2, <3>1, <3>2, <3>3 DEF BankLabels, InClosure, Jobs
    <2>2. CASE ~Resume(w)
      <3>1. UNCHANGED job /\ \E p \in {"begin", "gone", "terminated"} : Moved(w, p)
        BY <2>2 DEF Destroyed, Destroy, Goto, Moved, runVars
      <3>2. job' = [job EXCEPT ![w] = job[w]]
        BY <3>1 DEF BankInv, ShapeOK
      <3> QED BY <1>2, <3>1, <3>2 DEF BankLabels, InClosure
    <2> QED BY <2>1, <2>2
  <1>4. open' = open \ {w} /\ lib' = lib /\ ~misused'
    <2>1. CASE UNCHANGED libVars /\ tx[w].aborted
      BY <1>2, <2>1 DEF libVars, BankInv
    <2>2. CASE Ending(w) /\ LibCommit(w)
      <3>1. w \in open /\ ~misused
        BY <1>2, <2>2 DEF Ending, BankInv
      <3>2. ~misused'
        BY <2>2, <3>1, Zenon DEF LibCommit
      <3> QED BY <2>2, <3>2 DEF LibCommit
    <2>3. CASE LibConflict(w)
      BY <2>3 DEF LibConflict, LibFail, BankInv
    <2> QED BY <2>1, <2>2, <2>3 DEF Destroyed, Destroy
  <1> QED BY <1>1, <1>3, <1>4, Closes

\* Between transactions a worker may choose the next one, or draw accounts anew.
LEMMA ChoosingSteps ==
  ASSUME BankInv, NEW w \in Workers,
         \/ Dismissed(w) \/ Choose(w)
         \/ \E a \in Accounts(w) \X Accounts(w) : Draw(w, a)
  PROVE  BankInv'
  <1>1. pc[w] \in {"next", "again"} /\ UNCHANGED <<lib, open, misused, tx>>
    BY DEF Dismissed, Choose, Draw, Call, Goto, libVars
  <1>2. w \notin open /\ tx[w].aborted = FALSE
    BY <1>1 DEF BankInv, ShapeOK, OpenExact, AbortedLate, Ending
  <1>3. Flagged(w, FALSE)
    BY <1>1, <1>2, Unflagged
  <1>4. \E p \in {"begin", "gone"}, j \in Jobs : Moved(w, p) /\ job' = [job EXCEPT ![w] = j]
    BY DEF Dismissed, Choose, Draw, Call, Goto, Moved, Jobs, BankInv, ShapeOK
  <1>5. open' = open \ {w} /\ ~misused' /\ lib' = lib
    BY <1>1, <1>2 DEF BankInv
  <1> QED BY <1>3, <1>4, <1>5, Closes DEF BankLabels, InClosure

-----------------------------------------------------------------------------
(* The theorems. *)

\* The invariant holds at first.
LEMMA BankInvInit == BankInit => BankInv
  <1> SUFFICES ASSUME BankInit PROVE BankInv
    OBVIOUS
  <1>1. ShapeOK
    BY NewRecord DEF BankInit, ShapeOK, BankLabels, Jobs
  <1>2. \A w \in Workers : pc[w] = "begin" /\ tx[w].aborted = FALSE
    BY NewRecord DEF BankInit
  <1> QED BY <1>1, <1>2 DEF BankInit, BankInv, OpenExact, AbortedLate, LockExclusive, Ending

\* Every step of a worker preserves it.
LEMMA BankInvNext == BankInv /\ [BankNext]_bankVars => BankInv'
  <1> SUFFICES ASSUME BankInv, [BankNext]_bankVars PROVE BankInv'
    OBVIOUS
  <1>1. CASE UNCHANGED bankVars
    BY <1>1 DEF bankVars, libVars, runVars, BankInv, ShapeOK, OpenExact, AbortedLate,
      LockExclusive, Ending, is_ro
  <1>2. ASSUME NEW w \in Workers, WorkerStep(w) PROVE BankInv'
    BY <1>2, BeginSteps, FailSteps, ReturningSteps, LongSteps, AllocSteps, NoMemorySteps,
      ShortSteps, PaymentSteps, DestroyedSteps, ChoosingSteps DEF WorkerStep, Body
  <1> QED BY <1>1, <1>2 DEF BankNext

\* The inductive invariant of the bank, whatever the library and the workers do.
THEOREM BankInvariance == BankSpec => []BankInv
  BY BankInvInit, BankInvNext, PTL DEF BankSpec

\* Every transaction is ended exactly once: the destructor never calls tm_end on
\* one that has failed, and none is left open (transactional.hpp:292-297).
THEOREM TransactionsEndOnce == BankSpec => []EndedOnce
  <1>1. BankInv => EndedOnce
    BY DEF BankInv, OpenExact, EndedOnce, Ending
  <1> QED BY <1>1, BankInvariance, PTL

\* The lock of the reference (reference/tm.c) is held by one writer alone or by
\* readers, although words are written in place from begin to end.
THEOREM ReferenceExcludes == BankSpec => []LockExclusive
  <1>1. BankInv => LockExclusive
    BY DEF BankInv
  <1> QED BY <1>1, BankInvariance, PTL

-----------------------------------------------------------------------------
(* Sums of sequences, as the loops over accounts and segments make them. *)

\* A set that has 0 and with each number up to k the next has all of them.
LEMMA Upwards ==
  ASSUME NEW S, NEW k \in Nat, 0 \in S, \A n \in 1..k : n - 1 \in S => n \in S
  PROVE  \A n \in 0..k : n \in S
  <1> DEFINE Bad == (0..k) \ S
  <1> SUFFICES ASSUME Bad # {} PROVE FALSE
    OBVIOUS
  <1>1. Bad \subseteq Nat
    OBVIOUS
  <1> HIDE DEF Bad
  <1>2. PICK n \in Bad : \A m \in Bad : ~ (<<m, n>> \in OpToRel(<, Nat))
    BY <1>1, NatLessThanWellFounded, WFMin, Zenon
  <1>3. \A m \in Bad : ~ (m < n)
    BY <1>1, <1>2 DEF OpToRel
  <1> USE DEF Bad
  <1>4. n \in 1..k /\ n - 1 \notin Bad
    BY <1>3
  <1> QED BY <1>4

\* Sums are there for every sequence: the recursion has a solution.
LEMMA SumsExist ==
  ASSUME NEW s \in Seq(Int)
  PROVE  \E f \in [0..Len(s) -> Int] :
           f[0] = 0 /\ \A i \in 1..Len(s) : f[i] = f[i - 1] + s[i]
  <1> DEFINE Solved(n, f) == f[0] = 0 /\ \A i \in 1..n : f[i] = f[i - 1] + s[i]
             Done == {n \in 0..Len(s) : \E f \in [0..n -> Int] : Solved(n, f)}
  <1>1. 0 \in Done
    <2>1. Solved(0, [i \in 0..0 |-> 0]) /\ [i \in 0..0 |-> 0] \in [0..0 -> Int]
      OBVIOUS
    <2> HIDE DEF Solved
    <2> QED BY <2>1
  <1>2. ASSUME NEW n \in 1..Len(s), n - 1 \in Done  PROVE n \in Done
    <2>1. PICK f \in [0..n - 1 -> Int] : Solved(n - 1, f)
      BY <1>2
    <2> DEFINE g == [i \in 0..n |-> IF i = n THEN f[n - 1] + s[n] ELSE f[i]]
    <2>2. g \in [0..n -> Int]
      BY <2>1
    <2>3. Solved(n, g)
      <3>1. \A i \in 1..n : g[i] = g[i - 1] + s[i]
        <4> SUFFICES ASSUME NEW i \in 1..n  PROVE g[i] = g[i - 1] + s[i]
          OBVIOUS
        <4>1. CASE i = n
          BY <4>1
        <4>2. CASE i # n
          BY <2>1, <4>2
        <4> QED BY <4>1, <4>2
      <3> QED BY <2>1, <3>1
    <2> HIDE DEF Solved, g
    <2> QED BY <2>2, <2>3
  <1>3. Len(s) \in Done
    <2>1. Len(s) \in Nat
      OBVIOUS
    <2> HIDE DEF Done
    <2>2. \A n \in 0..Len(s) : n \in Done
      BY <1>1, <1>2, <2>1, Upwards
    <2> QED BY <2>1, <2>2
  <1> QED BY <1>3

\* What the recursion says.
LEMMA SumsRule ==
  ASSUME NEW s \in Seq(Int)
  PROVE  /\ Sums(s) \in [0..Len(s) -> Int] /\ Sums(s)[0] = 0
         /\ \A n \in 1..Len(s) : Sums(s)[n] = Sums(s)[n - 1] + s[n]
  <1> DEFINE Rule(f) == f = [n \in 0..Len(s) |-> IF n = 0 THEN 0 ELSE f[n - 1] + s[n]]
  <1>1. PICK f \in [0..Len(s) -> Int] :
          f[0] = 0 /\ \A i \in 1..Len(s) : f[i] = f[i - 1] + s[i]
    BY SumsExist
  <1>2. Rule(f)
    BY <1>1
  <1>3. Rule(Sums(s))
    <2>1. Sums(s) = CHOOSE g : Rule(g)
      BY DEF Sums
    <2>2. \E g : Rule(g)
      BY <1>2
    <2> HIDE DEF Rule
    <2>3. Rule(CHOOSE g : Rule(g))
      BY <2>2, Zenon
    <2> QED BY <2>1, <2>3
  <1> DEFINE g == Sums(s)
             Same == {n \in 0..Len(s) : g[n] = f[n]}
  <1>4. g = [n \in 0..Len(s) |-> IF n = 0 THEN 0 ELSE g[n - 1] + s[n]]
    BY <1>3
  <1> HIDE DEF g, Rule
  <1>5. 0 \in Same
    BY <1>1, <1>4
  <1>6. \A n \in 1..Len(s) : n - 1 \in Same => n \in Same
    BY <1>1, <1>4
  <1> HIDE DEF Same
  <1>0. Len(s) \in Nat
    OBVIOUS
  <1>7. \A n \in 0..Len(s) : n \in Same
    BY <1>0, <1>5, <1>6, Upwards
  <1> USE DEF Same
  <1>8. g = f
    <2>1. \A n \in 0..Len(s) : g[n] = f[n]
      BY <1>7
    <2>2. DOMAIN g = 0..Len(s) /\ DOMAIN f = 0..Len(s) /\ g = [n \in 0..Len(s) |-> g[n]]
      BY <1>4
    <2> QED BY <2>1, <2>2
  <1> QED BY <1>1, <1>8 DEF g

\* Sums look at what they have passed only.
LEMMA SumsAgree ==
  ASSUME NEW s \in Seq(Int), NEW t \in Seq(Int), NEW k \in Nat, k <= Len(s), k <= Len(t),
         \A i \in 1..k : s[i] = t[i]
  PROVE  \A n \in 0..k : Sums(s)[n] = Sums(t)[n]
  <1> DEFINE Same == {n \in 0..k : Sums(s)[n] = Sums(t)[n]}
  <1>1. 0 \in Same
    BY SumsRule
  <1>2. ASSUME NEW n \in 1..k, n - 1 \in Same  PROVE n \in Same
    <2>0. s[n] = t[n]
      OBVIOUS
    <2>1. n \in 1..Len(s) /\ n \in 1..Len(t)
      OBVIOUS
    <2>2. Sums(s)[n] = Sums(s)[n - 1] + s[n] /\ Sums(t)[n] = Sums(t)[n - 1] + t[n]
      BY <2>1, SumsRule
    <2> QED BY <1>2, <2>0, <2>2
  <1> HIDE DEF Same
  <1>3. \A n \in 0..k : n \in Same
    BY <1>1, <1>2, Upwards
  <1> QED BY <1>3 DEF Same

\* One more number, at the end.
LEMMA SumLonger ==
  ASSUME NEW s \in Seq(Int), NEW t \in Seq(Int), Len(t) = Len(s) + 1,
         \A i \in 1..Len(s) : t[i] = s[i]
  PROVE  Sum(t) = Sum(s) + t[Len(t)]
  <1>1. Sums(t)[Len(s)] = Sums(s)[Len(s)]
    <2>1. Len(s) \in Nat /\ Len(s) <= Len(s) /\ Len(s) <= Len(t) /\ Len(s) \in 0..Len(s)
      OBVIOUS
    <2>2. \A n \in 0..Len(s) : Sums(t)[n] = Sums(s)[n]
      BY <2>1, SumsAgree
    <2> QED BY <2>1, <2>2
  <1>2. Sums(t)[Len(t)] = Sums(t)[Len(t) - 1] + t[Len(t)]
    BY SumsRule
  <1>3. Len(t) - 1 = Len(s)
    OBVIOUS
  <1> QED BY <1>1, <1>2, <1>3 DEF Sum

\* A sequence with a number appended.
LEMMA SumAppend ==
  ASSUME NEW s \in Seq(Int), NEW x \in Int
  PROVE  Append(s, x) \in Seq(Int) /\ Sum(Append(s, x)) = Sum(s) + x
  <1> DEFINE t == Append(s, x)
  <1>1. /\ t \in Seq(Int) /\ Len(t) = Len(s) + 1 /\ t[Len(t)] = x
        /\ \A i \in 1..Len(s) : t[i] = s[i]
    OBVIOUS
  <1> HIDE DEF t
  <1>2. Sum(t) = Sum(s) + x
    BY <1>1, SumLonger
  <1> QED BY <1>1, <1>2 DEF t

\* What Front is.
LEMMA FrontOf ==
  ASSUME NEW S, NEW s \in Seq(S), Len(s) >= 1
  PROVE  /\ Front(s) \in Seq(S) /\ Len(Front(s)) = Len(s) - 1
         /\ \A i \in 1..Len(s) - 1 : Front(s)[i] = s[i]
  <1> DEFINE t == SubSeq(s, 1, Len(s) - 1)
             k == Len(s) - 1
  <1>1. k \in Nat /\ k <= Len(s)
    OBVIOUS
  <1>2. /\ t \in Seq(S) /\ Len(t) = (IF 1 <= k THEN k - 1 + 1 ELSE 0)
        /\ \A i \in 1..k - 1 + 1 : t[i] = s[1 + i - 1]
    BY SubSeqProperties
  <1>3. Len(t) = k /\ \A i \in 1..k : t[i] = s[i]
    <2> HIDE DEF t, k
    <2> QED BY <1>1, <1>2
  <1> QED BY <1>2, <1>3 DEF Front

\* A sequence without its last number.
LEMMA SumFront ==
  ASSUME NEW s \in Seq(Int), Len(s) >= 1
  PROVE  Front(s) \in Seq(Int) /\ Sum(s) = Sum(Front(s)) + Last(s)
  <1> DEFINE t == Front(s)
  <1>1. /\ t \in Seq(Int) /\ Len(t) = Len(s) - 1 /\ \A i \in 1..Len(t) : t[i] = s[i]
    BY FrontOf
  <1> HIDE DEF t
  <1>0. Len(s) \in Nat
    OBVIOUS
  <1>2. Len(s) = Len(t) + 1
    BY <1>0, <1>1
  <1>4. \A i \in 1..Len(t) : s[i] = t[i]
    BY <1>1
  <1>3. Sum(s) = Sum(t) + s[Len(s)]
    BY <1>1, <1>2, <1>4, SumLonger
  <1> QED BY <1>1, <1>3 DEF t, Last

\* One of them changed.
LEMMA SumChange ==
  ASSUME NEW s \in Seq(Int), NEW t \in Seq(Int), Len(t) = Len(s), NEW k \in 1..Len(s),
         \A i \in 1..Len(s) : i # k => t[i] = s[i]
  PROVE  Sum(t) = Sum(s) + t[k] - s[k]
  <1>0. Sums(s) \in [0..Len(s) -> Int] /\ Sums(t) \in [0..Len(s) -> Int]
    BY SumsRule
  <1>1. Sums(t)[k - 1] = Sums(s)[k - 1]
    <2> DEFINE j == k - 1
    <2>1. /\ j \in Nat /\ j <= Len(s) /\ j <= Len(t) /\ j \in 0..j
          /\ \A i \in 1..j : t[i] = s[i]
      OBVIOUS
    <2> HIDE DEF j
    <2>2. \A n \in 0..j : Sums(t)[n] = Sums(s)[n]
      BY <2>1, SumsAgree
    <2> QED BY <2>1, <2>2 DEF j
  <1> DEFINE Moved1 == {n \in 0..Len(s) : n >= k => Sums(t)[n] = Sums(s)[n] + t[k] - s[k]}
  <1>2. 0 \in Moved1
    OBVIOUS
  <1>3. ASSUME NEW n \in 1..Len(s), n - 1 \in Moved1  PROVE n \in Moved1
    <2>1. Sums(s)[n] = Sums(s)[n - 1] + s[n] /\ Sums(t)[n] = Sums(t)[n - 1] + t[n]
      BY SumsRule
    <2>4. /\ s[n] \in Int /\ t[n] \in Int /\ s[k] \in Int /\ t[k] \in Int
          /\ n - 1 \in 0..Len(s)
      OBVIOUS
    <2>5. Sums(s)[n - 1] \in Int /\ Sums(t)[n - 1] \in Int
      BY <1>0, <2>4
    <2>2. CASE n = k
      BY <1>1, <2>1, <2>2, <2>4, <2>5
    <2>3. CASE n # k
      <3>1. t[n] = s[n] /\ (n > k => Sums(t)[n - 1] = Sums(s)[n - 1] + t[k] - s[k])
        BY <1>3, <2>3
      <3>2. CASE n > k
        <4> DEFINE a == Sums(t)[n - 1]
                   b == Sums(s)[n - 1]
                   x == s[n]
                   y == t[k]
                   z == s[k]
        <4>1. a \in Int /\ b \in Int /\ x \in Int /\ y \in Int /\ z \in Int
          BY <2>4, <2>5
        <4>2. a = b + y - z /\ Sums(t)[n] = a + x /\ Sums(s)[n] = b + x
          BY <2>1, <3>1, <3>2
        <4>3. Sums(t)[n] = Sums(s)[n] + y - z
          <5> HIDE DEF a, b, x, y, z
          <5> QED BY <4>1, <4>2
        <4> QED BY <4>3
      <3>3. CASE ~(n > k)
        <4>1. ~(n >= k)
          BY <2>3, <3>3
        <4> QED BY <4>1
      <3> QED BY <3>2, <3>3
    <2> QED BY <2>2, <2>3
  <1>4. Len(s) \in Nat
    OBVIOUS
  <1>5. \A n \in 0..Len(s) : n \in Moved1
    <2> HIDE DEF Moved1
    <2> QED BY <1>2, <1>3, <1>4, Upwards
  <1> QED BY <1>4, <1>5 DEF Sum

\* All the same.
LEMMA SumSame ==
  ASSUME NEW s \in Seq(Int), NEW x \in Int, \A i \in 1..Len(s) : s[i] = x
  PROVE  Sum(s) = x * Len(s)
  <1> DEFINE Times == {n \in 0..Len(s) : Sums(s)[n] = x * n}
  <1>1. 0 \in Times
    BY SumsRule
  <1>2. ASSUME NEW n \in 1..Len(s), n - 1 \in Times  PROVE n \in Times
    <2>1. Sums(s)[n] = x * (n - 1) + x
      BY <1>2, SumsRule
    <2>2. x * (n - 1) + x = x * n
      OBVIOUS
    <2> QED BY <2>1, <2>2
  <1>3. Len(s) \in Nat
    OBVIOUS
  <1>4. \A n \in 0..Len(s) : n \in Times
    <2> HIDE DEF Times
    <2> QED BY <1>1, <1>2, <1>3, Upwards
  <1> QED BY <1>3, <1>4 DEF Sum

-----------------------------------------------------------------------------
(* The money and the accounts of a memory. *)

\* A sum of numbers is a number.
LEMMA SumIsInt ==
  ASSUME NEW s \in Seq(Int)
  PROVE  Sum(s) \in Int
  <1>1. Len(s) \in 0..Len(s) /\ Sums(s) \in [0..Len(s) -> Int]
    BY SumsRule
  <1> QED BY <1>1 DEF Sum

\* The balances of a segment can be summed up.
LEMMA NatsAreInts == ASSUME NEW s \in Seq(Nat)  PROVE s \in Seq(Int)
  OBVIOUS

\* The money there is, segment by segment, ...
LEMMA FundsOf ==
  ASSUME NEW m \in Segments
  PROVE  /\ Funds(m) \in Seq(Int) /\ Len(Funds(m)) = Len(m)
         /\ \A i \in 1..Len(m) : Funds(m)[i] = m[i].parity + Sum(m[i].accounts)
  <1>1. \A i \in 1..Len(m) : m[i].parity + Sum(m[i].accounts) \in Int
    <2> SUFFICES ASSUME NEW i \in 1..Len(m)  PROVE m[i].parity + Sum(m[i].accounts) \in Int
      OBVIOUS
    <2>0. m[i] \in AccountSegment
      BY DEF Segments
    <2>1. m[i].parity \in Int /\ m[i].accounts \in Seq(Nat)
      BY <2>0 DEF AccountSegment
    <2> QED BY <2>1, NatsAreInts, SumIsInt
  <1>2. Len(m) \in Nat
    BY DEF Segments
  <1> QED BY <1>1, <1>2 DEF Funds

\* ... and the accounts.
LEMMA SizesOf ==
  ASSUME NEW m \in Segments
  PROVE  /\ Sizes(m) \in Seq(Int) /\ Len(Sizes(m)) = Len(m)
         /\ \A i \in 1..Len(m) : Sizes(m)[i] = Len(m[i].accounts)
  <1>1. \A i \in 1..Len(m) : Len(m[i].accounts) \in Int
    BY DEF Segments, AccountSegment
  <1>2. Len(m) \in Nat
    BY DEF Segments
  <1> QED BY <1>1, <1>2 DEF Sizes

\* Memories that agree on a segment agree on what is in it.
LEMMA SameSegment ==
  ASSUME NEW m \in Segments, NEW c \in Segments,
         NEW i, i \in 1..Len(m), i \in 1..Len(c), c[i] = m[i]
  PROVE  Funds(c)[i] = Funds(m)[i] /\ Sizes(c)[i] = Sizes(m)[i]
  <1>1. Funds(c)[i] = c[i].parity + Sum(c[i].accounts) /\ Sizes(c)[i] = Len(c[i].accounts)
    BY FundsOf, SizesOf
  <1>2. Funds(m)[i] = m[i].parity + Sum(m[i].accounts) /\ Sizes(m)[i] = Len(m[i].accounts)
    BY FundsOf, SizesOf
  <1> QED BY <1>1, <1>2

\* ... and so do their sums, on what is before the first difference.
LEMMA SamePart ==
  ASSUME NEW m \in Segments, NEW c \in Segments, NEW k \in Nat, k <= Len(m), k <= Len(c),
         \A i \in 1..k : c[i] = m[i]
  PROVE  \A i \in 1..k : Funds(c)[i] = Funds(m)[i] /\ Sizes(c)[i] = Sizes(m)[i]
  <1> SUFFICES ASSUME NEW i \in 1..k
                PROVE  Funds(c)[i] = Funds(m)[i] /\ Sizes(c)[i] = Sizes(m)[i]
    OBVIOUS
  <1>1. Len(m) \in Nat /\ Len(c) \in Nat
    BY DEF Segments
  <1>2. i \in 1..Len(m) /\ i \in 1..Len(c) /\ c[i] = m[i]
    BY <1>1
  <1> QED BY <1>2, SameSegment

\* What a balance is about is numbers.
LEMMA BalanceIsInt ==
  ASSUME NEW m \in Segments
  PROVE  Sum(Funds(m)) \in Int /\ Sum(Sizes(m)) \in Int
  BY FundsOf, SizesOf, SumIsInt

\* One segment changed.
LEMMA SegmentChanged ==
  ASSUME NEW m \in Segments, NEW c \in Segments, NEW i \in 1..Len(m), Len(c) = Len(m),
         \A j \in 1..Len(m) : j # i => c[j] = m[j]
  PROVE  /\ Sum(Funds(c)) = Sum(Funds(m)) + (c[i].parity + Sum(c[i].accounts))
                              - (m[i].parity + Sum(m[i].accounts))
         /\ Sum(Sizes(c)) = Sum(Sizes(m)) + Len(c[i].accounts) - Len(m[i].accounts)
  <1>2. /\ Funds(c) \in Seq(Int) /\ Len(Funds(c)) = Len(m)
        /\ \A j \in 1..Len(m) : Funds(c)[j] = c[j].parity + Sum(c[j].accounts)
    BY FundsOf
  <1>3. /\ Sizes(c) \in Seq(Int) /\ Len(Sizes(c)) = Len(m)
        /\ \A j \in 1..Len(m) : Sizes(c)[j] = Len(c[j].accounts)
    BY SizesOf
  <1>4. Sum(Funds(c)) = Sum(Funds(m)) + Funds(c)[i] - Funds(m)[i]
    <2>2. Funds(m) \in Seq(Int) /\ Len(Funds(m)) = Len(m)
      BY FundsOf
    <2>1. \A j \in 1..Len(Funds(m)) : j # i => Funds(c)[j] = Funds(m)[j]
      BY <2>2, SameSegment
    <2> QED BY <1>2, <2>1, <2>2, SumChange
  <1>5. Sum(Sizes(c)) = Sum(Sizes(m)) + Sizes(c)[i] - Sizes(m)[i]
    <2>2. Sizes(m) \in Seq(Int) /\ Len(Sizes(m)) = Len(m)
      BY SizesOf
    <2>1. \A j \in 1..Len(Sizes(m)) : j # i => Sizes(c)[j] = Sizes(m)[j]
      BY <2>2, SameSegment
    <2> QED BY <1>3, <2>1, <2>2, SumChange
  <1>6. /\ Funds(c)[i] = c[i].parity + Sum(c[i].accounts)
        /\ Funds(m)[i] = m[i].parity + Sum(m[i].accounts)
    BY <1>2, FundsOf
  <1>7. Sizes(c)[i] = Len(c[i].accounts) /\ Sizes(m)[i] = Len(m[i].accounts)
    BY <1>3, SizesOf
  <1> QED BY <1>4, <1>5, <1>6, <1>7

\* One segment more.
LEMMA SegmentAppended ==
  ASSUME NEW m \in Segments, NEW r \in AccountSegment
  PROVE  LET c == Append(m, r) IN
         /\ c \in Segments /\ Len(c) = Len(m) + 1 /\ c[Len(m) + 1] = r
         /\ \A j \in 1..Len(m) : c[j] = m[j]
         /\ Sum(Funds(c)) = Sum(Funds(m)) + (r.parity + Sum(r.accounts))
         /\ Sum(Sizes(c)) = Sum(Sizes(m)) + Len(r.accounts)
  <1> DEFINE c == Append(m, r)
  <1>1. /\ c \in Segments /\ Len(c) = Len(m) + 1 /\ c[Len(m) + 1] = r
        /\ \A j \in 1..Len(m) : c[j] = m[j]
    BY DEF Segments, AccountSegment
  <1> HIDE DEF c
  <1>2. r.parity + Sum(r.accounts) \in Int /\ Len(r.accounts) \in Int
    BY NatsAreInts, SumIsInt DEF AccountSegment
  <1>3. /\ Funds(c) \in Seq(Int) /\ Funds(m) \in Seq(Int)
        /\ Len(Funds(c)) = Len(Funds(m)) + 1 /\ Len(Funds(m)) = Len(m)
    BY <1>1, FundsOf
  <1>4. /\ Sizes(c) \in Seq(Int) /\ Sizes(m) \in Seq(Int)
        /\ Len(Sizes(c)) = Len(Sizes(m)) + 1 /\ Len(Sizes(m)) = Len(m)
    BY <1>1, SizesOf
  <1>0. Len(m) \in Nat /\ Len(m) <= Len(m) /\ Len(m) <= Len(c)
    BY <1>1 DEF Segments
  <1>5. Sum(Funds(c)) = Sum(Funds(m)) + (r.parity + Sum(r.accounts))
    <2>1. \A i \in 1..Len(Funds(m)) : Funds(c)[i] = Funds(m)[i]
      BY <1>0, <1>1, <1>3, SamePart
    <2>2. Funds(c)[Len(Funds(c))] = r.parity + Sum(r.accounts)
      BY <1>1, <1>3, FundsOf
    <2> QED BY <1>3, <2>1, <2>2, SumLonger
  <1>6. Sum(Sizes(c)) = Sum(Sizes(m)) + Len(r.accounts)
    <2>1. \A i \in 1..Len(Sizes(m)) : Sizes(c)[i] = Sizes(m)[i]
      BY <1>0, <1>1, <1>4, SamePart
    <2>2. Sizes(c)[Len(Sizes(c))] = Len(r.accounts)
      BY <1>1, <1>4, SizesOf
    <2> QED BY <1>4, <2>1, <2>2, SumLonger
  <1> QED BY <1>1, <1>5, <1>6 DEF c

\* One segment less.
LEMMA SegmentDropped ==
  ASSUME NEW m \in Segments, Len(m) >= 1
  PROVE  LET c == Front(m) IN
         /\ c \in Segments /\ Len(c) = Len(m) - 1 /\ \A j \in 1..Len(c) : c[j] = m[j]
         /\ Sum(Funds(c)) = Sum(Funds(m)) - (Last(m).parity + Sum(Last(m).accounts))
         /\ Sum(Sizes(c)) = Sum(Sizes(m)) - Len(Last(m).accounts)
  <1> DEFINE c == Front(m)
  <1>1. /\ c \in Segments /\ Len(c) = Len(m) - 1 /\ \A j \in 1..Len(c) : c[j] = m[j]
    <2>1. m \in Seq(AccountSegment)
      BY DEF Segments
    <2>2. /\ c \in Seq(AccountSegment) /\ Len(c) = Len(m) - 1
          /\ \A j \in 1..Len(m) - 1 : c[j] = m[j]
      BY <2>1, FrontOf
    <2> QED BY <2>2 DEF Segments
  <1> HIDE DEF c
  <1>2. Len(m) = Len(c) + 1 /\ \A i \in 1..Len(c) : m[i] = c[i]
    BY <1>1 DEF Segments
  <1>9. Len(c) \in Nat /\ Len(c) <= Len(m) /\ Len(c) <= Len(c)
    BY <1>1 DEF Segments
  <1>3. /\ Funds(c) \in Seq(Int) /\ Funds(m) \in Seq(Int)
        /\ Len(Funds(m)) = Len(Funds(c)) + 1 /\ Len(Funds(m)) = Len(m) /\ Len(Funds(c)) = Len(c)
    BY <1>1, <1>2, FundsOf
  <1>0. /\ Sizes(c) \in Seq(Int) /\ Sizes(m) \in Seq(Int)
        /\ Len(Sizes(m)) = Len(Sizes(c)) + 1 /\ Len(Sizes(m)) = Len(m) /\ Len(Sizes(c)) = Len(c)
    BY <1>1, <1>2, SizesOf
  <1>4. Sum(Funds(m)) = Sum(Funds(c)) + Funds(m)[Len(m)]
    <2>1. \A i \in 1..Len(Funds(c)) : Funds(m)[i] = Funds(c)[i]
      BY <1>1, <1>2, <1>3, <1>9, SamePart
    <2> QED BY <1>3, <2>1, SumLonger
  <1>5. Sum(Sizes(m)) = Sum(Sizes(c)) + Sizes(m)[Len(m)]
    <2>1. \A i \in 1..Len(Sizes(c)) : Sizes(m)[i] = Sizes(c)[i]
      BY <1>0, <1>1, <1>2, <1>9, SamePart
    <2> QED BY <1>0, <2>1, SumLonger
  <1>6. Sum(Funds(c)) \in Int /\ Sum(Sizes(c)) \in Int
    BY <1>1, BalanceIsInt
  <1>7. Funds(m)[Len(m)] \in Int /\ Sizes(m)[Len(m)] \in Int
    BY <1>0, <1>3
  <1>8. /\ Funds(m)[Len(m)] = Last(m).parity + Sum(Last(m).accounts)
        /\ Sizes(m)[Len(m)] = Len(Last(m).accounts)
    BY FundsOf, SizesOf DEF Last
  <1> QED BY <1>1, <1>4, <1>5, <1>6, <1>7, <1>8 DEF c

\* The bounds there are on the constants.
LEMMA Bounds == nbaccounts \in Nat /\ nbaccounts >= 2 /\ init_balance \in Nat /\ init_balance > 0
  BY BankAssumption

\* A segment is its parity and its accounts.
LEMMA SegmentRecord ==
  ASSUME NEW r \in AccountSegment
  PROVE  /\ r.parity \in Int /\ r.accounts \in Seq(Nat) /\ Len(r.accounts) \in Nat
         /\ \A n \in Int : [r EXCEPT !.parity = n] \in AccountSegment
                           /\ [r EXCEPT !.parity = n].parity = n
                           /\ [r EXCEPT !.parity = n].accounts = r.accounts
         /\ \A s \in Seq(Nat) : [r EXCEPT !.accounts = s] \in AccountSegment
                                /\ [r EXCEPT !.accounts = s].parity = r.parity
                                /\ [r EXCEPT !.accounts = s].accounts = s
  BY DEF AccountSegment

\* A memory has a segment at each of its places.
LEMMA SegmentOf ==
  ASSUME NEW m \in Segments, NEW i \in 1..Len(m)
  PROVE  m[i] \in AccountSegment /\ Len(m) \in Nat
  BY DEF Segments

\* A memory of one segment.
LEMMA OneSegment ==
  ASSUME NEW r \in AccountSegment
  PROVE  /\ <<r>> \in Segments /\ Len(<<r>>) = 1
         /\ Sum(Funds(<<r>>)) = r.parity + Sum(r.accounts)
         /\ Sum(Sizes(<<r>>)) = Len(r.accounts)
  <1> DEFINE m == <<r>>
  <1>1. m \in Segments /\ Len(m) = 1 /\ m[1] = r
    BY DEF Segments
  <1> HIDE DEF m
  <1>2. /\ Funds(m) \in Seq(Int) /\ Len(Funds(m)) = 1 /\ Funds(m)[1] = r.parity + Sum(r.accounts)
        /\ Sizes(m) \in Seq(Int) /\ Len(Sizes(m)) = 1 /\ Sizes(m)[1] = Len(r.accounts)
    BY <1>1, FundsOf, SizesOf
  <1>3. ASSUME NEW s \in Seq(Int), Len(s) = 1  PROVE Sum(s) = s[1]
    <2>1. Sums(s)[0] = 0 /\ Sums(s)[1] = Sums(s)[1 - 1] + s[1] /\ s[1] \in Int
      BY <1>3, SumsRule
    <2> QED BY <1>3, <2>1 DEF Sum
  <1> QED BY <1>1, <1>2, <1>3 DEF m

\* A zeroed segment is balanced, and not yet packed.
LEMMA BlankBalanced == Blank \in Segments /\ Balanced(Blank, 0) /\ ~Packed(Blank)
  <1> DEFINE r == [parity |-> 0, accounts |-> <<>>]
  <1>1. r \in AccountSegment /\ r.parity = 0 /\ r.accounts = <<>>
    BY DEF AccountSegment
  <1>2. <<>> \in Seq(Int) /\ Len(<<>>) = 0
    OBVIOUS
  <1>3. Sum(<<>>) = 0
    BY <1>2, SumsRule DEF Sum
  <1>4. Blank = <<r>> /\ Last(Blank) = r
    BY DEF Blank, Last
  <1> HIDE DEF r
  <1>5. Sum(Funds(Blank)) = 0 /\ Sum(Sizes(Blank)) = 0 /\ Blank \in Segments
    BY <1>1, <1>2, <1>3, <1>4, OneSegment
  <1>6. ~Packed(Blank)
    BY <1>1, <1>2, <1>4 DEF Packed
  <1> QED BY <1>5, <1>6, Bounds DEF Balanced

\* The memory that init() leaves is good.
LEMMA FilledGood ==
  /\ Filled \in Segments /\ Good(Filled) /\ Len(Filled) = 1 /\ Filled # Blank
  /\ Filled[1].accounts[1] = init_balance
  <1> DEFINE s == [i \in 1..nbaccounts |-> init_balance]
             r == [parity |-> 0, accounts |-> s]
  <1>1. s \in Seq(Nat) /\ Len(s) = nbaccounts /\ \A i \in 1..Len(s) : s[i] = init_balance
    BY Bounds
  <1>2. s \in Seq(Int) /\ 1 \in 1..Len(s)
    BY <1>1, NatsAreInts, Bounds
  <1> HIDE DEF s
  <1>3. r \in AccountSegment /\ r.parity = 0 /\ r.accounts = s
    BY <1>1 DEF AccountSegment
  <1>4. Filled = <<r>> /\ Last(Filled) = r /\ Filled[1] = r
    BY DEF Filled, Last, s
  <1> HIDE DEF r
  <1>5. Sum(s) = init_balance * nbaccounts
    <2>1. init_balance \in Int
      BY Bounds
    <2>2. Sum(s) = init_balance * Len(s)
      BY <1>1, <1>2, <2>1, SumSame
    <2> QED BY <1>1, <2>2
  <1>6. /\ Filled \in Segments /\ Len(Filled) = 1
        /\ Sum(Funds(Filled)) = 0 + init_balance * nbaccounts /\ Sum(Sizes(Filled)) = nbaccounts
    BY <1>1, <1>3, <1>4, <1>5, OneSegment
  <1>7. init_balance * nbaccounts \in Int
    BY Bounds
  <1>8. Balanced(Filled, 0)
    BY <1>6, <1>7 DEF Balanced
  <1>9. Packed(Filled)
    BY <1>1, <1>3, <1>4, <1>6, Bounds DEF Packed
  <1>10. Filled # Blank
    BY <1>9, BlankBalanced
  <1> QED BY <1>1, <1>2, <1>3, <1>4, <1>6, <1>8, <1>9, <1>10 DEF Good

\* An account is written.
LEMMA AccountWritten ==
  ASSUME NEW m \in Segments, NEW a \in Places(m), NEW n \in Nat
  PROVE  LET c == Paid(m, a, n) IN
         /\ c \in Segments /\ Len(c) = Len(m) /\ Places(c) = Places(m)
         /\ Packed(m) => Packed(c)
         /\ m[a[1]].accounts[a[2]] \in Nat
         /\ Sum(Funds(c)) = Sum(Funds(m)) + n - m[a[1]].accounts[a[2]]
         /\ Sum(Sizes(c)) = Sum(Sizes(m))
  <1> DEFINE i == a[1]
             k == a[2]
             s == m[i].accounts
             t == [s EXCEPT ![k] = n]
             r == [m[i] EXCEPT !.accounts = t]
             c == [m EXCEPT ![i] = r]
  <1>0. i \in 1..Len(m) /\ k \in 1..Len(s)
    BY DEF Places
  <1>1. Paid(m, a, n) = c
    BY Zenon DEF Paid
  <1>2. m[i] \in AccountSegment /\ s \in Seq(Nat)
    BY <1>0, SegmentOf, SegmentRecord
  <1>3. t \in Seq(Nat) /\ Len(t) = Len(s) /\ t[k] = n /\ s[k] \in Nat
        /\ \A j \in 1..Len(s) : j # k => t[j] = s[j]
    BY <1>0, <1>2
  <1> HIDE DEF t
  <1>4. r \in AccountSegment /\ r.accounts = t /\ r.parity = m[i].parity
    BY <1>2, <1>3, SegmentRecord
  <1>5. Sum(t) = Sum(s) + n - s[k]
    <2>1. s \in Seq(Int) /\ t \in Seq(Int)
      BY <1>2, <1>3, NatsAreInts
    <2> HIDE DEF s, k
    <2>2. Sum(t) = Sum(s) + t[k] - s[k]
      BY <1>0, <1>3, <2>1, SumChange
    <2> QED BY <1>3, <2>2
  <1> HIDE DEF r, i, k
  <1>13. c = [m EXCEPT ![i] = r]
    OBVIOUS
  <1> HIDE DEF c
  <1>6. /\ c \in Segments /\ Len(c) = Len(m) /\ c[i] = r
        /\ \A j \in 1..Len(m) : j # i => c[j] = m[j]
        /\ Sum(Funds(c)) = Sum(Funds(m)) + (r.parity + Sum(r.accounts))
                             - (m[i].parity + Sum(m[i].accounts))
        /\ Sum(Sizes(c)) = Sum(Sizes(m)) + Len(r.accounts) - Len(m[i].accounts)
    <2>1. /\ c \in Segments /\ Len(c) = Len(m) /\ c[i] = r
          /\ \A j \in 1..Len(m) : j # i => c[j] = m[j]
      BY <1>0, <1>4, <1>13 DEF Segments
    <2> QED BY <1>0, <2>1, SegmentChanged
  <1>7. \A j \in 1..Len(m) : Len(c[j].accounts) = Len(m[j].accounts)
    BY <1>3, <1>4, <1>6
  <1>8. Places(c) = Places(m)
    BY <1>6, <1>7 DEF Places
  <1>9. Packed(m) => Packed(c)
    BY <1>6, <1>7 DEF Packed, Last, Segments
  <1>10. Sum(Funds(c)) = Sum(Funds(m)) + n - s[k]
    <2>1. m[i].parity \in Int /\ Sum(s) \in Int /\ Sum(Funds(m)) \in Int
      BY <1>2, SegmentRecord, NatsAreInts, SumIsInt, BalanceIsInt
    <2> DEFINE x == Sum(Funds(m))
               p == m[i].parity
               u == Sum(s)
               y == s[k]
    <2>2. Sum(Funds(c)) = x + (p + (u + n - y)) - (p + u) /\ y \in Nat
      BY <1>3, <1>4, <1>5, <1>6
    <2>3. x \in Int /\ p \in Int /\ u \in Int
      BY <2>1
    <2> HIDE DEF x, p, u, y
    <2>4. Sum(Funds(c)) = x + n - y
      BY <2>2, <2>3
    <2> QED BY <2>4 DEF x, y
  <1>11. Sum(Sizes(c)) = Sum(Sizes(m))
    <2>1. Sum(Sizes(m)) \in Int /\ Len(s) \in Nat
      BY <1>2, BalanceIsInt
    <2>2. Sum(Sizes(c)) = Sum(Sizes(m)) + Len(s) - Len(s)
      BY <1>3, <1>4, <1>6
    <2> QED BY <2>1, <2>2
  <1> QED BY <1>1, <1>3, <1>6, <1>8, <1>9, <1>10, <1>11 DEF i, k

\* An account leaves the last segment, which has others.
LEMMA RemovedOne ==
  ASSUME NEW m \in Segments, Good(m), Len(Last(m).accounts) > 1,
         Len(m) = 1 => Len(m[1].accounts) > 2
  PROVE  Removed(m) \in Segments /\ Good(Removed(m))
  <1> DEFINE k == Len(m)
             s == m[k].accounts
             p == m[k].parity + Last(s) - init_balance
             r == [parity |-> p, accounts |-> Front(s)]
             c == [m EXCEPT ![k] = r]
  <1>0. k \in 1..Len(m) /\ k \in Nat /\ Last(m) = m[k] /\ Len(s) > 1
    BY SegmentOf DEF Last, Good, Packed, Segments
  <1>1. Removed(m) = c
    BY <1>0 DEF Removed
  <1>2. m[k] \in AccountSegment /\ s \in Seq(Nat) /\ m[k].parity \in Int /\ s \in Seq(Int)
    BY <1>0, SegmentOf, SegmentRecord, NatsAreInts
  <1>3. Last(s) \in Nat
    BY <1>0, <1>2 DEF Last
  <1>4. Front(s) \in Seq(Nat) /\ Len(Front(s)) = Len(s) - 1 /\ Sum(s) = Sum(Front(s)) + Last(s)
    <2>1. Len(s) >= 1
      BY <1>0, <1>2
    <2>2. Front(s) \in Seq(Nat) /\ Len(Front(s)) = Len(s) - 1
      BY <1>2, <2>1, FrontOf
    <2>3. Sum(s) = Sum(Front(s)) + Last(s)
      BY <1>2, <2>1, SumFront
    <2> QED BY <2>2, <2>3
  <1>5. p \in Int
    BY <1>2, <1>3, Bounds
  <1>6. r \in AccountSegment /\ r.parity = p /\ r.accounts = Front(s)
    BY <1>4, <1>5 DEF AccountSegment
  <1> HIDE DEF r
  <1>10. c = [m EXCEPT ![k] = r]
    OBVIOUS
  <1> HIDE DEF c
  <1>7. /\ c \in Segments /\ Len(c) = Len(m) /\ c[k] = r
        /\ \A j \in 1..Len(m) : j # k => c[j] = m[j]
        /\ Sum(Funds(c)) = Sum(Funds(m)) + (r.parity + Sum(r.accounts))
                             - (m[k].parity + Sum(m[k].accounts))
        /\ Sum(Sizes(c)) = Sum(Sizes(m)) + Len(r.accounts) - Len(m[k].accounts)
    <2>1. /\ c \in Segments /\ Len(c) = Len(m) /\ c[k] = r
          /\ \A j \in 1..Len(m) : j # k => c[j] = m[j]
      BY <1>0, <1>6, <1>10 DEF Segments
    <2> QED BY <1>0, <2>1, SegmentChanged
  <1>8. Balanced(c, 0)
    <2> DEFINE x == Sum(Funds(m))
               y == Sum(Sizes(m))
               q == m[k].parity
               l == Last(s)
               f == Sum(Front(s))
               n == Len(s)
               b == init_balance
    <2>1. /\ x \in Int /\ y \in Int /\ q \in Int /\ l \in Nat /\ n \in Nat /\ b \in Nat
      BY <1>2, <1>3, BalanceIsInt, Bounds
    <2>2. f \in Int
      BY <1>4, NatsAreInts, SumIsInt
    <2>3. x + 0 = b * y
      BY DEF Good, Balanced
    <2>4. Sum(Funds(c)) = x + ((q + l - b) + f) - (q + (f + l))
      BY <1>4, <1>6, <1>7
    <2>5. Sum(Sizes(c)) = y + (n - 1) - n
      BY <1>4, <1>6, <1>7
    <2> HIDE DEF x, y, q, l, f, n, b
    <2>6. Sum(Funds(c)) = x - b /\ Sum(Sizes(c)) = y - 1
      BY <2>1, <2>2, <2>4, <2>5
    <2>7. b * (y - 1) = b * y - b
      BY <2>1
    <2>8. x - b + 0 = b * (y - 1)
      BY <2>1, <2>3, <2>7
    <2>9. Sum(Funds(c)) + 0 = b * Sum(Sizes(c))
      BY <2>6, <2>8
    <2> QED BY <2>9 DEF Balanced, b
  <1>9. Packed(c)
    <2>1. \A j \in 1..Len(c) - 1 : c[j] = m[j]
      BY <1>0, <1>7
    <2>2. \A j \in 1..Len(c) - 1 : Len(c[j].accounts) = nbaccounts
      BY <1>7, <2>1 DEF Good, Packed
    <2>3. Len(Last(c).accounts) = Len(s) - 1 /\ Len(s) \in 1..nbaccounts
      BY <1>0, <1>4, <1>6, <1>7 DEF Good, Packed, Last
    <2>4. Len(c) > 1 \/ Len(c[1].accounts) >= 2
      BY <1>0, <1>2, <1>4, <1>6, <1>7 DEF Good, Packed
    <2> QED BY <1>0, <1>2, <1>7, <2>2, <2>3, <2>4, Bounds DEF Packed
  <1> QED BY <1>1, <1>7, <1>8, <1>9 DEF Good

\* The last account leaves with its segment, and another one keeps the parity.
LEMMA RemovedLast ==
  ASSUME NEW m \in Segments, Good(m), ~(Len(Last(m).accounts) > 1)
  PROVE  Removed(m) \in Segments /\ Good(Removed(m))
  <1> DEFINE k == Len(m)
             s == m[k].accounts
             p == m[k].parity + Last(s) - init_balance
             d == Front(m)
             h == d[k - 1]
             r == [h EXCEPT !.parity = h.parity + p]
             c == [d EXCEPT ![k - 1] = r]
  <1>0. k \in 1..Len(m) /\ k \in Nat /\ Last(m) = m[k]
    BY SegmentOf DEF Last, Good, Packed, Segments
  <1>1. Removed(m) = c
    <2>1. ~(Len(s) > 1)
      BY <1>0
    <2>2. Removed(m) = [d EXCEPT ![k - 1].parity = @ + p]
      BY <2>1 DEF Removed
    <2> QED BY <2>2, Zenon
  <1>2. m[k] \in AccountSegment /\ s \in Seq(Nat) /\ m[k].parity \in Int /\ s \in Seq(Int)
    BY <1>0, SegmentOf, SegmentRecord, NatsAreInts
  <1>3. Len(s) = 1 /\ k >= 2
    <2>1. ~(Len(s) > 1) /\ Len(s) \in 1..nbaccounts /\ (k > 1 \/ Len(m[1].accounts) >= 2)
      BY <1>0 DEF Good, Packed
    <2>2. Len(s) \in Nat
      BY <1>2
    <2>3. CASE k > 1
      <3> HIDE DEF s, k
      <3> QED BY <1>0, <2>1, <2>2, <2>3
    <2>4. CASE ~(k > 1)
      <3>1. k = 1
        BY <1>0, <2>4
      <3> QED BY <2>1, <2>2, <2>4, <3>1
    <2> QED BY <2>3, <2>4
  <1>4. Last(s) = s[1] /\ Last(s) \in Nat /\ Sum(s) = Last(s)
    <2>1. Last(s) = s[1] /\ s[1] \in Nat
      BY <1>2, <1>3 DEF Last
    <2>2. Front(s) \in Seq(Int) /\ Len(Front(s)) = 0 /\ Sum(s) = Sum(Front(s)) + Last(s)
      <3>1. s \in Seq(Int) /\ Len(s) >= 1
        BY <1>2, <1>3
      <3> HIDE DEF s
      <3>2. Front(s) \in Seq(Int) /\ Len(Front(s)) = Len(s) - 1
        BY <3>1, FrontOf
      <3>3. Sum(s) = Sum(Front(s)) + Last(s)
        BY <3>1, SumFront
      <3>4. Len(Front(s)) = 0
        BY <1>3, <3>2
      <3> QED BY <3>2, <3>3, <3>4
    <2>3. Sum(Front(s)) = 0
      BY <2>2, SumsRule DEF Sum
    <2> QED BY <2>1, <2>2, <2>3
  <1>5. p \in Int
    BY <1>2, <1>4, Bounds
  <1>6. /\ d \in Segments /\ Len(d) = k - 1 /\ \A j \in 1..Len(d) : d[j] = m[j]
        /\ Sum(Funds(d)) = Sum(Funds(m)) - (m[k].parity + Sum(s))
        /\ Sum(Sizes(d)) = Sum(Sizes(m)) - Len(s)
    BY <1>0, SegmentDropped
  <1> HIDE DEF d
  <1>7. k - 1 \in 1..Len(d) /\ h = m[k - 1] /\ Len(h.accounts) = nbaccounts
    <2>1. k - 1 \in 1..Len(d) /\ k - 1 \in 1..Len(m) - 1
      BY <1>0, <1>3, <1>6
    <2> QED BY <1>6, <2>1 DEF Good, Packed
  <1>8. h \in AccountSegment /\ h.parity \in Int /\ h.accounts \in Seq(Nat)
    BY <1>6, <1>7, SegmentOf, SegmentRecord
  <1> DEFINE n == h.parity + p
  <1>9. n \in Int
    BY <1>5, <1>8
  <1>10. r \in AccountSegment /\ r.parity = n /\ r.accounts = h.accounts
    <2> HIDE DEF n, h
    <2> QED BY <1>8, <1>9, SegmentRecord DEF n
  <1> HIDE DEF r
  <1>14. c = [d EXCEPT ![k - 1] = r]
    OBVIOUS
  <1> HIDE DEF c
  <1>11. /\ c \in Segments /\ Len(c) = Len(d) /\ c[k - 1] = r
         /\ \A j \in 1..Len(d) : j # k - 1 => c[j] = d[j]
         /\ Sum(Funds(c)) = Sum(Funds(d)) + (r.parity + Sum(r.accounts))
                              - (d[k - 1].parity + Sum(d[k - 1].accounts))
         /\ Sum(Sizes(c)) = Sum(Sizes(d)) + Len(r.accounts) - Len(d[k - 1].accounts)
    <2>1. /\ c \in Segments /\ Len(c) = Len(d) /\ c[k - 1] = r
          /\ \A j \in 1..Len(d) : j # k - 1 => c[j] = d[j]
      BY <1>6, <1>7, <1>10, <1>14 DEF Segments
    <2> QED BY <1>6, <1>7, <2>1, SegmentChanged
  <1>12. Balanced(c, 0)
    <2> DEFINE x == Sum(Funds(m))
               y == Sum(Sizes(m))
               q == m[k].parity
               l == Last(s)
               g == h.parity
               f == Sum(h.accounts)
               z == Len(h.accounts)
               b == init_balance
    <2>1. x \in Int /\ y \in Int /\ q \in Int /\ l \in Nat /\ g \in Int /\ z \in Nat /\ b \in Nat
      BY <1>2, <1>4, <1>8, BalanceIsInt, Bounds
    <2>2. f \in Int
      BY <1>8, NatsAreInts, SumIsInt
    <2>3. x + 0 = b * y
      BY DEF Good, Balanced
    <2>4. Sum(Funds(c)) = (x - (q + l)) + ((g + (q + l - b)) + f) - (g + f)
      BY <1>4, <1>6, <1>10, <1>11
    <2>5. Sum(Sizes(c)) = (y - 1) + z - z
      BY <1>3, <1>6, <1>10, <1>11
    <2> HIDE DEF x, y, q, l, f, g, z, b
    <2>6. Sum(Funds(c)) = x - b /\ Sum(Sizes(c)) = y - 1
      BY <2>1, <2>2, <2>4, <2>5
    <2>7. b * (y - 1) = b * y - b
      BY <2>1
    <2>8. x - b + 0 = b * (y - 1)
      BY <2>1, <2>3, <2>7
    <2>9. Sum(Funds(c)) + 0 = b * Sum(Sizes(c))
      BY <2>6, <2>8
    <2> QED BY <2>9 DEF Balanced, b
  <1>13. Packed(c)
    <2>1. \A j \in 1..Len(c) : Len(c[j].accounts) = nbaccounts
      <3> SUFFICES ASSUME NEW j \in 1..Len(c)  PROVE Len(c[j].accounts) = nbaccounts
        OBVIOUS
      <3>1. CASE j = k - 1
        BY <1>7, <1>10, <1>11, <3>1
      <3>2. CASE j # k - 1
        <4>1. j \in 1..Len(m) - 1 /\ c[j] = m[j]
          BY <1>0, <1>6, <1>11, <3>2
        <4> QED BY <4>1 DEF Good, Packed
      <3> QED BY <3>1, <3>2
    <2>2. Len(c) >= 1 /\ Len(c) \in Nat
      BY <1>0, <1>3, <1>6, <1>11
    <2>3. Last(c) = c[Len(c)] /\ Len(c) \in 1..Len(c) /\ 1 \in 1..Len(c)
      BY <2>2 DEF Last
    <2> QED BY <2>1, <2>2, <2>3, Bounds DEF Packed
  <1> QED BY <1>1, <1>11, <1>12, <1>13 DEF Good

\* An account is added, in the last segment or in a new one.
LEMMA AddedGood ==
  ASSUME NEW m \in Segments, Good(m)
  PROVE  Added(m) \in Segments /\ Good(Added(m))
  <1> DEFINE k == Len(m)
             b == init_balance
             x == Sum(Funds(m))
             y == Sum(Sizes(m))
  <1>0. k \in 1..Len(m) /\ k \in Nat /\ Last(m) = m[k]
    BY SegmentOf DEF Last, Good, Packed, Segments
  <1>2. m[k] \in AccountSegment /\ m[k].accounts \in Seq(Nat) /\ m[k].parity \in Int
        /\ m[k].accounts \in Seq(Int) /\ b \in Nat
    BY <1>0, SegmentOf, SegmentRecord, NatsAreInts, Bounds
  <1>3. ASSUME NEW c, Sum(Funds(c)) = x + b, Sum(Sizes(c)) = y + 1  PROVE Balanced(c, 0)
    <2>1. x \in Int /\ y \in Int /\ x + 0 = b * y
      BY BalanceIsInt DEF Good, Balanced
    <2> HIDE DEF x, y, b
    <2>2. b * (y + 1) = b * y + b
      BY <1>2, <2>1
    <2>3. x + b + 0 = b * (y + 1)
      BY <1>2, <2>1, <2>2
    <2>4. Sum(Funds(c)) + 0 = b * Sum(Sizes(c))
      BY <1>3, <2>3
    <2> QED BY <2>4 DEF Balanced, b
  <1>1. CASE Full(m)
    <2> DEFINE r == [parity |-> 0, accounts |-> <<b>>]
               c == Append(m, r)
    <2>1. Added(m) = c
      BY <1>1 DEF Added
    <2>2. r \in AccountSegment /\ r.parity = 0 /\ r.accounts = <<b>> /\ Len(<<b>>) = 1
      BY <1>2 DEF AccountSegment
    <2>3. Sum(<<b>>) = b
      <3>1. <<>> \in Seq(Int) /\ Len(<<>>) = 0 /\ Append(<<>>, b) = <<b>>
        BY <1>2
      <3>2. Sum(Append(<<>>, b)) = Sum(<<>>) + b
        <4>1. b \in Int
          BY <1>2
        <4> HIDE DEF b
        <4> QED BY <3>1, <4>1, SumAppend
      <3>3. Sum(<<>>) = 0
        BY <3>1, SumsRule DEF Sum
      <3> QED BY <1>2, <3>1, <3>2, <3>3
    <2> HIDE DEF r
    <2>4. /\ c \in Segments /\ Len(c) = Len(m) + 1 /\ c[Len(m) + 1] = r
          /\ \A j \in 1..Len(m) : c[j] = m[j]
          /\ Sum(Funds(c)) = Sum(Funds(m)) + (r.parity + Sum(r.accounts))
          /\ Sum(Sizes(c)) = Sum(Sizes(m)) + Len(r.accounts)
      BY <2>2, SegmentAppended
    <2> HIDE DEF c
    <2>5. Sum(Funds(c)) = x + b /\ Sum(Sizes(c)) = y + 1
      BY <1>2, <2>2, <2>3, <2>4
    <2>6. Packed(c)
      <3>1. Len(m[k].accounts) = nbaccounts
        <4>1. Len(m[k].accounts) >= nbaccounts /\ Len(m[k].accounts) \in 1..nbaccounts
          BY <1>0, <1>1 DEF Good, Packed, Full
        <4>2. Len(m[k].accounts) \in Nat
          BY <1>2
        <4> HIDE DEF k
        <4> QED BY <4>1, <4>2, Bounds
      <3>2. \A j \in 1..Len(c) - 1 : Len(c[j].accounts) = nbaccounts
        <4> SUFFICES ASSUME NEW j \in 1..Len(m)  PROVE Len(c[j].accounts) = nbaccounts
          BY <1>0, <2>4
        <4> QED BY <1>0, <2>4, <3>1 DEF Good, Packed
      <3>3. Last(c) = r /\ Len(c) > 1
        BY <1>0, <2>4 DEF Last
      <3>4. Len(r.accounts) \in 1..nbaccounts
        BY <2>2, Bounds
      <3> QED BY <3>2, <3>3, <3>4 DEF Packed
    <2> QED BY <1>3, <2>1, <2>4, <2>5, <2>6 DEF Good
  <1>4. CASE ~Full(m)
    <2> DEFINE s == m[k].accounts
               t == Append(s, b)
               r == [m[k] EXCEPT !.accounts = t]
               c == [m EXCEPT ![k] = r]
    <2>1. Added(m) = c
      <3>1. Added(m) = [m EXCEPT ![k].accounts = Append(@, b)]
        BY <1>4 DEF Added
      <3> QED BY <3>1, Zenon
    <2>2. t \in Seq(Nat) /\ Len(t) = Len(s) + 1
      BY <1>2
    <2>3. Sum(t) = Sum(s) + b
      BY <1>2, SumAppend
    <2> HIDE DEF t
    <2>4. r \in AccountSegment /\ r.accounts = t /\ r.parity = m[k].parity
      BY <1>2, <2>2, SegmentRecord
    <2> HIDE DEF r
    <2>8. c = [m EXCEPT ![k] = r]
      OBVIOUS
    <2> HIDE DEF c
    <2>5. /\ c \in Segments /\ Len(c) = Len(m) /\ c[k] = r
          /\ \A j \in 1..Len(m) : j # k => c[j] = m[j]
          /\ Sum(Funds(c)) = Sum(Funds(m)) + (r.parity + Sum(r.accounts))
                               - (m[k].parity + Sum(m[k].accounts))
          /\ Sum(Sizes(c)) = Sum(Sizes(m)) + Len(r.accounts) - Len(m[k].accounts)
      <3>1. /\ c \in Segments /\ Len(c) = Len(m) /\ c[k] = r
            /\ \A j \in 1..Len(m) : j # k => c[j] = m[j]
        BY <1>0, <2>4, <2>8 DEF Segments
      <3> QED BY <1>0, <3>1, SegmentChanged
    <2>6. Sum(Funds(c)) = x + b /\ Sum(Sizes(c)) = y + 1
      <3> DEFINE q == m[k].parity
                 f == Sum(s)
                 n == Len(s)
      <3>1. q \in Int /\ n \in Nat /\ b \in Nat
        BY <1>2
      <3>2. f \in Int /\ x \in Int /\ y \in Int
        BY <1>2, SumIsInt, BalanceIsInt
      <3>3. Sum(Funds(c)) = x + (q + (f + b)) - (q + f) /\ Sum(Sizes(c)) = y + (n + 1) - n
        BY <2>2, <2>3, <2>4, <2>5
      <3> HIDE DEF q, f, n, x, y, b
      <3> QED BY <3>1, <3>2, <3>3
    <2>7. Packed(c)
      <3>1. Len(s) < nbaccounts /\ Len(s) >= 1
        <4>1. ~(Len(s) >= nbaccounts) /\ Len(s) \in 1..nbaccounts
          BY <1>0, <1>4 DEF Good, Packed, Full
        <4>2. Len(s) \in Nat
          BY <1>2
        <4> HIDE DEF s
        <4> QED BY <4>1, <4>2, Bounds
      <3>2. \A j \in 1..Len(c) - 1 : c[j] = m[j]
        BY <1>0, <2>5
      <3>3. Last(c) = r
        BY <2>5 DEF Last
      <3>4. Len(r.accounts) \in 1..nbaccounts
        BY <1>2, <2>2, <2>4, <3>1, Bounds
      <3>5. Len(c) >= 1 /\ \A j \in 1..Len(c) - 1 : Len(c[j].accounts) = nbaccounts
        BY <1>0, <2>5, <3>2 DEF Good, Packed
      <3>6. Len(c) > 1 \/ Len(c[1].accounts) >= 2
        <4>1. CASE Len(m) > 1
          BY <2>5, <4>1
        <4>2. CASE ~(k > 1)
          <5>1. k = 1
            <6>1. k >= 1 /\ k \in Nat
              BY <1>0
            <6> HIDE DEF k
            <6> QED BY <4>2, <6>1
          <5>2. Len(m[1].accounts) >= 2
            BY <4>2 DEF Good, Packed
          <5>3. Len(c[1].accounts) = Len(m[1].accounts) + 1 /\ Len(m[1].accounts) \in Nat
            BY <1>2, <2>2, <2>4, <2>5, <5>1
          <5> QED BY <5>2, <5>3
        <4> QED BY <4>1, <4>2
      <3> QED BY <3>3, <3>4, <3>5, <3>6 DEF Packed
    <2> QED BY <1>3, <2>1, <2>5, <2>6, <2>7 DEF Good
  <1> QED BY <1>1, <1>4

-----------------------------------------------------------------------------
(* What a step of worker w has to show. *)

\* What BankTypeOK says of the library, and of the variables of run().
LibTyped ==
  /\ lib \in {"reference", "tested"} /\ mem \in Segments /\ open \subseteq Workers
  /\ before \in [Workers -> Segments] /\ view \in [Workers -> Segments]
  /\ fails \in 0..MaxFails /\ misused \in BOOLEAN
RunTyped ==
  /\ args \in [Workers -> Nat \X Nat]
  /\ count \in [Workers -> Nat \ {0}] /\ cntr \in [Workers -> 0..nbtxperwrk]
  /\ error \in [Workers -> BOOLEAN]

\* Worker w is at p now, in job j, and r is its Transaction object.
Updates(w, p, j, r) ==
  /\ pc' = [pc EXCEPT ![w] = p] /\ job' = [job EXCEPT ![w] = j]
  /\ tx' = [tx EXCEPT ![w] = r]

\* Jobs that go with a place in the code.
InPlace(p, j) ==
  /\ p = "next" => j = "run"
  /\ p \in {"begin", "body", "destroy"} => j # "run"
  /\ p \in {"debit", "credit", "again"} => j = "short"

\* A memory that a worker has is one.
LEMMA MemoryTyped ==
  ASSUME BankTypeOK, NEW w \in Workers
  PROVE  Memory(w) \in Segments
  BY DEF BankTypeOK, Memory

\* What the variables are of the worker, and of the others.
LEMMA UpdatesAt ==
  ASSUME BankTypeOK, NEW w \in Workers, NEW p, NEW j, NEW r, Updates(w, p, j, r)
  PROVE  /\ pc'[w] = p /\ job'[w] = j /\ tx'[w] = r
         /\ \A v \in Workers : v # w => pc'[v] = pc[v] /\ job'[v] = job[v] /\ tx'[v] = tx[v]
         /\ p \in BankLabels /\ j \in Jobs /\ r \in Transactions =>
              /\ pc' \in [Workers -> BankLabels] /\ job' \in [Workers -> Jobs]
              /\ tx' \in [Workers -> Transactions]
  BY DEF BankTypeOK, Updates

\* A step preserves the invariant if it keeps the others' memories, and what it
\* does itself fits.
LEMMA StepKeeps ==
  ASSUME MoneyInv, BankInv', NEW w \in Workers, NEW p \in BankLabels, NEW j \in Jobs,
         NEW r \in Transactions, Updates(w, p, j, r), InPlace(p, j), j # "short" => r.ret,
         LibTyped', RunTyped', NeverAccused', MemoryGood',
         \A v \in open' : v # w => v \in open /\ Memory(v)' = Memory(v),
         w \in open' => Sees(Memory(w)', p, j) /\ Knows(Memory(w)', p, j, r)
  PROVE  MoneyInv'
  <1>0. BankTypeOK
    BY DEF MoneyInv
  <1>1. /\ pc'[w] = p /\ job'[w] = j /\ tx'[w] = r
        /\ \A v \in Workers : v # w => pc'[v] = pc[v] /\ job'[v] = job[v] /\ tx'[v] = tx[v]
        /\ pc' \in [Workers -> BankLabels] /\ job' \in [Workers -> Jobs]
        /\ tx' \in [Workers -> Transactions]
    BY <1>0, UpdatesAt, Zenon
  <1>2. BankTypeOK'
    BY <1>1, Zenon DEF BankTypeOK, LibTyped, RunTyped
  <1>3. JobsInPlace'
    BY <1>1 DEF MoneyInv, JobsInPlace, InPlace
  <1>4. AnswersTrue'
    BY <1>1 DEF MoneyInv, AnswersTrue
  <1>5. ASSUME NEW v \in open'  PROVE Served(v)'
    <2>1. v \in Workers
      BY <1>2 DEF BankTypeOK
    <2>2. CASE v = w
      BY <1>1, <2>2 DEF Served
    <2>3. CASE v # w
      <3>1. v \in open /\ Memory(v)' = Memory(v)
        BY <2>3
      <3>2. Served(v)
        BY <3>1 DEF MoneyInv
      <3> QED BY <1>1, <2>1, <2>3, <3>1, <3>2 DEF Served
    <2> QED BY <2>2, <2>3
  <1> QED BY <1>2, <1>3, <1>4, <1>5 DEF MoneyInv

\* A worker in its closure sees a memory.
LEMMA Inside ==
  ASSUME MoneyInv, NEW w \in Workers, pc[w] \in InClosure
  PROVE  /\ w \in open /\ BankTypeOK /\ Memory(w) \in Segments /\ tx[w] \in Transactions
         /\ job[w] \in Jobs /\ job[w] # "run" /\ InPlace(pc[w], job[w])
         /\ Sees(Memory(w), pc[w], job[w]) /\ Knows(Memory(w), pc[w], job[w], tx[w])
  <1>1. BankTypeOK /\ BankInv /\ JobsInPlace
    BY DEF MoneyInv
  <1>2. w \in open
    BY <1>1, InsideOpen
  <1>3. Served(w)
    BY <1>2 DEF MoneyInv
  <1>4. tx[w] \in Transactions /\ job[w] \in Jobs
    BY <1>1 DEF BankTypeOK
  <1>5. InPlace(pc[w], job[w]) /\ job[w] # "run"
    BY <1>1 DEF JobsInPlace, InPlace, InClosure
  <1> QED BY <1>1, <1>2, <1>3, <1>4, <1>5, MemoryTyped DEF Served

-----------------------------------------------------------------------------
(* What a step does to the memory. *)

\* The committed memory stays, and no job is changed.
LEMMA QuietMemory ==
  ASSUME MoneyInv, UNCHANGED <<lib, mem, job>>, Settled' => Settled,
         lib = "tested" => \A v \in open' : before'[v] = IF v \in open THEN before[v] ELSE mem
  PROVE  MemoryGood'
  <1>1. MemoryGood /\ open \subseteq Workers
    BY DEF MoneyInv, BankTypeOK
  <1>2. AllInitialized' <=> AllInitialized
    BY DEF AllInitialized, Initialized
  <1>3. mem' = Blank => \A v \in Workers :
          job'[v] = "init" /\ (lib' = "tested" /\ v \in open' => before'[v] = Blank)
    BY <1>1 DEF MemoryGood
  <1> QED BY <1>1, <1>2, <1>3 DEF MemoryGood

\* A step of the closure that leaves memory alone.
LEMMA ClosureGoesOn ==
  ASSUME MoneyInv, BankInv', NEW w \in Workers, pc[w] \in InClosure,
         UNCHANGED <<lib, mem, open, before, view, misused>>, fails' \in 0..MaxFails,
         NEW p \in BankLabels, NEW r \in Transactions, Updates(w, p, job[w], r),
         InPlace(p, job[w]), job[w] # "short" => r.ret, RunTyped', UNCHANGED error,
         Sees(Memory(w), p, job[w]) /\ Knows(Memory(w), p, job[w], r)
  PROVE  MoneyInv'
  <1>0. BankTypeOK /\ job[w] \in Jobs
    BY Inside
  <1>1. job' = job
    BY <1>0 DEF Updates, BankTypeOK
  <1>2. LibTyped'
    BY <1>0 DEF BankTypeOK, LibTyped
  <1>3. MemoryGood'
    BY <1>1, QuietMemory DEF Settled, is_ro
  <1>4. NeverAccused'
    BY DEF MoneyInv, NeverAccused
  <1>5. \A v : Memory(v)' = Memory(v)
    BY DEF Memory
  <1> QED BY <1>0, <1>2, <1>3, <1>4, <1>5, StepKeeps

\* A step of the closure that writes: the others do not see it.
LEMMA ClosureWrites ==
  ASSUME MoneyInv, BankInv', NEW w \in Workers, pc[w] \in InClosure, ~is_ro(w),
         NEW m \in Segments, m # Blank, LibWrite(w, m), job[w] = "init" => m = Filled,
         NEW p \in BankLabels, NEW r \in Transactions, Updates(w, p, job[w], r),
         InPlace(p, job[w]), job[w] # "short" => r.ret, UNCHANGED <<args, count, cntr, error>>,
         Sees(m, p, job[w]) /\ Knows(m, p, job[w], r)
  PROVE  MoneyInv'
  <1>0. /\ BankTypeOK /\ job[w] \in Jobs /\ w \in open /\ job[w] # "run" /\ MemoryGood
        /\ LockExclusive
    BY Inside DEF MoneyInv, BankInv
  <1>1. job' = job /\ open' = open /\ lib' = lib /\ before' = before
    BY <1>0 DEF Updates, BankTypeOK, LibWrite
  <1>2. LibTyped'
    BY <1>0 DEF BankTypeOK, LibTyped, LibWrite
  <1>3. RunTyped' /\ NeverAccused'
    BY <1>0 DEF MoneyInv, BankTypeOK, RunTyped, NeverAccused
  <1>4. Memory(w)' = m
    BY <1>0 DEF Memory, LibWrite, BankTypeOK
  <1>5. \A v \in open' : v # w => v \in open /\ Memory(v)' = Memory(v)
    <2>1. CASE lib = "tested"
      BY <1>0, <1>1, <2>1 DEF Memory, LibWrite, BankTypeOK
    <2>2. CASE lib = "reference"
      BY <1>0, <1>1, <2>2 DEF LockExclusive
    <2> QED BY <1>0, <2>1, <2>2 DEF BankTypeOK
  <1>6. MemoryGood'
    <2>1. CASE lib = "tested"
      <3>1. mem' = mem
        BY <2>1 DEF LibWrite
      <3> QED BY <1>1, <2>1, <3>1, QuietMemory DEF Settled
    <2>2. CASE lib = "reference"
      <3>1. mem' = m /\ ~Settled'
        BY <1>0, <1>1, <2>2 DEF LibWrite, Settled, is_ro
      <3>2. ~AllInitialized' => m = Filled /\ \A v \in Workers : job'[v] \notin RunJobs
        <4>1. job[w] \notin RunJobs => job[w] = "init"
          BY <1>0 DEF RunJobs, Jobs, is_ro
        <4> QED BY <1>0, <1>1, <4>1 DEF AllInitialized, Initialized, MemoryGood
      <3> QED BY <3>1, <3>2 DEF MemoryGood
    <2> QED BY <1>0, <2>1, <2>2 DEF BankTypeOK
  <1> QED BY <1>0, <1>2, <1>3, <1>4, <1>5, <1>6, StepKeeps

\* A good memory is not the blank one.
LEMMA NotBlank ==
  ASSUME NEW m, Packed(m)
  PROVE  m # Blank
  BY BlankBalanced

\* The memory that a transaction begins with.
LEMMA BeginsWell ==
  ASSUME MoneyInv, Settled, NEW j \in Jobs, NEW w \in Workers, job[w] = j, j # "run"
  PROVE  Sees(mem, "body", j) /\ Knows(mem, "body", j, NewTx)
  <1>1. MemoryGood /\ mem \in Segments
    BY DEF MoneyInv, BankTypeOK
  <1>2. j \in RunJobs => Good(mem)
    BY <1>1 DEF MemoryGood
  <1>3. j = "init" \/ j = "init_check" => mem \in {Blank, Filled}
    BY <1>1 DEF MemoryGood, AllInitialized, Initialized
  <1>4. j = "init_check" => mem = Filled
    BY <1>1, <1>3 DEF MemoryGood
  <1>5. Sees(mem, "body", j)
    BY <1>2, <1>3, <1>4 DEF Sees, Good, RunJobs
  <1>6. Len(mem) \in Nat /\ Len(mem) >= 1
    <2>1. Len(Blank) = 1
      BY DEF Blank
    <2>2. j \in RunJobs \cup {"init", "init_check"}
      BY DEF Jobs, RunJobs
    <2>3. mem \in {Blank, Filled} \/ Good(mem)
      BY <1>2, <1>3, <2>2
    <2>4. Len(mem) \in Nat
      BY <1>1 DEF Segments
    <2> QED BY <2>1, <2>3, <2>4, FilledGood DEF Good, Packed
  <1>7. Sums(Funds(mem))[0] = 0 /\ Sums(Sizes(mem))[0] = 0
    BY <1>1, FundsOf, SizesOf, SumsRule
  <1> QED BY <1>5, <1>6, <1>7 DEF Knows, NewTx

-----------------------------------------------------------------------------
(* Assignments to fields of a Transaction object. *)

\* A new object is one, and its closure has not returned FALSE.
LEMMA NewTyped == NewTx \in Transactions /\ NewTx.ret = TRUE
  BY DEF NewTx, Transactions, NULL

\* A closure that returns leaves an object.
LEMMA RetTyped ==
  ASSUME NEW f \in Transactions, NEW x \in BOOLEAN
  PROVE  LET r == [f EXCEPT !.ret = x] IN r \in Transactions /\ r.ret = x
  BY DEF Transactions

\* So does an exception, ...
LEMMA ThrownTyped ==
  ASSUME NEW f \in Transactions, NEW x \in {"none", "retry", "nomem"}
  PROVE  LET r == [f EXCEPT !.thrown = x] IN r \in Transactions /\ r.ret = f.ret
  BY DEF Transactions

\* ... and a call that fails.
LEMMA FailedTyped ==
  ASSUME NEW f \in Transactions
  PROVE  LET r == [f EXCEPT !.aborted = TRUE, !.thrown = "retry"]
         IN  r \in Transactions /\ r.ret = f.ret
  BY DEF Transactions

-----------------------------------------------------------------------------
(* The actions. *)

\* The constructor.
LEMMA BeginMoney ==
  ASSUME MoneyInv, BankInv', NEW w \in Workers, Begin(w)
  PROVE  MoneyInv'
  <1>0. /\ BankTypeOK /\ BankInv /\ JobsInPlace /\ job[w] \in Jobs
        /\ pc[w] = "begin" /\ job[w] # "run" /\ w \notin open
    BY DEF MoneyInv, BankTypeOK, JobsInPlace, BankInv, OpenExact, AbortedLate, Ending, Begin, Goto
  <1>1. Settled
    BY <1>0 DEF Begin, LibBegin, Acquire, Settled, BankTypeOK
  <1>2. Sees(mem, "body", job[w]) /\ Knows(mem, "body", job[w], NewTx)
    BY <1>0, <1>1, BeginsWell
  <1>3. Updates(w, "body", job[w], NewTx)
    BY <1>0 DEF Updates, Begin, Goto, BankTypeOK
  <1>4. LibTyped' /\ RunTyped' /\ NeverAccused'
    <2>1. LibTyped'
      <3>1. /\ UNCHANGED <<lib, mem, fails, misused>> /\ open' = open \cup {w}
            /\ before' = before \/ before' = [before EXCEPT ![w] = mem]
            /\ view' = view \/ view' = [view EXCEPT ![w] = mem]
        BY DEF Begin, LibBegin
      <3> QED BY <1>0, <3>1 DEF LibTyped, BankTypeOK
    <2>2. RunTyped' /\ NeverAccused'
      BY <1>0 DEF Begin, RunTyped, runVars, BankTypeOK, MoneyInv, NeverAccused
    <2> QED BY <2>1, <2>2
  <1>5. Memory(w)' = mem
    BY <1>0 DEF Begin, LibBegin, Memory, BankTypeOK
  <1>6. \A v \in open' : v # w => v \in open /\ Memory(v)' = Memory(v)
    BY <1>0 DEF Begin, LibBegin, Memory, BankTypeOK
  <1>7. MemoryGood'
    <2>1. UNCHANGED <<lib, mem, job>> /\ (Settled' => Settled)
      BY <1>1 DEF Begin, LibBegin
    <2>2. lib = "tested" => \A v \in open' : before'[v] = IF v \in open THEN before[v] ELSE mem
      BY <1>0 DEF Begin, LibBegin, BankTypeOK
    <2> QED BY <2>1, <2>2, QuietMemory
  <1>8. InPlace("body", job[w]) /\ "body" \in BankLabels
    BY <1>0 DEF InPlace, BankLabels
  <1> QED BY <1>0, <1>2, <1>3, <1>4, <1>5, <1>6, <1>7, <1>8, NewTyped, StepKeeps

\* A worker that is not in a transaction, and begins none, leaves memory alone.
LEMMA OutsideGoesOn ==
  ASSUME MoneyInv, BankInv', NEW w \in Workers, w \notin open,
         UNCHANGED <<lib, mem, open, before, view, misused, error>>, fails' \in 0..MaxFails,
         NEW p \in BankLabels, NEW j \in Jobs, NEW r \in Transactions, Updates(w, p, j, r),
         InPlace(p, j), j # "short" => r.ret, RunTyped', MemoryGood'
  PROVE  MoneyInv'
  <1>0. BankTypeOK
    BY DEF MoneyInv
  <1>1. LibTyped' /\ NeverAccused'
    BY <1>0 DEF BankTypeOK, LibTyped, MoneyInv, NeverAccused
  <1>2. \A v : Memory(v)' = Memory(v)
    BY DEF Memory
  <1> QED BY <1>1, <1>2, StepKeeps

\* The constructor throws, or the worker is dismissed.
LEMMA LeaveMoney ==
  ASSUME MoneyInv, BankInv', NEW w \in Workers, BeginThrows(w) \/ Dismissed(w)
  PROVE  MoneyInv'
  <1>0. BankTypeOK /\ BankInv /\ AnswersTrue
    BY DEF MoneyInv
  <1>1. /\ UNCHANGED <<lib, mem, open, before, view, misused, error, job, args, tx, count, cntr>>
        /\ fails' \in 0..MaxFails /\ pc[w] \in {"begin", "next"} /\ pc' = [pc EXCEPT ![w] = "gone"]
    <2>1. fails' = fails \/ (fails < MaxFails /\ fails' = fails + 1)
      BY Zenon DEF BeginThrows, Dismissed, libVars
    <2>2. fails \in 0..MaxFails /\ MaxFails \in Nat
      BY <1>0, BankAssumption DEF BankTypeOK
    <2>3. fails' \in 0..MaxFails
      BY <2>1, <2>2
    <2> QED BY <2>3 DEF BeginThrows, Dismissed, Goto, libVars, runVars
  <1>2. w \notin open
    BY <1>0, <1>1 DEF BankInv, OpenExact, AbortedLate, Ending
  <1>3. Updates(w, "gone", job[w], tx[w]) /\ tx[w] \in Transactions /\ job[w] \in Jobs
    BY <1>0, <1>1 DEF Updates, BankTypeOK
  <1>4. RunTyped'
    BY <1>0, <1>1 DEF BankTypeOK, RunTyped
  <1>5. MemoryGood'
    BY <1>1, QuietMemory DEF Settled, is_ro
  <1>6. InPlace("gone", job[w]) /\ "gone" \in BankLabels /\ (job[w] # "short" => tx[w].ret)
    BY <1>0 DEF InPlace, BankLabels, AnswersTrue
  <1> QED BY <1>1, <1>2, <1>3, <1>4, <1>5, <1>6, OutsideGoesOn

\* All have initialized, and the next transaction is chosen.
LEMMA ChooseMoney ==
  ASSUME MoneyInv, BankInv', NEW w \in Workers,
         Choose(w) \/ \E a \in Accounts(w) \X Accounts(w) : Draw(w, a)
  PROVE  MoneyInv'
  <1>0. BankTypeOK /\ BankInv /\ AnswersTrue /\ JobsInPlace /\ MemoryGood
    BY DEF MoneyInv
  <1>1. PICK j \in RunJobs :
          /\ job' = [job EXCEPT ![w] = j] /\ pc' = [pc EXCEPT ![w] = "begin"]
          /\ (j = "short" \/ job[w] = "run")
    <2>1. CASE Choose(w)
      BY <1>0, <2>1 DEF Choose, Call, Goto, RunJobs, JobsInPlace
    <2>2. CASE \E a \in Accounts(w) \X Accounts(w) : Draw(w, a)
      BY <2>2 DEF Draw, Call, Goto, RunJobs
    <2> QED BY <2>1, <2>2
  <1>2. UNCHANGED <<lib, mem, open, before, view, misused, error, fails, tx, count>>
    BY DEF Choose, Draw, Call, libVars
  <1>3. w \notin open
    BY <1>0 DEF Choose, Draw, Goto, BankInv, OpenExact, AbortedLate, Ending
  <1>4. Updates(w, "begin", j, tx[w]) /\ tx[w] \in Transactions /\ j \in Jobs
    BY <1>0, <1>1, <1>2 DEF Updates, BankTypeOK, RunJobs, Jobs
  <1>5. args' \in [Workers -> Nat \X Nat] /\ cntr' \in [Workers -> 0..nbtxperwrk]
    <2>1. Accounts(w) \subseteq Nat /\ Triggers \subseteq Nat /\ nbtxperwrk \in Nat
      BY <1>0, BankAssumption DEF Accounts, BankTypeOK
    <2>2. PICK a \in Nat \X Nat : args' = [args EXCEPT ![w] = a]
      BY <2>1 DEF Choose, Draw, Call
    <2>3. cntr' = cntr \/ (cntr[w] # nbtxperwrk /\ cntr' = [cntr EXCEPT ![w] = @ + 1])
      BY DEF Choose, Draw
    <2>4. args' \in [Workers -> Nat \X Nat]
      BY <1>0, <2>2 DEF BankTypeOK
    <2>5. cntr \in [Workers -> 0..nbtxperwrk] /\ cntr[w] \in 0..nbtxperwrk
      BY <1>0 DEF BankTypeOK
    <2>6. cntr[w] # nbtxperwrk => cntr[w] + 1 \in 0..nbtxperwrk
      BY <2>1, <2>5
    <2> QED BY <2>3, <2>4, <2>5, <2>6
  <1>6. RunTyped'
    BY <1>0, <1>2, <1>5 DEF BankTypeOK, RunTyped
  <1>7. AllInitialized /\ AllInitialized'
    <2>1. CASE Choose(w)
      BY <1>0, <1>1, <2>1 DEF Choose, AllInitialized, Initialized, RunJobs, BankTypeOK
    <2>2. CASE \E a \in Accounts(w) \X Accounts(w) : Draw(w, a)
      <3>1. job[w] = "short"
        BY <1>0, <2>2 DEF Draw, Goto, JobsInPlace
      <3>2. AllInitialized
        BY <1>0, <3>1 DEF MemoryGood, RunJobs
      <3> QED BY <1>0, <1>1, <3>2 DEF AllInitialized, Initialized, RunJobs, BankTypeOK
    <2> QED BY <2>1, <2>2
  <1>8. MemoryGood'
    <2>1. mem # Blank
      BY <1>0, <1>7 DEF MemoryGood, AllInitialized, Initialized
    <2>2. Settled' => Settled
      BY <1>0, <1>1, <1>2, <1>3 DEF Settled, is_ro, BankTypeOK
    <2> QED BY <1>0, <1>2, <1>7, <2>1, <2>2 DEF MemoryGood
  <1>9. InPlace("begin", j) /\ "begin" \in BankLabels /\ (j # "short" => tx[w].ret)
    BY <1>0, <1>1 DEF InPlace, BankLabels, AnswersTrue, RunJobs
  <1> QED BY <1>0, <1>2, <1>3, <1>4, <1>6, <1>8, <1>9, OutsideGoesOn DEF BankTypeOK

\* What is forgotten is typed, and so is what is counted.
LEMMA ForgetTyped ==
  ASSUME BankTypeOK, NEW w \in Workers, Forget(w)
  PROVE  before' \in [Workers -> Segments] /\ view' \in [Workers -> Segments]
  <1>1. <<>> \in Segments
    BY DEF Segments
  <1> QED BY <1>1 DEF Forget, BankTypeOK

\* What a failure does to the library is typed.
LEMMA FailTyped ==
  ASSUME BankTypeOK, NEW w \in Workers, LibFail(w)
  PROVE  LibTyped'
  <1>1. before' \in [Workers -> Segments] /\ view' \in [Workers -> Segments]
    BY ForgetTyped DEF LibFail
  <1>2. fails \in 0..MaxFails /\ MaxFails \in Nat /\ fails < MaxFails /\ fails' = fails + 1
    BY BankAssumption DEF BankTypeOK, LibFail
  <1>3. fails' \in 0..MaxFails
    BY <1>2
  <1> QED BY <1>1, <1>3 DEF LibFail, LibTyped, BankTypeOK

\* A call fails, and the transaction is over.
LEMMA FailMoney ==
  ASSUME MoneyInv, BankInv', NEW w \in Workers, Fail(w)
  PROVE  MoneyInv'
  <1> DEFINE r == [tx[w] EXCEPT !.aborted = TRUE, !.thrown = "retry"]
  <1>0. BankTypeOK /\ pc[w] \in InClosure /\ AnswersTrue
    BY DEF Fail, MoneyInv, InClosure
  <1>1. tx[w] \in Transactions /\ job[w] \in Jobs /\ job[w] # "run"
    BY <1>0, Inside
  <1>2. r \in Transactions /\ r.ret = tx[w].ret
    BY <1>1, FailedTyped
  <1>3. Updates(w, "destroy", job[w], r)
    <2>1. tx' = [tx EXCEPT ![w] = r]
      BY Zenon DEF Fail
    <2> HIDE DEF r
    <2> QED BY <1>0, <2>1 DEF Fail, Updates, BankTypeOK
  <1> HIDE DEF r
  <1>4. LibTyped' /\ RunTyped' /\ NeverAccused'
    <2>1. LibTyped'
      BY <1>0, FailTyped DEF Fail
    <2>2. RunTyped' /\ NeverAccused'
      BY <1>0 DEF Fail, RunTyped, runVars, BankTypeOK, MoneyInv, NeverAccused
    <2> QED BY <2>1, <2>2
  <1>5. \A v \in open' : v # w => v \in open /\ Memory(v)' = Memory(v)
    BY <1>0 DEF Fail, LibFail, Forget, Memory, BankTypeOK
  <1>6. w \notin open'
    BY DEF Fail, LibFail
  <1>7. MemoryGood'
    BY <1>0, QuietMemory DEF Fail, LibFail, Forget, Settled, BankTypeOK
  <1>8. InPlace("destroy", job[w]) /\ "destroy" \in BankLabels /\ (job[w] # "short" => r.ret)
    BY <1>0, <1>1, <1>2 DEF InPlace, BankLabels, AnswersTrue
  <1> QED BY <1>1, <1>2, <1>3, <1>4, <1>5, <1>6, <1>7, <1>8, StepKeeps

\* The closure returns a value, which is true but in short_tx.
LEMMA ReturnMoney ==
  ASSUME MoneyInv, BankInv', NEW w \in Workers, NEW value \in BOOLEAN,
         Return(w, "body", value), value \/ job[w] = "short",
         job[w] = "init" => Memory(w) = Filled,
         UNCHANGED libVars, UNCHANGED <<job, args, cntr, error>>,
         count' \in [Workers -> Nat \ {0}]
  PROVE  MoneyInv'
  <1> DEFINE r == [tx[w] EXCEPT !.ret = value]
  <1>0. pc[w] = "body" /\ pc[w] \in InClosure /\ BankTypeOK
    BY DEF Return, Goto, InClosure, MoneyInv
  <1>1. /\ tx[w] \in Transactions /\ job[w] \in Jobs /\ job[w] # "run"
        /\ Sees(Memory(w), "body", job[w]) /\ MaxFails \in Nat
    BY <1>0, Inside, BankAssumption
  <1>2. r \in Transactions /\ r.ret = value
    BY <1>1, RetTyped
  <1>3. Updates(w, "destroy", job[w], r)
    <2>1. tx' = [tx EXCEPT ![w] = r] /\ pc' = [pc EXCEPT ![w] = "destroy"]
      BY Zenon DEF Return, Goto
    <2> HIDE DEF r
    <2> QED BY <1>0, <2>1 DEF Updates, BankTypeOK
  <1> HIDE DEF r
  <1>4. UNCHANGED <<lib, mem, open, before, view, misused>> /\ fails' \in 0..MaxFails /\ RunTyped'
    BY <1>0 DEF libVars, RunTyped, BankTypeOK
  <1>5. Sees(Memory(w), "destroy", job[w]) /\ Knows(Memory(w), "destroy", job[w], r)
    BY <1>1 DEF Sees, Knows
  <1>6. "destroy" \in BankLabels /\ InPlace("destroy", job[w])
    BY <1>1 DEF BankLabels, InPlace
  <1> QED BY <1>0, <1>2, <1>3, <1>4, <1>5, <1>6, ClosureGoesOn

\* Segments with the same parity and accounts are the same.
LEMMA SameRecord ==
  ASSUME NEW a \in AccountSegment, NEW b \in AccountSegment,
         a.parity = b.parity, a.accounts = b.accounts
  PROVE  a = b
  BY DEF AccountSegment

\* init() fills the first segment ...
LEMMA FillMoney ==
  ASSUME MoneyInv, BankInv', NEW w \in Workers, Fill(w)
  PROVE  MoneyInv'
  <1> DEFINE r == [tx[w] EXCEPT !.ret = TRUE]
             s == [i \in 1..nbaccounts |-> init_balance]
             m == [Memory(w) EXCEPT ![1].accounts = s]
  <1>0. pc[w] = "body" /\ job[w] = "init" /\ pc[w] \in InClosure /\ BankTypeOK
    BY DEF Fill, InBody, InClosure, MoneyInv
  <1>1. tx[w] \in Transactions /\ Memory(w) \in {Blank, Filled}
    BY <1>0, Inside DEF Sees
  <1>2. r \in Transactions /\ r.ret = TRUE
    BY <1>1, RetTyped
  <1>3. Updates(w, "destroy", job[w], r)
    <2>1. tx' = [tx EXCEPT ![w] = r] /\ pc' = [pc EXCEPT ![w] = "destroy"] /\ job' = job
      BY Zenon DEF Fill, Return, Goto, Kept
    <2> HIDE DEF r
    <2> QED BY <1>0, <2>1 DEF Updates, BankTypeOK
  <1> HIDE DEF r
  <1>4. m = Filled
    <2> SUFFICES ASSUME NEW c \in {Blank, Filled}  PROVE [c EXCEPT ![1].accounts = s] = Filled
      BY <1>1
    <2> DEFINE e == [c[1] EXCEPT !.accounts = s]
               d == [c EXCEPT ![1] = e]
    <2>1. c \in Segments /\ Len(c) = 1 /\ c[1].parity = 0 /\ c[1] \in AccountSegment
      <3>1. c \in Segments /\ Len(c) = 1
        <4>1. Len(Blank) = 1
          BY DEF Blank
        <4> QED BY <4>1, BlankBalanced, FilledGood
      <3>2. c[1].parity = 0
        <4>1. Blank[1].parity = 0 /\ Filled[1].parity = 0
          BY DEF Blank, Filled
        <4> QED BY <4>1
      <3> QED BY <3>1, <3>2, SegmentOf
    <2>2. s \in Seq(Nat)
      BY Bounds
    <2>3. e \in AccountSegment /\ e.parity = 0 /\ e.accounts = s
      <3> HIDE DEF s
      <3> QED BY <2>1, <2>2, SegmentRecord
    <2> HIDE DEF e
    <2>4. e = Filled[1]
      <3>1. Filled[1].parity = 0 /\ Filled[1].accounts = s
        BY DEF Filled
      <3>2. Filled[1] \in AccountSegment
        BY FilledGood, SegmentOf
      <3> HIDE DEF s
      <3> QED BY <2>3, <3>1, <3>2, SameRecord
    <2>5. d \in Seq(AccountSegment) /\ Len(d) = 1 /\ d[1] = e
      BY <2>1, <2>3 DEF Segments
    <2>6. Filled \in Seq(AccountSegment) /\ Len(Filled) = 1
      BY FilledGood DEF Segments
    <2> HIDE DEF d
    <2>7. d = Filled
      BY <2>4, <2>5, <2>6, SeqEqual
    <2> QED BY <2>7, Zenon DEF d, e
  <1>5. LibWrite(w, Filled) /\ UNCHANGED <<args, count, cntr, error>>
    BY <1>4 DEF Fill, Kept, runVars
  <1>6. Sees(Filled, "destroy", job[w]) /\ Knows(Filled, "destroy", job[w], r)
    BY <1>0 DEF Sees, Knows, RunJobs
  <1>7. "destroy" \in BankLabels /\ InPlace("destroy", job[w]) /\ ~is_ro(w)
    BY <1>0 DEF BankLabels, InPlace, is_ro
  <1> QED BY <1>0, <1>2, <1>3, <1>5, <1>6, <1>7, FilledGood, ClosureWrites

\* ... and reads its first account.
LEMMA CheckFillMoney ==
  ASSUME MoneyInv, BankInv', NEW w \in Workers, CheckFill(w)
  PROVE  MoneyInv'
  <1>0. pc[w] = "body" /\ job[w] = "init_check" /\ pc[w] \in InClosure /\ BankTypeOK
    BY DEF CheckFill, InBody, InClosure, MoneyInv
  <1>1. Memory(w) = Filled /\ tx[w].at \in 1..Len(Memory(w))
    BY <1>0, Inside DEF Sees, Knows
  <1>2. tx[w].at = 1
    BY <1>1, FilledGood
  <1>3. Segment(w).accounts[1] = init_balance
    BY <1>1, <1>2, FilledGood DEF Segment
  <1>4. Return(w, "body", TRUE)
    BY <1>3 DEF CheckFill
  <1>5. UNCHANGED libVars /\ UNCHANGED <<job, args, cntr, error>>
        /\ count' \in [Workers -> Nat \ {0}]
    BY <1>0 DEF CheckFill, Kept, runVars, BankTypeOK
  <1> QED BY <1>0, <1>4, <1>5, ReturnMoney

\* The sums that a visit of a segment makes.
LEMMA VisitSums ==
  ASSUME MoneyInv, NEW w \in Workers, pc[w] = "body", job[w] \in {"long", "last_long", "alloc"}
  PROVE  LET m == Memory(w)
             k == tx[w].at
         IN  /\ k \in 1..Len(m) /\ Len(m) \in Nat /\ Packed(m) /\ Balanced(m, 0)
             /\ Segment(w) \in AccountSegment
             /\ Seen1(w) = Sums(Sizes(m))[k] /\ Seen1(w) \in Nat
             /\ (job[w] # "alloc" => Sum1(w) = Sums(Funds(m))[k]) /\ Sum1(w) \in Int
             /\ tx[w].seen = Sums(Sizes(m))[k - 1]
  <1> DEFINE m == Memory(w)
             k == tx[w].at
  <1>0. /\ m \in Segments /\ tx[w] \in Transactions /\ Sees(m, "body", job[w])
        /\ Knows(m, "body", job[w], tx[w]) /\ pc[w] \in InClosure
    BY Inside DEF InClosure
  <1>1. k \in 1..Len(m) /\ Packed(m) /\ Balanced(m, 0) /\ tx[w].seen = Sums(Sizes(m))[k - 1]
        /\ (job[w] # "alloc" => tx[w].sum = Sums(Funds(m))[k - 1])
    BY <1>0 DEF Sees, Knows, RunJobs
  <1>2. Segment(w) = m[k] /\ m[k] \in AccountSegment /\ Len(m) \in Nat
    BY <1>0, <1>1, SegmentOf DEF Segment
  <1>3. /\ m[k].parity \in Int /\ m[k].accounts \in Seq(Nat) /\ Len(m[k].accounts) \in Nat
        /\ Sum(m[k].accounts) \in Int /\ tx[w].sum \in Int /\ tx[w].seen \in Nat
    <2>1. m[k].parity \in Int /\ m[k].accounts \in Seq(Nat) /\ Len(m[k].accounts) \in Nat
      BY <1>2, SegmentRecord
    <2>2. Sum(m[k].accounts) \in Int
      BY <2>1, NatsAreInts, SumIsInt
    <2> QED BY <1>0, <2>1, <2>2 DEF Transactions
  <1>4. Sums(Sizes(m))[k] = Sums(Sizes(m))[k - 1] + Len(m[k].accounts)
    <2>1. Sizes(m) \in Seq(Int) /\ k \in 1..Len(Sizes(m)) /\ Sizes(m)[k] = Len(m[k].accounts)
      BY <1>0, <1>1, SizesOf
    <2>2. Sums(Sizes(m))[k] = Sums(Sizes(m))[k - 1] + Sizes(m)[k]
      BY <2>1, SumsRule
    <2> QED BY <2>1, <2>2
  <1>5. Sums(Funds(m))[k] = Sums(Funds(m))[k - 1] + (m[k].parity + Sum(m[k].accounts))
    <2>1. /\ Funds(m) \in Seq(Int) /\ k \in 1..Len(Funds(m))
          /\ Funds(m)[k] = m[k].parity + Sum(m[k].accounts)
      BY <1>0, <1>1, FundsOf
    <2>2. Sums(Funds(m))[k] = Sums(Funds(m))[k - 1] + Funds(m)[k]
      BY <2>1, SumsRule
    <2> QED BY <2>1, <2>2
  <1>6. Seen1(w) = tx[w].seen + Len(m[k].accounts)
    BY <1>2 DEF Seen1
  <1>7. Sum1(w) = tx[w].sum + m[k].parity + Sum(m[k].accounts)
    BY <1>2 DEF Sum1
  <1>8. Seen1(w) = Sums(Sizes(m))[k] /\ Seen1(w) \in Nat
    BY <1>1, <1>3, <1>4, <1>6
  <1>9. Sum1(w) \in Int
    BY <1>3, <1>7
  <1>10. ASSUME job[w] # "alloc"  PROVE Sum1(w) = Sums(Funds(m))[k]
    <2> DEFINE a == tx[w].sum
               b == m[k].parity
               c == Sum(m[k].accounts)
    <2>1. a \in Int /\ b \in Int /\ c \in Int
      BY <1>3
    <2>2. Sum1(w) = a + b + c /\ Sums(Funds(m))[k] = a + (b + c)
      BY <1>1, <1>5, <1>7, <1>10
    <2>3. a + b + c = a + (b + c)
      <3> HIDE DEF a, b, c
      <3> QED BY <2>1
    <2> QED BY <2>2, <2>3
  <1> QED BY <1>1, <1>2, <1>8, <1>9, <1>10

\* The visit of one more segment, in long_tx and alloc_tx.
LEMMA VisitMoney ==
  ASSUME MoneyInv, BankInv', NEW w \in Workers, pc[w] = "body",
         job[w] \in {"long", "last_long", "alloc"}, ~AtLast(w), NEW r \in Transactions,
         tx' = [tx EXCEPT ![w] = r], r.ret = tx[w].ret, r.at = tx[w].at + 1,
         r.seen = Seen1(w), job[w] # "alloc" => r.sum = Sum1(w),
         r.send = tx[w].send, r.recv = tx[w].recv,
         UNCHANGED <<libVars, pc, job, args, count, cntr, error>>
  PROVE  MoneyInv'
  <1> DEFINE m == Memory(w)
             k == tx[w].at
  <1>0. pc[w] \in InClosure /\ BankTypeOK /\ AnswersTrue
    BY DEF MoneyInv, InClosure
  <1>1. /\ Sees(m, "body", job[w]) /\ Knows(m, "body", job[w], tx[w]) /\ job[w] \in Jobs
        /\ InPlace("body", job[w])
    BY <1>0, Inside
  <1>2. /\ k \in 1..Len(m) /\ Len(m) \in Nat /\ Seen1(w) = Sums(Sizes(m))[k]
        /\ (job[w] # "alloc" => Sum1(w) = Sums(Funds(m))[k])
    BY VisitSums
  <1>3. k + 1 \in 1..Len(m) /\ (k + 1) - 1 = k
    BY <1>2 DEF AtLast
  <1>4. Knows(m, "body", job[w], r)
    <2>1. r.at \in 1..Len(m) /\ r.at - 1 = k
      <3>1. r.at = k + 1
        OBVIOUS
      <3> QED BY <1>3, <3>1
    <2>2. r.seen = Sums(Sizes(m))[r.at - 1]
      BY <1>2, <2>1
    <2>3. job[w] # "alloc" => r.sum = Sums(Funds(m))[r.at - 1]
      BY <1>2, <2>1
    <2>4. {r.send, r.recv} \subseteq {NULL} \cup Places(m)
      BY <1>1 DEF Knows
    <2> HIDE DEF m, k
    <2> QED BY <2>1, <2>2, <2>3, <2>4 DEF Knows
  <1>5. Updates(w, "body", job[w], r)
    BY <1>0 DEF Updates, BankTypeOK
  <1>6. UNCHANGED <<lib, mem, open, before, view, misused>> /\ fails' \in 0..MaxFails /\ RunTyped'
    BY <1>0 DEF libVars, RunTyped, BankTypeOK
  <1>7. "body" \in BankLabels /\ (job[w] # "short" => r.ret)
    BY <1>0 DEF BankLabels, AnswersTrue
  <1> QED BY <1>0, <1>1, <1>4, <1>5, <1>6, <1>7, ClosureGoesOn

\* long_tx: no balance is negative, and in the end the sum is right.
LEMMA LongMoney ==
  ASSUME MoneyInv, BankInv', NEW w \in Workers, LongVisit(w)
  PROVE  MoneyInv'
  <1> DEFINE m == Memory(w)
             k == tx[w].at
  <1>0. /\ pc[w] = "body" /\ job[w] \in {"long", "last_long"} /\ UNCHANGED libVars
        /\ UNCHANGED <<job, args, cntr, error>> /\ BankTypeOK /\ pc[w] \in InClosure
    BY DEF LongVisit, MoneyInv, InClosure
  <1>1. /\ k \in 1..Len(m) /\ Len(m) \in Nat /\ Packed(m) /\ Balanced(m, 0)
        /\ Segment(w) \in AccountSegment
        /\ Seen1(w) = Sums(Sizes(m))[k] /\ Seen1(w) \in Nat
        /\ Sum1(w) = Sums(Funds(m))[k] /\ Sum1(w) \in Int
        /\ tx[w].seen = Sums(Sizes(m))[k - 1]
    BY <1>0, VisitSums
  <1>2. ~ \E i \in DOMAIN Segment(w).accounts : Segment(w).accounts[i] < 0
    <2>1. Segment(w).accounts \in Seq(Nat)
      BY <1>1, SegmentRecord
    <2> QED BY <2>1
  <1>3. CASE AtLast(w)
    <2>1. k = Len(m)
      BY <1>3 DEF AtLast
    <2>2. Sum1(w) = init_balance * Seen1(w)
      <3>1. Len(Funds(m)) = Len(m) /\ Len(Sizes(m)) = Len(m)
        <4>1. m \in Segments
          BY <1>0, Inside
        <4> QED BY <4>1, FundsOf, SizesOf
      <3>2. Sum1(w) = Sum(Funds(m)) /\ Seen1(w) = Sum(Sizes(m))
        BY <1>1, <2>1, <3>1 DEF Sum
      <3> QED BY <1>1, <3>2 DEF Balanced
    <2>3. Seen1(w) \in Nat \ {0}
      <3>1. Len(Segment(w).accounts) >= 1 /\ Len(Segment(w).accounts) \in Nat
        BY <1>1, <2>1 DEF Packed, Last, Segment
      <3>2. tx[w].seen \in Nat
        BY <1>0, Inside DEF Transactions
      <3>3. Seen1(w) = tx[w].seen + Len(Segment(w).accounts)
        BY DEF Seen1
      <3> QED BY <3>1, <3>2, <3>3
    <2>4. Return(w, "body", TRUE)
      BY <1>2, <1>3, <2>2 DEF LongVisit
    <2>5. count' \in [Workers -> Nat \ {0}]
      <3>1. count' = count \/ count' = [count EXCEPT ![w] = Seen1(w)]
        BY <1>2, <1>3 DEF LongVisit
      <3> QED BY <1>0, <2>3, <3>1 DEF BankTypeOK
    <2> QED BY <1>0, <2>4, <2>5, ReturnMoney
  <1>4. CASE ~AtLast(w)
    <2> DEFINE f == tx[w]
               x == f.at + 1
               y == Sum1(w)
               z == Seen1(w)
               r == [f EXCEPT !.at = x, !.sum = y, !.seen = z]
    <2>1. UNCHANGED <<pc, count>>
          /\ tx' = [tx EXCEPT ![w].at = @ + 1, ![w].sum = Sum1(w), ![w].seen = Seen1(w)]
      BY <1>2, <1>4 DEF LongVisit
    <2>2. tx' = [tx EXCEPT ![w] = r]
      BY <2>1, Zenon
    <2>3. tx[w] \in Transactions /\ tx[w].at + 1 \in Nat \ {0}
      <3>1. tx[w] \in Transactions
        BY <1>0, Inside
      <3> QED BY <1>1, <3>1
    <2>4. /\ r \in Transactions /\ r.ret = tx[w].ret /\ r.at = tx[w].at + 1
          /\ r.sum = Sum1(w) /\ r.seen = Seen1(w) /\ r.send = tx[w].send /\ r.recv = tx[w].recv
      <3>1. f \in Transactions /\ x \in Nat \ {0} /\ y \in Int /\ z \in Nat
        BY <1>1, <2>3
      <3>2. /\ r \in Transactions /\ r.ret = f.ret /\ r.at = x /\ r.sum = y /\ r.seen = z
            /\ r.send = f.send /\ r.recv = f.recv
        <4> HIDE DEF f, x, y, z
        <4> QED BY <3>1 DEF Transactions
      <3> HIDE DEF r
      <3> QED BY <3>2
    <2> HIDE DEF r
    <2>5. UNCHANGED <<libVars, pc, job, args, count, cntr, error>>
      BY <1>0, <2>1
    <2> QED BY <1>0, <1>4, <2>2, <2>4, <2>5, VisitMoney
  <1> QED BY <1>3, <1>4

\* alloc_tx: the last segment is looked for.
LEMMA AllocMoney ==
  ASSUME MoneyInv, BankInv', NEW w \in Workers, AllocVisit(w)
  PROVE  MoneyInv'
  <1> DEFINE f == tx[w]
             x == f.at + 1
             z == Seen1(w)
             r == [f EXCEPT !.at = x, !.seen = z]
  <1>0. /\ pc[w] = "body" /\ job[w] = "alloc" /\ ~AtLast(w) /\ BankTypeOK /\ pc[w] \in InClosure
        /\ UNCHANGED <<libVars, pc, job, args, count, cntr, error>>
        /\ tx' = [tx EXCEPT ![w].at = @ + 1, ![w].seen = Seen1(w)]
    BY DEF AllocVisit, MoneyInv, InClosure, InBody, Kept, runVars
  <1>1. tx' = [tx EXCEPT ![w] = r]
    BY <1>0, Zenon
  <1>2. tx[w] \in Transactions /\ tx[w].at + 1 \in Nat \ {0} /\ Seen1(w) \in Nat
    <2>1. tx[w] \in Transactions
      BY <1>0, Inside
    <2>2. tx[w].at \in Nat \ {0}
      BY <2>1 DEF Transactions
    <2>3. Seen1(w) \in Nat
      BY <1>0, VisitSums
    <2> QED BY <2>1, <2>2, <2>3
  <1>3. /\ r \in Transactions /\ r.ret = tx[w].ret /\ r.at = tx[w].at + 1
        /\ r.seen = Seen1(w) /\ r.send = tx[w].send /\ r.recv = tx[w].recv
    <2>1. f \in Transactions /\ x \in Nat \ {0} /\ z \in Nat
      BY <1>2
    <2>2. /\ r \in Transactions /\ r.ret = f.ret /\ r.at = x /\ r.seen = z
          /\ r.send = f.send /\ r.recv = f.recv
      <3> HIDE DEF f, x, z
      <3> QED BY <2>1 DEF Transactions
    <2> HIDE DEF r
    <2> QED BY <2>2
  <1> HIDE DEF r
  <1> QED BY <1>0, <1>1, <1>3, VisitMoney

\* alloc_tx: an account is removed, or added.
LEMMA ResizeMoney ==
  ASSUME MoneyInv, BankInv', NEW w \in Workers, Resize(w)
  PROVE  MoneyInv'
  <1> DEFINE m == Memory(w)
             c == IF TooMany(w) THEN Removed(m) ELSE Added(m)
             r == [tx[w] EXCEPT !.ret = TRUE]
  <1>0. pc[w] = "body" /\ job[w] = "alloc" /\ pc[w] \in InClosure /\ BankTypeOK /\ AtLast(w)
    BY DEF Resize, InBody, InClosure, MoneyInv
  <1>1. /\ m \in Segments /\ tx[w] \in Transactions /\ Len(m) \in Nat /\ Good(m)
        /\ tx[w].at \in 1..Len(m) /\ tx[w].seen = Sums(Sizes(m))[tx[w].at - 1]
    BY <1>0, Inside, VisitSums DEF Good
  <1>2. c \in Segments /\ Good(c)
    <2>1. CASE ~TooMany(w)
      BY <1>1, <2>1, AddedGood
    <2>2. CASE TooMany(w) /\ ~(Len(Last(m).accounts) > 1)
      BY <1>1, <2>2, RemovedLast
    <2>3. CASE TooMany(w) /\ Len(Last(m).accounts) > 1
      <3>1. Len(m) = 1 => Len(m[1].accounts) > 2
        <4>1. ASSUME Len(m) = 1  PROVE Len(m[1].accounts) > 2
          <5>1. tx[w].at = 1 /\ tx[w].at - 1 = 0
            BY <1>1, <4>1
          <5>2. tx[w].seen = 0 /\ Segment(w) = m[1]
            BY <1>1, <5>1, SizesOf, SumsRule DEF Segment
          <5>3. Seen1(w) > 2 /\ Seen1(w) = 0 + Len(m[1].accounts)
            BY <2>3, <5>2 DEF TooMany, Seen1
          <5>4. Len(m[1].accounts) \in Nat
            BY <1>1, <4>1, SegmentOf, SegmentRecord
          <5> QED BY <5>3, <5>4
        <4> QED BY <4>1
      <3> QED BY <1>1, <2>3, <3>1, RemovedOne
    <2> QED BY <2>1, <2>2, <2>3
  <1>3. LibWrite(w, c) /\ UNCHANGED <<args, count, cntr, error>>
    BY DEF Resize, Kept, runVars
  <1>4. r \in Transactions /\ r.ret = TRUE
    BY <1>1, RetTyped
  <1>5. Updates(w, "destroy", job[w], r)
    <2>1. tx' = [tx EXCEPT ![w] = r] /\ pc' = [pc EXCEPT ![w] = "destroy"] /\ job' = job
      BY Zenon DEF Resize, Return, Goto, Kept
    <2> HIDE DEF r
    <2> QED BY <1>0, <2>1 DEF Updates, BankTypeOK
  <1> HIDE DEF r, c
  <1>6. Sees(c, "destroy", job[w]) /\ Knows(c, "destroy", job[w], r) /\ c # Blank
    BY <1>0, <1>2, NotBlank DEF Sees, Knows, Good
  <1>7. "destroy" \in BankLabels /\ InPlace("destroy", job[w]) /\ ~is_ro(w)
    BY <1>0 DEF BankLabels, InPlace, is_ro
  <1> QED BY <1>0, <1>2, <1>3, <1>4, <1>5, <1>6, <1>7, ClosureWrites

\* There is no memory for a segment: nothing has been written.
LEMMA NoMemoryMoney ==
  ASSUME MoneyInv, BankInv', NEW w \in Workers, NoMemory(w)
  PROVE  MoneyInv'
  <1> DEFINE r == [tx[w] EXCEPT !.thrown = "nomem"]
  <1>0. pc[w] = "body" /\ job[w] = "alloc" /\ pc[w] \in InClosure /\ BankTypeOK /\ AnswersTrue
    BY DEF NoMemory, InBody, InClosure, MoneyInv
  <1>1. tx[w] \in Transactions /\ Sees(Memory(w), "body", job[w])
    BY <1>0, Inside
  <1>2. r \in Transactions /\ r.ret = tx[w].ret
    BY <1>1, ThrownTyped
  <1>3. Updates(w, "destroy", job[w], r)
    <2>1. tx' = [tx EXCEPT ![w] = r] /\ pc' = [pc EXCEPT ![w] = "destroy"] /\ job' = job
      BY Zenon DEF NoMemory, Goto, Kept
    <2> HIDE DEF r
    <2> QED BY <1>0, <2>1 DEF Updates, BankTypeOK
  <1> HIDE DEF r
  <1>4. fails' \in 0..MaxFails
    <2>1. fails < MaxFails /\ fails' = fails + 1 /\ fails \in 0..MaxFails /\ MaxFails \in Nat
      BY <1>0, BankAssumption DEF NoMemory, BankTypeOK
    <2> QED BY <2>1
  <1>5. UNCHANGED <<lib, mem, open, before, view, misused, error>> /\ RunTyped'
    BY <1>0 DEF NoMemory, Kept, runVars, RunTyped, BankTypeOK
  <1>6. Sees(Memory(w), "destroy", job[w]) /\ Knows(Memory(w), "destroy", job[w], r)
    BY <1>0, <1>1 DEF Sees, Knows
  <1>7. "destroy" \in BankLabels /\ InPlace("destroy", job[w]) /\ (job[w] # "short" => r.ret)
    BY <1>0, <1>2 DEF BankLabels, InPlace, AnswersTrue
  <1> QED BY <1>0, <1>2, <1>3, <1>4, <1>5, <1>6, <1>7, ClosureGoesOn

\* short_tx: a place that is named exists.
LEMMA PlaceExists ==
  ASSUME NEW w \in Workers, NEW id \in Nat, NEW found, Memory(w) \in Segments,
         tx[w].at \in 1..Len(Memory(w)), found \in {NULL} \cup Places(Memory(w))
  PROVE  /\ Place(w, id, found) \in {NULL} \cup Places(Memory(w))
         /\ Left(w, id, found) \in Nat
  <1> DEFINE m == Memory(w)
             k == tx[w].at
  <1>1. Segment(w) = m[k] /\ Len(m[k].accounts) \in Nat /\ Len(m) \in Nat
    BY SegmentOf, SegmentRecord DEF Segment
  <1>2. CASE found = NULL /\ id < Len(m[k].accounts)
    <2>1. Place(w, id, found) = <<k, id + 1>>
      BY <1>1, <1>2 DEF Place
    <2>2. <<k, id + 1>> \in Places(m)
      BY <1>1, <1>2 DEF Places
    <2>3. <<k, id + 1>> # NULL
      BY <1>1 DEF NULL
    <2> QED BY <2>1, <2>2, <2>3 DEF Left
  <1>3. CASE found = NULL /\ ~(id < Len(m[k].accounts))
    BY <1>1, <1>3 DEF Place, Left
  <1>4. CASE found # NULL
    BY <1>4 DEF Place, Left
  <1> QED BY <1>2, <1>3, <1>4

\* An account is looked for in one segment.
LEMMA ShortMoney ==
  ASSUME MoneyInv, BankInv', NEW w \in Workers, ShortVisit(w)
  PROVE  MoneyInv'
  <1> DEFINE m == Memory(w)
             k == tx[w].at
             send == Place(w, args[w][1], tx[w].send)
             recv == Place(w, args[w][2], tx[w].recv)
             found == send # NULL /\ recv # NULL
             to == IF found THEN "debit" ELSE IF AtLast(w) THEN "destroy" ELSE "body"
             at == IF to = "body" THEN k + 1 ELSE k
             a == <<Left(w, args[w][1], tx[w].send), Left(w, args[w][2], tx[w].recv)>>
             f == tx[w]
             r == [f EXCEPT !.send = send, !.recv = recv, !.ret = found, !.at = at]
  <1>0. pc[w] = "body" /\ job[w] = "short" /\ pc[w] \in InClosure /\ BankTypeOK
    BY DEF ShortVisit, InBody, InClosure, MoneyInv
  <1>1. /\ m \in Segments /\ f \in Transactions /\ Len(m) \in Nat /\ k \in 1..Len(m)
        /\ Sees(m, "body", "short")
        /\ f.send \in {NULL} \cup Places(m) /\ f.recv \in {NULL} \cup Places(m)
    <2>1. /\ m \in Segments /\ f \in Transactions /\ Knows(m, "body", job[w], f)
          /\ Sees(m, "body", job[w])
      BY <1>0, Inside
    <2> QED BY <1>0, <2>1 DEF Knows, Segments
  <1>2. args[w][1] \in Nat /\ args[w][2] \in Nat
    BY <1>0 DEF BankTypeOK
  <1>3. /\ send \in {NULL} \cup Places(m) /\ Left(w, args[w][1], tx[w].send) \in Nat
        /\ recv \in {NULL} \cup Places(m) /\ Left(w, args[w][2], tx[w].recv) \in Nat
    BY <1>1, <1>2, PlaceExists
  <1>4. /\ pc' = [pc EXCEPT ![w] = to] /\ args' = [args EXCEPT ![w] = a]
        /\ tx' = [tx EXCEPT ![w] = r] /\ UNCHANGED <<libVars, job, runVars>>
    <2>1. UNCHANGED <<libVars, job, runVars>> /\ args' = [args EXCEPT ![w] = a]
          /\ pc' = [pc EXCEPT ![w] = to]
      BY Zenon DEF ShortVisit, Goto
    <2>2. tx' = [tx EXCEPT ![w] = r]
      BY Zenon DEF ShortVisit
    <2> QED BY <2>1, <2>2
  <1>5. to \in {"debit", "destroy", "body"} /\ found \in BOOLEAN /\ at \in Nat \ {0}
        /\ (to = "body" => at \in 1..Len(m)) /\ (to = "debit" => found)
    BY <1>1 DEF AtLast
  <1>6. send \in Nat \X Nat /\ recv \in Nat \X Nat
    BY <1>1, <1>3 DEF NULL, Places
  <1> HIDE DEF a
  <1>7. a \in Nat \X Nat
    BY <1>3 DEF a
  <1>8. /\ r \in Transactions /\ r.at = at /\ r.send = send /\ r.recv = recv
    <2>1. f \in Transactions
      BY <1>1
    <2> HIDE DEF f, send, recv, found, at
    <2> QED BY <1>5, <1>6, <2>1 DEF Transactions
  <1> HIDE DEF r
  <1>9. Sees(m, to, job[w]) /\ Knows(m, to, job[w], r)
    <2>1. Sees(m, to, job[w])
      BY <1>0, <1>1, <1>5 DEF Sees
    <2>2. to = "debit" => {send, recv} \subseteq Places(m)
      BY <1>3, <1>5
    <2> HIDE DEF to, send, recv, at, m
    <2> QED BY <1>0, <1>3, <1>5, <1>8, <2>1, <2>2 DEF Knows
  <1>10. RunTyped'
    BY <1>0, <1>4, <1>7 DEF RunTyped, BankTypeOK, runVars
  <1>11. to \in BankLabels /\ InPlace(to, job[w]) /\ Updates(w, to, job[w], r)
    <2> HIDE DEF to
    <2> QED BY <1>0, <1>4, <1>5 DEF BankLabels, InPlace, Updates, BankTypeOK
  <1>12. UNCHANGED <<lib, mem, open, before, view, misused, error>> /\ fails' \in 0..MaxFails
    BY <1>0, <1>4 DEF libVars, runVars, BankTypeOK
  <1> HIDE DEF to, m
  <1> QED BY <1>0, <1>8, <1>9, <1>10, <1>11, <1>12, ClosureGoesOn DEF m

\* A payment: one unit leaves an account, and is due ...
LEMMA DebitMoney ==
  ASSUME MoneyInv, BankInv', NEW w \in Workers, Debit(w)
  PROVE  MoneyInv'
  <1> DEFINE m == Memory(w)
             a == tx[w].send
             n == Balance(w, a)
             c == Paid(m, a, n - 1)
  <1>0. pc[w] = "debit" /\ pc[w] \in InClosure /\ BankTypeOK
    BY DEF Debit, InClosure, MoneyInv
  <1>1. /\ m \in Segments /\ tx[w] \in Transactions /\ job[w] = "short"
        /\ Packed(m) /\ Balanced(m, 0) /\ {tx[w].send, tx[w].recv} \subseteq Places(m)
    <2>1. /\ m \in Segments /\ tx[w] \in Transactions /\ InPlace("debit", job[w])
          /\ Sees(m, "debit", job[w]) /\ Knows(m, "debit", job[w], tx[w])
      BY <1>0, Inside
    <2>2. job[w] = "short"
      BY <2>1 DEF InPlace
    <2> QED BY <2>1, <2>2 DEF Sees, Knows, RunJobs
  <1>2. /\ UNCHANGED <<job, args, count, cntr, error>>
        /\ tx' = [tx EXCEPT ![w] = tx[w]] /\ job' = [job EXCEPT ![w] = job[w]]
    BY <1>0 DEF Debit, Kept, runVars, BankTypeOK
  <1>3. CASE n > 0
    <2>1. LibWrite(w, c) /\ pc' = [pc EXCEPT ![w] = "credit"]
      BY <1>3 DEF Debit, Goto
    <2>2. a \in Places(m) /\ n = m[a[1]].accounts[a[2]]
      BY <1>1 DEF Balance
    <2>3. n \in Nat
      BY <1>1, <2>2, AccountWritten
    <2> DEFINE q == n - 1
    <2>4. q \in Nat /\ n = q + 1
      BY <1>3, <2>3
    <2> HIDE DEF q, n
    <2>5. c = Paid(m, a, q)
      BY DEF q
    <2> HIDE DEF a, m, c
    <2>6. /\ c \in Segments /\ Places(c) = Places(m) /\ Packed(c)
          /\ Sum(Funds(c)) = Sum(Funds(m)) + q - n /\ Sum(Sizes(c)) = Sum(Sizes(m))
      BY <1>1, <2>2, <2>4, <2>5, AccountWritten
    <2>7. Balanced(c, 1)
      <3>1. Sum(Funds(m)) \in Int
        BY <1>1, BalanceIsInt
      <3>2. Sum(Funds(c)) + 1 = Sum(Funds(m)) + 0
        BY <2>4, <2>6, <3>1
      <3> QED BY <1>1, <2>6, <3>2 DEF Balanced
    <2>8. Sees(c, "credit", job[w]) /\ Knows(c, "credit", job[w], tx[w]) /\ c # Blank
      BY <1>1, <2>6, <2>7, NotBlank DEF Sees, Knows
    <2>9. "credit" \in BankLabels /\ InPlace("credit", job[w]) /\ ~is_ro(w)
      BY <1>1 DEF BankLabels, InPlace, is_ro
    <2>10. Updates(w, "credit", job[w], tx[w])
      BY <1>2, <2>1 DEF Updates
    <2> QED BY <1>0, <1>1, <1>2, <2>1, <2>6, <2>8, <2>9, <2>10, ClosureWrites
  <1>4. CASE ~(n > 0)
    <2>1. UNCHANGED libVars /\ pc' = [pc EXCEPT ![w] = "destroy"]
      BY <1>4 DEF Debit, Goto
    <2>2. UNCHANGED <<lib, mem, open, before, view, misused, error>> /\ fails' \in 0..MaxFails
          /\ RunTyped'
      BY <1>0, <1>2, <2>1 DEF libVars, BankTypeOK, RunTyped
    <2>3. Sees(m, "destroy", job[w]) /\ Knows(m, "destroy", job[w], tx[w])
      BY <1>1 DEF Sees, Knows
    <2>4. "destroy" \in BankLabels /\ InPlace("destroy", job[w])
      BY <1>1 DEF BankLabels, InPlace
    <2>5. Updates(w, "destroy", job[w], tx[w])
      BY <1>2, <2>1 DEF Updates
    <2> QED BY <1>0, <1>1, <2>2, <2>3, <2>4, <2>5, ClosureGoesOn
  <1> QED BY <1>3, <1>4

\* ... until it enters the other one, or the same.
LEMMA CreditMoney ==
  ASSUME MoneyInv, BankInv', NEW w \in Workers, Credit(w)
  PROVE  MoneyInv'
  <1> DEFINE m == Memory(w)
             a == tx[w].recv
             n == Balance(w, a)
             c == Paid(m, a, n + 1)
  <1>0. pc[w] = "credit" /\ pc[w] \in InClosure /\ BankTypeOK
    BY DEF Credit, InClosure, Goto, MoneyInv
  <1>1. /\ m \in Segments /\ tx[w] \in Transactions /\ job[w] = "short"
        /\ Packed(m) /\ Balanced(m, 1) /\ {tx[w].send, tx[w].recv} \subseteq Places(m)
    <2>1. /\ m \in Segments /\ tx[w] \in Transactions /\ InPlace("credit", job[w])
          /\ Sees(m, "credit", job[w]) /\ Knows(m, "credit", job[w], tx[w])
      BY <1>0, Inside
    <2>2. job[w] = "short"
      BY <2>1 DEF InPlace
    <2> QED BY <2>1, <2>2 DEF Sees, Knows, RunJobs
  <1>2. /\ UNCHANGED <<job, args, count, cntr, error>>
        /\ tx' = [tx EXCEPT ![w] = tx[w]] /\ job' = [job EXCEPT ![w] = job[w]]
    BY <1>0 DEF Credit, Kept, runVars, BankTypeOK
  <1>3. LibWrite(w, c) /\ pc' = [pc EXCEPT ![w] = "destroy"]
    BY DEF Credit, Goto
  <1>4. a \in Places(m) /\ n = m[a[1]].accounts[a[2]]
    BY <1>1 DEF Balance
  <1>5. n \in Nat
    BY <1>1, <1>4, AccountWritten
  <1> DEFINE q == n + 1
  <1>6. q \in Nat /\ q = n + 1
    BY <1>5
  <1> HIDE DEF q, n
  <1>7. c = Paid(m, a, q)
    BY DEF q
  <1> HIDE DEF a, m, c
  <1>8. /\ c \in Segments /\ Packed(c)
        /\ Sum(Funds(c)) = Sum(Funds(m)) + q - n /\ Sum(Sizes(c)) = Sum(Sizes(m))
    BY <1>1, <1>4, <1>6, <1>7, AccountWritten
  <1>9. Balanced(c, 0)
    <2>1. Sum(Funds(m)) \in Int
      BY <1>1, BalanceIsInt
    <2>2. Sum(Funds(c)) + 0 = Sum(Funds(m)) + 1
      BY <1>5, <1>6, <1>8, <2>1
    <2> QED BY <1>1, <1>8, <2>2 DEF Balanced
  <1>10. Sees(c, "destroy", job[w]) /\ Knows(c, "destroy", job[w], tx[w]) /\ c # Blank
    BY <1>1, <1>8, <1>9, NotBlank DEF Sees, Knows
  <1>11. "destroy" \in BankLabels /\ InPlace("destroy", job[w]) /\ ~is_ro(w)
    BY <1>1 DEF BankLabels, InPlace, is_ro
  <1>12. Updates(w, "destroy", job[w], tx[w])
    BY <1>2, <1>3 DEF Updates
  <1>13. /\ tx[w] \in Transactions /\ c \in Segments /\ LibWrite(w, c)
         /\ (job[w] = "init" => c = Filled) /\ (job[w] # "short" => tx[w].ret)
    BY <1>1, <1>3, <1>8
  <1> QED BY <1>0, <1>2, <1>10, <1>11, <1>12, <1>13, ClosureWrites

\* Where a worker goes on, and in which job: it has no complaint.
LEMMA ResumeMoney ==
  ASSUME MoneyInv, NEW w \in Workers, Resume(w), pc[w] = "destroy"
  PROVE  \E p \in BankLabels, j \in Jobs :
           /\ pc' = [pc EXCEPT ![w] = p] /\ job' = [job EXCEPT ![w] = j] /\ error' = error
           /\ InPlace(p, j) /\ j \in {job[w], "init_check", "run"}
           /\ (j = "init_check" => job[w] \in {"init", "init_check"}) /\ j # "init"
  <1> DEFINE refused == job[w] = "short" /\ ~tx[w].ret
             wrong == job[w] # "short" /\ ~tx[w].ret
             p == CASE job[w] = "init" -> "begin"
                    [] refused -> "again"
                    [] wrong \/ job[w] = "last_long" -> "gone"
                    [] OTHER -> "next"
             j == CASE job[w] = "init" -> "init_check"
                    [] refused \/ wrong \/ job[w] = "last_long" -> job[w]
                    [] OTHER -> "run"
  <1>0. BankTypeOK /\ AnswersTrue /\ NeverAccused /\ job[w] \in Jobs
    BY DEF MoneyInv, BankTypeOK
  <1>1. /\ pc' = [pc EXCEPT ![w] = p] /\ job' = [job EXCEPT ![w] = j]
        /\ error' = [error EXCEPT ![w] = wrong]
    BY Zenon DEF Resume
  <1>2. ~wrong
    BY <1>0 DEF AnswersTrue
  <1>3. error' = error
    BY <1>0, <1>1, <1>2 DEF BankTypeOK, NeverAccused
  <1>4. CASE job[w] = "init"
    <2>1. p = "begin" /\ j = "init_check"
      <3>1. ~refused
        BY <1>4
      <3> HIDE DEF refused, wrong
      <3> QED BY <1>2, <1>4, <3>1
    <2> HIDE DEF p, j
    <2> QED BY <1>1, <1>3, <1>4, <2>1 DEF BankLabels, Jobs, InPlace
  <1>5. CASE refused
    <2>1. p = "again" /\ j = job[w]
      BY <1>5
    <2> HIDE DEF p, j
    <2> QED BY <1>0, <1>1, <1>3, <1>5, <2>1 DEF BankLabels, InPlace
  <1>6. CASE job[w] = "last_long"
    <2>1. p = "gone" /\ j = job[w]
      BY <1>6, <1>2
    <2> HIDE DEF p, j
    <2> QED BY <1>0, <1>1, <1>3, <1>6, <2>1 DEF BankLabels, InPlace
  <1>7. CASE job[w] # "init" /\ ~refused /\ job[w] # "last_long"
    <2>1. p = "next" /\ j = "run"
      BY <1>2, <1>7
    <2> HIDE DEF p, j, refused
    <2> QED BY <1>1, <1>3, <1>7, <2>1 DEF BankLabels, Jobs, InPlace
  <1> QED BY <1>4, <1>5, <1>6, <1>7

\* A transaction is committed: what it leaves is good.
LEMMA CommitMoney ==
  ASSUME MoneyInv, BankInv', NEW w \in Workers, Ending(w), LibCommit(w),
         tx' = [tx EXCEPT ![w] = NewTx], UNCHANGED <<args, count, cntr>>,
         NEW p \in BankLabels, NEW j \in Jobs,
         pc' = [pc EXCEPT ![w] = p], job' = [job EXCEPT ![w] = j], error' = error,
         InPlace(p, j), j \in {job[w], "init_check", "run"},
         j = "init_check" => job[w] \in {"init", "init_check"}, j # "init" \/ j = job[w]
  PROVE  MoneyInv'
  <1> DEFINE m == Memory(w)
  <1>0. BankTypeOK /\ BankInv /\ JobsInPlace /\ MemoryGood
    BY DEF MoneyInv
  <1>1. w \in open /\ pc[w] = "destroy" /\ job[w] \in Jobs /\ job[w] # "run" /\ m \in Segments
    BY <1>0, MemoryTyped DEF BankInv, OpenExact, Ending, JobsInPlace, BankTypeOK
  <1>2. Sees(m, "destroy", job[w])
    <2>1. Served(w)
      BY <1>1 DEF MoneyInv
    <2> QED BY <1>1, <2>1 DEF Served
  <1>3. /\ job[w] \in RunJobs => Good(m)
        /\ job[w] \notin RunJobs => m = Filled
        /\ m # Blank
    <2>1. job[w] \in RunJobs => Good(m)
      BY <1>2 DEF Sees, Good
    <2>2. job[w] \notin RunJobs => m = Filled
      BY <1>1, <1>2 DEF Sees, Jobs, RunJobs
    <2> QED BY <2>1, <2>2, NotBlank, FilledGood DEF Good
  <1>4. mem' = m \/ (mem' = mem /\ lib = "tested" /\ view[w] = before[w])
    BY <1>0 DEF LibCommit, Memory, BankTypeOK
  <1>5. mem' # Blank
    <2>1. CASE mem' = m
      BY <1>3, <2>1
    <2>2. CASE mem' = mem /\ lib = "tested" /\ view[w] = before[w]
      <3>1. m = before[w]
        BY <2>2 DEF Memory
      <3>2. mem # Blank
        BY <1>0, <1>1, <1>3, <2>2, <3>1 DEF MemoryGood
      <3> QED BY <2>2, <3>2
    <2> QED BY <1>4, <2>1, <2>2
  <1>6. AllInitialized => AllInitialized' /\ job[w] \in RunJobs
    BY <1>0, <1>1 DEF AllInitialized, Initialized, BankTypeOK, Jobs, RunJobs
  <1>7. ~AllInitialized => mem' = Filled /\ \A v \in Workers : job'[v] \notin RunJobs
    <2>1. ASSUME ~AllInitialized  PROVE mem' = Filled /\ \A v \in Workers : job'[v] \notin RunJobs
      <3>1. mem \in {Blank, Filled} /\ \A v \in Workers : job[v] \notin RunJobs
        BY <1>0, <2>1 DEF MemoryGood
      <3>2. j \notin RunJobs
        BY <3>1 DEF RunJobs
      <3>3. mem' = Filled
        BY <1>3, <1>4, <1>5, <3>1
      <3> QED BY <1>0, <3>1, <3>2, <3>3 DEF BankTypeOK
    <2> QED BY <2>1
  <1>8. AllInitialized => Good(mem')
    <2>1. ASSUME AllInitialized, mem' = mem, lib = "tested"  PROVE Good(mem')
      BY <1>0, <2>1 DEF MemoryGood, Settled
    <2> QED BY <1>3, <1>4, <1>6, <2>1
  <1>9. MemoryGood'
    <2>1. AllInitialized' => Good(mem')
      BY <1>7, <1>8, FilledGood
    <2>2. ~AllInitialized' => mem' \in {Blank, Filled} /\ \A v \in Workers : job'[v] \notin RunJobs
      BY <1>6, <1>7
    <2> QED BY <1>5, <2>1, <2>2 DEF MemoryGood
  <1>10. LibTyped'
    <2>1. before' \in [Workers -> Segments] /\ view' \in [Workers -> Segments]
      BY <1>0, ForgetTyped DEF LibCommit
    <2>2. misused' \in BOOLEAN /\ mem' \in Segments
      BY <1>0, <1>1, <1>4 DEF BankInv, LibCommit, BankTypeOK
    <2>3. lib' = lib /\ fails' = fails /\ open' = open \ {w}
      BY DEF LibCommit
    <2> QED BY <1>0, <2>1, <2>2, <2>3 DEF LibTyped, BankTypeOK
  <1>11. RunTyped' /\ NeverAccused'
    BY <1>0 DEF RunTyped, BankTypeOK, MoneyInv, NeverAccused
  <1>12. \A v \in open' : v # w => v \in open /\ Memory(v)' = Memory(v)
    BY <1>0 DEF LibCommit, Forget, Memory, BankTypeOK
  <1>13. w \notin open'
    BY DEF LibCommit
  <1>14. Updates(w, p, j, NewTx)
    BY DEF Updates
  <1> QED BY <1>9, <1>10, <1>11, <1>12, <1>13, <1>14, NewTyped, StepKeeps

\* It fails at its end: nothing of it stays.
LEMMA ConflictMoney ==
  ASSUME MoneyInv, BankInv', NEW w \in Workers, LibConflict(w), pc[w] = "destroy",
         tx' = [tx EXCEPT ![w] = NewTx], UNCHANGED <<args, job, runVars>>,
         NEW p \in {"begin", "terminated"}, pc' = [pc EXCEPT ![w] = p]
  PROVE  MoneyInv'
  <1>0. BankTypeOK /\ JobsInPlace /\ job[w] \in Jobs
    BY DEF MoneyInv, BankTypeOK
  <1>1. lib = "tested" /\ UNCHANGED <<lib, mem, misused>> /\ open' = open \ {w} /\ Forget(w)
    BY DEF LibConflict, LibFail
  <1>2. LibTyped'
    <2>1. before' \in [Workers -> Segments] /\ view' \in [Workers -> Segments]
      BY <1>0, <1>1, ForgetTyped
    <2>2. fails' = fails => LibTyped'
      BY <1>0, <1>1, <2>1 DEF LibTyped, BankTypeOK
    <2> QED BY <1>0, <2>2, FailTyped DEF LibConflict
  <1>3. RunTyped' /\ NeverAccused'
    BY <1>0 DEF RunTyped, runVars, BankTypeOK, MoneyInv, NeverAccused
  <1>4. \A v \in open' : v # w => v \in open /\ Memory(v)' = Memory(v)
    BY <1>0, <1>1 DEF Forget, Memory, BankTypeOK
  <1>5. MemoryGood'
    <2>1. \A v \in open' : before'[v] = IF v \in open THEN before[v] ELSE mem
      BY <1>0, <1>1 DEF Forget, BankTypeOK
    <2> QED BY <1>1, <2>1, QuietMemory DEF Settled
  <1>6. InPlace(p, job[w]) /\ p \in BankLabels
    BY <1>0 DEF InPlace, JobsInPlace, BankLabels
  <1>7. Updates(w, p, job[w], NewTx)
    BY <1>0 DEF Updates, BankTypeOK
  <1>8. w \notin open'
    BY <1>1
  <1> QED BY <1>0, <1>2, <1>3, <1>4, <1>5, <1>6, <1>7, <1>8, NewTyped, StepKeeps

\* The destructor.
LEMMA DestroyedMoney ==
  ASSUME MoneyInv, BankInv', NEW w \in Workers, Destroyed(w)
  PROVE  MoneyInv'
  <1>0. BankTypeOK /\ JobsInPlace /\ BankInv /\ job[w] \in Jobs
    BY DEF MoneyInv, BankTypeOK
  <1>1. tx' = [tx EXCEPT ![w] = NewTx] /\ UNCHANGED args /\ pc[w] = "destroy"
    BY DEF Destroyed, Destroy, Ending, Goto
  <1>2. CASE tx[w].aborted /\ Goto(w, "destroy", "begin") /\ UNCHANGED <<libVars, job, runVars>>
    <2>1. w \notin open
      BY <1>0, <1>1, <1>2 DEF BankInv, OpenExact, Ending
    <2>2. Updates(w, "begin", job[w], NewTx)
      BY <1>0, <1>1, <1>2 DEF Updates, Goto, BankTypeOK
    <2>3. UNCHANGED <<lib, mem, open, before, view, misused, error, job>> /\ fails' \in 0..MaxFails
          /\ RunTyped'
      BY <1>0, <1>1, <1>2 DEF libVars, runVars, RunTyped, BankTypeOK
    <2>4. MemoryGood'
      BY <2>3, QuietMemory DEF Settled, is_ro
    <2>5. InPlace("begin", job[w]) /\ "begin" \in BankLabels
      BY <1>0, <1>1 DEF InPlace, JobsInPlace, BankLabels
    <2> QED BY <1>0, <2>1, <2>2, <2>3, <2>4, <2>5, NewTyped, OutsideGoesOn
  <1>3. CASE Ending(w) /\ LibCommit(w) /\ Resume(w) /\ UNCHANGED <<count, cntr>>
    <2>1. PICK p \in BankLabels, j \in Jobs :
             /\ pc' = [pc EXCEPT ![w] = p] /\ job' = [job EXCEPT ![w] = j] /\ error' = error
             /\ InPlace(p, j) /\ j \in {job[w], "init_check", "run"}
             /\ (j = "init_check" => job[w] \in {"init", "init_check"}) /\ j # "init"
      BY <1>1, <1>3, ResumeMoney
    <2> QED BY <1>1, <1>3, <2>1, CommitMoney
  <1>4. CASE Ending(w) /\ LibCommit(w) /\ Goto(w, "destroy", "gone")
             /\ UNCHANGED <<job, error, count, cntr>>
    <2>1. /\ pc' = [pc EXCEPT ![w] = "gone"] /\ job' = [job EXCEPT ![w] = job[w]]
          /\ error' = error /\ InPlace("gone", job[w]) /\ "gone" \in BankLabels
          /\ UNCHANGED <<args, count, cntr>>
      BY <1>0, <1>1, <1>4 DEF Goto, BankTypeOK, InPlace, BankLabels
    <2> QED BY <1>0, <1>1, <1>4, <2>1, CommitMoney
  <1>5. CASE LibConflict(w)
             /\ Goto(w, "destroy", IF tx[w].thrown = "none" THEN "begin" ELSE "terminated")
             /\ UNCHANGED <<job, runVars>>
    <2>1. PICK p \in {"begin", "terminated"} : pc' = [pc EXCEPT ![w] = p]
      BY <1>5 DEF Goto
    <2> QED BY <1>1, <1>5, <2>1, ConflictMoney
  <1> QED BY <1>2, <1>3, <1>4, <1>5 DEF Destroyed, Destroy

-----------------------------------------------------------------------------
(* The theorems about money. *)

\* The invariant holds at first, when the memory is blank.
LEMMA MoneyInvInit == BankInit => MoneyInv
  <1> SUFFICES ASSUME BankInit  PROVE MoneyInv
    OBVIOUS
  <1>1. BankInv
    BY BankInvInit
  <1>2. <<>> \in Segments /\ Blank \in Segments /\ NewTx \in Transactions /\ NewTx.ret
        /\ MaxFails \in Nat /\ nbtxperwrk \in Nat /\ nbaccounts \in Nat \ {0}
    BY BlankBalanced, NewTyped, BankAssumption DEF Segments
  <1>3. LibTyped
    <2>1. before \in [Workers -> Segments] /\ view \in [Workers -> Segments]
      BY <1>2 DEF BankInit
    <2>2. fails \in 0..MaxFails
      BY <1>2 DEF BankInit
    <2>3. mem \in Segments /\ lib \in {"reference", "tested"} /\ open = {} /\ misused = FALSE
      BY <1>2 DEF BankInit
    <2> QED BY <2>1, <2>2, <2>3 DEF LibTyped
  <1>4. RunTyped /\ pc \in [Workers -> BankLabels] /\ job \in [Workers -> Jobs]
        /\ tx \in [Workers -> Transactions]
    BY <1>2 DEF BankInit, RunTyped, BankLabels, Jobs
  <1>5. BankTypeOK
    BY <1>3, <1>4 DEF BankTypeOK, LibTyped, RunTyped
  <1>6. JobsInPlace /\ AnswersTrue /\ NeverAccused
    BY <1>2 DEF BankInit, JobsInPlace, AnswersTrue, NeverAccused
  <1>7. MemoryGood
    <2>1. mem = Blank /\ open = {} /\ \A w \in Workers : job[w] = "init"
      BY DEF BankInit
    <2> QED BY <2>1, WorkersAssumption DEF MemoryGood, AllInitialized, Initialized, RunJobs
  <1>8. open = {}
    BY DEF BankInit
  <1> QED BY <1>1, <1>5, <1>6, <1>7, <1>8 DEF MoneyInv

\* Every step of a worker preserves it.
LEMMA MoneyInvNext == MoneyInv /\ [BankNext]_bankVars => MoneyInv'
  <1> SUFFICES ASSUME MoneyInv, [BankNext]_bankVars  PROVE MoneyInv'
    OBVIOUS
  <1>1. BankInv'
    BY BankInvNext DEF MoneyInv
  <1>2. CASE UNCHANGED bankVars
    <2>1. /\ UNCHANGED <<lib, mem, open, before, view, fails, misused, pc, job, args, tx>>
          /\ UNCHANGED <<count, cntr, error>>
      BY <1>2 DEF bankVars, libVars, runVars
    <2>2. BankTypeOK'
      BY <2>1 DEF MoneyInv, BankTypeOK
    <2>3. JobsInPlace' /\ AnswersTrue' /\ NeverAccused'
      BY <2>1 DEF MoneyInv, JobsInPlace, AnswersTrue, NeverAccused
    <2>4. MemoryGood'
      BY <2>1, QuietMemory DEF Settled, is_ro
    <2>5. \A w \in open' : Served(w)'
      BY <2>1 DEF MoneyInv, Served, Memory
    <2> QED BY <1>1, <2>2, <2>3, <2>4, <2>5 DEF MoneyInv
  <1>3. ASSUME NEW w \in Workers, WorkerStep(w)  PROVE MoneyInv'
    <2>1. CASE Body(w)
      BY <1>1, <2>1, FillMoney, CheckFillMoney, LongMoney, AllocMoney, ResizeMoney,
         NoMemoryMoney, ShortMoney, DebitMoney, CreditMoney DEF Body
    <2>2. CASE ~Body(w)
      BY <1>1, <1>3, <2>2, BeginMoney, LeaveMoney, ChooseMoney, FailMoney, DestroyedMoney
         DEF WorkerStep
    <2> QED BY <2>1, <2>2
  <1> QED BY <1>2, <1>3 DEF BankNext

\* The inductive invariant of the money, whatever the library and the workers do.
THEOREM MoneyInvariance == BankSpec => []MoneyInv
  BY MoneyInvInit, MoneyInvNext, PTL DEF BankSpec

\* What every variable may hold; the locations that the closures read are always
\* in the memory.
THEOREM BankTyped == BankSpec => []BankTypeOK
  <1>1. MoneyInv => BankTypeOK
    BY DEF MoneyInv
  <1> QED BY <1>1, MoneyInvariance, PTL

\* No payment, addition or removal of an account makes or loses money, with a
\* snapshot for each transaction or with a lock, for a self-payment too
\* (short_tx and alloc_tx, workload.hpp).
THEOREM MoneyIsConserved == BankSpec => []MoneyConserved
  <1>1. MoneyInv => MoneyConserved
    <2> SUFFICES ASSUME MoneyInv, Settled  PROVE Balanced(mem, 0)
      BY DEF MoneyConserved
    <2>1. MemoryGood
      BY DEF MoneyInv
    <2> QED BY <2>1, BlankBalanced, FilledGood DEF MemoryGood, Good
  <1> QED BY <1>1, MoneyInvariance, PTL

\* No worker reports a violation (the error messages of WorkloadBank::run and init,
\* workload.hpp), whatever is drawn and however often transactions fail: the sums
\* that long_tx compares are those of one good memory.
THEOREM NobodyIsAccused == BankSpec => []NeverAccused
  <1>1. MoneyInv => NeverAccused
    BY DEF MoneyInv
  <1> QED BY <1>1, MoneyInvariance, PTL

\* Every segment but the last is full and none is empty, so the segment that
\* alloc_tx frees always has one before it (workload.hpp, alloc_tx).
THEOREM AccountsStayPacked == BankSpec => []SegmentsPacked
  <1>1. MoneyInv => SegmentsPacked
    BY DEF MoneyInv, MemoryGood, Good, SegmentsPacked
  <1> QED BY <1>1, MoneyInvariance, PTL
=============================================================================
