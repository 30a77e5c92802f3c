-------------------------------- MODULE Bank --------------------------------
(***************************************************************************)
(* WorkloadBank of workload.hpp, init() and run(): workers that move money *)
(* between accounts, add and remove accounts, and sum them all up, each in *)
(* a transaction that is repeated until it commits (Transaction and        *)
(* transactional() of transactional.hpp).                                  *)
(*                                                                         *)
(* The library under the workers is one of two.  "reference" is            *)
(* reference/tm.c: a readers-writer lock, words written in place, and no   *)
(* call fails but for want of memory.  "tested" is any library that keeps  *)
(* its promise: a transaction works on a snapshot, any call of it may fail *)
(* and undo it, and tm_end fails if what it read has changed.              *)
(*                                                                         *)
(* The shared memory is the list of the segments of accounts, in order; a  *)
(* step of a transaction is its work on one segment, or on one account.    *)
(* Operations of one transaction that nobody can tell apart (the writes of *)
(* init, those that end an allocation) are one step.                       *)
(***************************************************************************)
EXTENDS WorkerThreads, SequencesExt

CONSTANTS
  nbaccounts,     \* accounts per segment, and at first
  init_balance,
  nbtxperwrk,     \* transactions per worker
  Triggers,       \* what alloc_trigger may draw
  MaxFails        \* how often the library or the memory fails

ASSUME BankAssumption ==
  /\ nbaccounts \in Nat \ {0, 1} /\ init_balance \in Nat \ {0} /\ nbtxperwrk \in Nat
  /\ IsFiniteSet(Triggers) /\ Triggers \subseteq Nat /\ MaxFails \in Nat

VARIABLES
  lib,          \* the library
  mem,          \* the committed memory (the memory, with "reference")
  open,         \* the workers whose transaction the library holds open
  before, view, \* "tested": the snapshot of each worker, and its copy of it
  fails,        \* how often the library or the memory has failed
  misused,      \* history: was tm_end called on a transaction that is over?
  pc, job,      \* where each worker is, and in which transaction
  args,         \* the arguments of that transaction, captured by reference
  tx,           \* its Transaction object and the locals of its closure
  count,        \* run's loosely updated number of accounts
  cntr,         \* how many transactions of run each worker has started
  error         \* does the worker return an error message?

libVars == <<lib, mem, open, before, view, fails, misused>>
runVars == <<count, cntr, error>>
bankVars == <<libVars, pc, job, args, tx, runVars>>

Jobs == {"init", "init_check", "run", "long", "alloc", "short", "last_long"}
BankLabels == {"begin", "body", "debit", "credit", "destroy", "next", "again",
               "gone", "terminated"}

\* The memory before init(), a zeroed segment, and after it.
Blank == <<[parity |-> 0, accounts |-> <<>>]>>
Filled == <<[parity |-> 0, accounts |-> [i \in 1..nbaccounts |-> init_balance]]>>

\* An account is named by its segment and its place in it.
NULL == <<0, 0>>
NewTx == [at |-> 1, seen |-> 0, sum |-> 0, send |-> NULL, recv |-> NULL,
          aborted |-> FALSE, thrown |-> "none", ret |-> TRUE]

BankInit ==
  /\ lib \in {"reference", "tested"}
  /\ mem = Blank
  /\ open = {} /\ fails = 0 /\ misused = FALSE
  /\ before = [w \in Workers |-> <<>>] /\ view = [w \in Workers |-> <<>>]
  /\ pc = [w \in Workers |-> "begin"] /\ job = [w \in Workers |-> "init"]
  /\ args = [w \in Workers |-> <<0, 0>>]
  /\ tx = [w \in Workers |-> NewTx]
  /\ count = [w \in Workers |-> nbaccounts] /\ cntr = [w \in Workers |-> 0]
  /\ error = [w \in Workers |-> FALSE]

Goto(w, from, to) == pc[w] = from /\ pc' = [pc EXCEPT ![w] = to]
is_ro(w) == job[w] \in {"init_check", "long", "last_long"}

\* The sums of a sequence as a loop over it has them, after each number.
Sums(s) ==
  LET sums[n \in 0..Len(s)] == IF n = 0 THEN 0 ELSE sums[n - 1] + s[n]
  IN  sums
Sum(s) == Sums(s)[Len(s)]

\* The money and the accounts there are in each segment of a memory.
Funds(m) == [i \in 1..Len(m) |-> m[i].parity + Sum(m[i].accounts)]
Sizes(m) == [i \in 1..Len(m) |-> Len(m[i].accounts)]

-----------------------------------------------------------------------------
(* The library *)

\* The lock is free, or held by readers and asked by one.
\* (Mutant: a reader does not ask for it.)
AcquireReaderFree(w) == is_ro(w) \/ open = {}
Acquire(w) == IF is_ro(w) THEN \A v \in open : is_ro(v) ELSE open = {}

\* tm_begin
LibBegin(w) ==
  /\ lib = "reference" => Acquire(w)
  /\ open' = open \cup {w}
  /\ IF lib = "tested"
     THEN before' = [before EXCEPT ![w] = mem] /\ view' = [view EXCEPT ![w] = mem]
     ELSE UNCHANGED <<before, view>>
  /\ UNCHANGED <<lib, mem, fails, misused>>

\* tm_read, tm_write, tm_alloc and tm_free, when they succeed.
Memory(w) == IF lib = "tested" THEN view[w] ELSE mem
LibWrite(w, m) ==
  /\ IF lib = "tested"
     THEN view' = [view EXCEPT ![w] = m] /\ UNCHANGED mem
     ELSE mem' = m /\ UNCHANGED view
  /\ UNCHANGED <<lib, open, before, fails, misused>>

Forget(w) ==
  before' = [before EXCEPT ![w] = <<>>] /\ view' = [view EXCEPT ![w] = <<>>]

\* The transaction fails, and is over.
LibFail(w) ==
  /\ lib = "tested" /\ fails < MaxFails /\ fails' = fails + 1
  /\ open' = open \ {w} /\ Forget(w)
  /\ UNCHANGED <<lib, mem, misused>>

\* tm_end: what was written is committed, or the transaction fails.
\* (Mutant: the lock is not released.)
LibCommitHolds(w) ==
  /\ lib = "tested" => view[w] = before[w] \/ mem = before[w]
  /\ mem' = IF lib = "reference" \/ view[w] = before[w] THEN mem ELSE view[w]
  /\ Forget(w) /\ misused' = (misused \/ w \notin open)
  /\ UNCHANGED <<lib, open, fails>>
LibCommit(w) ==
  /\ lib = "tested" => view[w] = before[w] \/ mem = before[w]
  /\ mem' = IF lib = "reference" \/ view[w] = before[w] THEN mem ELSE view[w]
  /\ open' = open \ {w} /\ Forget(w) /\ misused' = (misused \/ w \notin open)
  /\ UNCHANGED <<lib, fails>>

LibConflict(w) ==
  \/ LibFail(w)
  \/ /\ lib = "tested" /\ view[w] # before[w] /\ mem # before[w]
     /\ open' = open \ {w} /\ Forget(w)
     /\ UNCHANGED <<lib, mem, fails, misused>>

-----------------------------------------------------------------------------
(* class Transaction and transactional() *)

\* The constructor; it throws if tm_begin gives no transaction.
Begin(w) ==
  /\ Goto(w, "begin", "body") /\ LibBegin(w)
  /\ tx' = [tx EXCEPT ![w] = NewTx]
  /\ UNCHANGED <<job, args, runVars>>

BeginThrows(w) ==
  /\ Goto(w, "begin", "gone")
  /\ fails < MaxFails /\ fails' = fails + 1
  /\ UNCHANGED <<lib, mem, open, before, view, misused, job, args, tx, runVars>>

\* A call fails: TransactionRetry is thrown.  (Mutant: aborted is not set.)
FailUnmarked(w) ==
  /\ pc[w] \in {"body", "debit", "credit"} /\ LibFail(w)
  /\ pc' = [pc EXCEPT ![w] = "destroy"]
  /\ tx' = [tx EXCEPT ![w].thrown = "retry"]
  /\ UNCHANGED <<job, args, runVars>>
Fail(w) ==
  /\ pc[w] \in {"body", "debit", "credit"} /\ LibFail(w)
  /\ pc' = [pc EXCEPT ![w] = "destroy"]
  /\ tx' = [tx EXCEPT ![w].aborted = TRUE, ![w].thrown = "retry"]
  /\ UNCHANGED <<job, args, runVars>>

\* The closure returns.
Return(w, from, value) ==
  Goto(w, from, "destroy") /\ tx' = [tx EXCEPT ![w].ret = value]

\* What the caller does with the value of a committed transaction.
Resume(w) ==
  LET refused == job[w] = "short" /\ ~tx[w].ret
      wrong == job[w] # "short" /\ ~tx[w].ret IN
  /\ pc' = [pc EXCEPT ![w] =
       CASE job[w] = "init" -> "begin"
         [] refused -> "again"
         [] wrong \/ job[w] = "last_long" -> "gone"
         [] OTHER -> "next"]
  /\ job' = [job EXCEPT ![w] =
       CASE job[w] = "init" -> "init_check"
         [] refused \/ wrong \/ job[w] = "last_long" -> @
         [] OTHER -> "run"]
  /\ error' = [error EXCEPT ![w] = wrong]

\* The destructor: an aborted transaction is over already and is tried again;
\* another is ended, by an exception too.  TransactionRetry thrown while an
\* exception unwinds terminates the process.
Ending(w) == pc[w] = "destroy" /\ ~tx[w].aborted
Destroy(w) ==
  \/ /\ tx[w].aborted /\ Goto(w, "destroy", "begin")
     /\ UNCHANGED <<libVars, job, runVars>>
  \/ /\ Ending(w) /\ LibCommit(w)
     /\ IF tx[w].thrown = "none"
        THEN Resume(w)
        ELSE Goto(w, "destroy", "gone") /\ UNCHANGED <<job, error>>
     /\ UNCHANGED <<count, cntr>>
  \/ /\ Ending(w) /\ LibConflict(w)
     /\ Goto(w, "destroy", IF tx[w].thrown = "none" THEN "begin" ELSE "terminated")
     /\ UNCHANGED <<job, runVars>>

Destroyed(w) ==
  /\ Destroy(w)
  /\ tx' = [tx EXCEPT ![w] = NewTx]
  /\ UNCHANGED args

-----------------------------------------------------------------------------
(* The closures.  Segment number at is the one the transaction has reached. *)

Segment(w) == Memory(w)[tx[w].at]
AtLast(w) == tx[w].at = Len(Memory(w))
InBody(w, j) == pc[w] = "body" /\ job[w] = j
Kept(w) == UNCHANGED <<job, args, runVars>>

\* init(): the first segment is filled, then its first account is read.
Fill(w) ==
  /\ InBody(w, "init")
  /\ LibWrite(w, [Memory(w) EXCEPT ![1].accounts = [i \in 1..nbaccounts |-> init_balance]])
  /\ Return(w, "body", TRUE) /\ Kept(w)

CheckFill(w) ==
  /\ InBody(w, "init_check")
  /\ Return(w, "body", Segment(w).accounts[1] = init_balance)
  /\ UNCHANGED libVars /\ Kept(w)

\* long_tx: a segment is added to the sum; after the last one the number of
\* accounts is stored in run's count and the sum is compared.
Sum1(w) == tx[w].sum + Segment(w).parity + Sum(Segment(w).accounts)
Seen1(w) == tx[w].seen + Len(Segment(w).accounts)
LongVisit(w) ==
  /\ pc[w] = "body" /\ job[w] \in {"long", "last_long"} /\ UNCHANGED libVars
  /\ IF \E i \in DOMAIN Segment(w).accounts : Segment(w).accounts[i] < 0
     THEN Return(w, "body", FALSE) /\ UNCHANGED count
     ELSE IF AtLast(w)
     THEN /\ Return(w, "body", Sum1(w) = init_balance * Seen1(w))
          /\ count' = IF job[w] = "long" THEN [count EXCEPT ![w] = Seen1(w)] ELSE count
     ELSE /\ tx' = [tx EXCEPT ![w].at = @ + 1, ![w].sum = Sum1(w), ![w].seen = Seen1(w)]
          /\ UNCHANGED <<pc, count>>
  /\ UNCHANGED <<job, args, cntr, error>>

\* alloc_tx: the last segment is looked for, ...
AllocVisit(w) ==
  /\ InBody(w, "alloc") /\ ~AtLast(w)
  /\ tx' = [tx EXCEPT ![w].at = @ + 1, ![w].seen = Seen1(w)]
  /\ UNCHANGED <<libVars, pc>> /\ Kept(w)

\* ... and if there are many accounts the last one is removed, with its segment
\* if no other is left there; parity makes up for its balance.
\* (Mutants: the segment stays; its parity is lost.)
TooMany(w) == Seen1(w) > args[w][1] /\ Seen1(w) > 2
RemovedKeeps(s) ==
  LET k == Len(s)
      parity == s[k].parity + Last(s[k].accounts) - init_balance
  IN [s EXCEPT ![k] = [parity |-> parity, accounts |-> Front(s[k].accounts)]]
RemovedUnpaid(s) ==
  LET k == Len(s)
      parity == s[k].parity + Last(s[k].accounts) - init_balance
  IN IF Len(s[k].accounts) > 1
     THEN [s EXCEPT ![k] = [parity |-> parity, accounts |-> Front(s[k].accounts)]]
     ELSE Front(s)
Removed(s) ==
  LET k == Len(s)
      parity == s[k].parity + Last(s[k].accounts) - init_balance
  IN IF Len(s[k].accounts) > 1
     THEN [s EXCEPT ![k] = [parity |-> parity, accounts |-> Front(s[k].accounts)]]
     ELSE [Front(s) EXCEPT ![k - 1].parity = @ + parity]

\* If there are few, one is added, in a new segment if the last one is full.
Full(s) == Len(Last(s).accounts) >= nbaccounts
Added(s) ==
  IF Full(s)
  THEN Append(s, [parity |-> 0, accounts |-> <<init_balance>>])
  ELSE [s EXCEPT ![Len(s)].accounts = Append(@, init_balance)]

Resize(w) ==
  /\ InBody(w, "alloc") /\ AtLast(w)
  /\ LibWrite(w, IF TooMany(w) THEN Removed(Memory(w)) ELSE Added(Memory(w)))
  /\ Return(w, "body", TRUE) /\ Kept(w)

\* tm_alloc has no memory: TransactionAlloc is thrown, and not caught here.
NoMemory(w) ==
  /\ InBody(w, "alloc") /\ AtLast(w) /\ ~TooMany(w) /\ Full(Memory(w))
  /\ fails < MaxFails /\ fails' = fails + 1
  /\ Goto(w, "body", "destroy") /\ tx' = [tx EXCEPT ![w].thrown = "nomem"]
  /\ UNCHANGED <<lib, mem, open, before, view, misused>> /\ Kept(w)

\* short_tx: each account is looked for in this segment; while it is not found
\* the length of the segment is taken off its number, the caller's own, which
\* a retry goes on with.  (Mutant: it is taken off the number of a found one too.)
Place(w, id, found) ==
  IF found = NULL /\ id < Len(Segment(w).accounts) THEN <<tx[w].at, id + 1>> ELSE found
LeftAlways(w, id, found) == id - Len(Segment(w).accounts)
Left(w, id, found) ==
  IF Place(w, id, found) = NULL THEN id - Len(Segment(w).accounts) ELSE id

ShortVisit(w) ==
  LET send == Place(w, args[w][1], tx[w].send)
      recv == Place(w, args[w][2], tx[w].recv)
      found == send # NULL /\ recv # NULL
      to == IF found THEN "debit" ELSE IF AtLast(w) THEN "destroy" ELSE "body" IN
  /\ InBody(w, "short") /\ Goto(w, "body", to)
  /\ args' = [args EXCEPT ![w] =
                 <<Left(w, args[w][1], tx[w].send), Left(w, args[w][2], tx[w].recv)>>]
  /\ tx' = [tx EXCEPT ![w].send = send, ![w].recv = recv, ![w].ret = found,
                      ![w].at = IF to = "body" THEN @ + 1 ELSE @]
  /\ UNCHANGED <<libVars, job, runVars>>

\* One unit leaves the sender's account, if it has any, ...
Balance(w, a) == Memory(w)[a[1]].accounts[a[2]]
Paid(m, a, n) == [m EXCEPT ![a[1]].accounts[a[2]] = n]

Debit(w) ==
  LET send_val == Balance(w, tx[w].send) IN
  /\ pc[w] = "debit"
  /\ IF send_val > 0
     THEN /\ LibWrite(w, Paid(Memory(w), tx[w].send, send_val - 1))
          /\ Goto(w, "debit", "credit")
     ELSE UNCHANGED libVars /\ Goto(w, "debit", "destroy")
  /\ UNCHANGED tx /\ Kept(w)

\* ... and enters the receiver's, read after that, which may be the same.
\* (Mutant: both were read before either was written.)
CreditStale(w) ==
  LET same == IF tx[w].recv = tx[w].send THEN 1 ELSE 0 IN
  /\ Goto(w, "credit", "destroy")
  /\ LibWrite(w, Paid(Memory(w), tx[w].recv, Balance(w, tx[w].recv) + same + 1))
  /\ UNCHANGED tx /\ Kept(w)
Credit(w) ==
  /\ Goto(w, "credit", "destroy")
  /\ LibWrite(w, Paid(Memory(w), tx[w].recv, Balance(w, tx[w].recv) + 1))
  /\ UNCHANGED tx /\ Kept(w)

Body(w) ==
  \/ Fill(w) \/ CheckFill(w) \/ LongVisit(w) \/ AllocVisit(w) \/ Resize(w) \/ NoMemory(w)
  \/ ShortVisit(w) \/ Debit(w) \/ Credit(w)

-----------------------------------------------------------------------------
(* run() *)

\* The rounds of measure(): no worker runs before all have initialized, and
\* none does if one threw in init.
Initialized(w) == job[w] \notin {"init", "init_check"}

Dismissed(w) ==
  /\ Goto(w, "next", "gone")
  /\ \E v \in Workers : pc[v] = "gone" /\ ~Initialized(v)
  /\ UNCHANGED <<libVars, job, args, tx, runVars>>

Call(w, j, a) ==
  /\ job' = [job EXCEPT ![w] = j] /\ args' = [args EXCEPT ![w] = a]
  /\ UNCHANGED <<libVars, tx, count, error>>

Accounts(w) == 0..count[w] - 1

Choose(w) ==
  /\ Goto(w, "next", "begin")
  /\ \A v \in Workers : Initialized(v)
  /\ IF cntr[w] = nbtxperwrk
     THEN Call(w, "last_long", <<0, 0>>) /\ UNCHANGED cntr
     ELSE /\ cntr' = [cntr EXCEPT ![w] = @ + 1]
          /\ \/ Call(w, "long", <<0, 0>>)
             \/ \E trigger \in Triggers : Call(w, "alloc", <<trigger, 0>>)
             \/ \E a \in Accounts(w) \X Accounts(w) : Call(w, "short", a)

\* short_tx found that an account does not exist: two others are drawn.
Draw(w, a) ==
  /\ Goto(w, "again", "begin") /\ a \in Accounts(w) \X Accounts(w)
  /\ Call(w, "short", a) /\ UNCHANGED cntr

WorkerStep(w) ==
  \/ Begin(w) \/ BeginThrows(w) \/ Body(w) \/ Fail(w) \/ Destroyed(w)
  \/ Dismissed(w) \/ Choose(w)
  \/ \E a \in Accounts(w) \X Accounts(w) : Draw(w, a)

Alive == \A w \in Workers : pc[w] # "terminated"
BankNext ==
  /\ Alive
  /\ \E w \in Workers : WorkerStep(w)

(***************************************************************************)
(* The system runs every thread; and numbers drawn at random are, again    *)
(* and again, those of the first account, which exists.                    *)
(***************************************************************************)
BankFairness ==
  \A w \in Workers :
    WF_bankVars(Alive /\ WorkerStep(w)) /\ SF_bankVars(Alive /\ Draw(w, <<0, 0>>))

BankSpec == BankInit /\ [][BankNext]_bankVars
FairBankSpec == BankSpec /\ BankFairness

-----------------------------------------------------------------------------
AccountSegment == [parity : Int, accounts : Seq(Nat)]
Segments == Seq(AccountSegment)
Transactions ==
  [at : Nat \ {0}, seen : Nat, sum : Int, send : Nat \X Nat, recv : Nat \X Nat,
   aborted : BOOLEAN, thrown : {"none", "retry", "nomem"}, ret : BOOLEAN]
BankTypeOK ==
  /\ lib \in {"reference", "tested"} /\ mem \in Segments /\ open \subseteq Workers
  /\ before \in [Workers -> Segments] /\ view \in [Workers -> Segments]
  /\ fails \in 0..MaxFails /\ misused \in BOOLEAN
  /\ pc \in [Workers -> BankLabels] /\ job \in [Workers -> Jobs]
  /\ args \in [Workers -> Nat \X Nat]
  /\ tx \in [Workers -> Transactions]
  /\ count \in [Workers -> Nat \ {0}] /\ cntr \in [Workers -> 0..nbtxperwrk]
  /\ error \in [Workers -> BOOLEAN]

\* Committed: no writer works in place.
Settled == lib = "tested" \/ \A w \in open : is_ro(w)

\* The accounts of a memory, with what is on its way, hold what they brought.
Balanced(m, due) == Sum(Funds(m)) + due = init_balance * Sum(Sizes(m))

\* Money is moved, never made or lost: every account that was added brought its
\* initial balance, one that is removed leaves the rest of its own in parity,
\* wherever that is kept once its segment is gone.
MoneyConserved ==
  Settled => Balanced(mem, 0)

\* A library that keeps its promise is never accused, whatever the workers draw
\* and however often transactions fail.
NeverAccused == \A w \in Workers : ~error[w]

\* Accounts stay packed, two at least: every segment but the last is full and
\* none is empty, so that the last account is in the last segment, which has
\* one before it whenever it is freed.
Packed(m) ==
  /\ Len(m) >= 1 /\ \A i \in 1..Len(m) - 1 : Len(m[i].accounts) = nbaccounts
  /\ Len(Last(m).accounts) \in 1..nbaccounts
  /\ Len(m) > 1 \/ Len(m[1].accounts) >= 2
AllInitialized == \A w \in Workers : Initialized(w)
SegmentsPacked == Settled /\ AllInitialized => Packed(mem)

\* Every transaction ends once: the destructor does not end one that failed and
\* leaves none open, whichever exception ends the closure.
EndedOnce ==
  /\ ~misused
  /\ \A w \in Workers : pc[w] \in {"begin", "next", "again", "gone"} => w \notin open

\* The run ends: no transaction waits for ever, and no draw is in vain for ever.
RunEnds ==
  <>(\A w \in Workers : pc[w] = "gone") \/ <>(\E w \in Workers : pc[w] = "terminated")

-----------------------------------------------------------------------------
(* The inductive invariant of EndedOnce, and the lock of the reference. *)

\* What is needed of types: a Transaction object has its flag.
ShapeOK ==
  /\ pc \in [Workers -> BankLabels] /\ job \in [Workers -> Jobs]
  /\ open \subseteq Workers
  /\ tx = [w \in Workers |-> tx[w]]
  /\ \A w \in Workers : "aborted" \in DOMAIN tx[w] /\ tx[w].aborted \in BOOLEAN

\* A transaction is open from its begin until a call of it fails or it is ended;
\* aborted tells the destructor which.
OpenExact ==
  \A w \in Workers :
    w \in open <=> pc[w] \in {"body", "debit", "credit"} \/ Ending(w)
AbortedLate == \A w \in Workers : tx[w].aborted => pc[w] = "destroy"

\* One writer holds the lock of the reference, or readers do.
LockExclusive ==
  lib = "reference" =>
    \A v, w \in open : v # w => is_ro(v) /\ is_ro(w)

BankInv == ShapeOK /\ OpenExact /\ AbortedLate /\ ~misused /\ LockExclusive

-----------------------------------------------------------------------------
(* The inductive invariant of MoneyConserved, SegmentsPacked and NeverAccused. *)

RunJobs == {"long", "alloc", "short", "last_long"}
JobsInPlace ==
  \A w \in Workers :
    /\ pc[w] = "next" => job[w] = "run"
    /\ pc[w] \in {"begin", "body", "destroy"} => job[w] # "run"
    /\ pc[w] \in {"debit", "credit", "again"} => job[w] = "short"

\* The memory is filled once, before any worker leaves init(); from then on it
\* is good whenever nobody works in place.
Good(m) == Packed(m) /\ Balanced(m, 0)
MemoryGood ==
  /\ ~AllInitialized => mem \in {Blank, Filled} /\ \A w \in Workers : job[w] \notin RunJobs
  /\ mem = Blank => \A w \in Workers :
       job[w] = "init" /\ (lib = "tested" /\ w \in open => before[w] = Blank)
  /\ AllInitialized /\ Settled => Good(mem)

\* A worker at p, in a job j, with a Transaction object t, has a good memory m
\* before it, but for the unit it is moving, ...
Places(m) == {a \in (1..Len(m)) \X Nat : a[2] \in 1..Len(m[a[1]].accounts)}
Sees(m, p, j) ==
  /\ j = "init" => m \in {Blank, Filled} /\ (p = "destroy" => m = Filled)
  /\ j = "init_check" => m = Filled
  /\ j \in RunJobs => Packed(m) /\ Balanced(m, IF p = "credit" THEN 1 ELSE 0)

\* ... has summed up the segments it has passed, and names accounts that exist.
Knows(m, p, j, t) ==
  /\ p = "body" =>
       /\ t.at \in 1..Len(m)
       /\ j \in {"long", "last_long"} => t.sum = Sums(Funds(m))[t.at - 1]
       /\ j \in {"long", "last_long", "alloc"} => t.seen = Sums(Sizes(m))[t.at - 1]
       /\ {t.send, t.recv} \subseteq {NULL} \cup Places(m)
  /\ p \in {"debit", "credit"} => {t.send, t.recv} \subseteq Places(m)
Served(w) ==
  Sees(Memory(w), pc[w], job[w]) /\ Knows(Memory(w), pc[w], job[w], tx[w])

\* Only short_tx is refused.
AnswersTrue == \A w \in Workers : job[w] # "short" => tx[w].ret

MoneyInv ==
  /\ BankTypeOK /\ BankInv /\ JobsInPlace /\ MemoryGood /\ AnswersTrue /\ NeverAccused
  /\ \A w \in open : Served(w)
=============================================================================
