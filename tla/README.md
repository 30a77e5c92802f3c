# A verified model of the dual-versioned transactional memory

The repository is a software transactional memory (STM) for a concurrent
programming course: an implementation (`353324/`), a coarse-grained reference
(`reference/`), the grader that runs bank workloads against both (`grading/`),
a playground, a template and some synchronisation examples. This directory
holds TLA+ modules that model it, TLC configurations that check them and TLAPS
proofs about them. All paths below are relative to the repository.

## Inventory

| Component | State | Operations | Interacts with | What is hard, what makes it correct |
|---|---|---|---|---|
| Batcher (`353324/tm.c` tm_begin, tm_end; `structs.h` Batcher_str) | `timestamp`, `next`, `cnt_epoch`, `cnt_thread`, `res_writes`, `is_writing` | begin (reader or writer), refusal and retry, end, end of an epoch | called by clients and by Undo; calls Commit_seg | unlocked counters guarded by a ticket lock; state read after the turn is passed; ids that are counts. Correct if one thread has the turn, epochs do not overlap, commits run with nobody inside, every ticket is served |
| Dual-versioned words (`tm_read`, `tm_write`, `try_write`, Undo, Commit_seg) | `data`, `shadow`, `control` per word | read, write, undo, commit | control words hold the ids the batcher gave | several atomic accesses per call, multi-word calls that fail part of the way, 8-bit marks. Correct if transactions are serialisable, see snapshots and leave nothing when they fail |
| Segment list (`tm_alloc`, `tm_free`, findSegment, parts of Undo_seg and Commit_seg) | `allocs`, `next`, `previous`, `creator`, `to_delete` per segment | allocate, free, undo of either, reclaim at a commit | walked by every read, write, undo and commit | unsynchronised insertion, reclaiming while walking, frees that abort |
| Region (`tm_create`, `tm_destroy`, accessors) | the region | create, destroy | all of the above | pieces that cannot be had; a destroy that must find what transactions left, aborted ones too. Correct if a region that is gone leaves nothing allocated |
| Reference memory (`reference/`) | one `pthread_rwlock` | begin, end, read, write, alloc, free | same interface | words are written in place: correct if the mode of the lock keeps readers from a writer's half-done work |
| Grader `Sync`, `measure` (`grading/grading.cpp`) | atomic status, two condition variables, runtime | notify, wait, join, abort on error or timeout | the workload's threads | one counter for both directions, a status several threads write, rounds that overlap, times that are over. Correct if all workers are at the same task, the verdict is the round's, and nothing is unloaded under a running thread |
| Grader `Latch`, `Barrier`, `bounded_run` (`grading/common.hpp`) | a flag; a counter and a step | raise, wait; sync; run with a time limit | used by the grader | reuse of a barrier, a detached thread that outlives its frame. Correct if nobody leaves a use of the barrier before all have entered it |
| Grader `Transaction`, `Shared`, `transactional` (`grading/transactional.hpp`) | per-thread transaction | begin, read, write, alloc, free, retry | the STM interface | exceptions between begin and end. Correct if each transaction ends exactly once |
| Bank workload (`grading/workload.hpp`) | accounts in a list of segments | long, short and alloc transactions, checks | transactions | sums that must be conserved across segments that come and go, indices that are stale, error paths through a barrier. Correct if a library that keeps its promise is never accused and one that does not is found |
| Synchronisation examples (`sync-examples/`) | counters, a leader, a buffer | 13 small programs | none | several are broken on purpose |
| Playground, template, headers, `submit.py`, makefiles | none of interest | | | nothing concurrent of their own |

## Modules

| Module | What it is |
|---|---|
| `Batcher` | `tm_begin` and `tm_end`: the ticket lock, the epochs, the ids |
| `CharWord` | ids cut down to the `char` of a control word |
| `DualVersion` | the words of a segment under the batcher: `tm_read`, `tm_write`, `try_write`, Undo, Commit_seg. EXTENDS `Batcher` |
| `SegmentList` | the list of allocated segments under the batcher: `tm_alloc`, `tm_free`, findSegment, and the list part of Undo and of the commit. EXTENDS `Batcher` |
| `Region` | `tm_create`, transactions on the list while the region is up, `tm_destroy`. EXTENDS `SegmentList` |
| `SerialMemory` | the abstract promise to clients: snapshots, atomic aborts, serialisable batches. `DualVersion` implements it (`Promise`, `Serialisable`) |
| `WorkerThreads` | the grader's threads: a finite set of at least one |
| `Barrier` | the spin barrier of common.hpp |
| `Sync` | class Sync and the Latch it waits on, the master and the workers of `measure` |
| `Runtime` | the Chrono of Sync: what a round's time comes out as. EXTENDS `Sync` |
| `Grader` | one turn of the loop of `main`: load, create, measure, destroy, unload, with `check` as the workers' last task. Composes (EXTENDS) `Sync` and `Barrier`, and implements both |
| `Bank` | `init` and `run` of the bank workload through `transactional()` and `Transaction`, over the reference memory or over any memory that keeps its promise |
| `BatcherProofs`, `DualProofs`, `SegmentProofs`, `RegionProofs`, `BarrierProofs`, `SyncProofs`, `GraderProofs`, `BankProofs` | theorems |
| `MCBatcher`, `MCDualVersion`, `MCSegmentList`, `MCRegion` | symmetry sets and small inputs for TLC |

The build modelled of the memory is the one `353324/` compiles, with
`_TO_USE_BATCHER_` defined; debug printing is left out, and so are the branches
under `assert_mode`, a constant that is false (common.hpp:69).

### How state and actions correspond to the code

*Granularity.* `timestamp`, `next` and `cnt_epoch` are read by threads that do
not have the turn, so every access to them is a step of its own. The other
counters are touched only between the end of a spin on `next` and `next++`;
those accesses are grouped in a few steps, and `TurnExclusive` (checked and
proved) is what makes the grouping harmless. Control words, `creator`,
`to_delete` and the list pointers are shared without the turn: one access, one
step, but for three actions that merge the accesses to one word or segment:
`UndoWord` (the tests of a control word and the copy they decide), `UndoSeg` (the
test of `creator` and the store of `to_delete`) and `Upgrade` (with the `bzero`
of several control words). While ids are distinct nobody else may change in
between what they test. The copy of one word is one step; a call on several
words is as many. In the grader each access to `nbready`, `status`, `errmsg`,
the latch and the barrier's `step` and `mode` is a step. All accesses are taken
in one order: the relaxed ones of the grader are ordered by the counting or by an
acquiring load that follows.

*Batcher.* `pc[t]` is the place of thread `t` in `tm_begin` or `tm_end`; `live`
is the client's code between them. `CallBegin` and `CallEnd` take a ticket,
`BeginTurn` and `EndTurn` end the spin. `Refuse`, `Skip`, `SkipLoad`, `Retry`
are the `while (true)` of a writer that finds no slot. `Leave` decrements
`cnt_thread` and chooses between `Commit`, `Reset`, `NewEpoch`, `EndNext` (last
one out of an epoch with a writer), `EndNext` alone (a reader, or the last of
an epoch of readers) and `Park`, `ParkLoad`, `Unpark` (a writer that waits).
That `next++` and the read of the epoch are separate steps in `Skip`/`SkipLoad`
and `Park`/`ParkLoad` is the order of the code (tm.c:239-241, 333-334).

*DualVersion.* A word is the `align` bytes the loops step over; its control
word is the first of its control bytes, the only one the loops look at. `call[t]`
holds the span, the word and the next access of the call thread `t` is in.
`ReadTest`, `ReadMark`, `ReadCopy` are the loop of `tm_read`; `Lock`, `Upgrade`
are the exchanges of `try_write` (with the `bzero` of a failed one), `Store` the
copy into `shadow`; `UndoWord`, `UndoRelease` are Undo_seg on one word, `DualEnd`
the `tm_end` of the client or of Undo; `DualCommit` is Commit_seg, one step
because nobody is inside (`CommitAlone`). `rd` and `wr` are history: what the
transaction has read of committed data and what it has written.

*SegmentList.* `creator`, `to_delete`, `next_seg`, `previous` are the fields of
Segment_str, `live` whether malloc has given the address out. `Alloc`, `Link`,
`Publish` are the three shared accesses of `tm_alloc`'s insertion; `Free` the
exchange of `creator`, `Delete` the store of `to_delete`; `UndoHead`, `UndoSeg`
the walk of Undo; `CommitHead`, `CommitSeg` (`Reclaim` or `Keep`), `CommitNext`,
`SegCommit` the loop of `tm_end`. The loop reads `seg->next` (tm.c:303) from the
segment Commit_seg may have freed just before (batcher_func.h:124), which is
undefined. `CommitNext` takes the two outcomes a build on glibc has: `next` is
still there, since `free` writes over 32 bytes at most from the start of a block,
`next` lies at byte 40, and nobody allocates meanwhile; or `free` has given a
large block back to the system and the process faults (`fault`, after which
nothing is `Running`). `FreedIsReadOnce` says that this is the only access to
freed memory.
`heap`, `made`, `gone` are history: the segments committed transactions left
allocated, and what each running transaction has allocated and freed. A client
names the segments of its snapshot only.

*Region.* `rpc` is the place of the thread that creates and destroys the region,
`blocks` the pieces it has got. `CreatePiece` allocates the next piece in the
order of the code, `CreateFailsAt` is its error path; the last piece, the
batcher, has none, and `BatcherMissing` ends in the store through NULL that
follows (tm.c:97-98). What `tm_create` writes into the pieces is `SegInit`,
taken as there from the start because nobody sees it before. `Destroy` has the
precondition of `tm_destroy` (no transaction); `FreeHead` and `WalkEnds` are its
loop, `FreeRegion` the rest. `SegNext` is taken while the region is up.

*Barrier.* One action per access of `sync()` to `step` or `mode`:
`EnterBarrier` (`fetch_add`), `Open`, `SeeLeave`, `LeaveBarrier` (`fetch_sub`),
`Close`, `SeeEnter`. `arrived` and `passed` count calls and returns.

*Sync.* `wpc[w]` is the place of a worker in `worker_wait`, its task and
`worker_notify`; `mpc` that of the master in `measure`, `master_notify`,
`master_wait`, `master_join`. `task[w]` and `round` number the tasks (init,
the repeated runs, check). A task ends in any of three ways (`Finish`): no
error, an error message, an exception. `timed` is the master's choice between
`Latch::wait` with and without a limit; `Overrun` is the limit reached, after
which the workers are left behind (`thrown`) and go on. `StartFails` is
`std::thread` throwing. The condition variable inside the latch needs no state
of its own: its wait has a predicate on the flag, under its mutex.

*Runtime.* `NotifyFirst` and `StartClock` separate the store of `Wait` from
`runtime.start()` (grading.cpp:73-74), `StopClock` is `runtime.stop()` by the
last worker. `local` is arbitrary before the first start, as the constructor
of Chrono leaves it.

*Grader.* `main` is the place in `main()`, `runner` the thread of `bounded_run`
around `tm_create` or `tm_destroy`. `Woken` needs no notification, since
`bounded_run` waits without a predicate and then joins; `BoundedOverrun` leaves
the thread behind. `Measured` distinguishes a returned error from an exception,
which ends in `quick_exit`. `cpc[w]` is the place in `check`, whose transactions
are one step each on `counter`; the library is correct, lossy (the first write of
the counter may do nothing, a decrement may start from an old value, but writes
what it computes) or throwing (`tm_begin`
gives `invalid_tx`, and `EndTask` ends the task with an exception wherever
`check` has a transaction). A correct library may still be slow.

*Bank.* The memory is the sequence of segments, each with its parity and its
accounts. A closure is a step for each segment it visits (`LongVisit`,
`AllocVisit`, `ShortVisit`), for each account it writes (`Debit`, `Credit`), and
for what it does at the end of the list (`Resize`). `Begin`, `Fail`, `Destroyed`
are the constructor of `Transaction`, a failed call in it and its destructor;
`Resume` what the caller does with the value. `reference` takes the lock in
`Acquire` and writes `mem`; `tested` works on `view`, fails at any call
(`LibFail`) and at the end if what it read has changed (`LibConflict`). `count`
and `args` are the variables the closures take by reference. Rounds are reduced
to what `Sync` guarantees (proved there): nobody runs before all have
initialised (`Choose`), and nobody does if one threw (`Dismissed`).

## Runs

Passing runs (deadlock is not checked: clients, workers and processes end):

| Run | Instance | Question |
|---|---|---|
| `batcher` | 3 threads, all may write and two of them do so twice; one may be a reader | mutual exclusion of the turn, commits alone, epochs do not overlap, slots conserved, `is_writing` exact; a writer returns only after its epoch's commit; with fairness, every ticket is served and every writing epoch ends |
| `dual_writers` | 2 threads: one transaction that reads or writes, and two that write; 2 calls each, 2 words, one at a time | the refinement of `SerialMemory`: snapshots, serialisable commits; clean aborts |
| `dual_spans` | the same threads, 1 transaction of 3 calls on one word, both, or none | writes are kept, marks have owners, a reader has one snapshot |
| `segments` | a region from `tm_create` to `tm_destroy`; 1 thread that allocates twice and may fail, 2 that free once, one of which may fail, 3 addresses | no access to freed memory but the commit's read of `next`; the list under allocation, abort, free, two frees of one segment and reuse of memory; no leak, whichever piece of the region cannot be had; ids of an epoch differ without readers |
| `grader` | 3 workers, 3 rounds, one decrement each in `check`, the three kinds of library | workers together in a round, the right verdict, the barrier, no false alarm, no lost update missed, no unload under a thread; the grader ends |
| `bank` | 2 workers, 2 transactions each and the last long one, segments of 2 accounts, 1 failure, both libraries | money conserved, accounts packed, no false accusation, transactions end once; the run ends |

Runs that must find a violation, each for a line the repository says of itself:

| Run | Property | What the code does |
|---|---|---|
| `lost_update` | `CommitsSerially` | an id is a count that also goes down: two writers of an epoch share one when a reader leaves between their begins; both read 0, both write, one update is lost and the epoch commits |
| `park_late` | `EndReturns` | the epoch a parked writer waits for is read after the turn is passed (tm.c:333-334): it may be one that never ends. `Skip` and `SkipLoad` do the same for a refused writer (239-241) |
| `failed_write_stays` | `FreeWordsClean` | a failing write of several words frees marks of earlier writes, which then escape Undo and are committed |
| `alloc_race` | `AllocatedIsListed` | two insertions at once lose a segment |
| `abort_frees` | `AbortedFreesNothing` | an aborted transaction's `tm_free` is carried out |
| `runtime` | `RuntimeOfRound` | the clock of Sync is never reset: from the second round on `master_wait` returns the sum of all rounds so far (grading.cpp:58 says one) |

*Why the passing runs are not vacuous, and what they leave out.* Serialisability
fails whenever ids collide or a multi-word write fails half-way, so the runs
that check it avoid exactly those two: in `dual_writers` two threads never make
a reader leave between the begins of two writers, and a call names one word.
Everything else (conflicts, upgrades of read marks, aborts, second epochs,
parked writers) happens in it. `segments` has one allocator because two break
the list (`alloc_race`), and a freer makes one call because an aborted free is carried out
(`abort_frees`): one that fails, or loses the race for a segment, has freed
nothing before. The allocator and one freer may fail, so that two Undo walks run
at once. `tm_free` of a segment the transaction itself
allocated always fails (tm.c:579, `creator` is its own id): `Free` models it, no
property forbids it. `UniqueIds` holds for the batch size of the code, 2; with
3, a writer may leave between the begins of two others, as a reader can.
`NothingLeaks` excepts a batcher that cannot be allocated: the process crashes.

`UnloadIdle` excepts the path on which `tm_create` took too long: the exception
leaves the constructor outside the inner `try` and the library is unloaded with
a thread in it. `MeasureEnds` excepts the untimed master with a library that
throws: a worker that leaves `check` by an exception never enters the barrier
again, and the others spin in it. The tested library always has a time limit;
the reference has none, and does not throw but for want of memory. In the bank,
`RunEnds` counts the termination of the process (a `tm_end` that fails while an
exception unwinds) as an end.

*Bounds.* `MaxTx` and `MaxOps` bound the transactions of a thread and the calls
of a transaction. Two transactions a thread are enough to leave an epoch and to
meet the next one; three threads are a batch of two and one that is refused.
Two words are what a cycle between two transactions needs. `CharRange` is 256,
as in the code; ids stay far below 128 at these sizes, and the theorems hold
for every width. `Rounds` = 3 is one task of each kind, the reuse of the latch
and of the counter, and a round after an error that must not happen; three
workers are a last one in, a last one out and one between. `NbTx` = 1 decrement
each makes races between three workers; `SizeRange` = 16 lets a counter wrap
when it is decremented once too often. In the bank, `Triggers` 0 makes
`alloc_tx` remove an account whenever it may, 3 makes it add up to four, so that
segments come and go; accounts hold 1, so that one payment empties them and the
next is refused; `MaxFails` = 1 lets any one call fail, and conflicts between
the two workers are not counted by it. `TickRange` and `MaxTime` bound the clock.

*Fairness.* `FairSpec` of the batcher: a thread that is inside `tm_begin` or
`tm_end` keeps running (its spins call `sched_yield`), and a client ends what it
began (the destructor of `Transaction`, transactional.hpp:292-297). Nothing
makes a client begin. `EpochEnds` needs the bound on transactions: overlapping
readers without end keep an epoch open in the code as well. `GraderFairness`:
the operating system runs the main thread, the runner and every worker, and a
call into the library returns; the time limit is not assumed to come in time.
`BankFairness`: weak fairness of each worker, and strong fairness of drawing the
first account, which always exists: a worker that draws accounts at random
again and again must draw it. The lock of the reference lets nobody overtake
for ever here because every worker has a bounded number of transactions.

## Proofs

All theorems hold for any finite set of threads, any batch size, any number of
transactions, words, values, segments, workers and rounds.
Constants are assumed to be what the code makes them: a finite set of threads,
positive sizes, a span that begins in a segment ends in it, at least two
accounts, and a counter of `check` wide enough for all its transactions; other
conditions are named with the theorem.

* `BatcherProofs`. The inductive invariant `IInv` is `TypeOK`, `TicketsOrdered`
  (tickets in use are distinct, not behind `next`, and the one with the turn is
  `next`), `CountExact` (`cnt_thread` counts the transactions inside),
  `CommitAlone` and `InsideThisEpoch`. Mutual exclusion alone is not inductive:
  it follows from distinct tickets, and `CommitAlone` from an exact count (the
  decrement that finds 1 leaves nobody inside). From it: `TypeCorrect`,
  `TurnIsExclusive`, `CommitIsAlone`, `NoSnapshotSpansEpochs`. `SlotIInv` adds where slots are while a thread with the
  turn is between two accesses (`Reopening`, `WritersWait`) and gives
  `SlotsAreConserved` and `WritingIsTrue`. An epoch with a writer is committed
  then, and a writer that waits has read an epoch no older than its own:
  `WritersReturnCommitted`. `RankIInv` adds, for batches of two and
  no readers, that an epoch's only writer is still inside and has id 1
  (`FirstIsInside`) and ids are at most `BatchSize` (`SmallIds`), so that the next
  gets 2: `IdsAreUnique`. With a reader it is false (`lost_update`).
* `DualProofs`. `DualImplementsBatcher`: every behaviour of the memory is one of
  the batcher, so the theorems above carry over. `DualTypeCorrect`, and
  `ReadersSeeOneSnapshot`: the invariant `DualInv` adds that history lasts no
  longer than the commit of its epoch, that readers only read, and that ids
  tell readers from writers. It does not need ids to be distinct.
  What writers promise each other does. Under `MarksTell` (the ids of an epoch's
  writers are distinct, and less than half the values of a char), `HoldInv` says
  whose each mark is and what that transaction has done to the word: used it, or
  is in the call that uses or undoes it; a commit leaves no mark. From it
  `WrittenIsKept` and `MarksAreOwned`, for any spans and with readers about. If
  calls are of one word too, then `FailuresLeaveNoTrace`, and every step maps to a
  step of `SerialMemory` or a stutter, `MemoryIsSerialisable`: the transactions
  of an epoch that survive used different words unless both only read them, so
  any order of them is a serial one. `RankIInv` gives `MarksTell` for
  batches of two and no readers, hence `WritersAreIsolated` and
  `WritersAreSerialisable` with no condition on reachable states. Both
  restrictions are needed: a reader breaks the first (`lost_update`), a failed
  write of two words the second (`failed_write_stays`).
* `SegmentProofs`. `SegmentsImplementBatcher`, `SegmentsTyped`, and `FreedOnce`:
  while nobody commits, what a transaction claims (has freed or is about to)
  has a creator, the exchange of `tm_free` needs one without, and the commit
  ends every claim. It assumes `FewThreads` (fewer threads than a char has
  values): an id of 256 would be written as 0, nobody's mark.
  The shape of the list is `ListInv`, for `OneAllocator` (one thread allocates; two
  lose a segment to each other, `alloc_race`): the list reaches live segments only
  and every link has its way back (`ListShape`); what is live and not in it is in
  the hands of the allocator, between `malloc` and its last store, and ready to
  be the head (`NothingUnlisted`, `NewSegments`, `HeadLinked`); walks stand where
  the list still reaches (`CallsInList`), but for the commit, which may stand at a
  segment it has taken out and whose `next` is in the list (`Ahead`); it has
  cleared what it has passed (`CommitPassed`). The list is the smallest set closed under the links
  (`HasWalk`), not a recursion, so that each store is shown to
  extend it at the head or to cut one element out. From it `FreedMemoryIsReadOnce`,
  `ListIsLinked` and `CreatorsStayCurrent`. `HeapInv` compares that list
  with history: through an epoch (`EpochHeap`) it is the heap of the committed
  transactions with what the running ones have made, and marks say who freed
  what; in a commit (`CommitHeap`) what is in it and not to be deleted is what
  the epoch keeps; when the walk is over (`DoneHeap`) it is the new heap. From it
  `NothingIsLost`, for transactions that free and do nothing else
  (`FreersCallOnce`; otherwise an aborted one's free is carried out,
  `abort_frees`) and `IdsTell` (an id shared by two writers lets the abort of one
  take the segments of the other); `RankIInv` gives `IdsTell` for batches of two
  and no readers (`NothingIsLostWithoutReaders`).
* `RegionProofs`. `RegionImplementsBatcher`: what creates and destroys a region
  leaves the batcher alone, so that `IdsAreUnique` and the other theorems about
  it hold from `tm_create` to `tm_destroy` (`RegionIdsAreUnique`). `RegionTyped`
  and `RegionFreesOnce` carry over the theorems about the list: the invariant of
  `SegmentProofs` holds until the walk of `tm_destroy` begins, and the walk
  keeps the part that matters after it. So do `RegionFreedMemoryIsReadOnce`,
  `RegionIsLinkedWhileUp`, `RegionCreatorsAreCurrent` and `RegionLosesNothing`; and
  since the walk frees the head of a list that names all that is allocated,
  `RegionLeaksNothing`.
* `BarrierProofs`. `BarrierInv`: `step` counts the threads between their two
  accesses to it, and `mode` splits a use into `Entering`, where all have
  finished as many uses, and `Leaving`, where all have entered as many. The
  last one in and the last one out are alone at the store of `mode`; that is
  what the reuse of the barrier hangs on. From it `BarrierHolds`.
* `SyncProofs`. `SyncInv` is a disjunction of the six phases of a round:
  `Starting`, `Resting`, `Gathering`, `Busy`, `Ended`, `Joining`. Each says
  where the counter, the latch, the status, every worker and the master are; one
  lemma per action shows which phase it is taken in and which it leads to. `nbready` counts those in
  (`CountedIn`) or out (`CountedOut`) of the current phase only, which is why
  one counter is enough for both. From it `RoundsAreTogether`, `VerdictIsRight`,
  `UnreachableIsNotReached`.
* `GraderProofs`. `GraderImplementsSync` and `GraderImplementsBarrier`: steps of
  the whole map to steps of each part or to stuttering, so the theorems about
  the parts hold of the grader (`GraderIsSound`). `UnloadIsIdle`: its invariant
  adds where the master of Sync is for each place of `main`, and that workers
  are gone once `measure` has returned. `CheckInv` counts the decrements that the
  workers of `check` still owe the counter (`Todo`, the size of `Remaining`): the
  counter is never below them, nor is what a worker last read, and each is equal
  only while no update is lost, so that a lost one leaves the counter above for
  good. `OutcomeInv` carries what `check` found to the result of `measure`. From
  them `CorrectIsNotAccused` and `LossIsFound`. `GraderTyped` puts the types of the
  parts together.
* `BankProofs`. `BankInv`: a transaction is open exactly while its worker is in
  its closure, or in the destructor of one that has not failed (`OpenExact`); one
  that has failed is at its destructor (`AbortedLate`); the lock of the
  reference is held as its mode says (`LockExclusive`). It holds for both
  libraries, since it uses nothing of what they answer. From it
  `TransactionsEndOnce` and `ReferenceExcludes`.
  `MoneyInv` adds what the transactions know. Every open one is `Served`: the
  memory it works on is packed and balanced but for the unit it is moving
  (`Sees`); it has summed up the segments it has passed, and the accounts it
  will debit and credit exist (`Knows`). What others do leaves that alone, for
  they commit to a snapshot or are kept out by the lock (`LockExclusive`). The
  memory itself is blank or filled until `init()` is over, and good from then
  on whenever nobody works in place (`MemoryGood`). Conservation alone is not
  inductive: a transfer conserves only if both its accounts exist, and freeing
  the last segment only if the one before it is full. From it `BankTyped`,
  `MoneyIsConserved`, `AccountsStayPacked`, and `NobodyIsAccused`: what a
  transaction has summed up at the end of the list is all there is.
  Sums are recursive functions on sequences. How they change when an element is
  set, appended or removed is proved by induction over a set of numbers
  (`Upwards`, from the order on `Nat` being well-founded), as the library's
  induction theorems take an operator, which the provers cannot instantiate.

Every invariant and action property of a passing run is stated by a theorem.
Only model-checked: the liveness properties `TurnComes`, `EpochEnds`,
`MeasureEnds` and `RunEnds`, since fairness is a matter of `ENABLED`, which the
prover does not handle; and what the runs that expect a violation show. Some
theorems are conditional, on one allocator, on ids that tell writers apart, on
calls of one word, on transactions that only free: for each of these a run that
expects a violation shows what goes wrong without it.

## Not modelled

* What a read of freed memory (tm.c:303) could give beyond `next` as it was or a
  fault, on an allocator that overwrites more of a block than glibc's does.
* Ids of 128 or more, which their marks no longer tell apart: `ToChar` truncates
  them, but no run has as many transactions at once, and the theorems about
  writes assume there are none (`MarksTell`).
* Overlapping readers without bound, which keep an epoch open: `EpochEnds` is
  about threads that begin a bounded number of transactions.
* Undefined behaviour after a time limit: a thread that was left behind notifies
  a condition variable, or uses a Sync, whose frame is gone. The models keep
  those threads running and have no state for what they overwrite.
* The sizes of blocks in `tm_create` and `tm_alloc`; `tm_create` and `tm_destroy`
  of the reference, and its list of segments, which only its `tm_destroy` reads.
* In the grader: the order of the libraries on the command line, printing, the
  median of the times, the random numbers themselves (choices of the model).
* The synchronisation examples: thirteen teaching programs of one lock or one
  atomic, several of them broken on purpose; nothing calls them.
* The playground (its entry point is for the student to fill in), the template
  and the headers (no behaviour), `submit.py` and the makefiles (I/O).

## Plan

Done: `Batcher`, `DualVersion` with `SerialMemory`, `SegmentList`, `Region`,
`Barrier`, `Sync`, `Runtime`, `Grader`, `Bank`, and the proofs above. Left, in
this order:

1. `ListInv` for several allocators whose stores to the list do not overlap, in
   place of `OneAllocator`.
2. The synchronisation examples, as small modules with one shared
   specification of mutual exclusion.
