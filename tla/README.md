# TLA+ models of SpRWL

SpRWL is a speculative read-write lock built on hardware transactional memory, with the
locks it is compared to and the benchmarks it is measured with. These modules model the lock in its
six variants with the book they keep about time, the readers' indicator of one of them, the four
other locks, the pool of threads the benchmarks run in, the hash map and the B+ tree the
benchmarks exercise, and the part of TPC-C where two transactions meet over a queue. TLC checks the models on
small instances; TLAPS proves theorems about every lock, the statistics, the indicator, the pool, the hash map and the
tree, for every number of threads and every size.

    tlc -config SpRWL_snzi.cfg SpRWL.tla      # any run listed below
    tlapm SpRWLProof.tla                      # the proofs

## The system

| Part | State | Operations |
|---|---|---|
| Locks, `backends/*/spec.h` | `rwlock`: `writer_lock`, `reader_locks[]` or a SNZI, `clocks_w[]`, `clocks_r[]`, `avg_cycles[]`, `is_waiting[]`; per thread `local_exec_mode`, `tries` | `ACQUIRE_/RELEASE_` `READ_/WRITE_LOCK`, `READ_MODE`, `READER_/WRITER_WAIT_FUNCTION` |
| Macros, `backends/common/tm.h` | none | `TM_BEGIN_EXT`, `TM_END`, `USE_HTM`, `USE_GL`, `SPEND_BUDGET`, `IS_LOCKED`, `END_HTM`, `ABORT_HTM` |
| Statistics, `common/thread.h`, `tm.h`, `spec.h` | `statistics_array[]`, the time stamps and averages of `rwlock` | `START_`/`END_` `LATENCY`, `RDTSC`, `TM_SHUTDOWN` |
| SNZI, `thread.c:281-449` | the root's words `var` and `state`, a word per leaf | `snzi_inc`, `snzi_dec`, `snzi_query` |
| Thread pool, `thread.c:113-277` | `global_funcPtr`, `global_doShutdown`, a barrier's `crossing` | `thread_startup`, `thread_start`, `thread_shutdown`, `barrier_cross` |
| Hash map, `hashmap.cpp` | `bucket[]`, sorted lists | `set_add`, `set_remove`, `set_contains`, the `test` loop |
| TPC-C tables, `tpcctables.cc` | one B+tree or array per table | `stockLevel`, `orderStatus`, `newOrder`, `payment`, `delivery` |
| B+tree, `btree.h` | `root`, `depth`, nodes | `fast_insert`, `fast_find`, `fast_del`, `fast_findLastLessThan` |
| Client, generator, driver | the workload's ratios, counters | `doOne`, `makeWarehouse`, `main` |
| Support code, scripts | random states, timers | none that the above depend on for correctness |

How they interact. A benchmark's `main` starts a pool of threads and runs a function in each
of them. The function calls operations of the hash map or of the tables; each of these sets
`ro`, runs `TM_BEGIN_EXT(type, ro)`, accesses the shared data directly, and runs `TM_END()`.
The two macros expand into the acquire and release macros of the one `spec.h` the build was
given, which expand the macros of `tm.h`. All threads share the single `rwlock`. Nothing is
persisted and no messages are sent: every interaction is through shared memory and, for the
pool, a mutex with a condition.

What is hard here:

* A writer speculates in a transaction that ends in a scan of the readers' flags; a reader that
  has run out of retries reads without any transaction. What orders the two is four
  accesses by two threads, and the hardware's conflict detection.
* A section may be tried several times, in different modes, and is only allowed to happen once.
* Readers wait for writers' clocks and for other readers' targets, the lock's holder for readers' flags,
  flagged readers for the holder: who could wait for whom for ever?
* The SNZI's two words change one at a time, and threads help each other change them.
* The barrier is used again before everyone has left it.

What makes each part correct: the lock makes every section atomic and lets every section end;
the indicator is set whenever a reader is inside and clear when none is; the pool runs a
function once in every thread, inside the call that set it; the hash map is a set; a tree is a
map; a TPC-C transaction keeps the consistency conditions between tables. The hazards in
`PROJECT.json` name the lines where these could go wrong.

## Modules

| Module | Models | Promise it is shown to keep |
|---|---|---|
| `Transactions` | a hardware transaction (external), `SPEND_BUDGET`; used by every module with transactions | |
| `SpRWL` | `spec.h` of `2.0-NoWait`, `10.02-RHTMNW`, `10.04-RHTMRW`, `10.05-RHTMRS`, `10.1-RHTMO`, `10.2-RHTMS`, with the macros of `tm.h` (Intel) | `AtomicSections` |
| `Statistics` | time stamps, announced ends, averages, waiting functions and counters of `10.04`, `10.05`, `10.1`, `10.2` | the totals of commits and of times that `TM_SHUTDOWN` prints agree |
| `HERWL` | `herwl/spec.h` with the macros of `tm.h` (POWER8) | `AtomicSections` |
| `Sections`, `HTMLock`, `BRLock`, `RWLock` | a section and its thread; `spec.h` of `1.0-htm-sgl`, `brlock`, `rwl` | `AtomicSections` |
| `Backends` | the choice of a build: the locks above, side by side under one program | `AtomicSections` |
| `SNZI` | the indicator of `thread.c` | `Indicator` |
| `ThreadPool` | the pool and the barrier of `thread.c` | `ForkJoin` |
| `HashMap` | `hashmap.cpp`, its operations and the worker's loop | `AtomicSet` |
| `BTree` | `btree.h` | `OrderedMap` |
| `Orders` | `newOrder` and `delivery` of `tpcctables.cc`, on the queue of undelivered orders | a comment of the code |
| `SpRWLProof`, `BackendsProof`, `HERWLProof`, `StatisticsProof`, `SNZIProof`, `ThreadPoolProof`, `HashMapProof`, `BTreeProof` | theorems about the module each is named for | |

A step of `SpRWL`, `Statistics`, `HERWL`, the simple locks, `SNZI` and `HashMap` is one access to
shared memory. `ThreadPool` takes a critical section of a mutex as a step. `BTree` and `Orders` take a whole call
as a step: what they are about is what calls leave behind for later ones, and each call runs in one section, which the other
modules show to be atomic.

An operator named `Bug...` is a broken form of a definition after it. Nothing uses it; put in place of that
definition, it makes the property named in `PROJECT.json` fail, which shows that the
property depends on that line of the code.

### SpRWL

A label of `pc` is a place between two accesses to shared words; an action is one access with
the computation that follows it. `w_*` labels belong to a write section, `r_*` to a read section.
The differences between the six variants are constants:

| Variant | `ReaderWait` | `ReadersTryHTM` | `NonVariant` | `Indicator` |
|---|---|---|---|---|
| 2.0-NoWait | none | FALSE | TRUE | flags |
| 10.02 (NoSched) | none | TRUE | FALSE | flags |
| 10.04 (RWait) | plain | TRUE | FALSE | flags |
| 10.05 (RSync), 10.1 (SpRWL) | sync | TRUE | TRUE | flags |
| 10.2 (SNZI) | sync | TRUE | FALSE | snzi |

10.1 differs from 10.05 in `WRITER_WAIT_FUNCTION`, a delay bounded by the clock between two
tries, which adds no behaviour to an interleaving model. `NonVariant` is whether the build has
`NON_VARIANT` defined, so that the `RELEASE_READ_LOCK` of `tm.h:383-390` replaces the
one of `spec.h`.

The protected sections are reduced to what a lock must protect. A writer reads and then increments each
of `NData` words, in order, and a reader reads them all. `seen` is what the section has read. Any lost update
leaves the words behind the number of completed sections (`commits`), any inconsistent view leaves two
unequal entries in `seen`. Two words are enough to see half an update.

The hardware is external. A transaction watches the lock words it reads (`watch`), reads `rset`
and buffers `wset`; another thread's conflicting access, transactional or not, makes it `"doomed"`:
it executes nothing more and rolls back, at the latest when it is scheduled. An open transaction may
also abort at any time (`TxAbort`), which stands for capacity, interrupts and page faults. The abort goes
through `SPEND_BUDGET` or `tries--`, either of them, as the reported cause decides.

Clocks are set or clear; which of two set clocks is the later is a nondeterministic choice. The code loads the clock
twice, to compare it and to keep it: `RClock` is the test, and when `RClock2` finds the clock cleared meanwhile the reader
has no start to wait for, and its loop begins to compare again. In the 10.2 variant the indicator is a single query over all flags; that the
SNZI is as good as that is what `SNZI` shows.

### SNZI

Labels `a_*` are in `snzi_inc`, `d_*` in `snzi_dec`. The word `var` is a record of count, announce
bit and version, `state` of indicator bit and counter, at the widths of the code (16 and 31 bits): a
wrap is part of the model, and `Past`, the number of times the indicator has been raised and lowered before, puts
a run next to one. A thread's leaf is its own, so its compare-and-swaps always succeed; `leaf`
keeps its count. `counted` is a history variable, the set of threads whose arrival has taken
effect, and drives the refinement. An arrival that finds the indicator being lowered takes
effect only when someone raises it again, together with everyone else inside; that is why
`Indicator` lets a set of arrivals take effect in one step. `overtaken` is the other history variable: how many versions
have been announced since a departure closed one and before it is through with `state`; what is proved is stated with it.

### ThreadPool

Thread 0 is the program. A critical section of the barrier's mutex is one action; `waiting` is the
set of threads inside `pthread_cond_wait`, which a broadcast empties. With `Spurious` a wait may
return unsignalled. `came` and `went` count the barriers each thread has come to and gone past in this pool.

### Statistics

The module keeps the words `SpRWL` reduces: `now` is the time-stamp counter, `clocks_w` and
`clocks_r` hold times, `avg` is `avg_cycles`, and `stats` is each thread's `padded_statistics`. The lock words are not there;
sections overlap in any way, which includes every way the lock allows. A writer can be
aborted for a reader only when one has its flag up. The writer's delay compares unsigned, so
`Unsigned` and `WordMod` are part of the model: an end computed before zero would be a wait for centuries. The
announced end of a reader that speculates is written inside its transaction: a look at it dooms the reader. The waiting
functions load each clock once to compare it (`WLook`, `RLook`) and once more to keep it (`WTake`, `RTake`), and may keep a later
value than they compared, or none. `TM_SHUTDOWN` also prints a total of aborts, in which `other_aborts` count twice (they are summed at `tm.h:235` and
again at `:248`); no property is about that total.

### HERWL

`mode` is the way a writer tries: a transaction (0), a rollback-only transaction alone under `writer_lock = 1` (1),
the global lock, `writer_lock = 2` (2). Readers have no transaction; `reader_locks` counts each reader's entries and exits, odd
while it is inside. `snapshot` is the copy `QUIESCENCE_CALL` takes, and `idx` the loop it is in.
A suspended transaction (`w_suspended`) rolls back only when it resumes; a rollback-only one tracks
its writes and not its reads.

### Sections, HTMLock, BRLock, RWLock, Backends

`Sections` is the part of a thread that no lock changes: a section begins, reads and increments the data, ends.
Each lock adds its acquire and its release. `brlock`'s mutexes are one word each, taken in order by a writer,
and `pthread_rwlock_t` is external. `Backends` instantiates the three, and `SpRWL` three times (as `SpRWLProof`, which is `SpRWL` and its theorems), over the same variables and
lets `backend` choose at the start, so the properties say what a program may expect of any build.

### HashMap

Addresses are the words `1..NData`; the first `NBuckets` are the sentinels. `mem[d]` is a node: value, successor,
and whether it is allocated. `First`, `ReadNext` and `ReadVal` are the loop every operation walks with; `Insert` and `Unlink` are its ends.
`Malloc` may return any address that is not in use, a node freed a moment ago included. A call made in a transaction changes `buf`,
and memory when it commits. `Acquire` and `Release` are the lock as the other modules show it: a
transaction watches `writer_lock` and commits an update past no flagged reader; a lookup may run flagged beside other lookups;
an update may run alone. `val` is the worker's memory of what it has added and must remove.

### BTree

`heap` gives the nodes by address, and `top` is where addresses that have not been given out begin. A leaf has all its `M`
slots, also those past `num_keys`: the code compares
a new key with the slot it would go into before it looks at `num_keys`, so what is left there counts. `del`
only sets the value to NULL; it compares the slot its position gives, past `num_keys` too. `find` is a set of answers, `Finds(key)`: for a
key that is absent where a larger one follows in the leaf, `fast_find` ends without a return, and any answer is in the set. `Way(key)` is the node the search for a key comes to at each level, leaves being level 0.

The recursion of `insert` runs down this way and back, and is told level by level. Whether a node splits (`Full`) and the key that then goes
up (`Up`) depend on that node alone: an inner node is split on the way down, before its child is. `Split` is the `InsertionResult` it
hands to its parent, and `After` the one or two nodes that are left in its place. Nothing here is recursive but functions
on a level or on a key, so that the module can be proved about.

### Orders

`neworders` is the tree `neworders_` as the map `BTree` shows it to be, its keys packed as
`makeNewOrderKey` does; `open` are the orders in `orders_` without a carrier.

## Runs

| Run | Instance | Question |
|---|---|---|
| `sprwl_snzi` | 2 threads, 2 sections each, 10.2 | is every section atomic; does the lock exclude; is no update lost, no transaction left open; does every section end |
| `open_transaction` | 2 threads, 10.1 | *violated*: a read section leaves its transaction open |
| `backends` | 3 threads, 1 section each; 2.0-NoWait, 10.04, 10.1 (as built, and so 10.05), 1.0-htm-sgl, brlock, rwl | is every section atomic and no reader disturbed, whichever the build; does every section end under 10.1, brlock and rwl |
| `herwl` | 3 threads, 3 sections, 1 HTM and 2 ROT tries | atomicity, and exclusion under the global lock, on POWER8; does every section end |
| `statistics` | 2 threads, 3 sections; 10.04, 10.05, 10.1, 10.2 | is every section counted once; do the printed totals agree; are averages and delays bounded |
| `snzi` | 3 threads, 1 arrival each, `Past` = 65535: the version wraps | the indicator refines `Indicator`, is seen, is cleared; every call returns |
| `snzi_wrap` | 1 thread, `Past` = 2^30 - 1 | *violated*: the indicator is left set with nobody inside |
| `pool` | 4 threads, 2 pools, 3 functions | barrier, fork-join; start and shutdown return |
| `barrier_spurious` | 3 threads, spurious returns | *violated*: a thread is past a barrier that others have not come to |
| `hashmap` | 2 threads, 4 operations, 2 lists, values 1..3, 6 addresses | is the map one set; does a thread find what it has added; does nobody stand on a freed node |
| `btree` | 7 keys in every order, leaves of 2 and inner nodes of 3 keys, two deletions, overwrites or reinsertions | is the tree the map its callers take it for, after every call |
| `delivery` | 1 warehouse, 2 districts, 1 new order each | *violated*: a delivery takes the oldest order of each district |

Why the bounds are enough. The lock's races are between a reader and a writer, between two
writers, and between a waiting reader, the reader it copies its target from and the writer they wait for:
three threads. Two sections per thread are needed for what one section leaves to the next
(a clock, a flag, a mode), and are checked with two threads. 10.02 has no run of its own: it is 10.04 without its waiting, and the theorems hold for it. One try is enough to
visit every mode, because an abort spends it and the fallback follows; herwl's second ROT try visits the retry
after an abort. A reader that herwl's writer waits for, a second writer, and a reader that comes meanwhile are three threads. In the
SNZI the hard case is a departure, an arrival that overtakes it,
and a third thread whose arrival sees the indicator half lowered. The barrier's hard case is
its next use, and a pool runs it up to seven times. The time stamps' hard cases are a clock read before its owner clears it and an
average in which the first section counts: three sections, each up to two ticks long. In the hash map
a node is added, unlinked, and its address used again, in either list, while the other thread stands on it: three
operations of one thread and one of the other. Two threads that take the same value for their own would have to add and remove it twice, four
operations too. Seven keys in the small nodes make a tree of three levels, so
that inner nodes split, and the root splits twice. There is one row, so an overwrite with a different row is covered by the theorem only.

`MaxOps`, `MaxCalls`, `MaxChanges`, `MaxPools` and `MaxStarts` bound the length of a run, `Horizon` the
time in which sections start, `MaxOrders` and `MaxDeliveries` the transactions. They are parameters of
the specifications, and the theorems hold for all their values, those of the SNZI as long as its widths suffice (below). Deadlock is checked in every
run but `btree` and `delivery`, which stop when the keys or the bounds are used up; elsewhere `Finished` or `Done` is the only stop.

Assumptions. `ConstantsAssumption`, one for each module that needs it, gives the ranges of the parameters. `BootAssumption` says that the
time-stamp counter has run longer before the program than during it; without it the writer's wait could
be before zero. `MemoryAssumption` gives the hash map an address for every node the run can allocate at once (`malloc` does
not fail), and ranges for its parameters. `TreeAssumption` asks for keys above zero, as all packed keys are, and for leaves of two keys or more: the code's static assertion
allows one, and a split of such a leaf writes outside it.

Fairness. `FairSpec` is weak fairness of each thread's own steps: the operating system
schedules every thread, and the loops that wait read the word again. In `Backends` it is stated for
10.1, brlock and rwl only, which keeps the liveness check small; that sections end under 2.0-NoWait, 10.02, 10.04 and 1.0-htm-sgl is not checked. The runs of `Statistics`, `HashMap`, `BTree` and `Orders` check safety and need none. It does not make an operation start, nor
a transaction abort that nothing forces to. A doomed transaction does roll back, and so does one left open
after its section, because the hardware cannot keep it for ever. Each
thread's sections are bounded, so the runs do not say that a thread is served while others keep coming for ever.

## What the modelling found

* **10.1 and 10.05 leave transactions open.** `NON_VARIANT` makes `tm.h` redefine
  `RELEASE_READ_LOCK` after `spec.h` defined it, to a version that only clears the
  flag. A reader that ran in a transaction then runs on inside it. The section itself stays
  atomic (`backends` checks that): the transaction can only end in an abort, the section
  is run again, and when its tries are spent it runs without one. What the reader saved by
  speculating is lost.
* **A delivery finds no order.** It searches the queue for the last key below the district's first one instead of for its first, and takes
  the other district's row it comes to, or none, for a district without orders.
* **What the check at commit is for.** A mutant whose transactions read the readers' flags
  without keeping them watched still passes the atomicity runs: a reader that raises its flag after the scan
  dooms the transaction by its first read of a word written in it. `ReadersUndisturbed` does find that mutant;
  atomicity needs that the flags are looked at, and the guarantee to readers that they are watched.
* **A lookup may end without an answer.** `fast_find` has no return for a key that is absent where a larger one follows in its leaf (`btree.h:142-153`), although its comment
  says it returns false and `btree_test.cc:56` tests it. `stockLevel` meets the case whenever it looks for the line after an order's last one. Its caller passes a row pointer that was set
  to NULL, so an arbitrary `true` does no harm there; a compiler that takes the end to be out of reach may drop the comparison of the keys instead, and then the row of the
  larger key is returned. `Finds` allows every such answer, and `LookupsAgree` promises only what holds whichever is given; no run is spent on
  the claim of the comment, which fails after a single insertion.
* **The SNZI's counter runs into its indicator bit** after 2^30 periods with readers.
  Writers then find a reader that is not there, and a writer that has fallen back waits for it.
* **The barrier does not wait in a loop**, so a spurious return lets a thread through.

## Theorems

Every theorem is of the specification a run checks, without a bound on the instance: for every number of threads,
words, tries and sections, every size of a tree's nodes, every set of keys and rows, and the other parameters that the module's assumption allows. Each rests on an inductive invariant, a
conjunction of named parts; the `...Step` lemmas of a module show, action by action, that it is kept.

| Module | Theorem | Statement |
|---|---|---|
| `SpRWLProof` | `TypeCorrect` | `Spec => []TypeOK` |
| | `LockExclusion` | `Spec => []LockExcludes` |
| | `ReadersProtected` | `Spec => ReadersUndisturbed` |
| | `HolderCommits` | `Spec => OnlyHolderCommits` |
| | `SectionsReadOneImage` | `Spec => []OneImage` |
| | `UpdatesKept` | `Spec => []NoLostUpdate` |
| | `Refinement` | `Spec => ImplementsAtomic` |
| | `TransactionsEnd` | `~NonVariant`: `Spec => []NoOpenTransaction` |
| `BackendsProof` | `ReadersProtected` | `Spec => ReadersUndisturbed` |
| | `Refinement` | `Spec => ImplementsAtomic` |
| `HERWLProof` | `TypeCorrect` | `Spec => []TypeOK` |
| | `GlobalExclusion` | `Spec => []GlobalRunsAlone` |
| | `SectionsReadOneImage` | `Spec => []OneImage` |
| | `ReadersProtected` | `Spec => ReadersUndisturbed` |
| | `Refinement` | `Spec => ImplementsAtomic` |
| `SNZIProof` | `TypeCorrect` | `Spec => []TypeOK` |
| | `ReadersAreSeen` | `Spec /\ []WithinWidths => []PresentIsSeen` |
| | `QuietIsSeen` | `Spec /\ []WithinWidths => []QuietIsClear` |
| | `SNZIRefines` | `Spec /\ []WithinWidths => ImplementsIndicator` |
| | `RoomSuffices` | `Room`: `Spec => []WithinWidths` |
| `ThreadPoolProof` | `PoolTypes` | `~Spurious`: `Spec => []TypeOK` |
| | `BarrierSeparates` | `~Spurious`: `Spec => []GoTogether` |
| | `PoolForksAndJoins` | `~Spurious`: `Spec => ImplementsForkJoin` |
| `StatisticsProof` | `TypeCorrect` | `Spec => []TypeOK` |
| | `CommitsCounted` | `Spec => []EveryCommitCounted` |
| | `TimesAgree` | `Spec => []LatencyCoversTime` |
| | `TotalsAgree` | `Spec => []PrintedAgrees` |
| | `AveragesBounded` | `Spec => []AvgBounded` |
| | `DelaysBounded` | `Spec => [](now <= 2 * Boot => DelayBounded)` |
| `HashMapProof` | `ListsHold` | `Spec => []WellFormed` |
| | `NoUseAfterFree` | `Spec => []NoFreedVisited` |
| | `RemovalsFind` | `Spec => []RemoveFinds` |
| | `Refinement` | `Spec => ImplementsSet` |
| `BTreeProof` | `TreeInvariant` | `Spec => []Tree` |
| | `AlwaysWellFormed` | `Spec => []WellFormed` |
| | `RefinesMap` | `Spec => ImplementsMap` |
| | `LookupsAlwaysAgree` | `Spec => []LookupsAgree` |

The hypotheses. `~Spurious` is what the barrier relies on, as the run `barrier_spurious` shows; `~NonVariant` what
distinguishes the variants that end their readers' transactions from those of the run `open_transaction`. `WithinWidths`
is about the run, not about its length: the counter of `state` is below its last value, and no departure that has closed a version, and
has yet to look at it again or to clear `state`, is overtaken by as many new versions as 16 bits tell apart. The version itself may wrap around any number of
times. The first half is what the run `snzi_wrap` breaks. The second needs a thread that is stopped inside one loop of `root_depart` for 65536 first
arrivals; with two versions in place of 2^16, TLC finds the departure that takes a later version for its own and clears the indicator under a reader.
`RoomSuffices` shows that the hypothesis can be met: `Room == 2 * (Past + N * MaxOps) < CountMax /\ N * MaxOps < VersionMod` bounds the run so that neither can happen.

**SpRWL.** Two inductive invariants. `Exclusion` is about the lock alone. An open
transaction watches `writer_lock` and found it free, so taking the lock dooms it (`TxShape`); the
mode tells the release how the section was entered (`ModeShape`); one thread holds a taken lock
(`LockShape`); a flag is up from the reader's store to its release (`FlagShape`); the flags the
holder's scan has passed belong to no reader in its section (`Drained`), and the flags a transaction's
scan has passed are down *and watched* (`Checked`). `LockExcludes` follows, and so does that a
transaction about to commit leaves no reader in a section without one. `LockExcludes` is not
inductive by itself: without `Drained` a reader the scan has passed could already be inside.

`Image` is about the data and rests on `Exclusion`. A transaction's read and write sets are exactly what its section
has touched (`Footprint`), open transactions do not conflict (`NoConflict`), what an open
transaction or a reader without one has read is still in memory (`Current`), and the holder's section has advanced the words before
its index by one (`HalfDone`, `Kept`). `OneImage`, `NoLostUpdate` and each step of the refinement are
consequences. A section takes effect at its commit or the holder's release, a read section at its last read.

**Backends.** A build with the speculative lock takes only steps of `SpRWL` with that build's constants, so it has the theorems
of `SpRWLProof`; what is left is that the two modules' views of a section, `phaseBar` and `gotBar`, agree at every label `SpRWL` uses.
For the simpler locks the argument is split where the code is. `SectionInv` is about the sections and names no
lock: what a section has read and written so far, as far as `pc`, `idx` and `op` tell. It is kept by seven
kinds of step (begin, try, enter, load, store, commit, give back), provided that `Apart` holds: a section that writes in place is alone, and one that
reads in place is beside no transaction. Each lock then owes only that its steps are of these kinds and that its own
invariant gives `Apart`. For `1.0-htm-sgl` (`SglInv`): a section holds `writer_lock`, or is a transaction that watches it and found it free.
For `brlock` (`BrInv`): a mutex the writer has taken and not opened again is taken, and its
reader is not in a section, which `Apart` does not say of a writer that has gathered half of the mutexes, or given
back half of them. For `rwl` (`RwInv`): the holders of the external lock are those in a section.

**HERWL.** `Shape` is about `writer_lock`, the counters and the transactions: a reader's counter is odd while it is
inside (`Parity`), `writer_lock` says how far its one holder has got (`LockShape`), and the readers that the
global lock's quiescence has passed stay out, since they find the lock taken (`ReadersOut`). `Image` adds what a rollback-only transaction needs, whose
reads are not tracked: a reader that the quiescence of a transaction has passed has read nothing (`Waited`), because its
first read of a word written there dooms the transaction; and one that it must still wait for stands in the
snapshot with the counter it has now (`Noted`), because a reader that comes later reads a doomed word first. `OneImage` is not inductive
without `Noted`: a snapshot older than a reader's entry would let the commit pass it.

**SNZI.** `TypeCorrect` holds however the words wrap. For the rest the two words have to be related
while threads are between them. While `WithinWidths` holds, `state`'s counter only grows, so that a copy that equals it is current (`Copies`); `Overtaken` says that
the version has moved on from a closing thread's by exactly the number announced since, and that no two closing threads have been overtaken equally
often. So the version looks unchanged to a thread only when it is, and `Versions` follows: a version
is closed by one thread, and not while someone is inside; `Seen` that once someone inside has made sure of
`state` since the version began, it is busy and those inside count; `ClearIsLate` that a departure still able to clear it finds nobody who has; and
`Counts` who is counted in between. `PresentIsSeen` alone says nothing of the threads under way, whose
compare-and-swaps are what could clear the indicator under a reader.

**ThreadPool.** The threads in the barrier have come exactly once more
than the others, and the others are level with each other (`Level`), so the count reaches `N`
only when the last has come, and the broadcast lets everyone go. For the fork and join the barriers divide the run into stages,
`NoPool`, `Gathering`, `Running` and `Stopping`; each says who waits for what, and who has run the function that is set.

**Statistics.** `Book` adds the section that has run and is not yet counted as read or write; `Lengths` bounds the
longest section by the time the program has run; `Delays` bounds every announced end, and the latest one a
writer has found so far, by a longest section from now. The last two are proved together: an announced end is a start plus an average.
`TotalsAgree` adds up what `CommitsCounted` and `TimesAgree` say of each thread. The totals are folds over the
set of threads, so the step is an induction. The library's induction theorems take an operator, which no
prover here can instantiate; instead a set of numbers that is not empty is shown to have a least one (of the intervals up to its
elements one is smallest, because strict inclusion of finite sets is well founded), and a sum that disagreed would have a least number of threads.
`DelayBounded` needs that the program has not run longer than the machine before it, or an end minus an
average could be below zero; the run keeps to that by its horizon.

**HashMap.** `Sound` is about a memory: sentinels are there, every node in use is linked once, in order, with nothing between a node and
its successor. Lemmas about insertion into and removal from any sound memory do not mention threads. `Exclusive` says who may run with whom;
`Walks` what each thread that goes on knows of the place where it stands, which holds on because it either tracks that node,
or nobody writes beside it; `Ownership` that the values threads have added and not removed are
there and nobody else's. A lookup, a failed insertion and a removal take effect at the commit, or at the end of the section.

**BTree.** The usual invariant of a search tree gives each node an interval of keys, which would have to be carried down
the tree. `Tree` knows a node by the searches that come to it, for every natural number and not only
for keys in the tree. Two searches that meet have come the same way (`OneWay`); every node is on some search's way (`Addressed`); an inner node's
keys ascend, a search for one of them comes to the node, and so does one for a number below them all (`Inners`); the keys of a leaf are found in
it, and the first is the lowest number whose search ends there (`Leaves`). `WellFormed` alone is not
inductive. It does not say that a slot past a leaf's last key holds no key that is looked for there, and
`insert` would take such a key for its own and overwrite it without counting it. Nor does it say which of two children
a key between them belongs to, before a leaf holds it.

An insertion is followed for all searches at once. By induction from the root, a search passes at each level either the node
it passed before, or the right half of it, by whether its number is below the key that went up; so it finds in its leaf what it found there before, and the
new key where it is looked for. A split is then a matter of one node: lemmas about positions in a sequence of keys, its halves and an insertion into it.
`RefinesMap` follows because each number's search ends in exactly one leaf, so what the leaves hold is a map. For `findLastLessThan`, the way it takes
for `k`, with its step back at a separator equal to `k`, is the way of the search for `k - 1`. So it looks at the leaf where the
key before `k` would be; by `Leaves` the answer is there, unless that leaf is the leftmost and has no lower key. It is then asked again for
a lower key, finitely often.

Only model-checked:

* liveness (`EveryOpEnds`, `CallsEnd`, `ShutdownEnds`, `StartReturns`), and what depends on `ENABLED`: out of the prover's reach;
* `Orders`, whose one property the code does not keep;
* the pool with spurious returns, the SNZI past its widths, and the lock with `NON_VARIANT` as to open transactions: there the
  property fails, and a run shows it.

TLC checks every property that is proved, on the instances above. The invariants that the proofs rest on were checked on small
instances before they were proved; no run repeats that.

## What is not modelled, and why

* Store buffers and POWER8's weaker order. Memory is sequentially consistent, so the models say nothing about the
  fences, which are taken to order what they stand between. On x86 only the reader's flag store could be delayed past a load that
  matters, and the code fences it.
* The compiler's freedom with data that are not volatile (the SNZI's words, and the sections' own data).
* A departure of the SNZI overtaken by 2^16 versions: it is in the model at the code's width, but no run is long enough to meet it.
* Waiting without bound behind others that keep coming: each run's sections are bounded. A reader that polls `clocks_w` could
  miss every moment in which it is clear.
* SpRWL on POWER8: its variants are modelled with Intel's macros, `herwl`, which only POWER8 can run, with POWER8's.
* The other TPC-C transactions. `stockLevel`, `orderStatus` and `payment` read and update rows inside one section each. That
  two sections declared read-only write rows is a hazard listed in `PROJECT.json`; which
  rows meet depends on the client's random choices.
* Packed keys of orders with large numbers, which share bits with the district.
* What `fast_del` reads past the arrays of a full leaf, for a key above all of the leaf's: the model says that no key is there. Its callers delete only keys they have found.
* `rwl/thread2.c`, `tpcctables_tm.cc`, `btree_tm.h`, `btree_orig.h`, the `code/old` copies: not compiled.
* Client, generator, random numbers, clocks, the STAMP support libraries, scripts and build files: nothing in them
  orders or shares anything.

## Plan

Done: every lock with its abstract specification, the statistics, the indicator, the pool, the hash map, the
B+ tree, the queue of orders; proofs of every safety property that the code keeps.

What could be added: the other TPC-C transactions over `OrderedMap`, which `BTreeProof` shows the tree to be, with the
conditions between tables that each must keep; and a model of POWER8's weaker order for `herwl`.
