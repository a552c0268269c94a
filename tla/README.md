# duckdb-paimon: specifications, model checks and proofs

TLA+ specifications of `duckdb-paimon`, the DuckDB extension that reads and
writes Apache Paimon tables and, in the Vane build (`PAIMON_VANE_DISTRIBUTED`),
runs scans and writes distributed over workers. Source paths below are relative
to the repository (`src/` is its source directory).

## 1. Inventory

| Component | Source | State | Operations | Talks to |
|---|---|---|---|---|
| Distributed write coordinator | `src/paimon_storage/paimon_distributed_insert.cpp` 934-1427 | the frozen target, `distributed_finalize_started`, decoded messages | Initialize, Validate, Prepare (INSERT, CTAS), Finalize, Abort | Vane runtime (callbacks), Paimon catalog and commit, mutation mutex |
| Distributed write worker task | same file, 603-932 | per-thread writers and counts; shared messages, row count, write ids; fragment | InitializeGlobal/Local, Sink, Combine, Finalize, destructor | Paimon writer, runtime, coordinator (through the fragment) |
| Filter and partition pushdown | `paimon_scan.cpp` 77-611, `paimon_type_utils.cpp` | `bind.predicates`, `bind.part_filters` | PaimonPushdownFilter | DuckDB optimizer, Paimon predicates and scan planning |
| Catalog caches and DDL | `paimon_catalog.cpp`, `paimon_schema_set.cpp`, `paimon_schema_entry.cpp`, `paimon_table_set.cpp` | schema entries, table entries, two `inited` flags, one lock per set, the process-wide mutation mutex | CreateSchema, DropSchema, CreateTable, DropEntry, lookups, scans | Paimon catalog; every DuckDB thread |
| Native insert | `paimon_insert.cpp` | writers per thread, messages, count | Sink, Combine, Finalize | Paimon writer and commit, mutation mutex |
| Scan execution | `paimon_scan.cpp` 612-1148 | splits, `split_index`, a reader and an Arrow batch per thread | Bind, InitGlobal, InitLocal, scan, statistics | Paimon reader |
| Distributed scan | `paimon_distributed_scan.cpp` | phase of the bind data, split set, assigned splits, pinned snapshot | plan, serialize, assign | Vane runtime, scan execution |
| Table entry, time travel | `paimon_table_entry.cpp` | none | GetScanFunction, write identity and definition | scan, distributed write |
| Transaction manager | `paimon_transaction_manager.cpp` | map of transactions | Start, Commit, Rollback | none: Paimon is not transactional here |
| paimon_snapshots | `paimon_snapshots.cpp` | list and offset | bind, emit | Paimon catalog |
| Paths, options, secrets; registration | `paimon_functions.cpp`, `paimon_catalog.cpp` 60-240, `paimon_extension.cpp` | none | parsing, option maps | all |

What is hard in this system, and what makes it correct:

* **Distributed write.** Tasks are attempted several times, results arrive
  twice or damaged, the commit may have happened although it reported an error,
  and the table may be dropped and recreated meanwhile. Correct: the operation
  is an atomic append of exactly one attempt of every task, to the table it was
  planned for, no visible file is ever deleted, and known failures clean up.
* **Worker task.** Threads hand prepared messages to a shared state whose
  destructor aborts what is left. Correct: every message has one owner; nothing
  is aborted after it was published; the fragment is the whole task.
* **Pushdown.** A predicate that is too strong loses rows silently; one that is
  left over from an earlier pass does too. Correct: the query result is the
  same as without pushdown.
* **Catalog caches.** The warehouse is changed first and the cache later, with
  lookups in between, and lookups hand out pointers. Correct: with no statement
  in flight, the caches agree with the warehouse.
* **Scan execution.** Threads share one counter of splits; a batch lives in
  memory that belongs to its reader; a chunk holds only so many rows. Correct:
  every row once, every batch released once and before its reader, and the scan ends.
* **Distributed scan.** Bind data travel without secrets and without the
  pushed filter, are planned elsewhere and handed to workers whose attempts fail and repeat.
  Correct: the answer is every matching row of one snapshot, the one asked for or one
  that was current while the query ran.
* **Native insert.** Threads hand over messages without anyone to abort them.
  Correct: a statement appends all of its rows or none and counts them right.

`PROJECT.json` lists these hazards at the lines where they bite, with the
properties that would catch them.

## 2. Modules

| Module | Content |
|---|---|
| `DistributedWrite` | coordinator operations, task attempts, the table, other writers |
| `AtomicAppend` | what a distributed append promises; implemented by `DistributedWrite` |
| `DistributedWriteProofs` | type correctness, safety theorems, the row count; `DistributedWrite` implements `AtomicAppend`; a validation of several reads (`TargetBaseline`) is as good as an atomic one |
| `WorkerTask` | one attempt inside a worker, thread by thread |
| `FilterPushdown` | expressions, predicates, partition filters, a scan with them |
| `CatalogCache` | schema set and table sets under concurrent DDL and lookups |
| `DistributedScan` | a scan from its options to its answer, local and distributed |
| `ConsistentScan` | what a scan promises; implemented by `DistributedScan` |
| `ScanThreads` | the threads that execute a planned scan, batch by batch |
| `NativeInsert` | INSERT and CTAS in one process; implements `AtomicAppend` |
| `TargetBaseline` | the reads of `LoadTargetState` against other processes |
| `WorkerTaskProofs`, `FilterPushdownProofs`, `ScanThreadsProofs`, `NativeInsertProofs`, `CatalogCacheProofs`, `DistributedScanProofs` | the theorems about the module of that name |
| `Sums` | `SumOf`, the sum of the values of a function: row counts of tasks, files and partitions |
| `SumTheorems` | what `SumOf` computes, for every finite domain |
| `MC...` | instances for TLC |

Definitions named `X_Something` next to a definition `X` are mutants: forms of `X` with
a plausible bug, which no specification uses. Each one makes the property it is
listed with fail, and so shows that the property depends on that part of the code.

### DistributedWrite

| State | Code |
|---|---|
| `tbl` | the table at the path: incarnation (UUID), definition, last snapshot |
| `files`, `log` | data files below the path; all snapshots ever committed there |
| `mutex` | `PaimonCatalog::GetVaneCatalogMutationMutex` |
| `pc`, `finalize_started` | how far an operation's calls are; `distributed_finalize_started` |
| `frozen` | `distributed_table_uuid`, schema and snapshot captured at planning or after CTAS |
| `decoded`, `rows` | `PaimonDecodedDistributedCommit` |
| `att` | what the runtime made of each attempt <<operation, task, number>> |

`InitializeDistributedWrite`, `ValidateDistributedWrite`, `PrepareInsert` and
`AbortDistributedWrite` are one call, one action each. CTAS preparation is
three actions, one per critical section (`PrepareCtasAbsent`,
`PrepareCtasCreate`, `PrepareCtasCapture`). Finalization is split where other
statements can come in: decode; take the mutex; validate (or return for
an empty write, or reject and release); abort outside the mutex; commit.
`FilterAndCommit` makes the snapshot visible and reports success or, when the
acknowledgement is lost, an unknown outcome; `CommitWithoutEffect` is a commit that fails. A conflict with
a foreign commit is such a failure (the conflict check is on).

An attempt has one commit message: the messages of one attempt are always
handled together. `Result` records carry an attempt and whether the
envelope is intact; `DecodeCommitResults` rejects at the first damaged, foreign or repeated
one and keeps the messages decoded before. `AbortFaults` lets Paimon's abort
leave any of the files behind.

From outside the repository, as the code relies on it: the runtime
finalizes with results that cover every logical task, does not finalize after an
abort, and starts tasks after preparation; a table that is created again differs in its UUID or, where the
catalog uses the table's name as UUID, in its schema JSON, which records when it was created;
`FilterAndCommit` skips a commit with an identifier that was committed before.

### WorkerTask

State: per thread where it stands, the rows in its writer, its count and the
messages it prepared and still holds; the shared `messages`, `row_count`,
`next_write_id`; the fragment; the disk. `CombinePrepare` and
`CombineHandOver` are separate because the lock is taken only for the latter;
`Destroy` is the destructor; `Crash` ends the process at any point.
`MaxRowCount` scales the 64-bit count down so that `CheckedAdd` fails in the
run; `MaxWriteId` does it for the write ids.

### FilterPushdown

Expressions are records of the classes the code switches on. `Exprs` is a set of
them that has, with an expression, its children; `Height` is a number that falls from an
expression to its children, so that no expression contains itself. What the code
computes by recursion is a recursive function on `Exprs`, given by an operator
that takes the values for the children: `Evaluate` and `Eval`, `TryConvert` and
`TryConvertExpression`, `ExtractPartitionFilter` and `TryExtractPartitionFilter`.

`Eval` is DuckDB's three-valued evaluation. A Paimon predicate is the set of rows it
accepts, the set its negation accepts, and whether it has one (a pattern has none): `Leaf`,
`And`, `Or` and `Not` are Paimon's builders. These are external. The `TryConvert...`
operators follow the functions of that name, `ConvertIn` and `Combine` are the parts of
`TryConvertOperator` and `TryConvertConjunction` that decide. A conversion
yields a predicate, `NoPredicate` (`nullptr`) or `Thrown`. IS [NOT] DISTINCT FROM (`NullSafe`) stands for
the comparison types Paimon lacks, which are left to DuckDB before their constant is looked at. `And` and `Or` are
assumed to succeed on a list that is not empty, the only kind the code passes, so what the code does on their
errors (`nullptr`, and an exception for the top-level `And`) has no case.

`Harmless` tells where the conversion may leave something out. `Weakens(e)` is an AND
or a NOT IN that does; below an odd number of NOTs that makes the predicate too
strong, below an even number it is as intended. `ScanIsExact` is claimed for filters that are
`NegationsHarmless`, `negated_filter` shows what happens to the others.

The state is the bind data, the
filters of the plan and one row. The optimizer may push down several times; planning
may leave out a file that the predicate or the partition filters exclude and need
not (best effort); then DuckDB applies its filters. A data file has one row: a file
is skipped only if all of its rows are excluded, so a row lost in a larger file is lost
in this one as well.

### CatalogCache

State: the warehouse (`dbs`, `stored`), the schema set with the table set of
every entry, the lock of each table set, the mutex and one statement per
thread. With `IoFaults` a call into Paimon may fail without effect: a lookup throws,
a first scan leaves a partly loaded set that does not count as loaded, and `RefreshFails`
leaves no entry where one was. The build has the mutation mutex or, with `mutex = NoMutex`,
has none: `Init` chooses. A CREATE or DROP is two actions, the call into Paimon and the update
of the cache; the mutex (Vane build) spans both. The first scan of a table set
lists the tables and then loads them one by one while it holds the set's lock.
The lock of the schema set needs no variable: under it the code makes one call into Paimon.
A statement on a table keeps the pointer to its schema entry from binding to
execution. If DROP SCHEMA has destroyed the entry in between, the step
`UseFreed` marks undefined behaviour, after which nothing is claimed.

### DistributedScan and ConsistentScan

| State | Code |
|---|---|
| `bind`, `template` | `PaimonScanBindData` of the coordinator and of `create_worker_bind`: phase, options, whether a filter was pushed |
| `plans` | the splits each call of `plan_splits` returned, and which task gets which |
| `worker` | the bind data of each attempt: phase, split set, assigned splits, snapshot, what it read |
| `latest`, `asked`, `since`, `answer` | the table, and what each query asked for and got |

Each callback is one action. Serialization is modelled by what survives it:
the kind of bind and the portable options (`GetPortableOptions`), to which
`LocalOptions` adds those of the receiving process again. The predicate does not
travel, so pushdown may come before or after. `Reads` says that rows may be lost
when the batch size option is not the vector size. Paimon lists the splits of a plan in
some order that nothing depends on; `SetToSeq` fixes one. A split holds one row and snapshot `s` has the splits
`1..s`, so that an answer shows which snapshot was read and how often.

External, as the code relies on it: the runtime gives every split of the last
plan to one task, delivers a task's whole share (`Deliveries` may damage,
repeat or add splits), plans before it starts tasks, and takes one finished
attempt per task. A worker cannot tell that a split is missing.

`ConsistentScan` is the promise: commits, and scans that open, return or fail.
A scan may return a snapshot that was latest at some time since it was bound,
because the code resolves the snapshot when it plans.

### ScanThreads

State: `split_index`, and per thread where it stands, its reader and position,
and the batch it holds with its release callback. `at` cuts `PaimonScan` where
another split is drawn. `Consume` is the pipeline reading the output vectors,
which point into the batch, before the next call. A reader returns batches of one up to
`BatchLimit` rows in any sizes. The local state is destroyed in the order of the C++ rules: body
of the destructor, reader, chunk. `Worker` adds the checks of a distributed worker.

### NativeInsert

State: the table at the path with its files and snapshots, and per statement
its threads, writers, messages and count. `Finalize` may also report an error for
a commit that took effect. The table is dropped and created again at any time;
the code has no baseline check here, and `SnapshotHasFiles` claims nothing for a
statement whose table was replaced while it wrote. A CTAS with IF NOT EXISTS
(`IfNotExists`) whose table another statement created after the planning appends to that table.

### TargetBaseline

`DistributedWrite` loads the target in one step. Here every read of
`LoadTargetState` is a step and other processes act between any two. A read
is recorded as the whole table at that moment; comparisons look only at the
part the code has (`Uuid`, `SchemaJson`, the last snapshot). `Init` chooses the kind of catalog
(`uniqueUuid`). In a REST catalog every table has a UUID of its own, and the second read of it
tells that no read met another table. In a file system catalog the UUID is the table's name and
tells nothing: planning may freeze the schema of one table and the snapshot of its successor, and the
reads of a validation may be spread over two tables as well. What holds there is `AcceptedFromOneTable`: a validation does
not accept such a mixture, because the schema JSON it reads, after everything that was frozen, is that of the
frozen schema. If the table is replaced between the validation's reads of schema and snapshots by one with as many
snapshots, it is accepted, so `AcceptedWasCurrent` is claimed for unique UUIDs only.

## 3. Runs

| Run | Checks | States |
|---|---|---|
| `write_selection` | one INSERT, two tasks, two attempts each, up to three results per call, in any order and repetition: type invariant, `NoDanglingSnapshot`, `CommitsOnFrozenBaseline`, `ReportedRowsAreInputRows`, `RetainedFromCommitOn`, `ImplementsAtomicAppend` | 141,463 |
| `write_race` | an INSERT and a CTAS on one path against DROP, CREATE, native and foreign commits | 875,196 |
| `write_returns` | the same two operations with aborts that work: `KnownFailureCleansUp`, and `CallsReturn` under fairness | 89,937 |
| `worker_task` | two threads, two partitions, limits within reach | 6,065 |
| `filter_pushdown` | 534 filter lists, 12 of them with a harmful negation and 8 that throw, one or two passes, all 27 rows: `ScanIsExact`, `FailsOnlyOnNull` | 86,143 |
| `catalog_cache` | three threads, two tables, four DDL statements, with and without the mutex, I/O faults: `TablesCurrentAtRest`, and under the mutex `CompleteAtRest` | 1,164,074 |
| `scan_answers` | one of two scans (one with a filter), two tasks, two attempts, two plans, ATTACH and AT options: `WorkerHoldsOnePlan`, `ImplementsConsistentScan` | 547,420 |
| `scan_threads` | three threads, splits of 3, 0 and 1 rows, vectors of 2: `RowsExactlyOnce`, `BatchWithinReader`, `ReleasedOnce`, `ScanEnds` under fairness | 406,250 |
| `native_insert` | two of three statements, two threads, two tables: `ReportedRowsAreStored`, `SnapshotHasFiles`, `ImplementsAtomicAppend` | 108,043 |
| `target_baseline` | three tables at the path, one schema change and one commit of each, two validations, in a catalog with unique UUIDs and in one where a UUID is a name: `FrozenFromOneTable` and `AcceptedWasCurrent` for the former, `AcceptedFromOneTable` for both | 332,354 |
| `negated_filter` | expected violation of `PushdownKeepsMatches` | |
| `null_in_list` | expected violation of `PushdownNeverThrows` | |

Why the bounds are enough to be interesting: two attempts of two tasks give
every way to select, repeat or mix attempts, and three results are one more than there are tasks; two operations
and two further tables give a drop and a recreation on either side of each
critical section; `MaxRowCount` 4 makes the row total of repeated results overflow; three
threads let two statements race while a third one looks up. In the catalog
the number of a table's definition is the number of the statement that created it, so a
recreated table differs from the old one. Two snapshots and two plans give a plan that
is out of date when tasks start; two attempts give one that fails with an assignment; a scan
of three rows with vectors of two has a full batch, a partial one and the cut-off that a larger batch would suffer.

Deadlock checking is off where the system may stop: operations end, a query
ends. It is on in `catalog_cache`, where a thread can always look something
up.

### What the violations show

* `negated_filter`: `NOT (a AND b)` where only `a` converts is pushed down as
  `NOT a`, which is stronger than the filter. Files whose rows all satisfy `a`
  may be skipped although their rows match when `b` is false. It concerns every
  query for which DuckDB's optimizer leaves a NOT above a conjunction. A NOT over
  a `NOT IN` list with an element that is skipped does the same.
* `null_in_list`: `v IN (1, NULL)` throws `literal cannot be NULL` while the
  filter is pushed down, and the query fails, where the comments promise best effort.

`filter_pushdown` has these filters too, and shows that nothing else goes wrong: a row is lost
only if some filter has such a negation (`NegationsHarmless`), a query fails only if some constant is NULL.

Without the mutex `CompleteAtRest` does not hold: CREATE SCHEMA and DROP SCHEMA
of two threads can leave a schema entry without a database (create
in the warehouse; drop in the warehouse; erase the entry; add the entry), or a database
without an entry. No text of the repository promises more for the native
build, so this is recorded here and as a hazard, not as a finding.

## 4. Fairness

`CallsReturn` and `ScanEnds` need it.

For `CallsReturn`, `FairSpec` asks for weak fairness of `Step(o)`,
the steps of a coordinator call that is under way: a thread that is
inside a call keeps running. Nothing is asked of the runtime, the workers,
other statements or of whether calls are made at all. Weak fairness is enough although
the calls compete for a mutex, because other holders release it within their own call, and
a bounded number of operations exists.

For `ScanEnds`, `FairSpec` of `ScanThreads` asks for weak fairness of every thread's
`Step` and of `Complete`: DuckDB's scheduler runs the tasks of a pipeline, pulls
from a source until it returns an empty chunk, and ends a query whose threads have finished. Failures
and stops are never forced, and readers return batches of at least one row until their split ends.

## 5. Proofs

The theorems about `DistributedWrite` hold for any number of operations, tasks,
attempts, definitions and tables, under its named assumptions only
(`OpsAssumption`, `TasksAssumption`, `BoundsAssumption`, `DefsAssumption`).

`DistributedWriteProofs`:

* `TypeCorrect`: `Spec => []TypeOK`.
* `VisibleFilesExist`: `NoDanglingSnapshot`. By itself it is not inductive: a
  commit makes decoded files visible, so one has to know that they are on disk,
  which depends on who may abort them. `SafetyInv` is the strengthening:
  * `ControlInv`: an operation holds the mutex exactly when it is between lock
    and commit, and one that has started to finalize has set the flag that
    stops aborts;
  * `MessageInv`: decoded messages are published by attempts of the operation itself;
  * `FileInv`: while the table an operation froze is live and the operation
    can still commit, the files of its attempts are on disk;
  * `LogInv`: incarnations and snapshot ids grow; a distributed snapshot
    belongs to an operation that ended with it and has exactly its messages;
  * `CommitInv`: while an operation commits, the table is the one it froze,
    with only foreign snapshots on top.

  Each part is preserved by every action, one lemma per part and one step per
  action. A visible snapshot then belongs either to others or to an
  operation that ended "ok" or "unknown", for which `FileInv` still holds.
* `BaselineBoundToCommit`: `CommitsOnFrozenBaseline`, with the same invariant.
* `ArtifactsRetained`: the action property `RetainedFromCommitOn`.
* `KnownFailureIsClean`: `KnownFailureCleansUp`, with `CleanupInv`.

* `CountsInputRows`: `ReportedRowsAreInputRows`. `RowsUpTo` adds up the results the runtime
  passes, the statement's count adds up its tasks. Decoded results are one of each task
  (`DecodeSelects`), so the one sum is the other with its terms renamed (`SumReindex`).
* `Refinement`: `Spec => ImplementsAtomicAppend`. The mapping reads what is
  visible from the log and the answer from `pc`. `SelectionInv` says that what
  an operation holds until it commits is one attempt of every task with rows;
  it rests on `DecodeSelects`, that an accepted list of results without
  repeated tasks that covers all tasks is such a selection. Every other step leaves the
  abstract state unchanged (`QuietStep`).

and, about `TargetBaseline`, under `BaselineAssumption` only:

* `FrozenIsOneTable`, `AcceptedIsOneTable`, `ValidationIsAtomic`: the three
  properties of `TargetBaseline`, for any number of tables, changes and
  validations and in both kinds of catalog. None is inductive by itself. `ReadsInv` says that the reads of a running
  load are in the order of time and older than the table (`Older`), `FrozenInv` that
  the frozen reads are in order and older than those of a validation, `AcceptInv` what
  an accepted validation has shown. Since tables, schemas and snapshots only grow, equal
  values at both ends of an interval mean that nothing changed within it (`AcceptSound`).

The theorems about the other modules hold for any constants that satisfy the assumptions of
the module. Besides types, these ask for finite sets of threads, partition
values and tasks (where rows or splits are added up over them), at least one schema and table name, a filter
that skips no file with a matching row (`ScanAssumption`; which filters are such is what
`FilterPushdownProofs` shows), and options of the form the parser lets through (`PinAssumption`).
Each inductive invariant was also model-checked on the run's instance (that of `FilterPushdown` for one pass of the optimizer).

`WorkerTaskProofs`: `TypeCorrect`, `PublishedStays`, `WholeTask`, `ChecksHold`, `OnlyOrphansStay`
are the five properties of `WorkerTask`. `TaskInv` follows a message from thread to shared state to fragment:

  * `ThreadInv`: between preparing and handing over, a thread holds the messages of all
    its files, and these are on disk; its count is what it wrote;
  * `SharedInv`: until Finalize the shared state has the messages of exactly the threads
    that have combined, and their rows;
  * `EndInv`: then no thread runs, and the messages are with the fragment or the task has failed;
  * `DiskInv`: when aborts work, every file on disk is a message somebody holds, or an orphan.

  A thread whose count would overflow fails before it hands anything over, so messages and rows
  move together; that gives `FinalizeChecksHold`.

`FilterPushdownProofs`: `Exactness` (`ScanIsExact`), `FailsOnlyForNull` (`FailsOnlyOnNull`) and the invariant
both rest on, `PushdownInvariant`. They hold for every table, every ordered set of values, and expressions of
any height and width, under `ColsAssumption`, `ValsAssumption` and `ExprsAssumption`. The argument:

  * *Recursion.* A recursive function in TLA+ is one that satisfies its equation, if there is one. `RecursionExists`
    shows that there is: for every height a function is right below it (`UptoExists`, by a least
    counterexample), two such functions agree (`UptoUnique`), and the values at each expression's own height make up
    the function. `EvalIs`, `TryConvertExpressionIs`, `TryExtractPartitionFilterIs`, `HarmlessIs` and `NullFreeIs`
    are its instances. `HeightInduction` is induction along the height, for a set of expressions.
  * *Leaves.* `ComparisonSound`, `BetweenSound`, `FunctionSound`, `NullTestSound` and `InListSound`: the predicate of a
    leaf accepts the rows for which it is true; if nothing was left out, its negation, where it has one, accepts those
    for which it is false, and neither accepts a NULL by mistake.
  * *Compounds.* `Sound` says both at once, for `Harmless` below an even and an odd number of NOTs; a NOT
    exchanges the two (`NegationSound`), a conjunction keeps them apart (`ConjunctionSound`). One alone is not inductive.
  * *Partitions.* A row for which an expression is true is in the partition it is reduced to
    (`ExtractedIsNecessary`), in one of those of an OR (`DisjunctionIsNecessary`), and in the merged
    map of the choices that hold it, which cannot contradict each other (`PartFiltersAreNecessary`).
  * *Failures.* What throws has a NULL below it (`ThrowsOnlyOnNull`).
  * *The scan.* `Agreement`: predicate and partition filters in the bind data are those of the filters in the plan,
    whatever earlier passes left. `Delivery`: a row that satisfies them is read.

`ScanThreadsProofs`: `TypeCorrect`, `BatchHasReader`, `ReleaseOnce`, `ExactlyOnce` are its four invariants.
`ScanInv` is:

  * `CountInv`: the counter passes the splits once per thread that never draws again;
  * `ReaderInv`: a reader is on a split that was drawn, and on no other thread's;
  * `ChunkInv`: an armed batch lies before the position of its own thread's reader and was not released;
  * `ReleaseInv`, `OutInv`: ahead of the counter and of a reader nothing was
    released or put out; a drawn split is out completely or is being read, as long as nothing failed;
  * `QueryInv`: in a query that has not failed, threads leave only when the splits are drawn.

`NativeInsertProofs`: `TypeCorrect`, `StoresWhatItReports`, `FilesStay`, and `IsAtomicAppend`, that
`NativeInsert` implements `AtomicAppend`. `InsertInv` has `InputInv` (in each partition, what the writers have and
what is left add up to the input), `ThreadInv` (messages and count are those of the combined threads),
`LogInv` (one snapshot for each statement, with its messages) and `FileInv` (files with rows
are on disk while the table they were written for is there). The count is a sum over threads of sums over
partitions and the input one over partitions of sums over chunks; `SumSwap` exchanges them.

`CatalogCacheProofs`: `NoStaleTables` (`TablesCurrentAtRest`) and `CompleteCaches` (`CompleteAtRest`).
`StaleInv` holds with and without the mutex: an entry that differs from the stored table
has a statement between warehouse and cache that will replace it. `GuardedInv` is for the build
with the mutex: its holder is the only statement between the two (`MutexInv`) and finds the warehouse as it left it
(`DdlInv`); the schema set is right but for that statement (`SetInv`); a loaded table set is complete, and one
that is being scanned is so for the tables the scan has done (`LoadedInv`). `IdInv` tells an entry from its successor.
The actions are of three kinds, one lemma each: those that only read (`ReadKeeps`), those that change the warehouse
(`BeginKeeps`) and those that bring the cache up to date (`EndKeeps`).

`DistributedScanProofs`: `TypeCorrect`, `HoldsOnePlan`, and `IsConsistentScan`, that `DistributedScan` implements `ConsistentScan`.
`DistInv` says that bind data have the options the query asks for, wherever they are, although
the local ones do not travel (`BoundOptions`, `ShippedOptions`); that every plan is of a snapshot which may serve the query and
has every matching row of it (`SnapshotServes`); and that a worker which took splits holds exactly those that the last plan gives its
task (`OnlyShareValid`: whatever the checks of `apply_splits` let through is that share). The
tasks together then read each split of the plan once (`TasksTogether`), one summand per split being one.

`SumTheorems`: the library's induction theorems take an operator as a parameter, which the provers
cannot instantiate. The proofs by induction over a finite set therefore take the set of all subsets for which
the claim fails and derive a contradiction from a minimal one (`FiniteSetMinimal`); those over heights in
`FilterPushdownProofs` do the same with numbers (`LeastNat`).

## 6. Only model-checked

* `CallsReturn`, `ScanEnds`: liveness under fairness is out of the prover's reach.

`PushdownKeepsMatches` and `PushdownNeverThrows` do not hold and have runs that show it.

## 7. Not modelled, and why

* DDL of other processes between a validation and the commit: no lock of this code
  reaches other processes, and the comment at the commit limits the promise to this process.
* Failures of a DROP or CREATE that took effect: the cache then disagrees with
  the warehouse until the statement is repeated. The lifetime of table entries.
* A table that is dropped and created again between the binding and the planning of a scan, and
  snapshots that expire under a running scan: the scan has no check for either.
* Readers that return empty batches: the code would take one for the end, and
  Paimon's readers do not return them.
* Files and tables that a failed native statement leaves: a failed CTAS leaves its empty table
  (`NativeInsert` has the behaviour), and nothing in the code promises to remove either.
* `paimon_snapshots`: it lists the snapshots once, when it is bound, and emits them in chunks
  from one thread.
* String formats: paths, identities, fingerprints, options, secrets. An intact
  flag stands for every check of an envelope.
* Encodings of literals (timestamps, decimals), projections, and the conversion of Arrow values: an
  ordered set of small integers stands for all types.
* The transaction manager, registration, packaging: no
  behaviour of their own that a model would add to (see `PROJECT.json`).
* Write ids wrap after 2^32 threads; the run covers the limit with a scaled
  constant. The native insert does not check its write ids; that many threads do not occur.

## 8. Plan

1. Modelled: `DistributedWrite` with `AtomicAppend`, `WorkerTask`,
   `FilterPushdown`, `CatalogCache`, `DistributedScan` with `ConsistentScan`, `ScanThreads`,
   `NativeInsert`, `TargetBaseline`.
2. Proved: every safety invariant, action property and refinement the passing runs check.
3. Next: a refinement that shows an attempt of `DistributedWrite` to be a `WorkerTask`; table entry
   lifetimes in `CatalogCache`.
