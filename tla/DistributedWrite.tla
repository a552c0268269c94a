-------------------------- MODULE DistributedWrite --------------------------
(***************************************************************************)
(* The coordinator side of a distributed append to one Paimon table        *)
(* (paimon_distributed_insert.cpp): several INSERT and CTAS operations in  *)
(* one coordinator process, the task attempts the Vane runtime schedules   *)
(* for them, the results that come back, and the table they all append to. *)
(*                                                                         *)
(* An attempt is a triple <<operation, logical task, attempt number>>; it  *)
(* is the identity VaneLogicalTaskIdentity takes apart, and it also names  *)
(* the data files (and their commit messages) that attempt prepares, since *)
(* the writer's commit user and file prefix are derived from it.  What one *)
(* worker does inside an attempt is module WorkerTask.                     *)
(*                                                                         *)
(* Table storage, the Vane runtime and other processes are not part of the *)
(* repository: they appear as the code uses them.                          *)
(***************************************************************************)
EXTENDS Integers, Sequences, FiniteSets, Sums

CONSTANTS
  Ops,            \* distributed write operations of this process
  CtasOps,        \* the ones that are CREATE TABLE AS
  Tasks,          \* Vane logical tasks of an operation
  MaxAttempts,    \* attempts the runtime makes of one logical task
  Rows,           \* Rows[o][t]: input rows of logical task t of o
  MaxRowCount,    \* largest row count (idx_t, scaled down)
  Defs,           \* table definitions
  AppendOnlyDefs, \* the definitions without a primary key
  CtasDef,        \* the definition the CTAS operations create
  Free,           \* the mutation mutex is not held
  Native,         \* a native INSERT of this process
  Foreign,        \* a writer in another process
  AbortFaults,    \* TRUE: Paimon's Abort may leave files behind
  MaxResults,     \* bound: results passed to one coordinator call
  MaxTables,      \* bound: tables created by other statements
  MaxSnapshots    \* bound: snapshots of a table when others append

ASSUME OpsAssumption ==
  /\ CtasOps \subseteq Ops
  /\ Free \notin Ops /\ Native \notin Ops /\ Foreign \notin Ops
  /\ Native # Foreign

ASSUME TasksAssumption == Rows \in [Ops -> [Tasks -> Nat]]

ASSUME BoundsAssumption ==
  /\ AbortFaults \in BOOLEAN
  /\ MaxAttempts \in Nat /\ MaxRowCount \in Nat
  /\ MaxResults \in Nat /\ MaxTables \in Nat /\ MaxSnapshots \in Nat

ASSUME DefsAssumption ==
  /\ AppendOnlyDefs \subseteq Defs
  /\ CtasDef \in AppendOnlyDefs

VARIABLES
  tbl,      \* the table at the target path
  files,    \* data files on disk below the table path
  log,      \* every snapshot ever committed at the path
  mutex,    \* PaimonCatalog::GetVaneCatalogMutationMutex
  pc,       \* where each operation's coordinator stands
  finalize_started,
  frozen,   \* the target an operation froze at planning (or preparation)
  decoded,  \* messages FinalizeDistributedWrite decoded
  rows,     \* decoded.row_count, the count a successful finalize returns
  att       \* the state of every task attempt

store == <<tbl, files, log>>
coord == <<pc, finalize_started, frozen, decoded, rows>>
vars  == <<tbl, files, log, mutex, pc, finalize_started, frozen, decoded,
           rows, att>>

Attempt   == Ops \X Tasks \X (1..MaxAttempts)
Owner(x)  == x[1]
TaskOf(x) == x[2]
RowsOf(x) == Rows[Owner(x)][TaskOf(x)]

\* The attempts that write files.  An attempt of a task without rows publishes
\* a result without a fragment.
Writing == {x \in Attempt : RowsOf(x) > 0}

Target == [inc : Nat, def : Defs, snap : Nat]

-----------------------------------------------------------------------------
(***************************************************************************)
(* The target.  tbl.inc tells apart the tables that successively live at   *)
(* the path (uuid and schema JSON, which records the creation time);       *)
(* tbl.snap is the latest snapshot id, 0 for none.                         *)
(***************************************************************************)
\* Mutant: takes the latest snapshot without asking whether there is one.
LoadTargetState_NoEmptyCheck ==
  [inc |-> tbl.inc, def |-> tbl.def, snap |-> tbl.snap - 1]

LoadTargetState == [inc |-> tbl.inc, def |-> tbl.def, snap |-> tbl.snap]

\* Mutant: compares the snapshot and the definition, not the identity.
ValidateTargetBaseline_NoIdentity(o) ==
  tbl.live /\ tbl.def = frozen[o].def /\ tbl.snap = frozen[o].snap

ValidateTargetBaseline(o) == tbl.live /\ LoadTargetState = frozen[o]

\* The prepared table must have the planned definition and no snapshot.
CapturePreparedCTASTarget(o) ==
  tbl.live /\ tbl.def = frozen[o].def /\ tbl.snap = 0

NewTable(d) == [live |-> TRUE, inc |-> tbl.inc + 1, def |-> d, snap |-> 0]

\* Paimon's append: a new snapshot on top of whatever is at the path.
AppendSnapshot(by, messages) ==
  /\ log' = log \cup {[inc |-> tbl.inc, id |-> tbl.snap + 1,
                       by |-> by, files |-> messages]}
  /\ tbl' = [tbl EXCEPT !.snap = @ + 1]

\* BestEffortAbortMessages never throws: when Paimon's Abort fails, any part
\* of the files survives and nobody is told.
BestEffortAbortMessages(messages) ==
  \E gone \in IF AbortFaults THEN SUBSET messages ELSE {messages} :
    files' = files \ gone

-----------------------------------------------------------------------------
(***************************************************************************)
(* Results as the runtime hands them to the coordinator: a list of results *)
(* of published attempts, in any order, possibly with duplicates, several  *)
(* attempts of one task, results of another operation, or a payload that   *)
(* no longer matches its envelope.                                         *)
(***************************************************************************)
Result == [id : {x \in Attempt : att[x] = "published"}, intact : BOOLEAN]

ResultLists == UNION {[1..n -> Result] : n \in 0..MaxResults}

RowsUpTo(res, k) == SumOf([i \in 1..k |-> RowsOf(res[i].id)])

\* DecodeCommitResults throws at result i before taking its messages ...
RejectedAt(o, res, i) ==
  \/ ~res[i].intact
  \/ Owner(res[i].id) # o
  \/ \E j \in 1..(i - 1) : res[j].id = res[i].id

\* ... or after taking them, when CheckedAdd overflows.
OverflowAt(res, i) == RowsUpTo(res, i) \notin 0..MaxRowCount

\* What is in decoded.messages when DecodeCommitResults returns or throws.
DecodedMessages(o, res) ==
  {x \in Writing :
     \E i \in DOMAIN res :
       /\ res[i].id = x
       /\ \A j \in 1..i : ~RejectedAt(o, res, j)
       /\ \A j \in 1..(i - 1) : ~OverflowAt(res, j)}

\* Mutant: only attempt identities are checked for duplicates.
DuplicateLogicalTask_Unchecked(res) == FALSE

\* Several attempts of one logical task are reported only after the loop.
DuplicateLogicalTask(res) ==
  \E i, j \in DOMAIN res : i # j /\ TaskOf(res[i].id) = TaskOf(res[j].id)

DecodeCommitResults(o, res) ==
  /\ \A i \in DOMAIN res : ~RejectedAt(o, res, i)
  /\ \A i \in 0..Len(res) : ~OverflowAt(res, i)
  /\ ~DuplicateLogicalTask(res)

\* The runtime finalizes with a result of every logical task.
CoversAllTasks(o, res) ==
  \A t \in Tasks : \E i \in DOMAIN res :
    Owner(res[i].id) = o /\ TaskOf(res[i].id) = t

-----------------------------------------------------------------------------
(***************************************************************************)
(* Planning and preparation.                                               *)
(*                                                                         *)
(* pc[o] folds the operator's mutable flags into one position:             *)
(* distributed_target_initialized and distributed_worker_plan_selected     *)
(* hold beyond "new", distributed_prepare_started beyond "validated",      *)
(* distributed_target_prepared from "prepared" on.  "unprepared": planning *)
(* or preparation threw.                                                   *)
(***************************************************************************)
InitializeDistributedWrite(o) ==
  /\ pc[o] = "new"
  /\ \/ /\ o \in CtasOps
        /\ frozen' = [frozen EXCEPT
                        ![o] = [inc |-> 0, def |-> CtasDef, snap |-> 0]]
        /\ pc' = [pc EXCEPT ![o] = "planned"]
     \/ /\ o \notin CtasOps
        /\ mutex = Free
        /\ tbl.live
        /\ frozen' = [frozen EXCEPT ![o] = LoadTargetState]
        /\ pc' = [pc EXCEPT ![o] = IF tbl.def \in AppendOnlyDefs
                                   THEN "planned" ELSE "unprepared"]
     \/ /\ o \notin CtasOps
        /\ mutex = Free
        /\ pc' = [pc EXCEPT ![o] = "unprepared"]
        /\ UNCHANGED frozen
  /\ UNCHANGED <<store, mutex, finalize_started, decoded, rows, att>>

\* A catalog read under the mutex: it finds the frozen baseline and the
\* operation moves on, or it finds another one, or fails, and throws.
ValidateOrThrow(o, next) ==
  /\ mutex = Free
  /\ \/ ValidateTargetBaseline(o) /\ pc' = [pc EXCEPT ![o] = next]
     \/ pc' = [pc EXCEPT ![o] = "unprepared"]

ValidateDistributedWrite(o) ==
  /\ pc[o] = "planned"
  /\ IF o \in CtasOps THEN pc' = [pc EXCEPT ![o] = "validated"]
                       ELSE ValidateOrThrow(o, "validated")
  /\ UNCHANGED <<store, mutex, finalize_started, frozen, decoded, rows, att>>

PrepareInsert(o) ==
  /\ pc[o] = "validated"
  /\ o \notin CtasOps
  /\ ValidateOrThrow(o, "prepared")
  /\ UNCHANGED <<store, mutex, finalize_started, frozen, decoded, rows, att>>

\* A CTAS prepares in three critical sections: it checks that the table is
\* absent, creates it, and captures what it finds at the path.
PrepareCtasAbsent(o) ==
  /\ pc[o] = "validated"
  /\ o \in CtasOps
  /\ mutex = Free
  /\ \/ ~tbl.live /\ pc' = [pc EXCEPT ![o] = "absent"]
     \/ pc' = [pc EXCEPT ![o] = "unprepared"]
  /\ UNCHANGED <<store, mutex, finalize_started, frozen, decoded, rows, att>>

\* CreateTable may also create the table and then fail to load its entry.
PrepareCtasCreate(o) ==
  /\ pc[o] = "absent"
  /\ mutex = Free
  /\ \/ /\ ~tbl.live
        /\ tbl' = NewTable(CtasDef)
        /\ \E next \in {"created", "unprepared"} :
             pc' = [pc EXCEPT ![o] = next]
     \/ /\ pc' = [pc EXCEPT ![o] = "unprepared"]
        /\ UNCHANGED tbl
  /\ UNCHANGED <<files, log, mutex, finalize_started, frozen, decoded, rows,
                 att>>

PrepareCtasCapture(o) ==
  /\ pc[o] = "created"
  /\ mutex = Free
  /\ \/ /\ CapturePreparedCTASTarget(o)
        /\ frozen' = [frozen EXCEPT ![o] = LoadTargetState]
        /\ pc' = [pc EXCEPT ![o] = "prepared"]
     \/ /\ pc' = [pc EXCEPT ![o] = "unprepared"]
        /\ UNCHANGED frozen
  /\ UNCHANGED <<store, mutex, finalize_started, decoded, rows, att>>

-----------------------------------------------------------------------------
(***************************************************************************)
(* Task attempts.  The runtime starts them once the target is prepared; it *)
(* may start another attempt while an earlier one still runs, and attempts *)
(* may outlive the operation.                                              *)
(***************************************************************************)
StartAttempt(x) ==
  /\ pc[Owner(x)] = "prepared"
  /\ att[x] = "idle"
  /\ x[3] > 1 => att[<<x[1], x[2], x[3] - 1>>] # "idle"
  /\ att' = [att EXCEPT ![x] = "running"]
  /\ UNCHANGED <<store, mutex, coord>>

\* Sink and Combine: the attempt's files are on disk, its global state holds
\* their messages.
WorkerCombine(x) ==
  /\ att[x] = "running"
  /\ files' = files \cup ({x} \cap Writing)
  /\ att' = [att EXCEPT ![x] = "written"]
  /\ UNCHANGED <<tbl, log, mutex, coord>>

\* PaimonDistributedInsertFinalize: the fragment takes over the messages.
WorkerFinalize(x) ==
  /\ att[x] = "written"
  /\ att' = [att EXCEPT ![x] = "published"]
  /\ UNCHANGED <<store, mutex, coord>>

\* The attempt ends before its messages are in the global state: a file may
\* be left behind for which no message exists.
WorkerFailEarly(x) ==
  /\ att[x] = "running"
  /\ \E left \in SUBSET ({x} \cap Writing) :
       files' = files \cup left
  /\ att' = [att EXCEPT ![x] = "ended"]
  /\ UNCHANGED <<tbl, log, mutex, coord>>

\* The attempt ends before its fragment exists: the destructor of its global
\* state aborts the messages, unless the worker process died.
WorkerFailLate(x) ==
  /\ att[x] = "written"
  /\ BestEffortAbortMessages({x}) \/ UNCHANGED files
  /\ att' = [att EXCEPT ![x] = "ended"]
  /\ UNCHANGED <<tbl, log, mutex, coord>>

-----------------------------------------------------------------------------
(***************************************************************************)
(* Finalization.  Decoding happens before the mutex is taken, validation   *)
(* and the commit under it, and a failed validation releases it before its *)
(* abort.                                                                  *)
(***************************************************************************)
FinalizeDistributedWrite(o, res) ==
  /\ pc[o] = "prepared"
  /\ ~finalize_started[o]
  /\ CoversAllTasks(o, res)
  /\ finalize_started' = [finalize_started EXCEPT ![o] = TRUE]
  /\ decoded' = [decoded EXCEPT ![o] = DecodedMessages(o, res)]
  /\ IF DecodeCommitResults(o, res)
       THEN /\ rows' = [rows EXCEPT ![o] = RowsUpTo(res, Len(res))]
            /\ pc' = [pc EXCEPT ![o] = "decoded"]
            /\ UNCHANGED files
       ELSE /\ BestEffortAbortMessages(DecodedMessages(o, res))
            /\ pc' = [pc EXCEPT ![o] = "failed"]
            /\ UNCHANGED rows
  /\ UNCHANGED <<tbl, log, mutex, frozen, att>>

\* A target that was not prepared, or options that cannot be resolved, make
\* finalization throw before anything is decoded, so nothing is aborted.
FinalizeThrowsEarly(o) ==
  /\ pc[o] \in {"unprepared", "prepared"}
  /\ ~finalize_started[o]
  /\ finalize_started' = [finalize_started EXCEPT ![o] = TRUE]
  /\ pc' = [pc EXCEPT ![o] = IF @ = "prepared" THEN "failed" ELSE @]
  /\ UNCHANGED <<store, mutex, frozen, decoded, rows, att>>

\* Mutant: validates and commits without the mutex.
FinalizeLock_NotTaken(o) ==
  /\ pc[o] = "decoded"
  /\ pc' = [pc EXCEPT ![o] = "locked"]
  /\ UNCHANGED <<store, mutex, finalize_started, frozen, decoded, rows, att>>

FinalizeLock(o) ==
  /\ pc[o] = "decoded"
  /\ mutex = Free
  /\ mutex' = o
  /\ pc' = [pc EXCEPT ![o] = "locked"]
  /\ UNCHANGED <<store, finalize_started, frozen, decoded, rows, att>>

\* Mutant: the early return keeps the mutex.
FinalizeEmpty_KeepsMutex(o) ==
  /\ pc[o] = "locked"
  /\ ValidateTargetBaseline(o)
  /\ decoded[o] = {} /\ rows[o] = 0
  /\ pc' = [pc EXCEPT ![o] = "ok"]
  /\ UNCHANGED <<store, mutex, finalize_started, frozen, decoded, rows, att>>

\* Nothing was written: the baseline is still validated, nothing committed.
FinalizeEmpty(o) ==
  /\ pc[o] = "locked"
  /\ ValidateTargetBaseline(o)
  /\ decoded[o] = {} /\ rows[o] = 0
  /\ mutex' = Free
  /\ pc' = [pc EXCEPT ![o] = "ok"]
  /\ UNCHANGED <<store, finalize_started, frozen, decoded, rows, att>>

FinalizeValidate(o) ==
  /\ pc[o] = "locked"
  /\ ValidateTargetBaseline(o)
  /\ decoded[o] # {} /\ rows[o] # 0
  /\ pc' = [pc EXCEPT ![o] = "committing"]
  /\ UNCHANGED <<store, mutex, finalize_started, frozen, decoded, rows, att>>

\* Mutant: throws without the abort.
FinalizeReject_NoAbort(o) ==
  /\ pc[o] = "locked"
  /\ mutex' = Free
  /\ pc' = [pc EXCEPT ![o] = "failed"]
  /\ UNCHANGED <<store, finalize_started, frozen, decoded, rows, att>>

\* The baseline changed, counts and messages disagree, or a catalog read or
\* the creation of the committer failed: unlock, then abort.
FinalizeReject(o) ==
  /\ pc[o] = "locked"
  /\ mutex' = Free
  /\ pc' = [pc EXCEPT ![o] = "aborting"]
  /\ UNCHANGED <<store, finalize_started, frozen, decoded, rows, att>>

FinalizeAbort(o) ==
  /\ pc[o] = "aborting"
  /\ BestEffortAbortMessages(decoded[o])
  /\ pc' = [pc EXCEPT ![o] = "failed"]
  /\ UNCHANGED <<tbl, log, mutex, finalize_started, frozen, decoded, rows, att>>

\* FilterAndCommit skips an identifier this commit user already committed.
AlreadyCommitted(o) == \E c \in log : c.inc = tbl.inc /\ c.by = o

\* Mutant: an error of the commit call is taken for a commit that failed.
FilterAndCommit_ErrorIsFailure(o) ==
  /\ pc[o] = "committing"
  /\ ~AlreadyCommitted(o)
  /\ AppendSnapshot(o, decoded[o])
  /\ mutex' = Free
  /\ \E answer \in {"ok", "aborting"} : pc' = [pc EXCEPT ![o] = answer]
  /\ UNCHANGED <<files, finalize_started, frozen, decoded, rows, att>>

\* The commit lands; its acknowledgement may be lost.
FilterAndCommit(o) ==
  /\ pc[o] = "committing"
  /\ ~AlreadyCommitted(o)
  /\ AppendSnapshot(o, decoded[o])
  /\ mutex' = Free
  /\ \E answer \in {"ok", "unknown"} : pc' = [pc EXCEPT ![o] = answer]
  /\ UNCHANGED <<files, finalize_started, frozen, decoded, rows, att>>

\* The commit fails, or filters the operation out, without an effect.  The
\* coordinator cannot tell this from a lost acknowledgement.
CommitWithoutEffect(o) ==
  /\ pc[o] = "committing"
  /\ mutex' = Free
  /\ pc' = [pc EXCEPT ![o] = "unknown"]
  /\ UNCHANGED <<store, finalize_started, frozen, decoded, rows, att>>

-----------------------------------------------------------------------------
\* Mutant: an abort does not ask whether finalization started.
AbortDistributedWrite_AnyTime(o, res) ==
  /\ pc[o] \in {"prepared", "unprepared", "aborted", "failed", "unknown"}
  /\ BestEffortAbortMessages(DecodedMessages(o, res))
  /\ pc' = [pc EXCEPT ![o] = IF @ = "prepared" THEN "aborted" ELSE @]
  /\ UNCHANGED <<tbl, log, mutex, finalize_started, frozen, decoded, rows, att>>

\* The runtime may ask for an abort after any failure, also one of a
\* finalization.  Aborts take no lock and leave no mark on the operation.
AbortDistributedWrite(o, res) ==
  /\ pc[o] \in {"prepared", "unprepared", "aborted", "failed", "unknown"}
  /\ ~finalize_started[o]
  /\ BestEffortAbortMessages(DecodedMessages(o, res))
  /\ pc' = [pc EXCEPT ![o] = IF @ = "prepared" THEN "aborted" ELSE @]
  /\ UNCHANGED <<tbl, log, mutex, finalize_started, frozen, decoded, rows, att>>

\* The coordinator process dies: its mutex and every call in progress are
\* gone; nothing about an operation is persisted outside the table.
Answered == {"ok", "failed", "unknown", "aborted", "unprepared"}
CoordinatorCrash ==
  /\ \E o \in Ops : pc[o] \notin Answered \cup {"new", "crashed"}
  /\ pc' = [o \in Ops |-> IF pc[o] \in Answered \cup {"new"} THEN pc[o]
                          ELSE "crashed"]
  /\ mutex' = Free
  /\ UNCHANGED <<store, finalize_started, frozen, decoded, rows, att>>

-----------------------------------------------------------------------------
(***************************************************************************)
(* Everyone else.  The statements of this process (PaimonSchemaEntry::     *)
(* CreateTable and DropEntry, the native INSERT's commit) hold the mutex;  *)
(* a writer in another process does not.                                   *)
(***************************************************************************)
CreateTable(d) ==
  /\ mutex = Free
  /\ ~tbl.live
  /\ tbl.inc < MaxTables
  /\ tbl' = NewTable(d)
  /\ UNCHANGED <<files, log, mutex, coord, att>>

DropTable ==
  /\ mutex = Free
  /\ tbl.live
  /\ tbl' = [tbl EXCEPT !.live = FALSE, !.snap = 0]
  /\ files' = {}
  /\ UNCHANGED <<log, mutex, coord, att>>

NativeCommit ==
  /\ mutex = Free
  /\ tbl.live /\ tbl.snap < MaxSnapshots
  /\ AppendSnapshot(Native, {})
  /\ UNCHANGED <<files, mutex, coord, att>>

ForeignCommit ==
  /\ tbl.live /\ tbl.snap < MaxSnapshots
  /\ AppendSnapshot(Foreign, {})
  /\ UNCHANGED <<files, mutex, coord, att>>

-----------------------------------------------------------------------------
Init ==
  /\ tbl \in {[live |-> l, inc |-> IF l THEN 1 ELSE 0, def |-> d, snap |-> 0] :
                l \in BOOLEAN, d \in Defs}
  /\ files = {}
  /\ log = {}
  /\ mutex = Free
  /\ pc = [o \in Ops |-> "new"]
  /\ finalize_started = [o \in Ops |-> FALSE]
  /\ frozen = [o \in Ops |-> [inc |-> 0, def |-> CtasDef, snap |-> 0]]
  /\ decoded = [o \in Ops |-> {}]
  /\ rows = [o \in Ops |-> 0]
  /\ att = [x \in Attempt |-> "idle"]

Coordinator(o) ==
  \/ InitializeDistributedWrite(o)
  \/ ValidateDistributedWrite(o)
  \/ PrepareInsert(o)
  \/ PrepareCtasAbsent(o)
  \/ PrepareCtasCreate(o)
  \/ PrepareCtasCapture(o)
  \/ \E res \in ResultLists : FinalizeDistributedWrite(o, res)
  \/ FinalizeThrowsEarly(o)
  \/ FinalizeLock(o)
  \/ FinalizeEmpty(o)
  \/ FinalizeValidate(o)
  \/ FinalizeReject(o)
  \/ FinalizeAbort(o)
  \/ FilterAndCommit(o)
  \/ CommitWithoutEffect(o)
  \/ \E res \in ResultLists : AbortDistributedWrite(o, res)

Worker(x) ==
  \/ StartAttempt(x)
  \/ WorkerCombine(x)
  \/ WorkerFinalize(x)
  \/ WorkerFailEarly(x)
  \/ WorkerFailLate(x)

Others ==
  \/ \E d \in Defs : CreateTable(d)
  \/ DropTable
  \/ NativeCommit
  \/ ForeignCommit

Next ==
  \/ \E o \in Ops : Coordinator(o)
  \/ \E x \in Attempt : Worker(x)
  \/ CoordinatorCrash
  \/ Others

Spec == Init /\ [][Next]_vars
(***************************************************************************)
(* A coordinator call that has started runs on: it waits for nothing but   *)
(* the mutex, and no other holder of the mutex waits for anything.         *)
(***************************************************************************)
Step(o) ==
  \/ PrepareCtasCreate(o)
  \/ PrepareCtasCapture(o)
  \/ FinalizeLock(o)
  \/ FinalizeEmpty(o)
  \/ FinalizeValidate(o)
  \/ FinalizeReject(o)
  \/ FinalizeAbort(o)
  \/ FilterAndCommit(o)
  \/ CommitWithoutEffect(o)

FairSpec == Spec /\ \A o \in Ops : WF_vars(Step(o))

-----------------------------------------------------------------------------
InCall == {"absent", "created", "decoded", "locked", "committing", "aborting"}
PcValues == {"new", "planned", "validated", "prepared", "crashed"}
              \cup InCall \cup Answered

AttemptStates == {"idle", "running", "written", "published", "ended"}

Table    == [live : BOOLEAN, inc : Nat, def : Defs, snap : Nat]
Snapshot == [inc : Nat, id : Nat, by : Ops \cup {Native, Foreign},
             files : SUBSET Attempt]

\* The types of all variables.
TypeOK ==
  /\ tbl \in Table
  /\ files \subseteq Attempt
  /\ log \subseteq Snapshot
  /\ mutex \in Ops \cup {Free}
  /\ pc \in [Ops -> PcValues]
  /\ finalize_started \in [Ops -> BOOLEAN]
  /\ frozen \in [Ops -> Target]
  /\ decoded \in [Ops -> SUBSET Attempt]
  /\ rows \in [Ops -> 0..MaxRowCount]
  /\ att \in [Attempt -> AttemptStates]

\* The snapshots a reader of the table can see.
LiveSnapshots == {c \in log : tbl.live /\ c.inc = tbl.inc}

\* Every data file that a snapshot of the live table refers to is on disk:
\* no abort of a coordinator or a worker, however late, and no DROP TABLE that
\* overtakes a commit takes a visible file away.
NoDanglingSnapshot == \A c \in LiveSnapshots : c.files \subseteq files

\* A distributed commit lands on the table it froze, on top of the snapshot
\* it froze; only appends of other processes may have come in between, never
\* a statement of this process (the comment at the call of FilterAndCommit).
CommitsOnFrozenBaseline ==
  \A c \in log : c.by \in Ops =>
    /\ c.inc = frozen[c.by].inc
    /\ c.id > frozen[c.by].snap
    /\ \A d \in log :
         d.inc = c.inc /\ frozen[c.by].snap < d.id /\ d.id < c.id
           => d.by = Foreign

InputRows(o) == SumOf(Rows[o])

\* A successful finalization returns the number of input rows, whichever
\* attempts were selected and however often results were delivered.
ReportedRowsAreInputRows ==
  \A o \in Ops : pc[o] = "ok" => rows[o] = InputRows(o)

\* When Paimon's Abort works, a finalization that failed before its commit
\* leaves none of the messages it decoded on disk.
KnownFailureCleansUp ==
  ~AbortFaults => \A o \in Ops : pc[o] = "failed" => decoded[o] \cap files = {}

\* From the commit on, the artifacts of an operation are retained: whatever
\* the outcome, only DROP TABLE removes them.
RetainedFromCommitOn ==
  [][\A o \in Ops :
       pc[o] \in {"committing", "ok", "unknown"} /\ tbl'.live
         => decoded[o] \cap files \subseteq files']_vars

\* Every coordinator call returns: nobody keeps the mutation mutex, and nobody
\* waits for it forever.
CallsReturn == \A o \in Ops : pc[o] \in InCall ~> pc[o] \notin InCall

-----------------------------------------------------------------------------
(***************************************************************************)
(* The inductive invariant behind NoDanglingSnapshot and                   *)
(* CommitsOnFrozenBaseline.                                                *)
(***************************************************************************)
Finalizing == {"decoded", "locked", "committing", "aborting", "ok", "failed",
               "unknown"}
Prepared   == Finalizing \cup {"prepared", "aborted", "crashed"}
Committable == {"prepared", "decoded", "locked", "committing", "ok", "unknown"}

\* The mutex is held exactly between FinalizeLock and the commit's return, and
\* an operation that started to finalize can be neither aborted nor finalized
\* again.
ControlInv ==
  \A o \in Ops :
    /\ pc[o] \in {"locked", "committing"} <=> mutex = o
    /\ pc[o] \in Finalizing => finalize_started[o]

\* An operation holds only messages its own attempts published, and attempts
\* run only for prepared targets.
MessageInv ==
  /\ \A o \in Ops : \A x \in decoded[o] :
       x \in Writing /\ Owner(x) = o /\ att[x] = "published"
  /\ \A x \in Attempt : att[x] # "idle" => pc[Owner(x)] \in Prepared

\* As long as the table an operation froze is live, the files its attempts
\* wrote are on disk, unless the operation was given up.
FileInv ==
  \A x \in Writing :
    /\ att[x] \in {"written", "published"}
    /\ pc[Owner(x)] \in Committable
    /\ tbl.live /\ tbl.inc = frozen[Owner(x)].inc
    => x \in files

\* Incarnations and snapshot ids only grow; what another statement committed
\* refers to none of the modelled files; a distributed commit belongs to an
\* operation that ended with it.
LogInv ==
  /\ \A o \in Ops : frozen[o].inc <= tbl.inc
  /\ \A c \in log :
       /\ c.inc <= tbl.inc
       /\ tbl.live /\ c.inc = tbl.inc => c.id <= tbl.snap
       /\ c.by \notin Ops => c.files = {}
       /\ c.by \in Ops => /\ pc[c.by] \in {"ok", "unknown"}
                          /\ c.files = decoded[c.by]

\* While an operation commits, only other processes can have appended to the
\* table it validated.
CommitInv ==
  \A o \in Ops : pc[o] = "committing" =>
    /\ tbl.live
    /\ tbl.inc = frozen[o].inc
    /\ tbl.snap >= frozen[o].snap
    /\ \A d \in log : d.inc = tbl.inc /\ d.id > frozen[o].snap
                        => d.by = Foreign

\* Messages are held from decoding on, and those of an operation that failed
\* are gone when aborts work.
CleanupInv ==
  /\ \A o \in Ops : pc[o] \notin Finalizing \cup {"crashed"} => decoded[o] = {}
  /\ KnownFailureCleansUp

SafetyInv ==
  /\ TypeOK
  /\ ControlInv
  /\ MessageInv
  /\ FileInv
  /\ LogInv
  /\ CommitInv
  /\ CommitsOnFrozenBaseline

-----------------------------------------------------------------------------
\* What the caller of operation o knows.
AnswerOf(o) ==
  CASE pc[o] \in {"failed", "unprepared", "aborted"} -> "failed"
    [] pc[o] \in {"ok", "unknown", "crashed"} -> pc[o]
    [] OTHER -> "none"

VisibleFiles(o) == UNION {c.files : c \in {d \in log : d.by = o}}

Abstract == INSTANCE AtomicAppend WITH
  NonEmpty <- [o \in Ops |-> {t \in Tasks : Rows[o][t] > 0}],
  visible <- [o \in Ops |-> VisibleFiles(o)],
  answer  <- [o \in Ops |-> AnswerOf(o)]

\* Every distributed write is an atomic append: all of its logical tasks, one
\* attempt of each, once, or nothing, and the answer agrees with the table.
ImplementsAtomicAppend == Abstract!Spec
=============================================================================
