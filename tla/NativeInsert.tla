---------------------------- MODULE NativeInsert ----------------------------
(***************************************************************************)
(* INSERT and CREATE TABLE AS inside one DuckDB process: the physical      *)
(* operator of paimon_insert.cpp and its planning in paimon_catalog.cpp.   *)
(* Several statements write to one table, each with several threads, while *)
(* other statements drop the table and create it again.                    *)
(*                                                                         *)
(* A file, and the commit message that describes it, is <<statement,       *)
(* thread, partition>>.  The catalog mutation mutex of the Vane build is   *)
(* held within one step only, so it needs no variable.                     *)
(***************************************************************************)
EXTENDS Integers, Sequences, FiniteSets, Sums

CONSTANTS
  Stmts,        \* statements
  Ctas,         \* those of them that create the table
  IfNotExists,  \* those of them that may find the table created by another one
  Threads,      \* threads of a pipeline
  Values,       \* values of the partition column
  Null,         \* NULL in the partition column
  DefaultName,  \* null_part_name, the name of the partition of NULL
  Input,        \* Input[o]: chunks of rows, counted by partition value
  MaxStmts,     \* bound: statements in one behaviour
  MaxTables     \* bound: how often the table is created

Cells == Values \cup {Null}
Parts == Values \cup {DefaultName}
Files == Stmts \X Threads \X Parts

ASSUME InputAssumption ==
  /\ IfNotExists \subseteq Ctas /\ Ctas \subseteq Stmts
  /\ MaxTables \in Nat /\ MaxStmts \in Nat
  /\ Input \in [Stmts -> Seq([Cells -> Nat])]

ASSUME FiniteAssumption == IsFiniteSet(Threads) /\ IsFiniteSet(Values)

VARIABLES
  table,     \* the table: its incarnation, 0 if there is none
  created,   \* tables created so far
  disk,      \* data files below the table's path
  log,       \* snapshots ever committed: incarnation, statement, files, rows
  pc,        \* how far a statement is
  sunk,      \* history: the incarnation the global sink state was made for
  left,      \* chunks of the input that no thread has taken
  thr,       \* where each thread of a statement stands
  written,   \* written[o][t][p]: rows in the writer of thread t
  messages,  \* gstate.all_commit_messages, with the rows of their files
  count,     \* gstate.insert_count
  reported   \* what the statement returned, -1 before

vars == <<table, created, disk, log, pc, sunk, left, thr, written, messages,
          count, reported>>
local == <<left, thr, written, messages, count>>
path  == <<table, created, disk, log>>

NoRows == [p \in Parts |-> 0]

\* The groups of a chunk: rows by partition name, NULL under its own name.
PartitionGroups(chunk) ==
  [p \in Parts |-> (IF p \in Values THEN chunk[p] ELSE 0)
                     + (IF p = DefaultName THEN chunk[Null] ELSE 0)]

\* The statement ends at the first exception.
Fail(o) == pc' = [pc EXCEPT ![o] = "failed"]

-----------------------------------------------------------------------------
\* PlanInsert loads the schema of the table; PlanCreateTableAs does not.
Plan(o) ==
  /\ pc[o] = "none" /\ Cardinality({u \in Stmts : pc[u] # "none"}) < MaxStmts
  /\ o \in Ctas \/ table # 0
  /\ pc' = [pc EXCEPT ![o] = "planned"]
  /\ UNCHANGED <<path, local, sunk, reported>>

\* GetGlobalSinkState of a CTAS creates the table first; with IF NOT EXISTS
\* it appends to the one another statement created after the planning ...
CreateCtasTable(o) ==
  /\ pc[o] = "planned" /\ o \in Ctas
  /\ \/ /\ table = 0 /\ created < MaxTables
        /\ table' = created + 1 /\ created' = created + 1
        /\ pc' = [pc EXCEPT ![o] = "created"]
     \/ /\ o \in IfNotExists /\ table # 0
        /\ pc' = [pc EXCEPT ![o] = "created"]
        /\ UNCHANGED <<table, created>>
     \/ Fail(o) /\ UNCHANGED <<table, created>>
  /\ UNCHANGED <<disk, log, local, sunk, reported>>

\* ... and then resolves the location and the partition columns.
GetGlobalSinkState(o) ==
  /\ pc[o] = IF o \in Ctas THEN "created" ELSE "planned"
  /\ \/ /\ table # 0
        /\ pc' = [pc EXCEPT ![o] = "sinking"]
        /\ sunk' = [sunk EXCEPT ![o] = table]
     \/ Fail(o) /\ UNCHANGED sunk
  /\ UNCHANGED <<path, local, reported>>

GetLocalSinkState(o, t) ==
  /\ pc[o] = "sinking" /\ thr[o][t] = "new"
  /\ \/ thr' = [thr EXCEPT ![o][t] = "writing"] /\ UNCHANGED pc
     \/ Fail(o) /\ UNCHANGED thr
  /\ UNCHANGED <<path, sunk, left, written, messages, count, reported>>

\* Sink: the groups are written one after the other; the writer creates
\* files, which stay if a later group fails.
Sink(o, t) ==
  /\ pc[o] = "sinking" /\ thr[o][t] = "writing" /\ left[o] # <<>>
  /\ left' = [left EXCEPT ![o] = Tail(@)]
  /\ LET groups == PartitionGroups(Head(left[o]))
         touched == {p \in Parts : groups[p] > 0}
         FilesFor(P) == {<<o, t, p>> : p \in P}
     IN \/ /\ written' = [written EXCEPT ![o][t] = [p \in Parts |-> @[p] + groups[p]]]
           /\ disk' = disk \cup FilesFor(touched)
           /\ UNCHANGED pc
        \/ /\ \E P \in SUBSET touched : disk' = disk \cup FilesFor(P)
           /\ Fail(o)
           /\ UNCHANGED written
  /\ UNCHANGED <<table, created, log, sunk, thr, messages, count, reported>>

\* What a thread hands over: the messages of its files with their rows.
Prepared_EmptyFiles(o, t) ==
  {[file |-> <<o, t, p>>, rows |-> written[o][t][p]] : p \in Parts}

Prepared(o, t) ==
  {[file |-> <<o, t, p>>, rows |-> written[o][t][p]] :
     p \in {q \in Parts : written[o][t][q] > 0}}

\* The hand-over happens under gstate.lock; without it one of two threads may
\* overwrite what the other added.
HandOver_Racy(o, t) ==
  /\ count' = [count EXCEPT ![o] = @ + SumOf(written[o][t])]
  /\ messages' \in {[messages EXCEPT ![o] = @ \cup Prepared(o, t)],
                    [messages EXCEPT ![o] = Prepared(o, t)]}

HandOver_NoCount(o, t) ==
  /\ messages' = [messages EXCEPT ![o] = @ \cup Prepared(o, t)]
  /\ count' = [count EXCEPT ![o] = SumOf(written[o][t])]

HandOver(o, t) ==
  /\ messages' = [messages EXCEPT ![o] = @ \cup Prepared(o, t)]
  /\ count' = [count EXCEPT ![o] = @ + SumOf(written[o][t])]

\* Combine: a thread without rows closes its writer; another one prepares its
\* messages, closes the writer and hands over.  A failure drops the messages,
\* and nobody removes the files.
Combine(o, t) ==
  /\ pc[o] = "sinking" /\ thr[o][t] = "writing" /\ left[o] = <<>>
  /\ \/ /\ HandOver(o, t)
        /\ thr' = [thr EXCEPT ![o][t] = "combined"]
        /\ UNCHANGED pc
     \/ Fail(o) /\ UNCHANGED <<thr, messages, count>>
  /\ UNCHANGED <<path, sunk, left, written, reported>>

Committed(o) == [inc |-> table, stmt |-> o, msgs |-> messages[o]]

\* Finalize: nothing to commit; a commit that works; one that makes the
\* snapshot visible and reports an error; one that fails, as it must when the
\* table is gone.  No baseline is checked.
Finalize_AbortsOnError(o) ==
  /\ pc[o] = "sinking" /\ left[o] = <<>>
  /\ \A t \in Threads : thr[o][t] \in {"new", "combined"}
  /\ messages[o] # {} /\ table # 0
  /\ log' = Append(log, Committed(o))
  /\ \/ pc' = [pc EXCEPT ![o] = "ok"] /\ UNCHANGED disk
     \/ /\ pc' = [pc EXCEPT ![o] = "unknown"]
        /\ disk' = disk \ {m.file : m \in messages[o]}
  /\ UNCHANGED <<table, created, local, sunk, reported>>

Finalize(o) ==
  /\ pc[o] = "sinking" /\ left[o] = <<>>
  /\ \A t \in Threads : thr[o][t] \in {"new", "combined"}
  /\ \/ /\ messages[o] = {}
        /\ pc' = [pc EXCEPT ![o] = "ok"]
        /\ UNCHANGED log
     \/ /\ messages[o] # {} /\ table # 0
        /\ log' = Append(log, Committed(o))
        /\ \E told \in {"ok", "unknown"} : pc' = [pc EXCEPT ![o] = told]
     \/ /\ messages[o] # {}
        /\ \E told \in {"failed", "unknown"} : pc' = [pc EXCEPT ![o] = told]
        /\ UNCHANGED log
  /\ UNCHANGED <<table, created, disk, local, sunk, reported>>

\* GetDataInternal emits the count once.
GetDataInternal(o) ==
  /\ pc[o] = "ok" /\ reported[o] = -1
  /\ reported' = [reported EXCEPT ![o] = count[o]]
  /\ UNCHANGED <<path, local, pc, sunk>>

-----------------------------------------------------------------------------
\* Other statements.  Dropping the table removes everything below its path.
DropTable ==
  /\ table # 0
  /\ table' = 0 /\ disk' = {}
  /\ UNCHANGED <<created, log, local, pc, sunk, reported>>

CreateTable ==
  /\ table = 0 /\ created < MaxTables
  /\ table' = created + 1 /\ created' = created + 1
  /\ UNCHANGED <<disk, log, local, pc, sunk, reported>>

-----------------------------------------------------------------------------
Init ==
  /\ table = 0 /\ created = 0 /\ disk = {} /\ log = <<>>
  /\ pc = [o \in Stmts |-> "none"]
  /\ sunk = [o \in Stmts |-> 0]
  /\ left = Input
  /\ thr = [o \in Stmts |-> [t \in Threads |-> "new"]]
  /\ written = [o \in Stmts |-> [t \in Threads |-> NoRows]]
  /\ messages = [o \in Stmts |-> {}]
  /\ count = [o \in Stmts |-> 0]
  /\ reported = [o \in Stmts |-> -1]

Next ==
  \/ DropTable \/ CreateTable
  \/ \E o \in Stmts :
       \/ Plan(o) \/ CreateCtasTable(o) \/ GetGlobalSinkState(o)
       \/ Finalize(o) \/ GetDataInternal(o)
       \/ \E t \in Threads : GetLocalSinkState(o, t) \/ Sink(o, t) \/ Combine(o, t)

Spec == Init /\ [][Next]_vars

-----------------------------------------------------------------------------
(* Properties *)

TotalInput(o) ==
  [p \in Parts |-> SumOf([i \in DOMAIN Input[o] |->
     (IF p \in Values THEN Input[o][i][p] ELSE 0)
       + (IF p = DefaultName THEN Input[o][i][Null] ELSE 0)])]

RowsIn(msgs) ==
  [p \in Parts |-> SumOf([m \in {n \in msgs : n.file[3] = p} |-> m.rows])]

\* The types of all variables; a message is of a file with rows.
TypeOK ==
  /\ table \in 0..created /\ created \in 0..MaxTables
  /\ disk \subseteq Files
  /\ \A i \in DOMAIN log : log[i].inc \in 1..created /\ log[i].stmt \in Stmts
  /\ pc \in [Stmts -> {"none", "planned", "created", "sinking", "ok", "failed", "unknown"}]
  /\ sunk \in [Stmts -> 0..MaxTables]
  /\ thr \in [Stmts -> [Threads -> {"new", "writing", "combined"}]]
  /\ written \in [Stmts -> [Threads -> [Parts -> Nat]]]
  /\ \A o \in Stmts : messages[o] \subseteq [file : Files, rows : Nat \ {0}]
  /\ count \in [Stmts -> Nat]
  /\ reported \in [Stmts -> Nat \cup {-1}]

\* Sink, Combine and Finalize: the count a statement returns is the number of
\* its input rows, and if there are any, one snapshot has all of them in the
\* partitions they belong to, however the chunks were spread over threads.
ReportedRowsAreStored ==
  \A o \in Stmts : reported[o] # -1 =>
    LET mine == {i \in DOMAIN log : log[i].stmt = o}
    IN /\ reported[o] = SumOf(TotalInput(o))
       /\ IF reported[o] = 0 THEN mine = {}
          ELSE \E i \in mine : mine = {i} /\ RowsIn(log[i].msgs) = TotalInput(o)

\* Failures of any step, a commit that took effect and reported an error
\* included: a snapshot keeps its files, unless the table was dropped after the
\* statement opened its sink.
SnapshotHasFiles ==
  \A i \in DOMAIN log :
    log[i].inc = table /\ log[i].inc = sunk[log[i].stmt] =>
      {m.file : m \in log[i].msgs} \subseteq disk

\* A statement is an atomic append: all of its rows become visible in one
\* snapshot or none do, and it reports success or failure truthfully; only an
\* error of the commit itself leaves open which.
HasRows == [o \in Stmts |-> IF SumOf(TotalInput(o)) > 0 THEN {o} ELSE {}]

Visible == [o \in Stmts |->
  {<<o, o, IF RowsIn(log[i].msgs) = TotalInput(o) THEN 1 ELSE 0>> :
     i \in {j \in DOMAIN log : log[j].stmt = o}}]

Told == [o \in Stmts |-> IF pc[o] \in {"ok", "failed", "unknown"} THEN pc[o] ELSE "none"]

Abstract == INSTANCE AtomicAppend WITH
  Ops <- Stmts, NonEmpty <- HasRows, MaxAttempts <- 1,
  visible <- Visible, answer <- Told

ImplementsAtomicAppend == Abstract!Spec
=============================================================================
