----------------------------- MODULE WorkerTask -----------------------------
(***************************************************************************)
(* One attempt of a distributed write task on a worker: the callbacks      *)
(* InitializeGlobal, InitializeLocal, Sink, Combine and Finalize of        *)
(* paimon_distributed_insert.cpp, run by several threads that share the    *)
(* attempt's global state, and the destructor of that state.               *)
(*                                                                         *)
(* A file, and the commit message that describes it, is <<thread,          *)
(* partition>>: a thread's writer rolls one file per partition it wrote.   *)
(* A message is always owned by someone who aborts it on a failure: first  *)
(* the thread that prepared it, then the global state, and from the end of *)
(* Finalize on the published fragment.                                     *)
(***************************************************************************)
EXTENDS Integers, FiniteSets, Sums

CONSTANTS
  Threads,      \* threads of the worker that run the pipeline
  Parts,        \* partitions of the table
  Chunks,       \* input chunks: rows per partition after grouping
  MaxWriteId,   \* INT32_MAX, scaled down
  MaxRowCount,  \* largest idx_t, scaled down
  AbortFaults,  \* TRUE: Paimon's Abort may leave files behind
  MaxInput      \* bound: rows one thread is given

ASSUME ChunksAssumption == Chunks \subseteq [Parts -> Nat]

ASSUME FiniteAssumption == IsFiniteSet(Threads) /\ IsFiniteSet(Parts)

ASSUME LimitsAssumption ==
  /\ MaxWriteId \in Nat /\ MaxRowCount \in Nat /\ MaxInput \in Nat
  /\ AbortFaults \in BOOLEAN

VARIABLES
  thr,            \* where each thread stands
  written,        \* written[t][p]: rows in t's writer for partition p
  local_rows,     \* local.row_count
  held,           \* messages a thread prepared and has not handed over
  next_write_id,  \* global.next_write_id
  messages,       \* global.messages
  row_count,      \* global.row_count
  task,           \* "open", "published", "failed": what Finalize returned
  alive,          \* the global state has not been destroyed
  crashed,        \* the worker process died
  fragment,       \* messages in the published fragment
  fragment_rows,  \* its row count
  disk,           \* files on disk
  orphans         \* files Paimon wrote without returning a message for them

vars == <<thr, written, local_rows, held, next_write_id, messages, row_count,
          task, alive, crashed, fragment, fragment_rows, disk, orphans>>

File == Threads \X Parts
Total(chunk) == SumOf(chunk)
FilesOf(t)   == {<<t, p>> : p \in {q \in Parts : written[t][q] > 0}}

BestEffortAbortMessages(msgs) ==
  \E gone \in IF AbortFaults THEN SUBSET msgs ELSE {msgs} : disk' = disk \ gone

\* The callbacks of a thread are called one after the other, as long as the
\* worker lives and the thread's previous callback did not throw.
Runs(t, at) == alive /\ ~crashed /\ thr[t] = at

Throw(t) == thr' = [thr EXCEPT ![t] = "failed"]

shared == <<messages, row_count, task, alive, crashed, fragment,
            fragment_rows>>

-----------------------------------------------------------------------------
\* PaimonDistributedInsertInitializeLocal; creating the writer may also fail.
InitializeLocal(t) ==
  /\ Runs(t, "new")
  /\ task = "open"
  /\ next_write_id' = next_write_id + 1
  /\ \/ next_write_id <= MaxWriteId /\ thr' = [thr EXCEPT ![t] = "writing"]
     \/ Throw(t)
  /\ UNCHANGED <<shared, written, local_rows, held, disk, orphans>>

\* Sink: the groups of a chunk are written one after the other, then the rows
\* are counted.  A failed write, or a count that overflows, throws.
Sink(t, chunk) ==
  /\ Runs(t, "writing")
  /\ local_rows[t] + Total(chunk) <= MaxInput
  /\ \/ /\ local_rows[t] + Total(chunk) <= MaxRowCount
        /\ written' = [written EXCEPT ![t] = [p \in Parts |-> @[p] + chunk[p]]]
        /\ local_rows' = [local_rows EXCEPT ![t] = @ + Total(chunk)]
        /\ UNCHANGED thr
     \/ /\ \E ps \in SUBSET Parts :
             written' = [written EXCEPT ![t] =
                           [p \in Parts |-> IF p \in ps THEN @[p] + chunk[p]
                                                        ELSE @[p]]]
        /\ Throw(t)
        /\ UNCHANGED local_rows
  /\ UNCHANGED <<shared, held, next_write_id, disk, orphans>>

\* Combine of a thread that saw no rows only closes its writer.
CombineEmpty(t) ==
  /\ Runs(t, "writing")
  /\ local_rows[t] = 0
  /\ thr' = [thr EXCEPT ![t] = "combined"] \/ Throw(t)
  /\ UNCHANGED <<shared, written, local_rows, held, next_write_id, disk,
                 orphans>>

\* Mutant: the prepared messages are gone before the hand-over.
CombinePrepare_MovedFrom(t) ==
  /\ Runs(t, "writing")
  /\ local_rows[t] > 0
  /\ disk' = disk \cup FilesOf(t)
  /\ thr' = [thr EXCEPT ![t] = "prepared"]
  /\ UNCHANGED <<shared, written, local_rows, held, next_write_id, orphans>>

\* Combine, up to the lock: PrepareCommit rolls the files and returns a
\* message for each of them, and the writer is closed.
CombinePrepare(t) ==
  /\ Runs(t, "writing")
  /\ local_rows[t] > 0
  /\ disk' = disk \cup FilesOf(t)
  /\ held' = [held EXCEPT ![t] = FilesOf(t)]
  /\ thr' = [thr EXCEPT ![t] = "prepared"]
  /\ UNCHANGED <<shared, written, local_rows, next_write_id, orphans>>

\* PrepareCommit fails, returns no message, or returns null messages; or the
\* close fails.  The messages that exist are aborted, the other files stay.
CombineFails(t) ==
  /\ Runs(t, "writing")
  /\ local_rows[t] > 0
  /\ \E got, lost \in SUBSET FilesOf(t) :
       /\ got \cap lost = {}
       /\ \E gone \in IF AbortFaults THEN SUBSET got ELSE {got} :
            disk' = disk \cup lost \cup (got \ gone)
       /\ orphans' = orphans \cup lost
  /\ Throw(t)
  /\ UNCHANGED <<shared, written, local_rows, held, next_write_id>>

\* Mutant: the row count is added without CheckedAdd.
CombineHandOver_Unchecked(t) ==
  /\ Runs(t, "prepared")
  /\ held' = [held EXCEPT ![t] = {}]
  /\ messages' = messages \cup held[t]
  /\ row_count' = row_count + local_rows[t]
  /\ thr' = [thr EXCEPT ![t] = "combined"]
  /\ UNCHANGED <<written, local_rows, next_write_id, task, alive, crashed,
                 fragment, fragment_rows, disk, orphans>>

\* Mutant: the last thread's row count replaces the others'.
CombineHandOver_LastCount(t) ==
  /\ Runs(t, "prepared")
  /\ held' = [held EXCEPT ![t] = {}]
  /\ messages' = messages \cup held[t]
  /\ row_count' = local_rows[t]
  /\ thr' = [thr EXCEPT ![t] = "combined"]
  /\ UNCHANGED <<written, local_rows, next_write_id, task, alive, crashed,
                 fragment, fragment_rows, disk, orphans>>

\* Combine, under global.lock: the global state takes the messages over.
CombineHandOver(t) ==
  /\ Runs(t, "prepared")
  /\ held' = [held EXCEPT ![t] = {}]
  /\ IF row_count + local_rows[t] <= MaxRowCount
       THEN /\ messages' = messages \cup held[t]
            /\ row_count' = row_count + local_rows[t]
            /\ thr' = [thr EXCEPT ![t] = "combined"]
            /\ UNCHANGED disk
       ELSE /\ BestEffortAbortMessages(held[t])
            /\ Throw(t)
            /\ UNCHANGED <<messages, row_count>>
  /\ UNCHANGED <<written, local_rows, next_write_id, task, alive, crashed,
                 fragment, fragment_rows, orphans>>

-----------------------------------------------------------------------------
\* The runtime finalizes a task when every thread it started has combined.
AllCombined == \A t \in Threads : thr[t] \in {"new", "combined"}

\* Mutant: the global state keeps the messages it published.
Finalize_KeepsMessages ==
  /\ alive /\ ~crashed
  /\ task = "open"
  /\ AllCombined
  /\ (messages = {}) = (row_count = 0)
  /\ task' = "published"
  /\ fragment' = messages
  /\ fragment_rows' = row_count
  /\ UNCHANGED <<thr, written, local_rows, held, next_write_id, messages,
                 row_count, alive, crashed, disk, orphans>>

\* Finalize: without messages the result is empty; otherwise the fragment
\* takes the messages over.  Each of its checks may throw.
Finalize ==
  /\ alive /\ ~crashed
  /\ task = "open"
  /\ AllCombined
  /\ (messages = {}) = (row_count = 0)
  /\ task' = "published"
  /\ fragment' = messages
  /\ fragment_rows' = row_count
  /\ messages' = {}
  /\ UNCHANGED <<thr, written, local_rows, held, next_write_id, row_count,
                 alive, crashed, disk, orphans>>

\* Messages and row count disagree, the messages cannot be serialized (then
\* they are aborted here and again by the destructor), or the fragment cannot
\* be built.
FinalizeFails ==
  /\ alive /\ ~crashed
  /\ task = "open"
  /\ AllCombined
  /\ messages # {} \/ row_count # 0
  /\ task' = "failed"
  /\ BestEffortAbortMessages(messages) \/ UNCHANGED disk
  /\ UNCHANGED <<thr, written, local_rows, held, next_write_id, messages,
                 row_count, alive, crashed, fragment, fragment_rows, orphans>>

\* Mutant: the destructor does not abort.
Destroy_NoAbort ==
  /\ alive /\ ~crashed
  /\ \A t \in Threads : thr[t] # "prepared"
  /\ alive' = FALSE
  /\ UNCHANGED <<thr, written, local_rows, held, next_write_id, messages,
                 row_count, task, crashed, fragment, fragment_rows, disk,
                 orphans>>

\* ~PaimonDistributedInsertGlobalState, once no thread is inside a callback.
Destroy ==
  /\ alive /\ ~crashed
  /\ \A t \in Threads : thr[t] # "prepared"
  /\ alive' = FALSE
  /\ BestEffortAbortMessages(messages)
  /\ UNCHANGED <<thr, written, local_rows, held, next_write_id, messages,
                 row_count, task, crashed, fragment, fragment_rows, orphans>>

\* The worker process dies at any point.
Crash ==
  /\ alive /\ ~crashed
  /\ crashed' = TRUE
  /\ UNCHANGED <<thr, written, local_rows, held, next_write_id, messages,
                 row_count, task, alive, fragment, fragment_rows, disk,
                 orphans>>

-----------------------------------------------------------------------------
Init ==
  /\ thr = [t \in Threads |-> "new"]
  /\ written = [t \in Threads |-> [p \in Parts |-> 0]]
  /\ local_rows = [t \in Threads |-> 0]
  /\ held = [t \in Threads |-> {}]
  /\ next_write_id = 0
  /\ messages = {}
  /\ row_count = 0
  /\ task = "open"
  /\ alive = TRUE
  /\ crashed = FALSE
  /\ fragment = {}
  /\ fragment_rows = 0
  /\ disk = {}
  /\ orphans = {}

Thread(t) ==
  \/ InitializeLocal(t)
  \/ \E chunk \in Chunks : Sink(t, chunk)
  \/ CombineEmpty(t)
  \/ CombinePrepare(t)
  \/ CombineFails(t)
  \/ CombineHandOver(t)

Next ==
  \/ \E t \in Threads : Thread(t)
  \/ Finalize
  \/ FinalizeFails
  \/ Destroy
  \/ Crash

Spec == Init /\ [][Next]_vars

-----------------------------------------------------------------------------
\* The types of all variables; row counts fit an idx_t.
TypeOK ==
  /\ thr \in [Threads -> {"new", "writing", "prepared", "combined", "failed"}]
  /\ written \in [Threads -> [Parts -> Nat]]
  /\ local_rows \in [Threads -> 0..MaxRowCount]
  /\ held \in [Threads -> SUBSET File]
  /\ next_write_id \in Nat
  /\ messages \subseteq File
  /\ row_count \in 0..MaxRowCount
  /\ task \in {"open", "published", "failed"}
  /\ alive \in BOOLEAN /\ crashed \in BOOLEAN
  /\ fragment \subseteq File
  /\ fragment_rows \in 0..MaxRowCount
  /\ disk \subseteq File
  /\ orphans \subseteq File

\* A published fragment stays backed by its files: neither the destructor nor
\* a thread's error path aborts what the fragment has taken over.
PublishedFilesOnDisk == fragment \subseteq disk

RowsIn(msgs) == SumOf([f \in msgs |-> written[f[1]][f[2]]])

\* A published fragment holds the files of every thread that was given rows
\* and counts exactly the rows in them, whatever order the threads combined
\* in: the coordinator commits the whole task or none of it.
FragmentIsWholeTask ==
  task = "published" =>
    /\ fragment = UNION {FilesOf(t) : t \in Threads}
    /\ fragment_rows = RowsIn(fragment)

\* The two InternalExceptions of Finalize cannot be thrown: when all threads
\* have combined there are messages exactly when there are rows.
FinalizeChecksHold ==
  task = "open" /\ AllCombined => (messages = {}) = (row_count = 0)

\* When Paimon's Abort works, an attempt whose worker did not die leaves only
\* what it published and files for which no message ever existed.
EndLeavesOnlyOrphans ==
  ~alive /\ ~crashed /\ ~AbortFaults => disk \subseteq fragment \cup orphans
=============================================================================
