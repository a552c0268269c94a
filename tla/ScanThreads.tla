---------------------------- MODULE ScanThreads ----------------------------
(***************************************************************************)
(* The execution of a planned scan by several threads: the global state    *)
(* with the shared split_index, the local state of every thread with its   *)
(* reader and its Arrow batch, and the function PaimonScan of              *)
(* paimon_scan.cpp.  It runs in a query, or for the splits of a worker.    *)
(*                                                                         *)
(* A thread is inside one call at a time.  What it shares with others is   *)
(* split_index, so a call is cut where it draws a split.  A batch is       *)
(* <<split, number of its rows that came before>>; its memory belongs to   *)
(* the reader that made it.                                                *)
(***************************************************************************)
EXTENDS Integers, Sequences, FiniteSets, FiniteSetsExt

CONSTANTS
  Threads,     \* threads of the pipeline
  Rows,        \* Rows[s]: the number of rows of split s
  VectorSize,  \* STANDARD_VECTOR_SIZE
  Worker,      \* distributed_worker: batches are validated
  Faults       \* TRUE: readers fail, and the query may be stopped early

ASSUME RowsAssumption == Rows \in Seq(Nat)

ASSUME ThreadsAssumption == IsFiniteSet(Threads)

ASSUME SizeAssumption ==
  VectorSize \in Nat \ {0} /\ Worker \in BOOLEAN /\ Faults \in BOOLEAN

VARIABLES
  split_index,  \* global_state.split_index, an atomic counter
  at,           \* where each thread stands
  reader,       \* batch_reader: the split it reads, 0 for none
  pos,          \* rows the reader returned so far
  chunk,        \* local_state.chunk: batch, rows put out, release callback set
  released,     \* how often the memory of each batch was released
  out,          \* how often each row was handed to the pipeline
  query         \* "running", "ok", "failed", "stopped"

vars == <<split_index, at, reader, pos, chunk, released, out, query>>

Splits  == DOMAIN Rows
Row     == UNION {{<<s, i>> : i \in 1..Rows[s]} : s \in Splits}
Batch   == {<<r[1], r[2] - 1>> : r \in Row}
NoChunk == [batch |-> <<0, 0>>, size |-> 0, armed |-> FALSE]

\* READ_BATCH_SIZE, the most rows a reader puts in a batch.
BatchLimit_Default == 2 * VectorSize

BatchLimit == VectorSize

Throw(t) ==
  /\ at' = [at EXCEPT ![t] = "failed"]
  /\ query' = IF query = "running" THEN "failed" ELSE query

\* The release callback of the batch a thread holds, which is called once.
ReleaseCurrentBatch_Armed(t) ==
  /\ released' = IF chunk[t].armed
                 THEN [released EXCEPT ![chunk[t].batch] = @ + 1] ELSE released
  /\ UNCHANGED chunk

ReleaseCurrentBatch(t) ==
  /\ released' = IF chunk[t].armed
                 THEN [released EXCEPT ![chunk[t].batch] = @ + 1] ELSE released
  /\ chunk' = [chunk EXCEPT ![t].armed = FALSE]

-----------------------------------------------------------------------------
\* split_index.fetch_add(1), one atomic step.
FetchAdd == split_index' = split_index + 1

NoMoreSplits_Again(t) == at' = [at EXCEPT ![t] = "next_split"]

NoMoreSplits(t) == at' = [at EXCEPT ![t] = "exhausted"]

\* A thread draws a split and opens a reader for it.  Without a further split
\* it is exhausted; if the reader cannot be opened it keeps the old one.
NextSplit(t) ==
  /\ at[t] \in {"new", "next_split"}
  /\ FetchAdd
  /\ \/ /\ split_index >= Len(Rows)
        /\ NoMoreSplits(t)
        /\ UNCHANGED <<reader, pos, query>>
     \/ /\ split_index < Len(Rows)
        /\ at' = [at EXCEPT ![t] = "open"]
        /\ reader' = [reader EXCEPT ![t] = split_index + 1]
        /\ pos' = [pos EXCEPT ![t] = 0]
        /\ UNCHANGED query
     \/ /\ split_index < Len(Rows) /\ Faults
        /\ Throw(t)
        /\ UNCHANGED <<reader, pos>>
  /\ UNCHANGED <<chunk, released, out>>

\* PaimonScan, the reader has a batch: the one before is released, and the
\* new one, cut at the vector size, goes to the pipeline.  A batch that a
\* worker cannot use is released at once; a failed conversion leaves it to
\* the destructor.
ScanBatch(t) ==
  /\ at[t] = "open" /\ query = "running"
  /\ LET s == reader[t]
     IN /\ pos[t] < Rows[s]
        /\ \E n \in 1..Min({BatchLimit, Rows[s] - pos[t]}) :
             LET new == [batch |-> <<s, pos[t]>>, size |-> Min({VectorSize, n}),
                         armed |-> TRUE]
                 old == IF chunk[t].armed
                        THEN [released EXCEPT ![chunk[t].batch] = @ + 1] ELSE released
             IN /\ pos' = [pos EXCEPT ![t] = @ + n]
                /\ \/ /\ at' = [at EXCEPT ![t] = "output"]
                      /\ chunk' = [chunk EXCEPT ![t] = new]
                      /\ released' = old
                      /\ UNCHANGED query
                   \/ /\ Faults
                      /\ Throw(t)
                      /\ chunk' = [chunk EXCEPT ![t] = new]
                      /\ released' = old
                   \/ /\ Faults /\ Worker
                      /\ Throw(t)
                      /\ chunk' = [chunk EXCEPT ![t].armed = FALSE]
                      /\ released' = [old EXCEPT ![new.batch] = @ + 1]
  /\ UNCHANGED <<split_index, reader, out>>

\* PaimonScan, the reader is at its end: the batch is released before another
\* split replaces the reader.
ScanEof_SameSplit(t) ==
  /\ at[t] = "open" /\ query = "running"
  /\ pos[t] = Rows[reader[t]]
  /\ ReleaseCurrentBatch(t)
  /\ UNCHANGED <<split_index, at, reader, pos, out, query>>

ScanEof_KeepsBatch(t) ==
  /\ at[t] = "open" /\ query = "running"
  /\ pos[t] = Rows[reader[t]]
  /\ at' = [at EXCEPT ![t] = "next_split"]
  /\ UNCHANGED <<split_index, reader, pos, chunk, released, out, query>>

ScanEof(t) ==
  /\ at[t] = "open" /\ query = "running"
  /\ pos[t] = Rows[reader[t]]
  /\ ReleaseCurrentBatch(t)
  /\ at' = [at EXCEPT ![t] = "next_split"]
  /\ UNCHANGED <<split_index, reader, pos, out, query>>

\* A failed read leaves the current batch as it is.
ScanError(t) ==
  /\ at[t] = "open" /\ query = "running" /\ Faults
  /\ Throw(t)
  /\ UNCHANGED <<split_index, reader, pos, chunk, released, out>>

\* An exhausted thread returns an empty chunk, which ends it.
ScanExhausted(t) ==
  /\ at[t] = "exhausted"
  /\ at' = [at EXCEPT ![t] = "done"]
  /\ UNCHANGED <<split_index, reader, pos, chunk, released, out, query>>

\* The pipeline takes the rows of the output chunk, whose vectors point into
\* the batch, before it calls PaimonScan again.
Consume(t) ==
  /\ at[t] = "output" /\ query = "running"
  /\ at' = [at EXCEPT ![t] = "open"]
  /\ LET c == chunk[t]
         taken == {<<c.batch[1], c.batch[2] + i>> : i \in 1..c.size}
     IN out' = [r \in Row |-> out[r] + IF r \in taken THEN 1 ELSE 0]
  /\ UNCHANGED <<split_index, reader, pos, chunk, released, query>>

-----------------------------------------------------------------------------
\* A local state is destroyed when its thread is finished, or at any point
\* between two calls when the query is over: first the destructor's body, then
\* the reader, then the chunk, whose wrapper releases what is still there.
DestroyLocalState(t) ==
  /\ \/ at[t] \in {"done", "failed"}
     \/ at[t] \in {"open", "output", "exhausted"} /\ query # "running"
  /\ ReleaseCurrentBatch(t)
  /\ at' = [at EXCEPT ![t] = "destroying"]
  /\ UNCHANGED <<split_index, reader, pos, out, query>>

DestroyReader(t) ==
  /\ at[t] = "destroying" /\ reader[t] # 0
  /\ reader' = [reader EXCEPT ![t] = 0]
  /\ UNCHANGED <<split_index, at, pos, chunk, released, out, query>>

DestroyChunk(t) ==
  /\ at[t] = "destroying" /\ reader[t] = 0
  /\ ReleaseCurrentBatch(t)
  /\ at' = [at EXCEPT ![t] = "gone"]
  /\ UNCHANGED <<split_index, reader, pos, out, query>>

\* The query succeeds when every thread that was started has finished.
Complete ==
  /\ query = "running"
  /\ \A t \in Threads : at[t] \in {"none", "done", "destroying", "gone"}
  /\ query' = "ok"
  /\ UNCHANGED <<split_index, at, reader, pos, chunk, released, out>>

\* A LIMIT is reached or the user interrupts.  Threads that have no local
\* state yet get none.
Stop ==
  /\ query = "running" /\ Faults
  /\ query' = "stopped"
  /\ at' = [t \in Threads |-> IF at[t] = "new" THEN "none" ELSE at[t]]
  /\ UNCHANGED <<split_index, reader, pos, chunk, released, out>>

-----------------------------------------------------------------------------
\* DuckDB starts at least one thread and at most MaxThreads(), one per split.
MaxThreads == Max({1, Len(Rows)})

Init ==
  /\ split_index = 0
  /\ at \in [Threads -> {"none", "new"}]
  /\ Cardinality({t \in Threads : at[t] = "new"}) \in 1..MaxThreads
  /\ reader = [t \in Threads |-> 0]
  /\ pos = [t \in Threads |-> 0]
  /\ chunk = [t \in Threads |-> NoChunk]
  /\ released = [b \in Batch |-> 0]
  /\ out = [r \in Row |-> 0]
  /\ query = "running"

Step(t) ==
  \/ NextSplit(t) \/ ScanBatch(t) \/ ScanEof(t) \/ ScanExhausted(t) \/ Consume(t)
  \/ DestroyLocalState(t) \/ DestroyReader(t) \/ DestroyChunk(t)

Next == Complete \/ Stop \/ \E t \in Threads : Step(t) \/ ScanError(t)

Spec == Init /\ [][Next]_vars

\* A thread of the pipeline keeps running, and a query whose threads are
\* finished completes; nothing is ever forced to fail or to be stopped.
FairSpec == Spec /\ WF_vars(Complete) /\ \A t \in Threads : WF_vars(Step(t))

-----------------------------------------------------------------------------
\* The counter passes the number of splits by at most one per thread.
TypeOK ==
  /\ split_index \in 0..(Len(Rows) + Cardinality(Threads))
  /\ at \in [Threads -> {"none", "new", "open", "next_split", "output", "exhausted",
                         "done", "failed", "destroying", "gone"}]
  /\ reader \in [Threads -> {0} \cup Splits]
  /\ pos \in [Threads -> Nat]
  /\ chunk \in [Threads -> [batch : Batch \cup {<<0, 0>>}, size : 0..VectorSize,
                            armed : BOOLEAN]]
  /\ released \in [Batch -> Nat]
  /\ out \in [Row -> Nat]
  /\ query \in {"running", "ok", "failed", "stopped"}

\* PaimonScan and NextSplit: no row reaches the pipeline twice, and a query
\* that succeeds has seen them all, whichever thread read which split.
RowsExactlyOnce ==
  \A r \in Row : out[r] <= 1 /\ (query = "ok" => out[r] = 1)

\* ReleaseCurrentBatch and the destructor: a batch that is still in memory has
\* its reader, because the release callback may need it, and so does a batch
\* whose rows the pipeline is reading.
BatchWithinReader ==
  \A t \in Threads :
    /\ chunk[t].armed => reader[t] = chunk[t].batch[1]
    /\ at[t] = "output" => chunk[t].armed

\* No batch is released twice, and none that a thread still holds is released
\* (ReleaseCurrentBatch); the one a thread held last is released when its local
\* state is gone.
ReleasedOnce ==
  /\ \A b \in Batch : released[b] <= 1
  /\ \A t \in Threads :
       /\ chunk[t].armed => released[chunk[t].batch] = 0
       /\ at[t] = "gone" /\ chunk[t] # NoChunk => released[chunk[t].batch] = 1

\* Every scan ends, with all local states destroyed.
ScanEnds == <>[](query # "running" /\ \A t \in Threads : at[t] \in {"none", "gone"})
=============================================================================
