-------------------------- MODULE DistributedScan --------------------------
(***************************************************************************)
(* Scans of a Paimon table in the Vane build, from binding to the answer:  *)
(* the options of a scan (paimon_table_entry.cpp, paimon_catalog.cpp), its *)
(* bind data and the phases they go through while they are serialized,     *)
(* planned and handed to workers (paimon_distributed_scan.cpp), local      *)
(* execution and the statistics that answer COUNT( * ) (paimon_scan.cpp).  *)
(*                                                                         *)
(* The runtime may plan a scan again, attempt a task several times and     *)
(* deliver splits damaged, twice, or of another scan or an earlier plan;   *)
(* other writers commit meanwhile.                                         *)
(*                                                                         *)
(* Snapshot s of the table holds the splits 1..s, with one row each.       *)
(***************************************************************************)
EXTENDS Integers, Sequences, FiniteSets, SequencesExt, Sums

CONSTANTS
  Scans,        \* scans of the table in queries; also their split_set_id
  Match,        \* Match[q]: the splits whose rows satisfy the filter of q
  Skips,        \* Skips[q]: splits Paimon leaves out for the predicate of q
  Tasks,        \* tasks a scan is cut into
  AttachPins,   \* snapshot options of ATTACH
  AtPins,       \* AT clauses
  MaxSnapshot,  \* bound: snapshots of the table
  MaxScans,     \* bound: scans that are bound in one behaviour
  MaxPlans,     \* bound: plans of a scan
  MaxAttempts   \* bound: attempts of a task

Splits == 1..MaxSnapshot

ASSUME ScanAssumption ==
  /\ Match \in [Scans -> SUBSET Splits]
  /\ Skips \in [Scans -> SUBSET Splits]
  /\ \A q \in Scans : Match[q] \cap Skips[q] = {}
  /\ {MaxSnapshot, MaxScans, MaxPlans, MaxAttempts} \subseteq Nat
  /\ IsFiniteSet(Tasks)

ASSUME PinAssumption ==
  AttachPins \cup AtPins \subseteq
    {[kind |-> "latest", n |-> 0]} \cup [kind : {"id", "time"}, n : Nat]

VARIABLES
  latest,    \* the latest snapshot, 0 for none
  asked,     \* history: what each query asks for
  since,     \* history: the latest snapshot when the scan was bound, or -1
  bind,      \* bind data of the scan at the coordinator
  plans,     \* what plan_splits returned to the runtime, call by call
  template,  \* the bind create_worker_bind returned
  worker,    \* bind data of each attempt <<scan, task, number>>
  answer     \* what each query returned

vars == <<latest, asked, since, bind, plans, template, worker, answer>>

Attempts == Scans \X Tasks \X (1..MaxAttempts)

\* Options that matter here: the snapshot options (-1: not set) and whether
\* READ_BATCH_SIZE is set to the vector size.
Options  == [id : Int, time : Int, batch : {"vector", "default"}]
NoPin    == [kind |-> "latest", n |-> 0]
NoBind   == [phase |-> "none", opts |-> [id |-> -1, time |-> -1, batch |-> "default"],
             pred |-> FALSE]
NoWorker == [phase |-> "none", set |-> "none", batch |-> "default", snap |-> 0,
             splits |-> <<>>, read |-> [x \in Splits |-> 0]]

-----------------------------------------------------------------------------
(* Options *)

\* The named parameters of GetScanFunction: ATTACH options, overwritten by AT.
ScanParameters(attach, at) ==
  LET value(k) == IF at.kind = k THEN at.n
                  ELSE IF attach.kind = k THEN attach.n ELSE -1
  IN [id |-> value("id"), time |-> value("time")]

\* GetPaimonOptions throws when both are set, and always sets the batch size.
Conflicting(params)      == params.id >= 0 /\ params.time >= 0
GetPaimonOptions(params) == [id |-> params.id, time |-> params.time, batch |-> "vector"]

\* Only snapshot and format options travel; secrets, file system and batch
\* size do not.
GetPortableOptions(o) == [o EXCEPT !.batch = "default"]

\* Options of a deserialized bind: those of the process, then the portable ones.
LocalOptions_PortableOnly(portable) == portable

LocalOptions(portable) ==
  [GetPaimonOptions([id |-> -1, time |-> -1]) EXCEPT
     !.id = portable.id, !.time = portable.time]

-----------------------------------------------------------------------------
(* Planning *)

\* Paimon finds the snapshot for the options; it fails if there is none.
HasSnapshot(o) == o.id < 0 \/ o.id \in 1..latest

SnapshotOf(o) ==
  IF o.id >= 0 THEN o.id
  ELSE IF o.time >= 0 /\ o.time < latest THEN o.time
  ELSE latest

\* CreatePaimonScanPlan: the splits of that snapshot, without those that the
\* predicate excludes.
PlannedSplits(q, pred, s) == (1..s) \ (IF pred THEN Skips[q] ELSE {})

\* Every split of plan p of scan q in its envelope.  The id is the index.
SplitId(S, x) == Cardinality({y \in S : y < x})

EnvelopesOf(q, p) ==
  {[set |-> q, id |-> SplitId(plans[q][p].splits, x), snap |-> plans[q][p].snap,
    split |-> x, intact |-> TRUE] : x \in plans[q][p].splits}

\* What the runtime gives to a worker.  It keeps the splits of the last plan
\* apart, so that every one has one task, and gives a task all of its splits;
\* but one of them may be damaged or of another scan, or there is one more: a
\* repeated one, or one of a plan of another snapshot.
Share(q, t) ==
  LET p == Len(plans[q])
      mine == {e \in EnvelopesOf(q, p) : plans[q][p].share[e.split] = t}
  IN SetToSeq(mine)

Damaged(e) == [e EXCEPT !.intact = FALSE]
Foreign(e) == [e EXCEPT !.set = "another_scan"]

Deliveries(q, t) ==
  LET mine  == Share(q, t)
      all   == UNION {EnvelopesOf(q, p) : p \in DOMAIN plans[q]}
      stray == {e \in all : \E i \in DOMAIN mine : e = mine[i] \/ e.snap # mine[i].snap}
  IN {mine} \cup {Append(mine, e) : e \in stray} \cup {<<e>> \o mine : e \in stray}
            \cup {[mine EXCEPT ![i] = Damaged(@)] : i \in DOMAIN mine}
            \cup {[mine EXCEPT ![i] = Foreign(@)] : i \in DOMAIN mine}

-----------------------------------------------------------------------------
(* Operations on bind data *)

\* Serialization keeps of the phase only whose bind it is.
BindKind(phase) ==
  IF phase \in {"COORDINATOR", "DISTRIBUTED_COORDINATOR"} THEN "COORDINATOR" ELSE "WORKER"

DeserializedPhase_Swapped(kind) ==
  IF kind = "WORKER" THEN "DISTRIBUTED_COORDINATOR" ELSE "WORKER_TEMPLATE"

DeserializedPhase(kind) ==
  IF kind = "COORDINATOR" THEN "DISTRIBUTED_COORDINATOR" ELSE "WORKER_TEMPLATE"

\* Table entry lookup and PaimonScanBind.
PaimonScanBind(q) ==
  /\ bind[q].phase = "none" /\ answer[q].st = "none"
  /\ Cardinality({r \in Scans : bind[r].phase # "none"}) < MaxScans
  /\ \E attach \in AttachPins, at \in AtPins :
       LET params == ScanParameters(attach, at)
       IN IF Conflicting(params)
          THEN /\ answer' = [answer EXCEPT ![q].st = "failed"]
               /\ UNCHANGED <<asked, since, bind>>
          ELSE /\ bind' = [bind EXCEPT ![q] =
                    [phase |-> "COORDINATOR", opts |-> GetPaimonOptions(params),
                     pred |-> FALSE]]
               /\ asked' = [asked EXCEPT ![q] = IF at = NoPin THEN attach ELSE at]
               /\ since' = [since EXCEPT ![q] = latest]
               /\ UNCHANGED answer
  /\ UNCHANGED <<latest, plans, template, worker>>

\* The optimizer pushes the filter down, before or after the plan is shipped.
PaimonPushdownFilter(q) ==
  /\ bind[q].phase # "none" /\ ~bind[q].pred /\ Skips[q] # {}
  /\ plans[q] = <<>> /\ answer[q].st = "none"
  /\ bind' = [bind EXCEPT ![q].pred = TRUE]
  /\ UNCHANGED <<latest, asked, since, plans, template, worker, answer>>

\* The plan is serialized and deserialized for distributed execution.  The
\* predicate does not travel: pushdown may still follow.
ShipCoordinator(q) ==
  /\ bind[q].phase \in {"COORDINATOR", "DISTRIBUTED_COORDINATOR"}
  /\ plans[q] = <<>> /\ answer[q].st = "none"
  /\ bind' = [bind EXCEPT ![q] =
       [phase |-> DeserializedPhase(BindKind(bind[q].phase)), pred |-> FALSE,
        opts  |-> LocalOptions(GetPortableOptions(bind[q].opts))]]
  /\ UNCHANGED <<latest, asked, since, plans, template, worker, answer>>

\* The template exists before the splits are planned.
PaimonCreateDistributedWorkerBind(q) ==
  /\ bind[q].phase = "DISTRIBUTED_COORDINATOR"
  /\ template[q].phase = "none" /\ answer[q].st = "none"
  /\ template' = [template EXCEPT ![q] =
       [phase |-> "WORKER_TEMPLATE", pred |-> FALSE,
        opts  |-> GetPortableOptions(bind[q].opts)]]
  /\ UNCHANGED <<latest, asked, since, bind, plans, worker, answer>>

\* plan_splits; the runtime may call it again until a task has started, and
\* uses the last plan.
PaimonPlanDistributedScanSplits(q) ==
  /\ bind[q].phase = "DISTRIBUTED_COORDINATOR" /\ template[q].phase # "none"
  /\ Len(plans[q]) < MaxPlans /\ answer[q].st = "none"
  /\ \A a \in Attempts : a[1] = q => worker[a].phase = "none"
  /\ HasSnapshot(bind[q].opts)
  /\ LET s == SnapshotOf(bind[q].opts)
         S == PlannedSplits(q, bind[q].pred, s)
     IN \E share \in [S -> Tasks] :
          plans' = [plans EXCEPT ![q] =
                      Append(@, [snap |-> s, splits |-> S, share |-> share])]
  /\ UNCHANGED <<latest, asked, since, bind, template, worker, answer>>

\* The template is deserialized for an attempt of a task.
ShipTemplate(a) ==
  /\ plans[a[1]] # <<>> /\ answer[a[1]].st = "none"
  /\ worker[a].phase = "none"
  /\ \A n \in 1..(a[3] - 1) : worker[<<a[1], a[2], n>>].phase # "none"
  /\ worker' = [worker EXCEPT ![a] =
       [NoWorker EXCEPT !.phase = DeserializedPhase(BindKind(template[a[1]].phase)),
                        !.set   = a[1],
                        !.batch = LocalOptions(template[a[1]].opts).batch]]
  /\ UNCHANGED <<latest, asked, since, bind, plans, template, answer>>

\* apply_splits accepts a delivery if every envelope is intact and of this
\* scan, no id occurs twice and all are of one snapshot.
ValidDelivery_MixedSnapshots(w, d) ==
  /\ \A i \in DOMAIN d : d[i].intact /\ d[i].set = w.set
  /\ \A i, j \in DOMAIN d : i # j => d[i].id # d[j].id

ValidDelivery(w, d) ==
  /\ \A i \in DOMAIN d : d[i].intact /\ d[i].set = w.set
  /\ \A i, j \in DOMAIN d : i # j => d[i].id # d[j].id
  /\ \A i, j \in DOMAIN d : d[i].snap = d[j].snap

Assigned(w, d) ==
  [w EXCEPT !.phase = "WORKER_ASSIGNED", !.splits = [i \in DOMAIN d |-> d[i].split],
            !.snap = IF d = <<>> THEN 0 ELSE d[1].snap]

\* Nothing of a rejected delivery is kept: the bind can be assigned again.
AfterDelivery(w, d) == IF ValidDelivery(w, d) THEN Assigned(w, d) ELSE w

PaimonApplyDistributedScanSplits(a) ==
  /\ worker[a].phase = "WORKER_TEMPLATE" /\ answer[a[1]].st = "none"
  /\ \E d \in Deliveries(a[1], a[2]) :
       worker' = [worker EXCEPT ![a] = AfterDelivery(@, d)]
  /\ UNCHANGED <<latest, asked, since, bind, plans, template, answer>>

-----------------------------------------------------------------------------
(* Execution *)

\* The rows that reading a list of splits yields.  If Paimon's batches are not
\* limited to the vector size, rows beyond it are lost.
Reads(splits, batch) ==
  LET all == [x \in Splits |-> Cardinality({i \in DOMAIN splits : splits[i] = x})]
  IN IF batch = "vector" THEN {all} ELSE {all, [all EXCEPT ![1] = 0]}

\* A worker with an assignment reads its splits.  A template without one, and
\* a failing reader, throw.
ExecuteWorker(a) ==
  /\ worker[a].phase = "WORKER_ASSIGNED" /\ answer[a[1]].st = "none"
  /\ \E read \in Reads(worker[a].splits, worker[a].batch) :
       worker' = [worker EXCEPT ![a].phase = "done", ![a].read = read]
  /\ UNCHANGED <<latest, asked, since, bind, plans, template, answer>>

FailWorker(a) ==
  /\ worker[a].phase \in {"WORKER_TEMPLATE", "WORKER_ASSIGNED"}
  /\ answer[a[1]].st = "none"
  /\ worker' = [worker EXCEPT ![a] = [NoWorker EXCEPT !.phase = "failed"]]
  /\ UNCHANGED <<latest, asked, since, bind, plans, template, answer>>

\* The query returns what was read of the matching rows.
Answer(q, read) ==
  answer' = [answer EXCEPT ![q] = [st |-> "ok", read |-> [x \in Match[q] |-> read[x]]]]

\* The runtime puts the rows of one finished attempt of every task together;
\* DuckDB's filter, which is never removed, keeps the matching ones.
FinishDistributed(q) ==
  /\ plans[q] # <<>> /\ answer[q].st = "none"
  /\ \E chosen \in [Tasks -> 1..MaxAttempts] :
       LET w(t) == worker[<<q, t, chosen[t]>>]
       IN /\ \A t \in Tasks : w(t).phase = "done"
          /\ Answer(q, [x \in Splits |-> SumOf([t \in Tasks |-> w(t).read[x]])])
  /\ UNCHANGED <<latest, asked, since, bind, plans, template, worker>>

\* A scan that was not shipped plans its splits in PaimonScanInitGlobal and
\* reads them, or PaimonGetPartitionStats counts them while the query is
\* optimized, if nothing was pushed down and the query has no filter.
ExecuteLocal(q) ==
  /\ bind[q].phase = "COORDINATOR" /\ answer[q].st = "none"
  /\ HasSnapshot(bind[q].opts)
  /\ LET S == PlannedSplits(q, bind[q].pred, SnapshotOf(bind[q].opts))
     IN \E read \in Reads(SetToSeq(S), bind[q].opts.batch) :
          Answer(q, read)
  /\ UNCHANGED <<latest, asked, since, bind, plans, template, worker>>

PaimonGetPartitionStats(q) ==
  /\ bind[q].phase = "COORDINATOR" /\ answer[q].st = "none"
  /\ ~bind[q].pred /\ Match[q] = Splits
  /\ HasSnapshot(bind[q].opts)
  /\ LET S == PlannedSplits(q, FALSE, SnapshotOf(bind[q].opts))
     IN Answer(q, [x \in Splits |-> IF x \in S THEN 1 ELSE 0])
  /\ UNCHANGED <<latest, asked, since, bind, plans, template, worker>>

\* A failed call, a task that ran out of attempts, a scan of a shipped plan
\* at the coordinator, or an interrupt ends the query.
FailQuery(q) ==
  /\ bind[q].phase # "none" /\ answer[q].st = "none"
  /\ answer' = [answer EXCEPT ![q].st = "failed"]
  /\ UNCHANGED <<latest, asked, since, bind, plans, template, worker>>

\* Another writer commits.
Commit ==
  /\ latest < MaxSnapshot
  /\ latest' = latest + 1
  /\ UNCHANGED <<asked, since, bind, plans, template, worker, answer>>

-----------------------------------------------------------------------------
Init ==
  /\ latest = 0
  /\ asked = [q \in Scans |-> NoPin]
  /\ since = [q \in Scans |-> -1]
  /\ bind = [q \in Scans |-> NoBind]
  /\ plans = [q \in Scans |-> <<>>]
  /\ template = [q \in Scans |-> NoBind]
  /\ worker = [a \in Attempts |-> NoWorker]
  /\ answer = [q \in Scans |-> [st |-> "none", read |-> [x \in Match[q] |-> 0]]]

Next ==
  \/ Commit
  \/ \E q \in Scans :
       \/ PaimonScanBind(q) \/ PaimonPushdownFilter(q) \/ ShipCoordinator(q)
       \/ PaimonCreateDistributedWorkerBind(q) \/ PaimonPlanDistributedScanSplits(q)
       \/ FinishDistributed(q) \/ ExecuteLocal(q) \/ PaimonGetPartitionStats(q)
       \/ FailQuery(q)
  \/ \E a \in Attempts :
       \/ ShipTemplate(a) \/ PaimonApplyDistributedScanSplits(a)
       \/ ExecuteWorker(a) \/ FailWorker(a)

Spec == Init /\ [][Next]_vars

-----------------------------------------------------------------------------
(* Properties *)

\* State has the declared types; the phases of the coordinator's bind and of a
\* worker's bind never mix.
TypeOK ==
  /\ latest \in 0..MaxSnapshot
  /\ \A q \in Scans :
       /\ asked[q] \in AttachPins \cup AtPins \cup {NoPin}
       /\ since[q] \in -1..MaxSnapshot
       /\ bind[q].phase \in {"none", "COORDINATOR", "DISTRIBUTED_COORDINATOR"}
       /\ template[q].phase \in {"none", "WORKER_TEMPLATE"}
       /\ {bind[q].opts, template[q].opts} \subseteq Options
       /\ Len(plans[q]) <= MaxPlans
       /\ answer[q].st \in {"none", "ok", "failed"}
       /\ answer[q].read \in [Match[q] -> Nat]
  /\ \A a \in Attempts :
       /\ worker[a].phase \in {"none", "WORKER_TEMPLATE", "WORKER_ASSIGNED",
                               "done", "failed"}
       /\ worker[a].splits \in Seq(Splits)

\* apply_splits: whatever the runtime delivers, and however often it delivers
\* again after a rejection, an assigned worker holds splits of one plan of its
\* own scan, each of them once.
WorkerHoldsOnePlan ==
  \A a \in Attempts : worker[a].phase \in {"WORKER_ASSIGNED", "done"} =>
    LET S == Range(worker[a].splits)
    IN /\ Cardinality(S) = Len(worker[a].splits)
       /\ S # {} => \E p \in DOMAIN plans[a[1]] :
                      /\ plans[a[1]][p].snap = worker[a].snap
                      /\ S \subseteq plans[a[1]][p].splits

\* Every way to execute a scan (distributed with retries, locally, by
\* statistics) returns each matching row of one snapshot once, and that is the
\* snapshot the query asked for or one that was current while it ran.
Abstract == INSTANCE ConsistentScan WITH
  Pins <- AttachPins \cup AtPins \cup {NoPin}

ImplementsConsistentScan == Abstract!Spec
=============================================================================
