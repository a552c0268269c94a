--------------------------- MODULE TargetBaseline ---------------------------
(***************************************************************************)
(* How a distributed INSERT pins its target: LoadTargetState of            *)
(* paimon_distributed_insert.cpp reads the table's UUID, schema and        *)
(* snapshots in separate calls and the UUID again; the result is frozen at *)
(* planning and compared with a fresh one before the tasks start and       *)
(* before the commit.  The mutation mutex keeps statements of this process *)
(* out; other processes drop, create, alter and commit between any two     *)
(* reads.  DistributedWrite takes each LoadTargetState as one step: what   *)
(* is shown here is that it may.                                           *)
(*                                                                         *)
(* A read is recorded as the whole state of the table at that moment; the  *)
(* code looks only at the part it asked for.                               *)
(***************************************************************************)
EXTENDS Integers

CONSTANTS
  MaxIncarnations,  \* bound: tables created at the path
  MaxChanges,       \* bound: schema changes and commits of one table
  MaxChecks         \* bound: validations

ASSUME BaselineAssumption ==
  /\ MaxIncarnations \in Nat \ {0} /\ MaxChanges \in Nat /\ MaxChecks \in Nat

VARIABLES
  uniqueUuid, \* the catalog: TRUE if every table has a UUID of its own (REST),
              \* FALSE if the UUID is the table's full name (file system)
  current,   \* the last table at the path: incarnation, schema version, snapshot
  exists,    \* it has not been dropped
  reading,   \* the last read of the LoadTargetState that is running, or "idle"
  read,      \* what its reads saw
  stage,     \* "new", "planned", "accepted", "failed"
  baseline,  \* the reads of the LoadTargetState that was frozen
  checks     \* validations so far

baselineVars == <<uniqueUuid, current, exists, reading, read, stage, baseline, checks>>

TableState == [inc : Nat, ver : Nat, snap : Nat]
Read       == [uuid : TableState, schema : TableState, snap : TableState]
NoTable    == [inc |-> 0, ver |-> 0, snap |-> 0]
NoRead     == [uuid |-> NoTable, schema |-> NoTable, snap |-> NoTable]

\* What the code sees of a read.  The schema's JSON tells the schemas of all
\* tables apart, as it records when a table was created.
Uuid(t)       == IF uniqueUuid THEN t.inc ELSE 0
SchemaJson(t) == <<t.inc, t.ver>>

\* The comparison of ValidateTargetBaseline.
SameBaseline_NoSnapshot(a, b) ==
  /\ Uuid(a.uuid) = Uuid(b.uuid)
  /\ SchemaJson(a.schema) = SchemaJson(b.schema)

SameBaseline_NoSchema(a, b) ==
  /\ Uuid(a.uuid) = Uuid(b.uuid)
  /\ a.snap.snap = b.snap.snap

SameBaseline(a, b) ==
  /\ Uuid(a.uuid) = Uuid(b.uuid)
  /\ SchemaJson(a.schema) = SchemaJson(b.schema)
  /\ a.snap.snap = b.snap.snap

-----------------------------------------------------------------------------
(* LoadTargetState, read by read.  A read of a table that is gone throws.   *)

LoadUuid ==
  /\ reading = "idle" /\ exists
  /\ stage \in {"new", "planned", "accepted"}
  /\ stage # "new" => checks < MaxChecks
  /\ checks' = IF stage = "new" THEN checks ELSE checks + 1
  /\ stage' = IF stage = "new" THEN "new" ELSE "planned"
  /\ read' = [read EXCEPT !.uuid = current]
  /\ reading' = "uuid"
  /\ UNCHANGED <<uniqueUuid, current, exists, baseline>>

LoadSchema ==
  /\ reading = "uuid" /\ exists
  /\ read' = [read EXCEPT !.schema = current]
  /\ reading' = "schema"
  /\ UNCHANGED <<uniqueUuid, current, exists, stage, baseline, checks>>

LoadSnapshots ==
  /\ reading = "schema" /\ exists
  /\ read' = [read EXCEPT !.snap = current]
  /\ reading' = "snapshots"
  /\ UNCHANGED <<uniqueUuid, current, exists, stage, baseline, checks>>

\* The UUID is read again.  At planning the result is frozen, later it is
\* compared.
NotReplaced_Unchecked(r) == TRUE

NotReplaced(r) == Uuid(current) = Uuid(r.uuid)

Resolve ==
  /\ reading = "snapshots" /\ exists
  /\ NotReplaced(read)
  /\ IF stage = "new"
     THEN baseline' = read /\ stage' = "planned"
     ELSE /\ stage' = IF SameBaseline(baseline, read) THEN "accepted" ELSE "failed"
          /\ UNCHANGED baseline
  /\ reading' = "idle"
  /\ UNCHANGED <<uniqueUuid, current, exists, read, checks>>

\* Any read may fail; a table that is gone or was replaced makes it fail.
Throw ==
  /\ reading # "idle"
  /\ stage' = "failed" /\ reading' = "idle"
  /\ UNCHANGED <<uniqueUuid, current, exists, read, baseline, checks>>

-----------------------------------------------------------------------------
(* Other processes *)

OtherDrops ==
  /\ exists /\ exists' = FALSE
  /\ UNCHANGED <<uniqueUuid, current, reading, read, stage, baseline, checks>>

OtherCreates ==
  /\ ~exists /\ current.inc < MaxIncarnations
  /\ exists' = TRUE
  /\ current' = [inc |-> current.inc + 1, ver |-> 0, snap |-> 0]
  /\ UNCHANGED <<uniqueUuid, reading, read, stage, baseline, checks>>

OtherAlters ==
  /\ exists /\ current.ver < MaxChanges
  /\ current' = [current EXCEPT !.ver = @ + 1]
  /\ UNCHANGED <<uniqueUuid, exists, reading, read, stage, baseline, checks>>

OtherCommits ==
  /\ exists /\ current.snap < MaxChanges
  /\ current' = [current EXCEPT !.snap = @ + 1]
  /\ UNCHANGED <<uniqueUuid, exists, reading, read, stage, baseline, checks>>

-----------------------------------------------------------------------------
BaselineInit ==
  /\ uniqueUuid \in BOOLEAN
  /\ current = [inc |-> 1, ver |-> 0, snap |-> 0] /\ exists = TRUE
  /\ reading = "idle" /\ read = NoRead
  /\ stage = "new" /\ baseline = NoRead /\ checks = 0

Load == LoadUuid \/ LoadSchema \/ LoadSnapshots \/ Resolve \/ Throw

BaselineNext == Load \/ OtherDrops \/ OtherCreates \/ OtherAlters \/ OtherCommits

BaselineSpec == BaselineInit /\ [][BaselineNext]_baselineVars

-----------------------------------------------------------------------------
(* Properties *)

\* The types of all variables.
BaselineTypeOK ==
  /\ uniqueUuid \in BOOLEAN
  /\ current \in TableState /\ exists \in BOOLEAN
  /\ reading \in {"idle", "uuid", "schema", "snapshots"}
  /\ read \in Read
  /\ stage \in {"new", "planned", "accepted", "failed"}
  /\ baseline \in Read
  /\ checks \in 0..MaxChecks

\* LoadTargetState: where tables have UUIDs of their own, what is frozen at
\* planning was read from one table, although others replaced tables meanwhile.
FrozenFromOneTable ==
  uniqueUuid /\ stage \in {"planned", "accepted"} =>
    baseline.uuid.inc = baseline.schema.inc /\ baseline.schema.inc = baseline.snap.inc

\* ValidateTargetBaseline, also where UUIDs are names and cannot tell a table
\* from its successor: the frozen snapshot is of the very table whose schema
\* the accepting validation read, and unless that table was replaced before
\* the validation read the snapshots, nobody had changed it since planning.
AcceptedFromOneTable ==
  stage = "accepted" =>
    /\ baseline.snap.inc = read.schema.inc
    /\ read.snap.inc = read.schema.inc =>
         read.schema.ver = baseline.schema.ver /\ read.schema.snap = baseline.snap.snap

\* ValidateTargetBaseline: with unique UUIDs an accepted validation is as good
\* as an atomic one.  At the moment it read the schema, the table was the
\* frozen one with the frozen schema and the frozen snapshot.
AcceptedWasCurrent ==
  uniqueUuid /\ stage = "accepted" =>
    read.schema = [inc |-> baseline.uuid.inc, ver |-> baseline.schema.ver,
                   snap |-> baseline.snap.snap]
=============================================================================
