---------------------------- MODULE CatalogCache ----------------------------
(***************************************************************************)
(* The catalog of an attached Paimon warehouse: PaimonCatalog with its set *)
(* of schema entries (PaimonSchemaSet) and, in every schema entry, a set   *)
(* of table entries (PaimonTableSet).  The sets cache what the warehouse   *)
(* holds.  CREATE and DROP change the warehouse first and the cache after; *)
(* lookups and scans of other threads come in between.                     *)
(*                                                                         *)
(* A set has a lock of its own.  In a Vane build a process-wide mutex also *)
(* makes CREATE and DROP exclude each other.                               *)
(*                                                                         *)
(* Only this process changes the warehouse.  With IoFaults a call into     *)
(* Paimon may also fail for a reason other than what exists, and has no    *)
(* effect then.                                                            *)
(***************************************************************************)
EXTENDS Naturals, FiniteSets

CONSTANTS
  Schemas,    \* names of databases
  Tables,     \* names of tables
  Threads,    \* threads of DuckDB that bind and execute statements
  NoThread,
  NoMutex,    \* there is no mutation mutex: a native build
  IoFaults,   \* calls into Paimon may fail
  MaxDdl      \* bound: CREATE and DROP statements

ASSUME BuildAssumption ==
  IoFaults \in BOOLEAN /\ MaxDdl \in Nat /\ Schemas # {} /\ Tables # {}
ASSUME ThreadAssumption ==
  NoThread \notin Threads /\ NoMutex \notin Threads \cup {NoThread}

VARIABLES
  dbs,             \* the databases of the warehouse
  stored,          \* stored[s][t]: the definition of a table of it, 0 if none
  schemas_inited,  \* PaimonSchemaSet::inited
  schemas,         \* schemas[s]: the entry of PaimonSchemaSet::entries
  entry_lock,      \* entry_lock[s]: who holds the lock of its table set
  mutex,           \* who holds GetVaneCatalogMutationMutex, if there is one
  thread,          \* what a thread executes
  ddl,             \* CREATE and DROP statements so far
  undefined        \* a thread has used an entry that was destroyed

vars == <<dbs, stored, schemas_inited, schemas, entry_lock, mutex, thread, ddl,
          undefined>>
disk == <<dbs, stored>>
cache == <<schemas_inited, schemas>>
locks == <<entry_lock, mutex>>

-----------------------------------------------------------------------------
NoTables == [t \in Tables |-> 0]

\* A schema entry and its table set.  The number tells the entries apart that a
\* schema has had; an entry that is not live was erased, and destroyed.  What
\* is lost is for the properties only: the tables whose last refresh failed.
SchemaEntry(id, live) ==
  [id |-> id, live |-> live, inited |-> FALSE, tables |-> NoTables, lost |-> {}]

\* A thread without a statement, and the fields a statement has: how far it
\* is, what it does, the names it is about, the schema entry it was bound to
\* and the tables a scan has still to load.
NoStatement ==
  [pc |-> "idle", op |-> "none", s |-> CHOOSE s \in Schemas : TRUE,
   t |-> CHOOSE t \in Tables : TRUE, id |-> 0, todo |-> {}]

\* The warehouse has some databases and tables (definition 1) when it is
\* attached.  The build has the mutation mutex or not.
Init ==
  /\ dbs \in SUBSET Schemas
  /\ stored \in [Schemas -> [Tables -> {0, 1}]]
  /\ \A s \in Schemas \ dbs : stored[s] = NoTables
  /\ schemas_inited = FALSE
  /\ schemas = [s \in Schemas |-> SchemaEntry(0, FALSE)]
  /\ entry_lock = [s \in Schemas |-> NoThread]
  /\ mutex \in {NoThread, NoMutex}
  /\ thread = [th \in Threads |-> NoStatement]
  /\ ddl = 0
  /\ undefined = FALSE

-----------------------------------------------------------------------------
\* Nothing is said of what follows undefined behaviour.
Idle(th) == ~undefined /\ thread[th].pc = "idle"
Goto(th, pc) == thread' = [thread EXCEPT ![th].pc = pc]
Return(th) == thread' = [thread EXCEPT ![th] = NoStatement]
At(th, pc, op) == ~undefined /\ thread[th].pc = pc /\ thread[th].op = op

\* PaimonSchemaSet: LoadEntries adds what ListDatabases returns, once.
LoadEntries ==
  IF schemas_inited THEN schemas
  ELSE [s \in Schemas |->
          IF s \in dbs /\ ~schemas[s].live THEN SchemaEntry(schemas[s].id + 1, TRUE)
                                           ELSE schemas[s]]
CreateEntry(s) ==
  IF schemas[s].live THEN schemas
  ELSE [schemas EXCEPT ![s] = SchemaEntry(schemas[s].id + 1, TRUE)]
DropEntry(s) == [schemas EXCEPT ![s] = SchemaEntry(schemas[s].id, FALSE)]

\* PaimonTableSet: BuildEntry keeps an entry it has and loads the definition
\* of one it has not, RefreshEntry loads it again.
BuildEntry(s, t) ==
  [schemas EXCEPT ![s].tables[t] = IF @ = 0 THEN stored[s][t] ELSE @,
                  ![s].lost = @ \ {t}]
RefreshEntry(s, t) ==
  [schemas EXCEPT ![s].tables[t] = stored[s][t], ![s].lost = @ \ {t}]
DropTableEntry(s, t) ==
  [schemas EXCEPT ![s].tables[t] = 0, ![s].lost = @ \ {t}]

\* A statement on a table holds a pointer to the entry of its schema, which
\* another thread may have erased.
Freed(th) ==
  LET e == schemas[thread[th].s] IN ~e.live \/ e.id # thread[th].id

UseFreed(th) ==
  /\ ~undefined
  /\ thread[th].pc # "idle"
  /\ thread[th].op \in {"get", "scan", "create_table", "drop_table"}
  /\ Freed(th)
  /\ undefined' = TRUE
  /\ UNCHANGED <<disk, cache, locks, thread, ddl>>

\* A CREATE or DROP takes the mutex with its first step and keeps it until it
\* is done.
MutexFree == mutex \in {NoThread, NoMutex}
TakeMutex(th) ==
  /\ MutexFree
  /\ mutex' = IF mutex = NoMutex THEN NoMutex ELSE th
ReleaseMutex(th) == mutex' = IF mutex = th THEN NoThread ELSE mutex

-----------------------------------------------------------------------------
(***************************************************************************)
(* Statements on a table look its schema up when they are bound.           *)
(***************************************************************************)
LookupSchema(th, op, s, t) ==
  LET entries == LoadEntries IN
  /\ Idle(th)
  /\ op \in {"get", "scan"} \/ ddl < MaxDdl
  /\ schemas_inited' = TRUE
  /\ schemas' = entries
  /\ thread' = IF entries[s].live
                 THEN [thread EXCEPT ![th] = [pc |-> IF op = "create_table"
                                                       THEN "execute" ELSE "bound",
                                              op |-> op, s |-> s, t |-> t,
                                              id |-> entries[s].id, todo |-> {}]]
                 ELSE thread
  /\ ddl' = IF entries[s].live /\ op \in {"create_table", "drop_table"}
              THEN ddl + 1 ELSE ddl
  /\ UNCHANGED <<disk, locks, undefined>>

\* ScanSchemas.
ScanSchemas(th) ==
  /\ Idle(th)
  /\ schemas_inited' = TRUE
  /\ schemas' = LoadEntries
  /\ UNCHANGED <<disk, locks, thread, ddl, undefined>>

\* LookupEntry of a schema: a table by its name.  DROP TABLE looks the table up
\* and executes if there is one.
LookupEntry(th) ==
  LET s == thread[th].s
      t == thread[th].t
      entries == BuildEntry(s, t)
  IN  /\ At(th, "bound", "get") \/ At(th, "bound", "drop_table")
      /\ ~Freed(th)
      /\ entry_lock[s] = NoThread
      /\ schemas' = entries
      /\ IF thread[th].op = "drop_table" /\ entries[s].tables[t] # 0
           THEN Goto(th, "execute") ELSE Return(th)
      /\ UNCHANGED <<disk, schemas_inited, locks, ddl, undefined>>

\* Scan of a table set.  The first one lists the tables and loads them one by
\* one, with the lock of the set; ListTables fails without the database.
ScanList(th) ==
  LET s == thread[th].s IN
  /\ At(th, "bound", "scan")
  /\ ~Freed(th)
  /\ entry_lock[s] = NoThread
  /\ IF schemas[s].inited \/ s \notin dbs
       THEN Return(th) /\ UNCHANGED entry_lock
       ELSE /\ thread' = [thread EXCEPT ![th].pc = "scan",
                            ![th].todo = {t \in Tables : stored[s][t] # 0}]
            /\ entry_lock' = [entry_lock EXCEPT ![s] = th]
  /\ UNCHANGED <<disk, cache, mutex, ddl, undefined>>

ScanBuild(th, t) ==
  /\ At(th, "scan", "scan")
  /\ ~Freed(th)
  /\ t \in thread[th].todo
  /\ schemas' = BuildEntry(thread[th].s, t)
  /\ thread' = [thread EXCEPT ![th].todo = @ \ {t}]
  /\ UNCHANGED <<disk, schemas_inited, locks, ddl, undefined>>

ScanDone(th) ==
  LET s == thread[th].s IN
  /\ At(th, "scan", "scan")
  /\ ~Freed(th)
  /\ thread[th].todo = {}
  /\ schemas' = [schemas EXCEPT ![s].inited = TRUE]
  /\ entry_lock' = [entry_lock EXCEPT ![s] = NoThread]
  /\ Return(th)
  /\ UNCHANGED <<disk, schemas_inited, mutex, ddl, undefined>>

\* LoadTableSchema or ListTables fails in a lookup, or at the start of a scan:
\* the statement throws.
LookupFails(th) ==
  /\ IoFaults
  /\ \E op \in {"get", "drop_table", "scan"} : At(th, "bound", op)
  /\ ~Freed(th)
  /\ entry_lock[thread[th].s] = NoThread
  /\ Return(th)
  /\ UNCHANGED <<disk, cache, locks, ddl, undefined>>

\* Mutant: the set counts as loaded all the same.
ScanFails_Inited(th) ==
  LET s == thread[th].s IN
  /\ IoFaults
  /\ At(th, "scan", "scan")
  /\ ~Freed(th)
  /\ thread[th].todo # {}
  /\ schemas' = [schemas EXCEPT ![s].inited = TRUE]
  /\ entry_lock' = [entry_lock EXCEPT ![s] = NoThread]
  /\ Return(th)
  /\ UNCHANGED <<disk, schemas_inited, mutex, ddl, undefined>>

\* It fails for a table of the list: the lock is released, what is loaded stays
\* and the next scan lists the tables again.
ScanFails(th) ==
  /\ IoFaults
  /\ At(th, "scan", "scan")
  /\ ~Freed(th)
  /\ thread[th].todo # {}
  /\ entry_lock' = [entry_lock EXCEPT ![thread[th].s] = NoThread]
  /\ Return(th)
  /\ UNCHANGED <<disk, cache, mutex, ddl, undefined>>

-----------------------------------------------------------------------------
(***************************************************************************)
(* CREATE and DROP: the call into Paimon, then the cache.                  *)
(***************************************************************************)
\* A statement whose call into Paimon fails throws and leaves the cache alone.
Throws(th) ==
  /\ MutexFree
  /\ Return(th)
  /\ UNCHANGED <<disk, cache, locks, ddl, undefined>>

CreateTable(th, ignore_if_exists) ==
  LET s == thread[th].s
      t == thread[th].t
      exists == stored[s][t] # 0
  IN  /\ At(th, "execute", "create_table")
      /\ ~Freed(th)
      /\ \/ /\ IoFaults \/ s \notin dbs \/ (exists /\ ~ignore_if_exists)
            /\ Throws(th)
         \/ /\ s \in dbs /\ (exists => ignore_if_exists)
            /\ TakeMutex(th)
            /\ stored' = [stored EXCEPT ![s][t] = IF exists THEN @ ELSE ddl + 1]
            /\ Goto(th, "cache")
            /\ UNCHANGED <<dbs, cache, entry_lock, ddl, undefined>>

CreateTableEntry(th) ==
  LET s == thread[th].s IN
  /\ At(th, "cache", "create_table")
  /\ ~Freed(th)
  /\ entry_lock[s] = NoThread
  /\ schemas' = RefreshEntry(s, thread[th].t)
  /\ Return(th)
  /\ ReleaseMutex(th)
  /\ UNCHANGED <<disk, schemas_inited, entry_lock, ddl, undefined>>

\* RefreshEntry has erased the entry when the load of the new one fails.
RefreshFails(th) ==
  LET s == thread[th].s IN
  /\ IoFaults
  /\ At(th, "cache", "create_table")
  /\ ~Freed(th)
  /\ entry_lock[s] = NoThread
  /\ schemas' = [schemas EXCEPT ![s].tables[thread[th].t] = 0,
                                ![s].lost = @ \cup {thread[th].t}]
  /\ Return(th)
  /\ ReleaseMutex(th)
  /\ UNCHANGED <<disk, schemas_inited, entry_lock, ddl, undefined>>

DropTable(th, ignore_if_not_exists) ==
  LET s == thread[th].s
      t == thread[th].t
  IN  /\ At(th, "execute", "drop_table")
      /\ ~Freed(th)
      /\ \/ /\ IoFaults \/ (stored[s][t] = 0 /\ ~ignore_if_not_exists)
            /\ Throws(th)
         \/ /\ stored[s][t] = 0 => ignore_if_not_exists
            /\ TakeMutex(th)
            /\ stored' = [stored EXCEPT ![s][t] = 0]
            /\ Goto(th, "cache")
            /\ UNCHANGED <<dbs, cache, entry_lock, ddl, undefined>>

\* Mutant: the entry stays in the cache.
DropTableErase_Keeps(th) ==
  /\ At(th, "cache", "drop_table")
  /\ ~Freed(th)
  /\ entry_lock[thread[th].s] = NoThread
  /\ Return(th)
  /\ ReleaseMutex(th)
  /\ UNCHANGED <<disk, cache, entry_lock, ddl, undefined>>

DropTableErase(th) ==
  LET s == thread[th].s IN
  /\ At(th, "cache", "drop_table")
  /\ ~Freed(th)
  /\ entry_lock[s] = NoThread
  /\ schemas' = DropTableEntry(s, thread[th].t)
  /\ Return(th)
  /\ ReleaseMutex(th)
  /\ UNCHANGED <<disk, schemas_inited, entry_lock, ddl, undefined>>

Begin(th, op, s) ==
  [thread EXCEPT ![th].pc = "cache", ![th].op = op, ![th].s = s]

\* One that throws, because the database exists, changes nothing.
CreateSchema(th, s, ignore_if_exists) ==
  /\ Idle(th) /\ ddl < MaxDdl
  /\ s \in dbs => ignore_if_exists
  /\ TakeMutex(th)
  /\ dbs' = dbs \cup {s}
  /\ ddl' = ddl + 1
  /\ thread' = Begin(th, "create_schema", s)
  /\ UNCHANGED <<stored, cache, entry_lock, undefined>>

CreateSchemaEntry(th) ==
  /\ At(th, "cache", "create_schema")
  /\ schemas' = CreateEntry(thread[th].s)
  /\ Return(th)
  /\ ReleaseMutex(th)
  /\ UNCHANGED <<disk, schemas_inited, entry_lock, ddl, undefined>>

\* Without CASCADE the database has to be empty.
DropSchema(th, s, ignore_if_not_exists, cascade) ==
  /\ Idle(th) /\ ddl < MaxDdl
  /\ s \notin dbs => ignore_if_not_exists
  /\ cascade \/ stored[s] = NoTables
  /\ TakeMutex(th)
  /\ dbs' = dbs \ {s}
  /\ stored' = [stored EXCEPT ![s] = NoTables]
  /\ ddl' = ddl + 1
  /\ thread' = Begin(th, "drop_schema", s)
  /\ UNCHANGED <<cache, entry_lock, undefined>>

\* The entry goes with its table set and the lock of it.
DropSchemaErase(th) ==
  LET s == thread[th].s IN
  /\ At(th, "cache", "drop_schema")
  /\ schemas' = DropEntry(s)
  /\ entry_lock' = [entry_lock EXCEPT ![s] = NoThread]
  /\ Return(th)
  /\ ReleaseMutex(th)
  /\ UNCHANGED <<disk, schemas_inited, ddl, undefined>>

-----------------------------------------------------------------------------
Step(th) ==
  \/ \E op \in {"get", "scan", "create_table", "drop_table"}, s \in Schemas,
        t \in Tables : LookupSchema(th, op, s, t)
  \/ ScanSchemas(th)
  \/ LookupEntry(th)
  \/ ScanList(th)
  \/ \E t \in Tables : ScanBuild(th, t)
  \/ ScanDone(th)
  \/ LookupFails(th)
  \/ ScanFails(th)
  \/ \E ignore \in BOOLEAN : CreateTable(th, ignore)
  \/ CreateTableEntry(th)
  \/ RefreshFails(th)
  \/ \E ignore \in BOOLEAN : DropTable(th, ignore)
  \/ DropTableErase(th)
  \/ \E s \in Schemas, ignore \in BOOLEAN : CreateSchema(th, s, ignore)
  \/ CreateSchemaEntry(th)
  \/ \E s \in Schemas, ignore \in BOOLEAN, cascade \in BOOLEAN :
       DropSchema(th, s, ignore, cascade)
  \/ DropSchemaErase(th)
  \/ UseFreed(th)

Undefined == undefined /\ UNCHANGED vars

Next == (\E th \in Threads : Step(th)) \/ Undefined

Spec == Init /\ [][Next]_vars

-----------------------------------------------------------------------------
\* No CREATE or DROP is between the warehouse and the cache.
AtRest == ~undefined /\ \A th \in Threads : thread[th].pc # "cache"

\* A table entry describes the table the warehouse has under that name: not a
\* dropped table, and not one that was dropped and created again with another
\* definition, however lookups, scans and table DDL interleave (BuildEntry,
\* RefreshEntry and DropEntry of PaimonTableSet).
TablesCurrentAtRest ==
  AtRest => \A s \in Schemas, t \in Tables :
    schemas[s].live /\ schemas[s].tables[t] # 0 => schemas[s].tables[t] = stored[s][t]

\* With the mutation mutex, the caches also are complete: once loaded, the
\* schema set has an entry for exactly the databases that exist, and the
\* table set of an entry for exactly its tables, so that neither SHOW
\* TABLES nor a lookup misses what another thread has created (CreateSchema,
\* DropSchema, LoadEntries of both sets).  When calls into Paimon fail, the
\* only tables that a loaded set may miss are those whose RefreshEntry failed.
CompleteAtRest ==
  AtRest /\ mutex # NoMutex => \A s \in Schemas :
    /\ schemas[s].live => s \in dbs
    /\ schemas_inited /\ s \in dbs => schemas[s].live
    /\ schemas[s].live /\ schemas[s].inited =>
         \A t \in Tables \ schemas[s].lost : schemas[s].tables[t] = stored[s][t]

=============================================================================
