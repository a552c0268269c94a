------------------------- MODULE CatalogCacheProofs -------------------------
(***************************************************************************)
(* Theorems about CatalogCache, for any databases, tables, threads and     *)
(* number of statements, with and without the mutation mutex.              *)
(***************************************************************************)
EXTENDS CatalogCache, TLAPS

Entry ==
  [id : Nat, live : BOOLEAN, inited : BOOLEAN, tables : [Tables -> Nat],
   lost : SUBSET Tables]
Statement ==
  [pc : {"idle", "bound", "scan", "execute", "cache"},
   op : {"none", "get", "scan", "create_table", "drop_table", "create_schema", "drop_schema"},
   s : Schemas, t : Tables, id : Nat, todo : SUBSET Tables]

\* A CREATE or DROP that has changed the warehouse and not yet the cache; those
\* that concern the entry of a table.
Between(th, op, s) ==
  thread[th].pc = "cache" /\ thread[th].op = op /\ thread[th].s = s
Pending(th, s, t) ==
  \/ Between(th, "drop_schema", s)
  \/ thread[th].t = t /\ (Between(th, "create_table", s) \/ Between(th, "drop_table", s))

\* A loaded table set may rely on what it has of a table.
Current(s, t) ==
  \/ t \in schemas[s].lost
  \/ schemas[s].tables[t] = stored[s][t]
  \/ \E th \in Threads : Pending(th, s, t)

-----------------------------------------------------------------------------
(***************************************************************************)
(* The inductive invariant.                                                *)
(***************************************************************************)

TypeInv ==
  /\ dbs \subseteq Schemas
  /\ stored \in [Schemas -> [Tables -> Nat]]
  /\ schemas_inited \in BOOLEAN
  /\ schemas \in [Schemas -> Entry]
  /\ entry_lock \in [Schemas -> Threads \cup {NoThread}]
  /\ mutex \in Threads \cup {NoThread, NoMutex}
  /\ thread \in [Threads -> Statement]
  /\ ddl \in Nat
  /\ undefined \in BOOLEAN

\* An entry that does not describe the stored table is about to be replaced.
StaleAt(s, t) ==
  schemas[s].tables[t] # 0 =>
    schemas[s].tables[t] = stored[s][t] \/ \E th \in Threads : Pending(th, s, t)
StaleInv == \A s \in Schemas, t \in Tables : StaleAt(s, t)

\* A mutex keeps all others out between the warehouse and the cache ...
MutexInv == \A th \in Threads : thread[th].pc = "cache" <=> mutex = th

\* ... so that the warehouse stays what the statement made it.
DdlAt(th) ==
  /\ thread[th].pc = "cache" /\ thread[th].op = "drop_table"
       => stored[thread[th].s][thread[th].t] = 0
  /\ thread[th].pc = "cache" /\ thread[th].op = "create_schema" => thread[th].s \in dbs
  /\ thread[th].pc = "cache" /\ thread[th].op = "drop_schema" => thread[th].s \notin dbs
DdlInv == \A th \in Threads : DdlAt(th)

\* The entries of the schema set are the databases, but for a pending change.
SetAt(s) ==
  /\ schemas[s].live => s \in dbs \/ \E th \in Threads : Between(th, "drop_schema", s)
  /\ schemas_inited /\ s \in dbs =>
       schemas[s].live \/ \E th \in Threads : Between(th, "create_schema", s)
SetInv == \A s \in Schemas : SetAt(s)

\* A loaded table set is complete, and one that is being scanned is as far as
\* the scan has come.
LoadedAt(s) ==
  schemas[s].live /\ schemas[s].inited => \A t \in Tables : Current(s, t)
ScanAt(th) ==
  thread[th].pc = "scan" /\ ~Freed(th) =>
    \A t \in Tables \ thread[th].todo : Current(thread[th].s, t)
LoadedInv == (\A s \in Schemas : LoadedAt(s)) /\ (\A th \in Threads : ScanAt(th))

\* An entry that is created later has another number than the one of a scan.
IdAt(th) == thread[th].pc = "scan" => thread[th].id <= schemas[thread[th].s].id
IdInv == \A th \in Threads : IdAt(th)

GuardedInv == mutex # NoMutex => MutexInv /\ DdlInv /\ SetInv /\ LoadedInv

CatalogInv == TypeInv /\ StaleInv /\ IdInv /\ GuardedInv

-----------------------------------------------------------------------------
(***************************************************************************)
(* What the steps do to a thread and to an entry.                          *)
(***************************************************************************)

\* A thread without a statement is idle.
LEMMA NoStatementIs == NoStatement \in Statement /\ NoStatement.pc = "idle"
BY BuildAssumption DEF NoStatement, Statement

\* New entries are typed and empty.
LEMMA SchemaEntryIs ==
  ASSUME NEW id \in Nat
  PROVE  /\ SchemaEntry(id, TRUE) \in Entry /\ SchemaEntry(id, FALSE) \in Entry
         /\ SchemaEntry(id, TRUE).id = id /\ SchemaEntry(id, FALSE).id = id
         /\ SchemaEntry(id, TRUE).live /\ ~SchemaEntry(id, FALSE).live
         /\ ~SchemaEntry(id, TRUE).inited /\ ~SchemaEntry(id, FALSE).inited
         /\ SchemaEntry(id, TRUE).lost = {}
         /\ \A t \in Tables : /\ SchemaEntry(id, TRUE).tables[t] = 0
                              /\ SchemaEntry(id, FALSE).tables[t] = 0
BY DEF SchemaEntry, Entry, NoTables

\* A statement ends.
LEMMA ReturnIs ==
  ASSUME TypeInv, NEW th \in Threads, Return(th)
  PROVE  /\ thread' \in [Threads -> Statement] /\ thread'[th].pc = "idle"
         /\ \A x \in Threads \ {th} : thread'[x] = thread[x]
BY NoStatementIs DEF Return, TypeInv

\* A statement goes on.
LEMMA GotoIs ==
  ASSUME TypeInv, NEW th \in Threads,
         NEW pc \in {"idle", "bound", "scan", "execute", "cache"}, Goto(th, pc)
  PROVE  /\ thread' \in [Threads -> Statement] /\ thread'[th].pc = pc
         /\ thread'[th].op = thread[th].op
         /\ thread'[th].s = thread[th].s /\ thread'[th].t = thread[th].t
         /\ \A x \in Threads \ {th} : thread'[x] = thread[x]
<1>1. thread[th] \in Statement
      BY DEF TypeInv
<1>2. thread'[th] = [thread[th] EXCEPT !.pc = pc]
      BY DEF Goto, TypeInv
<1>3. [thread[th] EXCEPT !.pc = pc] \in Statement
      BY <1>1 DEF Statement
<1>4. /\ thread'[th].pc = pc /\ thread'[th].op = thread[th].op
      /\ thread'[th].s = thread[th].s /\ thread'[th].t = thread[th].t
      BY <1>1, <1>2 DEF Statement
<1>5. thread' = [thread EXCEPT ![th] = [thread[th] EXCEPT !.pc = pc]]
      BY DEF Goto
<1>6. thread' \in [Threads -> Statement] /\ \A x \in Threads \ {th} : thread'[x] = thread[x]
      BY <1>3, <1>5 DEF TypeInv
<1>. QED BY <1>4, <1>6

\* A CREATE or DROP SCHEMA has changed the warehouse.
LEMMA BeginIs ==
  ASSUME TypeInv, NEW th \in Threads, NEW s \in Schemas,
         NEW op \in {"create_schema", "drop_schema"}, thread' = Begin(th, op, s)
  PROVE  /\ thread' \in [Threads -> Statement] /\ thread'[th].pc = "cache"
         /\ thread'[th].op = op /\ thread'[th].s = s
         /\ \A x \in Threads \ {th} : thread'[x] = thread[x]
<1>. DEFINE new == [thread[th] EXCEPT !.pc = "cache", !.op = op, !.s = s]
<1>1. thread[th] \in Statement
      BY DEF TypeInv
<1>2. new \in Statement /\ new.pc = "cache" /\ new.op = op /\ new.s = s
      BY <1>1 DEF Statement
<1>3. thread' = [thread EXCEPT ![th] = new]
      BY DEF Begin
<1>. HIDE DEF new
<1>. QED BY <1>2, <1>3 DEF TypeInv

\* The set of schema entries after LoadEntries.
LEMMA LoadEntriesIs ==
  ASSUME TypeInv
  PROVE  /\ LoadEntries \in [Schemas -> Entry]
         /\ \A s \in Schemas :
              \/ LoadEntries[s] = schemas[s] /\ (schemas_inited \/ s \notin dbs \/ schemas[s].live)
              \/ /\ ~schemas_inited /\ s \in dbs /\ ~schemas[s].live
                 /\ LoadEntries[s] = SchemaEntry(schemas[s].id + 1, TRUE)
<1>1. \A s \in Schemas : schemas[s] \in Entry /\ schemas[s].id + 1 \in Nat
      BY DEF TypeInv, Entry
<1>2. \A s \in Schemas : SchemaEntry(schemas[s].id + 1, TRUE) \in Entry
      BY <1>1, SchemaEntryIs
<1>. QED BY <1>1, <1>2 DEF LoadEntries, TypeInv

\* One table of an entry gets another definition, and its set others that are
\* lost; all other tables and entries are as they were.
Put(s, t, d, L) == [schemas EXCEPT ![s].tables[t] = d, ![s].lost = L]

\* What Put leaves in every field of every entry.
LEMMA TableSet ==
  ASSUME TypeInv, NEW s \in Schemas, NEW t \in Tables, NEW d \in Nat, NEW L \in SUBSET Tables,
         schemas' = Put(s, t, d, L)
  PROVE  /\ schemas' \in [Schemas -> Entry]
         /\ \A x \in Schemas \ {s} : schemas'[x] = schemas[x]
         /\ schemas'[s].id = schemas[s].id /\ schemas'[s].live = schemas[s].live
         /\ schemas'[s].inited = schemas[s].inited /\ schemas'[s].lost = L
         /\ schemas'[s].tables[t] = d
         /\ \A u \in Tables \ {t} : schemas'[s].tables[u] = schemas[s].tables[u]
<1>. DEFINE e == [schemas[s] EXCEPT !.tables[t] = d, !.lost = L]
<1>1. schemas[s] \in Entry
      BY DEF TypeInv
<1>2. /\ e \in Entry /\ e.id = schemas[s].id /\ e.live = schemas[s].live
      /\ e.inited = schemas[s].inited /\ e.lost = L
      /\ e.tables[t] = d /\ \A u \in Tables \ {t} : e.tables[u] = schemas[s].tables[u]
      BY <1>1 DEF Entry
<1>3. schemas' = [schemas EXCEPT ![s] = e]
      BY DEF Put
<1>. HIDE DEF e
<1>. QED BY <1>2, <1>3 DEF TypeInv

-----------------------------------------------------------------------------
(***************************************************************************)
(* Three kinds of steps: those that only read the warehouse, those that    *)
(* change it, and those that bring the cache up to it.                     *)
(***************************************************************************)

\* A step of th that neither starts nor ends a change.
Quiet(th) ==
  /\ UNCHANGED <<dbs, stored, mutex>>
  /\ thread[th].pc # "cache" /\ thread'[th].pc # "cache"
  /\ \A x \in Threads \ {th} : thread'[x] = thread[x]

\* What a lookup or a scan may do to a table of an entry: load what is missing.
TableKept(s, t) ==
  /\ t \in schemas'[s].lost => t \in schemas[s].lost
  /\ \/ schemas'[s].tables[t] = schemas[s].tables[t]
     \/ schemas[s].tables[t] = 0 /\ schemas'[s].tables[t] = stored[s][t]
  /\ t \in schemas[s].lost /\ t \notin schemas'[s].lost =>
       schemas'[s].tables[t] # 0 \/ schemas'[s].tables[t] = stored[s][t]

EntryKept(s) ==
  /\ schemas'[s].id = schemas[s].id /\ schemas'[s].live = schemas[s].live
  /\ \A t \in Tables : TableKept(s, t)

EntryFresh(s) ==
  ~schemas[s].live /\ s \in dbs /\ schemas'[s] = SchemaEntry(schemas[s].id + 1, TRUE)

\* Pending changes stay pending.
LEMMA PendingSame ==
  ASSUME NEW th \in Threads, Quiet(th)
  PROVE  /\ \A x \in Threads, s \in Schemas, t \in Tables : Pending(x, s, t)' <=> Pending(x, s, t)
         /\ \A x \in Threads, s \in Schemas : /\ Between(x, "drop_schema", s)' <=> Between(x, "drop_schema", s)
                                              /\ Between(x, "create_schema", s)' <=> Between(x, "create_schema", s)
BY DEF Quiet, Pending, Between

\* A table that is kept is as current as before; one that is not lost and has
\* an entry is current.
LEMMA KeptCurrent ==
  ASSUME NEW th \in Threads, Quiet(th), NEW s \in Schemas, NEW t \in Tables, StaleAt(s, t)
  PROVE  /\ TableKept(s, t) => StaleAt(s, t)'
         /\ TableKept(s, t) /\ Current(s, t) => Current(s, t)'
         /\ TableKept(s, t) /\ t \notin schemas'[s].lost
              /\ (schemas'[s].tables[t] # 0 \/ schemas'[s].tables[t] = stored[s][t])
              => Current(s, t)'
<1>1. \A x \in Threads : Pending(x, s, t)' <=> Pending(x, s, t)
      BY PendingSame
<1>2. stored' = stored
      BY DEF Quiet
<1>3. TableKept(s, t) => StaleAt(s, t)'
      BY <1>1, <1>2 DEF StaleAt, TableKept
<1>. QED BY <1>1, <1>2, <1>3 DEF StaleAt, TableKept, Current

\* Lookups, scans and statements that fail before they change anything.
LEMMA ReadKeeps ==
  ASSUME CatalogInv, TypeInv', NEW th \in Threads, Quiet(th),
         \A s \in Schemas : EntryKept(s) \/ EntryFresh(s),
         \A s \in Schemas : EntryKept(s) /\ schemas'[s].inited =>
           schemas[s].inited \/ (mutex # NoMutex => \A t \in Tables : Current(s, t)),
         IdAt(th)', mutex # NoMutex => ScanAt(th)',
         schemas_inited' => schemas_inited \/ \A s \in dbs : schemas'[s].live
  PROVE  CatalogInv'
<1>0. TypeInv /\ StaleInv /\ IdInv
      BY DEF CatalogInv
<1>1. ASSUME NEW s \in Schemas, EntryFresh(s)
      PROVE  /\ schemas'[s].id = schemas[s].id + 1 /\ schemas'[s].live /\ ~schemas'[s].inited
             /\ schemas'[s].lost = {} /\ \A t \in Tables : schemas'[s].tables[t] = 0
  <2>1. schemas[s] \in Entry
        BY <1>0 DEF TypeInv
  <2>2. schemas[s].id + 1 \in Nat
        BY <2>1 DEF Entry
  <2>3. schemas'[s] = SchemaEntry(schemas[s].id + 1, TRUE)
        BY <1>1 DEF EntryFresh
  <2>. DEFINE e == SchemaEntry(schemas[s].id + 1, TRUE)
  <2>4. e.id = schemas[s].id + 1 /\ e.live /\ ~e.inited /\ e.lost = {} /\ \A t \in Tables : e.tables[t] = 0
        BY <2>2, SchemaEntryIs
  <2>. HIDE DEF e
  <2>5. schemas'[s] = e
        BY <2>3 DEF e
  <2>. QED BY <2>4, <2>5
<1>2. StaleInv'
  <2>1. SUFFICES ASSUME NEW s \in Schemas, NEW t \in Tables PROVE StaleAt(s, t)'
        BY Zenon DEF StaleInv
  <2>2. CASE EntryKept(s)
        BY <1>0, <2>2, KeptCurrent DEF EntryKept, StaleInv
  <2>3. CASE EntryFresh(s)
        BY <1>1, <2>3 DEF StaleAt
  <2>. QED BY <2>2, <2>3
<1>3. ASSUME NEW s \in Schemas
      PROVE  schemas[s].id \in Nat /\ schemas'[s].id \in Nat /\ schemas[s].id <= schemas'[s].id
  <2>1. schemas[s].id \in Nat
        BY <1>0 DEF TypeInv, Entry
  <2>2. schemas'[s].id = schemas[s].id \/ schemas'[s].id = schemas[s].id + 1
        BY <1>1 DEF EntryKept
  <2>. QED BY <2>1, <2>2
<1>4. IdInv'
  <2>1. SUFFICES ASSUME NEW x \in Threads \ {th} PROVE IdAt(x)'
        BY Zenon DEF IdInv
  <2>2. IdAt(x) /\ thread'[x] = thread[x] /\ thread[x] \in Statement
        BY <1>0 DEF IdInv, Quiet, TypeInv
  <2>3. thread[x].s \in Schemas /\ thread[x].id \in Nat
        BY <2>2 DEF Statement
  <2>. QED BY <1>3, <2>2, <2>3 DEF IdAt
<1>5. ASSUME mutex # NoMutex PROVE MutexInv' /\ DdlInv' /\ SetInv' /\ LoadedInv'
  <2>0. MutexInv /\ DdlInv /\ SetInv /\ LoadedInv
        BY <1>5 DEF CatalogInv, GuardedInv
  <2>1. MutexInv'
        BY <2>0 DEF MutexInv, Quiet
  <2>2. DdlInv'
    <3>1. SUFFICES ASSUME NEW x \in Threads PROVE DdlAt(x)'
          BY Zenon DEF DdlInv
    <3>. QED BY <2>0 DEF DdlInv, DdlAt, Quiet
  <2>3. SetInv'
    <3>1. SUFFICES ASSUME NEW s \in Schemas PROVE SetAt(s)'
          BY Zenon DEF SetInv
    <3>2. SetAt(s) /\ dbs' = dbs
          BY <2>0 DEF SetInv, Quiet
    <3>3. \A x \in Threads : /\ Between(x, "drop_schema", s)' <=> Between(x, "drop_schema", s)
                             /\ Between(x, "create_schema", s)' <=> Between(x, "create_schema", s)
          BY PendingSame
    <3>4. /\ schemas'[s].live => schemas[s].live \/ s \in dbs
          /\ schemas[s].live => schemas'[s].live
          BY DEF EntryKept, EntryFresh
    <3>. QED BY <3>2, <3>3, <3>4 DEF SetAt
  <2>4. LoadedInv'
    <3>1. ASSUME NEW s \in Schemas, EntryKept(s), NEW t \in Tables, Current(s, t)
          PROVE  Current(s, t)'
          BY <1>0, <3>1, KeptCurrent DEF EntryKept, StaleInv
    <3>2. ASSUME NEW s \in Schemas PROVE LoadedAt(s)'
      <4>1. CASE EntryFresh(s)
            BY <1>1, <4>1 DEF LoadedAt
      <4>2. CASE EntryKept(s) /\ schemas'[s].live /\ schemas'[s].inited
        <5>1. \A t \in Tables : Current(s, t)
              BY <1>5, <2>0, <4>2 DEF LoadedInv, LoadedAt, EntryKept
        <5>2. \A t \in Tables : Current(s, t)'
              BY <3>1, <4>2, <5>1
        <5>. QED BY <5>2 DEF LoadedAt
      <4>. QED BY <4>1, <4>2 DEF LoadedAt
    <3>3. ASSUME NEW x \in Threads \ {th} PROVE ScanAt(x)'
      <4>1. /\ ScanAt(x) /\ IdAt(x) /\ thread'[x] = thread[x] /\ thread[x] \in Statement
            BY <1>0, <2>0 DEF LoadedInv, IdInv, Quiet, TypeInv
      <4>2. thread[x].s \in Schemas /\ thread[x].id \in Nat /\ thread[x].todo \in SUBSET Tables
            BY <4>1 DEF Statement
      <4>3. SUFFICES ASSUME thread[x].pc = "scan", ~Freed(x)',
                            NEW t \in Tables \ thread[x].todo
                     PROVE  Current(thread[x].s, t)'
            BY <4>1 DEF ScanAt
      <4>4. schemas'[thread[x].s].live /\ schemas'[thread[x].s].id = thread[x].id
            BY <4>1, <4>3 DEF Freed
      <4>5. ~EntryFresh(thread[x].s)
            BY <1>1, <1>3, <4>1, <4>2, <4>3, <4>4 DEF IdAt
      <4>6. EntryKept(thread[x].s) /\ ~Freed(x)
            BY <4>2, <4>4, <4>5 DEF EntryKept, Freed
      <4>. QED BY <3>1, <4>1, <4>2, <4>3, <4>6 DEF ScanAt
    <3>4. ScanAt(th)'
          BY <1>5
    <3>. QED BY <3>2, <3>3, <3>4, Zenon DEF LoadedInv
  <2>. QED BY <2>1, <2>2, <2>3, <2>4
<1>. QED BY <1>2, <1>4, <1>5 DEF CatalogInv, GuardedInv, Quiet

\* A free mutex: nobody is between the warehouse and the cache.
LEMMA NobodyBetween ==
  ASSUME MutexInv, MutexFree, mutex # NoMutex, NEW x \in Threads
  PROVE  thread[x].pc # "cache"
BY ThreadAssumption DEF MutexInv, MutexFree

\* CREATE and DROP change the warehouse: what they change, they will also
\* change in the cache.
LEMMA BeginKeeps ==
  ASSUME CatalogInv, TypeInv', NEW th \in Threads, TakeMutex(th), UNCHANGED cache,
         thread[th].pc # "cache", thread'[th].pc = "cache",
         \A x \in Threads \ {th} : thread'[x] = thread[x],
         \A s \in Schemas, t \in Tables : stored'[s][t] = stored[s][t] \/ Pending(th, s, t)',
         \A s \in Schemas : \/ s \in dbs' <=> s \in dbs
                            \/ s \in dbs' /\ Between(th, "create_schema", s)'
                            \/ s \notin dbs' /\ Between(th, "drop_schema", s)',
         DdlAt(th)'
  PROVE  CatalogInv'
<1>0. TypeInv /\ StaleInv /\ IdInv
      BY DEF CatalogInv
<1>1. /\ \A x \in Threads, s \in Schemas, t \in Tables : Pending(x, s, t) => Pending(x, s, t)'
      /\ \A x \in Threads, s \in Schemas :
           /\ Between(x, "drop_schema", s) => Between(x, "drop_schema", s)'
           /\ Between(x, "create_schema", s) => Between(x, "create_schema", s)'
      BY DEF Pending, Between
<1>2. schemas' = schemas /\ schemas_inited' = schemas_inited
      BY DEF cache
<1>3. StaleInv'
  <2>1. SUFFICES ASSUME NEW s \in Schemas, NEW t \in Tables PROVE StaleAt(s, t)'
        BY Zenon DEF StaleInv
  <2>2. StaleAt(s, t)
        BY <1>0 DEF StaleInv
  <2>. QED BY <1>1, <1>2, <2>2 DEF StaleAt
<1>4. IdInv'
  <2>1. SUFFICES ASSUME NEW x \in Threads PROVE IdAt(x)'
        BY Zenon DEF IdInv
  <2>2. IdAt(x)
        BY <1>0 DEF IdInv
  <2>. QED BY <1>2, <2>2 DEF IdAt
<1>5. mutex' = NoMutex <=> mutex = NoMutex
      BY ThreadAssumption DEF TakeMutex, MutexFree
<1>6. ASSUME mutex # NoMutex PROVE MutexInv' /\ DdlInv' /\ SetInv' /\ LoadedInv'
  <2>0. MutexInv /\ DdlInv /\ SetInv /\ LoadedInv /\ mutex' = th /\ MutexFree
        BY <1>6 DEF CatalogInv, GuardedInv, TakeMutex
  <2>1. \A x \in Threads : thread[x].pc # "cache"
        BY <1>6, <2>0, NobodyBetween
  <2>2. MutexInv'
        BY <2>0, <2>1 DEF MutexInv
  <2>3. DdlInv'
    <3>1. SUFFICES ASSUME NEW x \in Threads \ {th} PROVE DdlAt(x)'
          BY Zenon DEF DdlInv
    <3>. QED BY <2>1 DEF DdlAt
  <2>4. SetInv'
    <3>1. SUFFICES ASSUME NEW s \in Schemas PROVE SetAt(s)'
          BY Zenon DEF SetInv
    <3>2. SetAt(s)
          BY <2>0 DEF SetInv
    <3>3. \A x \in Threads : ~Between(x, "drop_schema", s) /\ ~Between(x, "create_schema", s)
          BY <2>1 DEF Between
    <3>. QED BY <1>2, <3>2, <3>3 DEF SetAt
  <2>5. LoadedInv'
    <3>1. ASSUME NEW s \in Schemas, NEW t \in Tables, Current(s, t) PROVE Current(s, t)'
          BY <1>1, <1>2, <3>1 DEF Current
    <3>2. ASSUME NEW s \in Schemas PROVE LoadedAt(s)'
      <4>1. LoadedAt(s)
            BY <2>0 DEF LoadedInv
      <4>. QED BY <1>2, <3>1, <4>1 DEF LoadedAt
    <3>3. ASSUME NEW x \in Threads PROVE ScanAt(x)'
      <4>1. CASE x = th
            BY <4>1 DEF ScanAt
      <4>2. CASE x # th
        <5>1. ScanAt(x) /\ thread'[x] = thread[x] /\ thread[x].s \in Schemas
              BY <1>0, <2>0, <4>2 DEF LoadedInv, TypeInv, Statement
        <5>2. Freed(x)' <=> Freed(x)
              BY <1>2, <5>1 DEF Freed
        <5>. QED BY <3>1, <5>1, <5>2 DEF ScanAt
      <4>. QED BY <4>1, <4>2
    <3>. QED BY <3>2, <3>3, Zenon DEF LoadedInv
  <2>. QED BY <2>2, <2>3, <2>4, <2>5
<1>. QED BY <1>3, <1>4, <1>5, <1>6 DEF CatalogInv, GuardedInv

\* What the end of a CREATE or DROP may do to a table of an entry.
TableEnds(th, s, t) ==
  \/ /\ schemas'[s].tables[t] = schemas[s].tables[t]
     /\ t \in schemas'[s].lost <=> t \in schemas[s].lost
     /\ ~Pending(th, s, t)
  \/ schemas'[s].tables[t] = stored[s][t]
  \/ schemas'[s].tables[t] = 0 /\ t \in schemas'[s].lost
  \/ schemas'[s].tables[t] = 0 /\ ~schemas'[s].live
  \/ /\ schemas'[s].tables[t] = 0
     /\ mutex # NoMutex => stored[s][t] = 0 \/ schemas'[s].id # schemas[s].id

\* CREATE and DROP bring the cache up to the warehouse.
LEMMA EndKeeps ==
  ASSUME CatalogInv, TypeInv', NEW th \in Threads, ReleaseMutex(th),
         thread[th].pc = "cache", thread'[th].pc = "idle",
         \A x \in Threads \ {th} : thread'[x] = thread[x],
         UNCHANGED <<dbs, stored, schemas_inited>>,
         \A s \in Schemas, t \in Tables : TableEnds(th, s, t),
         \A s \in Schemas :
           \/ /\ schemas'[s].id = schemas[s].id /\ (schemas'[s].live => schemas[s].live)
              /\ schemas'[s].inited => schemas[s].inited
           \/ schemas'[s].id = schemas[s].id + 1 /\ ~schemas'[s].inited,
         mutex # NoMutex => \A s \in Schemas :
           /\ schemas'[s].live => s \in dbs
           /\ schemas_inited /\ s \in dbs => schemas'[s].live
  PROVE  CatalogInv'
<1>0. TypeInv /\ StaleInv /\ IdInv
      BY DEF CatalogInv
<1>1. \A x \in Threads \ {th}, s \in Schemas, t \in Tables : Pending(x, s, t)' <=> Pending(x, s, t)
      BY DEF Pending, Between
<1>2. StaleInv'
  <2>1. SUFFICES ASSUME NEW s \in Schemas, NEW t \in Tables PROVE StaleAt(s, t)'
        BY Zenon DEF StaleInv
  <2>2. StaleAt(s, t) /\ TableEnds(th, s, t)
        BY <1>0 DEF StaleInv
  <2>. QED BY <1>1, <2>2 DEF StaleAt, TableEnds
<1>3. ASSUME NEW s \in Schemas
      PROVE  schemas[s].id \in Nat /\ schemas'[s].id \in Nat /\ schemas[s].id <= schemas'[s].id
  <2>1. schemas[s].id \in Nat
        BY <1>0 DEF TypeInv, Entry
  <2>2. schemas'[s].id = schemas[s].id \/ schemas'[s].id = schemas[s].id + 1
        OBVIOUS
  <2>. QED BY <2>1, <2>2
<1>4. IdInv'
  <2>1. SUFFICES ASSUME NEW x \in Threads PROVE IdAt(x)'
        BY Zenon DEF IdInv
  <2>2. CASE x # th
    <3>1. IdAt(x) /\ thread'[x] = thread[x] /\ thread[x] \in Statement
          BY <1>0, <2>2 DEF IdInv, TypeInv
    <3>2. thread[x].s \in Schemas /\ thread[x].id \in Nat
          BY <3>1 DEF Statement
    <3>. QED BY <1>3, <3>1, <3>2 DEF IdAt
  <2>. QED BY <2>2 DEF IdAt
<1>5. mutex' = NoMutex <=> mutex = NoMutex
      BY ThreadAssumption DEF ReleaseMutex
<1>6. ASSUME mutex # NoMutex PROVE MutexInv' /\ DdlInv' /\ SetInv' /\ LoadedInv'
  <2>0. MutexInv /\ DdlInv /\ SetInv /\ LoadedInv
        BY <1>6 DEF CatalogInv, GuardedInv
  <2>1. mutex = th /\ mutex' = NoThread /\ \A x \in Threads \ {th} : thread[x].pc # "cache"
        BY <2>0 DEF MutexInv, ReleaseMutex
  <2>2. \A x \in Threads : thread'[x].pc # "cache"
        BY <2>1
  <2>3. MutexInv'
        BY <2>1, <2>2, ThreadAssumption DEF MutexInv
  <2>4. DdlInv'
        BY <2>2 DEF DdlInv, DdlAt
  <2>5. SetInv'
        BY <1>6 DEF SetInv, SetAt
  <2>6. ASSUME NEW s \in Schemas, NEW t \in Tables, Current(s, t),
               schemas'[s].live, schemas'[s].id = schemas[s].id
        PROVE  Current(s, t)'
    <3>1. TableEnds(th, s, t)
          OBVIOUS
    <3>2. \A x \in Threads : Pending(x, s, t) => x = th
          BY <2>1 DEF Pending, Between
    <3>. QED BY <1>6, <2>6, <3>1, <3>2 DEF TableEnds, Current
  <2>7. ASSUME NEW s \in Schemas PROVE LoadedAt(s)'
    <3>1. CASE schemas'[s].live /\ schemas'[s].inited
      <4>1. schemas'[s].id = schemas[s].id /\ schemas[s].live /\ schemas[s].inited
            BY <3>1
      <4>2. \A t \in Tables : Current(s, t)
            BY <2>0, <4>1 DEF LoadedInv, LoadedAt
      <4>3. \A t \in Tables : Current(s, t)'
            BY <2>6, <3>1, <4>1, <4>2
      <4>. QED BY <4>3 DEF LoadedAt
    <3>. QED BY <3>1 DEF LoadedAt
  <2>8. ASSUME NEW x \in Threads PROVE ScanAt(x)'
    <3>1. CASE x # th /\ thread[x].pc = "scan" /\ ~Freed(x)'
      <4>1. ScanAt(x) /\ IdAt(x) /\ thread'[x] = thread[x] /\ thread[x] \in Statement
            BY <1>0, <2>0, <3>1 DEF LoadedInv, IdInv, TypeInv
      <4>2. thread[x].s \in Schemas /\ thread[x].id \in Nat /\ thread[x].todo \in SUBSET Tables
            BY <4>1 DEF Statement
      <4>3. schemas'[thread[x].s].live /\ schemas'[thread[x].s].id = thread[x].id
            BY <3>1, <4>1 DEF Freed
      <4>4. schemas'[thread[x].s].id = schemas[thread[x].s].id
        <5>1. thread[x].id <= schemas[thread[x].s].id
              BY <3>1, <4>1 DEF IdAt
        <5>. QED BY <1>3, <4>2, <4>3, <5>1
      <4>5. schemas[thread[x].s].live
        <5>1. \A i \in Nat : i # i + 1
              OBVIOUS
        <5>2. schemas[thread[x].s].id \in Nat
              BY <1>3, <4>2
        <5>. QED BY <4>2, <4>3, <4>4, <5>1, <5>2
      <4>6. \A t \in Tables \ thread[x].todo : Current(thread[x].s, t)
            BY <3>1, <4>1, <4>3, <4>4, <4>5 DEF ScanAt, Freed
      <4>7. \A t \in Tables \ thread[x].todo : Current(thread[x].s, t)'
        <5>1. PICK z \in Schemas : z = thread[x].s
              BY <4>2
        <5>2. \A t \in Tables \ thread[x].todo : Current(z, t)'
              BY <2>6, <4>2, <4>3, <4>4, <4>6, <5>1
        <5>. QED BY <4>1, <5>1, <5>2
      <4>. QED BY <4>1, <4>7 DEF ScanAt
    <3>2. CASE x = th
          BY <3>2 DEF ScanAt
    <3>3. CASE x # th /\ ~(thread[x].pc = "scan" /\ ~Freed(x)')
          BY <3>3 DEF ScanAt
    <3>. QED BY <3>1, <3>2, <3>3
  <2>9. LoadedInv'
        BY <2>7, <2>8, Zenon DEF LoadedInv
  <2>. QED BY <2>3, <2>4, <2>5, <2>9
<1>. QED BY <1>2, <1>4, <1>5, <1>6 DEF CatalogInv, GuardedInv

-----------------------------------------------------------------------------
(***************************************************************************)
(* The invariant is inductive: one lemma per operation.                    *)
(***************************************************************************)

\* The warehouse of Init, and a cache with nothing in it.
LEMMA InvInit == Init => CatalogInv
<1>. SUFFICES ASSUME Init PROVE CatalogInv
     OBVIOUS
<1>1. SchemaEntry(0, FALSE) \in Entry /\ ~SchemaEntry(0, FALSE).live
      /\ \A t \in Tables : SchemaEntry(0, FALSE).tables[t] = 0
      BY SchemaEntryIs
<1>2. \A s \in Schemas : schemas[s] = SchemaEntry(0, FALSE)
      BY DEF Init
<1>3. \A th \in Threads : thread[th] = NoStatement /\ thread[th].pc = "idle"
      BY NoStatementIs DEF Init
<1>4. TypeInv
  <2>1. thread \in [Threads -> Statement] /\ schemas \in [Schemas -> Entry]
        BY <1>1, NoStatementIs DEF Init
  <2>2. stored \in [Schemas -> [Tables -> Nat]]
        BY DEF Init
  <2>. QED BY <2>1, <2>2 DEF Init, TypeInv
<1>5. StaleInv
      BY <1>1, <1>2 DEF StaleInv, StaleAt
<1>6. IdInv
      BY <1>3 DEF IdInv, IdAt
<1>7. mutex # NoMutex => MutexInv
      BY <1>3, ThreadAssumption DEF Init, MutexInv
<1>8. DdlInv /\ LoadedInv
      BY <1>1, <1>2, <1>3 DEF DdlInv, DdlAt, LoadedInv, LoadedAt, ScanAt
<1>9. SetInv
      BY <1>1, <1>2 DEF Init, SetInv, SetAt
<1>. QED BY <1>4, <1>5, <1>6, <1>7, <1>8, <1>9 DEF CatalogInv, GuardedInv

\* An entry that a step leaves alone is kept.
LEMMA SameKept ==
  ASSUME NEW s \in Schemas, schemas'[s] = schemas[s]
  PROVE  EntryKept(s)
BY DEF EntryKept, TableKept

\* The schema set loads its entries.
LEMMA LoadKeeps ==
  ASSUME CatalogInv, TypeInv', NEW th \in Threads, Quiet(th),
         schemas' = LoadEntries, schemas_inited' = TRUE, thread'[th].pc # "scan"
  PROVE  CatalogInv'
<1>0. TypeInv
      BY DEF CatalogInv
<1>1. ASSUME NEW s \in Schemas
      PROVE  /\ (EntryKept(s) /\ schemas'[s] = schemas[s]) \/ EntryFresh(s)
             /\ schemas_inited \/ (s \in dbs => schemas'[s].live)
  <2>1. \/ schemas'[s] = schemas[s] /\ (schemas_inited \/ s \notin dbs \/ schemas[s].live)
        \/ EntryFresh(s)
        BY <1>0, LoadEntriesIs DEF EntryFresh
  <2>2. CASE EntryFresh(s)
    <3>1. schemas[s] \in Entry
          BY <1>0 DEF TypeInv
    <3>2. schemas[s].id + 1 \in Nat
          BY <3>1 DEF Entry
    <3>3. PICK n \in Nat : n = schemas[s].id + 1
          BY <3>2
    <3>4. schemas'[s] = SchemaEntry(n, TRUE) /\ SchemaEntry(n, TRUE).live
          BY <2>2, <3>3, SchemaEntryIs DEF EntryFresh
    <3>5. schemas'[s].live
          BY <3>4
    <3>. QED BY <2>2, <3>5
  <2>3. CASE schemas'[s] = schemas[s] /\ (schemas_inited \/ s \notin dbs \/ schemas[s].live)
        BY <2>3, SameKept
  <2>. QED BY <2>1, <2>2, <2>3
<1>2. ASSUME NEW s \in Schemas, EntryKept(s), schemas'[s].inited PROVE schemas[s].inited
  <2>1. CASE EntryFresh(s)
    <3>1. schemas[s] \in Entry
          BY <1>0 DEF TypeInv
    <3>2. PICK n \in Nat : n = schemas[s].id /\ n + 1 # n
          BY <3>1 DEF Entry
    <3>3. schemas'[s].id = n + 1
      <4>1. n + 1 \in Nat /\ schemas'[s] = SchemaEntry(n + 1, TRUE)
            BY <2>1, <3>2 DEF EntryFresh
      <4>2. SchemaEntry(n + 1, TRUE).id = n + 1
            BY <4>1, SchemaEntryIs
      <4>. QED BY <4>1, <4>2
    <3>. QED BY <1>2, <3>2, <3>3 DEF EntryKept
  <2>. QED BY <1>1, <1>2, <2>1
<1>3. IdAt(th)' /\ ScanAt(th)'
      BY DEF IdAt, ScanAt
<1>4. schemas_inited \/ \A s \in dbs : schemas'[s].live
      BY <1>0, <1>1 DEF TypeInv
<1>. QED BY <1>1, <1>2, <1>3, <1>4, ReadKeeps

\* A statement on a table is bound: it finds its schema, or fails.
LEMMA InvLookupSchema ==
  ASSUME CatalogInv, NEW th \in Threads, NEW s \in Schemas, NEW t \in Tables,
         NEW op \in {"get", "scan", "create_table", "drop_table"}, LookupSchema(th, op, s, t)
  PROVE  CatalogInv'
<1>0. TypeInv
      BY DEF CatalogInv
<1>1. /\ schemas' = LoadEntries /\ schemas_inited' = TRUE /\ thread[th].pc = "idle"
      /\ ddl' = ddl \/ ddl' = ddl + 1
      /\ UNCHANGED <<disk, locks, undefined>>
      BY DEF LookupSchema, Idle
<1>2. LoadEntries \in [Schemas -> Entry] /\ LoadEntries[s].id \in Nat
      BY <1>0, LoadEntriesIs DEF Entry
<1>3. thread' \in [Threads -> Statement] /\ thread'[th].pc \in {"idle", "bound", "execute"}
      /\ \A x \in Threads \ {th} : thread'[x] = thread[x]
  <2>. DEFINE new == [pc |-> IF op = "create_table" THEN "execute" ELSE "bound",
                      op |-> op, s |-> s, t |-> t, id |-> LoadEntries[s].id, todo |-> {}]
  <2>1. new \in Statement /\ new.pc \in {"bound", "execute"}
        BY <1>2 DEF Statement
  <2>2. thread' = thread \/ thread' = [thread EXCEPT ![th] = new]
        BY DEF LookupSchema
  <2>. HIDE DEF new
  <2>. QED BY <1>0, <1>1, <2>1, <2>2 DEF TypeInv
<1>4. TypeInv'
  <2>1. ddl' \in Nat /\ schemas' \in [Schemas -> Entry]
        BY <1>0, <1>1, <1>2 DEF TypeInv
  <2>2. schemas_inited' \in BOOLEAN
        BY <1>1, Zenon
  <2>. QED BY <1>0, <1>1, <1>3, <2>1, <2>2 DEF TypeInv, disk, locks
<1>5. Quiet(th) /\ thread'[th].pc # "scan"
      BY <1>1, <1>3 DEF Quiet, disk, locks
<1>. QED BY <1>1, <1>4, <1>5, LoadKeeps

\* The schema set is scanned.
LEMMA InvScanSchemas ==
  ASSUME CatalogInv, NEW th \in Threads, ScanSchemas(th)
  PROVE  CatalogInv'
<1>0. TypeInv
      BY DEF CatalogInv
<1>1. LoadEntries \in [Schemas -> Entry]
      BY <1>0, LoadEntriesIs
<1>2. TypeInv' /\ Quiet(th) /\ thread'[th].pc # "scan"
      BY <1>0, <1>1 DEF ScanSchemas, Idle, TypeInv, Quiet, disk, locks
<1>. QED BY <1>2, LoadKeeps DEF ScanSchemas

\* Building an entry keeps every entry and leaves the table current.
LEMMA BuildKeeps ==
  ASSUME CatalogInv, NEW th \in Threads, Quiet(th),
         NEW s \in Schemas, NEW t \in Tables, schemas' = BuildEntry(s, t)
  PROVE  /\ schemas' \in [Schemas -> Entry]
         /\ \A x \in Schemas : EntryKept(x) /\ schemas'[x].inited = schemas[x].inited
         /\ Current(s, t)'
<1>0. TypeInv
      BY DEF CatalogInv
<1>. DEFINE d == IF schemas[s].tables[t] = 0 THEN stored[s][t] ELSE schemas[s].tables[t]
            L == schemas[s].lost \ {t}
<1>1. schemas[s] \in Entry /\ stored[s][t] \in Nat
      BY <1>0 DEF TypeInv
<1>2. d \in Nat /\ L \in SUBSET Tables
      BY <1>1 DEF Entry
<1>3. schemas' = Put(s, t, d, L)
      BY DEF BuildEntry, Put
<1>4. (schemas[s].tables[t] = 0 /\ d = stored[s][t]) \/ (schemas[s].tables[t] # 0 /\ d = schemas[s].tables[t])
      OBVIOUS
<1>5. \A x \in Tables : x \in L <=> x \in schemas[s].lost /\ x # t
      OBVIOUS
<1>. HIDE DEF d, L
<1>6. /\ schemas' \in [Schemas -> Entry]
      /\ \A x \in Schemas \ {s} : schemas'[x] = schemas[x]
      /\ schemas'[s].id = schemas[s].id /\ schemas'[s].live = schemas[s].live
      /\ schemas'[s].inited = schemas[s].inited /\ schemas'[s].lost = L
      /\ schemas'[s].tables[t] = d
      /\ \A u \in Tables \ {t} : schemas'[s].tables[u] = schemas[s].tables[u]
      BY <1>0, <1>2, <1>3, TableSet
<1>7. EntryKept(s)
  <2>1. TableKept(s, t)
        BY <1>4, <1>5, <1>6 DEF TableKept
  <2>2. \A u \in Tables \ {t} : TableKept(s, u)
        BY <1>5, <1>6 DEF TableKept
  <2>. QED BY <1>6, <2>1, <2>2 DEF EntryKept
<1>8. \A x \in Schemas : EntryKept(x) /\ schemas'[x].inited = schemas[x].inited
      BY <1>6, <1>7, SameKept
<1>9. Current(s, t)'
  <2>1. StaleAt(s, t) /\ TableKept(s, t) /\ t \notin schemas'[s].lost
        BY <1>5, <1>6, <1>7 DEF CatalogInv, StaleInv, EntryKept
  <2>2. schemas'[s].tables[t] # 0 \/ schemas'[s].tables[t] = stored[s][t]
        BY <1>4, <1>6
  <2>. QED BY <2>1, <2>2, KeptCurrent
<1>. QED BY <1>6, <1>8, <1>9

\* A table is looked up.
LEMMA InvLookupEntry ==
  ASSUME CatalogInv, NEW th \in Threads, LookupEntry(th)
  PROVE  CatalogInv'
<1>0. TypeInv
      BY DEF CatalogInv
<1>1. /\ schemas' = BuildEntry(thread[th].s, thread[th].t) /\ thread[th].pc = "bound"
      /\ Goto(th, "execute") \/ Return(th)
      /\ UNCHANGED <<disk, schemas_inited, locks, ddl, undefined>>
      BY DEF LookupEntry, At
<1>2. thread' \in [Threads -> Statement] /\ thread'[th].pc \in {"idle", "execute"}
      /\ \A x \in Threads \ {th} : thread'[x] = thread[x]
      BY <1>0, <1>1, GotoIs, ReturnIs
<1>3. Quiet(th) /\ thread[th].s \in Schemas /\ thread[th].t \in Tables
      BY <1>0, <1>1, <1>2 DEF Quiet, disk, locks, TypeInv, Statement
<1>4. /\ schemas' \in [Schemas -> Entry]
      /\ \A x \in Schemas : EntryKept(x) /\ schemas'[x].inited = schemas[x].inited
      BY <1>1, <1>3, BuildKeeps
<1>5. TypeInv'
      BY <1>0, <1>1, <1>2, <1>4 DEF TypeInv, disk, locks
<1>6. IdAt(th)' /\ ScanAt(th)' /\ schemas_inited' = schemas_inited
      BY <1>1, <1>2 DEF IdAt, ScanAt
<1>. QED BY <1>3, <1>4, <1>5, <1>6, ReadKeeps

\* Steps after which the cache is as it was and the thread does not scan.
LEMMA QuietKeeps ==
  ASSUME CatalogInv, TypeInv', NEW th \in Threads, Quiet(th), UNCHANGED cache,
         IdAt(th)', mutex # NoMutex => ScanAt(th)'
  PROVE  CatalogInv'
<1>1. \A s \in Schemas : EntryKept(s) /\ schemas'[s].inited = schemas[s].inited
      BY SameKept DEF cache
<1>2. schemas_inited' = schemas_inited
      BY DEF cache
<1>. QED BY <1>1, <1>2, ReadKeeps

\* A statement ends without effect: it throws, or there is nothing to load.
LEMMA InvReturns ==
  ASSUME CatalogInv, NEW th \in Threads, Return(th), thread[th].pc # "cache",
         UNCHANGED <<disk, cache, mutex, ddl, undefined>>,
         entry_lock' \in [Schemas -> Threads \cup {NoThread}]
  PROVE  CatalogInv'
<1>0. TypeInv
      BY DEF CatalogInv
<1>1. thread' \in [Threads -> Statement] /\ thread'[th].pc = "idle"
      /\ \A x \in Threads \ {th} : thread'[x] = thread[x]
      BY <1>0, ReturnIs
<1>2. TypeInv' /\ Quiet(th) /\ IdAt(th)' /\ ScanAt(th)'
      BY <1>0, <1>1 DEF TypeInv, Quiet, IdAt, ScanAt, disk, cache
<1>. QED BY <1>2, QuietKeeps

\* The first scan of a table set lists the tables: those that it does not list
\* have no entry, or one that is about to go.
LEMMA InvScanList ==
  ASSUME CatalogInv, NEW th \in Threads, ScanList(th)
  PROVE  CatalogInv'
<1>0. TypeInv
      BY DEF CatalogInv
<1>1. /\ thread[th].pc = "bound" /\ thread[th].op = "scan" /\ ~Freed(th)
      /\ UNCHANGED <<disk, cache, mutex, ddl, undefined>>
      BY DEF ScanList, At
<1>2. CASE Return(th) /\ UNCHANGED entry_lock
      BY <1>0, <1>1, <1>2, InvReturns DEF TypeInv
<1>. DEFINE s == thread[th].s
            todo == {t \in Tables : stored[s][t] # 0}
            new == [thread[th] EXCEPT !.pc = "scan", !.todo = todo]
<1>3. CASE thread' = [thread EXCEPT ![th] = new] /\ entry_lock' = [entry_lock EXCEPT ![s] = th]
  <2>1. thread[th] \in Statement
        BY <1>0 DEF TypeInv
  <2>2. /\ new \in Statement /\ new.pc = "scan" /\ new.todo = todo
        /\ new.s = s /\ new.id = thread[th].id
        BY <2>1 DEF Statement
  <2>3. s \in Schemas /\ thread[th].id \in Nat
        BY <2>1 DEF Statement
  <2>4. thread' \in [Threads -> Statement] /\ thread'[th] = new
        /\ \A x \in Threads \ {th} : thread'[x] = thread[x]
    <3>. HIDE DEF new
    <3>. QED BY <1>0, <1>3, <2>2 DEF TypeInv
  <2>5. thread'[th].pc = "scan" /\ thread'[th].todo = todo /\ thread'[th].s = s
        /\ thread'[th].id = thread[th].id
        BY <2>2, <2>4
  <2>6. entry_lock' \in [Schemas -> Threads \cup {NoThread}]
        BY <1>0, <1>3 DEF TypeInv
  <2>. HIDE DEF new
  <2>7. TypeInv' /\ Quiet(th)
        BY <1>0, <1>1, <2>4, <2>5, <2>6 DEF TypeInv, Quiet, disk, cache
  <2>8. IdAt(th)'
    <3>1. schemas[s].id = thread[th].id /\ schemas' = schemas
          BY <1>1 DEF Freed, cache
    <3>. QED BY <2>3, <2>5, <3>1 DEF IdAt
  <2>9. ScanAt(th)'
    <3>1. SUFFICES ASSUME NEW t \in Tables, t \notin todo PROVE Current(thread[th].s, t)'
          BY <2>5 DEF ScanAt
    <3>2. PICK z \in Schemas : z = s
          BY <2>3
    <3>3. StaleAt(z, t) /\ stored[z][t] = 0
          BY <3>1, <3>2 DEF CatalogInv, StaleInv
    <3>4. Current(z, t)
          BY <3>3 DEF StaleAt, Current
    <3>5. EntryKept(z)
          BY <1>1, SameKept DEF cache
    <3>6. Current(z, t)'
          BY <2>7, <3>3, <3>4, <3>5, KeptCurrent DEF EntryKept
    <3>. QED BY <2>5, <3>2, <3>6
  <2>. QED BY <1>1, <2>7, <2>8, <2>9, QuietKeeps
<1>4. \/ Return(th) /\ UNCHANGED entry_lock
      \/ thread' = [thread EXCEPT ![th] = new] /\ entry_lock' = [entry_lock EXCEPT ![s] = th]
      BY DEF ScanList
<1>. QED BY <1>2, <1>3, <1>4

\* The scan loads one table.
LEMMA InvScanBuild ==
  ASSUME CatalogInv, NEW th \in Threads, NEW t \in Tables, ScanBuild(th, t)
  PROVE  CatalogInv'
<1>0. TypeInv
      BY DEF CatalogInv
<1>. DEFINE s == thread[th].s
            new == [thread[th] EXCEPT !.todo = @ \ {t}]
<1>1. /\ thread[th].pc = "scan" /\ ~Freed(th) /\ t \in thread[th].todo
      /\ schemas' = BuildEntry(s, t) /\ thread' = [thread EXCEPT ![th] = new]
      /\ UNCHANGED <<disk, schemas_inited, locks, ddl, undefined>>
      BY DEF ScanBuild, At
<1>2. thread[th] \in Statement
      BY <1>0 DEF TypeInv
<1>3. /\ new \in Statement /\ new.pc = "scan" /\ new.todo = thread[th].todo \ {t}
      /\ new.s = s /\ new.id = thread[th].id
      BY <1>1, <1>2 DEF Statement
<1>4. s \in Schemas /\ thread[th].id \in Nat
      BY <1>2 DEF Statement
<1>. HIDE DEF new
<1>5. thread' \in [Threads -> Statement] /\ thread'[th] = new
      /\ \A x \in Threads \ {th} : thread'[x] = thread[x]
      BY <1>0, <1>1, <1>3 DEF TypeInv
<1>6. Quiet(th)
      BY <1>1, <1>3, <1>5 DEF Quiet, disk, locks
<1>7. PICK z \in Schemas : z = s
      BY <1>4
<1>8. /\ schemas' \in [Schemas -> Entry] /\ Current(z, t)'
      /\ \A x \in Schemas : EntryKept(x) /\ schemas'[x].inited = schemas[x].inited
      BY <1>1, <1>6, <1>7, BuildKeeps
<1>9. TypeInv'
      BY <1>0, <1>1, <1>5, <1>8 DEF TypeInv, disk, locks
<1>10. IdAt(th)'
  <2>1. schemas[s].id = thread[th].id /\ schemas'[s].id = schemas[s].id
        BY <1>1, <1>7, <1>8 DEF Freed, EntryKept
  <2>. QED BY <1>3, <1>4, <1>5, <2>1 DEF IdAt
<1>11. ASSUME mutex # NoMutex PROVE ScanAt(th)'
  <2>1. SUFFICES ASSUME NEW u \in Tables, u \notin thread[th].todo \/ u = t PROVE Current(thread[th].s, u)'
        BY <1>3, <1>5 DEF ScanAt
  <2>2. CASE u = t
        BY <1>3, <1>5, <1>7, <1>8, <2>2
  <2>3. CASE u \notin thread[th].todo
    <3>1. Current(z, u)
          BY <1>1, <1>7, <1>11, <2>3 DEF CatalogInv, GuardedInv, LoadedInv, ScanAt
    <3>2. Current(z, u)'
          BY <1>6, <1>8, <3>1, KeptCurrent DEF CatalogInv, StaleInv, EntryKept
    <3>. QED BY <1>3, <1>5, <1>7, <3>2
  <2>. QED BY <2>1, <2>2, <2>3
<1>12. schemas_inited' = schemas_inited
       BY <1>1
<1>. QED BY <1>6, <1>8, <1>9, <1>10, <1>11, <1>12, ReadKeeps

\* The scan is done: the table set counts as loaded.
LEMMA InvScanDone ==
  ASSUME CatalogInv, NEW th \in Threads, ScanDone(th)
  PROVE  CatalogInv'
<1>0. TypeInv
      BY DEF CatalogInv
<1>. DEFINE e == [schemas[thread[th].s] EXCEPT !.inited = TRUE]
<1>1. /\ thread[th].pc = "scan" /\ ~Freed(th) /\ thread[th].todo = {} /\ Return(th)
      /\ schemas' = [schemas EXCEPT ![thread[th].s] = e]
      /\ entry_lock' = [entry_lock EXCEPT ![thread[th].s] = NoThread]
      /\ UNCHANGED <<disk, schemas_inited, mutex, ddl, undefined>>
      BY DEF ScanDone, At
<1>2. PICK s \in Schemas : s = thread[th].s
      BY <1>0 DEF TypeInv, Statement
<1>3. schemas[s] \in Entry
      BY <1>0 DEF TypeInv
<1>4. /\ e \in Entry /\ e.id = schemas[s].id /\ e.live = schemas[s].live
      /\ e.tables = schemas[s].tables /\ e.lost = schemas[s].lost
      BY <1>2, <1>3 DEF Entry
<1>. HIDE DEF e
<1>5. /\ schemas' \in [Schemas -> Entry] /\ schemas'[s] = e
      /\ \A x \in Schemas \ {s} : schemas'[x] = schemas[x]
      BY <1>0, <1>1, <1>2, <1>4 DEF TypeInv
<1>6. EntryKept(s)
      BY <1>4, <1>5 DEF EntryKept, TableKept
<1>7. \A x \in Schemas \ {s} : EntryKept(x)
      BY <1>5, SameKept
<1>8. thread' \in [Threads -> Statement] /\ thread'[th].pc = "idle"
      /\ \A x \in Threads \ {th} : thread'[x] = thread[x]
      BY <1>0, <1>1, ReturnIs
<1>9. entry_lock' \in [Schemas -> Threads \cup {NoThread}]
      BY <1>0, <1>1 DEF TypeInv
<1>10. TypeInv' /\ Quiet(th)
       BY <1>0, <1>1, <1>5, <1>8, <1>9 DEF TypeInv, Quiet, disk
<1>11. mutex # NoMutex => \A t \in Tables : Current(s, t)
       BY <1>1, <1>2 DEF CatalogInv, GuardedInv, LoadedInv, ScanAt
<1>12. IdAt(th)' /\ ScanAt(th)' /\ schemas_inited' = schemas_inited
       BY <1>1, <1>8 DEF IdAt, ScanAt
<1>13. \A x \in Schemas : EntryKept(x) /\ schemas'[x].inited =>
         schemas[x].inited \/ (mutex # NoMutex => \A t \in Tables : Current(x, t))
       BY <1>5, <1>11
<1>. QED BY <1>6, <1>7, <1>10, <1>12, <1>13, ReadKeeps

\* A lookup or a scan fails.
LEMMA InvLookupFails ==
  ASSUME CatalogInv, NEW th \in Threads, LookupFails(th) \/ ScanFails(th)
  PROVE  CatalogInv'
<1>0. entry_lock \in [Schemas -> Threads \cup {NoThread}]
      BY DEF CatalogInv, TypeInv
<1>1. /\ Return(th) /\ thread[th].pc # "cache"
      /\ UNCHANGED <<disk, cache, mutex, ddl, undefined>>
      /\ entry_lock' \in [Schemas -> Threads \cup {NoThread}]
  <2>1. CASE LookupFails(th)
        BY <1>0, <2>1 DEF LookupFails, At, locks
  <2>2. CASE ScanFails(th)
        BY <1>0, <2>2 DEF ScanFails, At
  <2>. QED BY <2>1, <2>2
<1>. QED BY <1>1, InvReturns

\* CREATE TABLE calls Paimon, or fails.
LEMMA InvCreateTable ==
  ASSUME CatalogInv, NEW th \in Threads, NEW ignore \in BOOLEAN, CreateTable(th, ignore)
  PROVE  CatalogInv'
<1>0. TypeInv
      BY DEF CatalogInv
<1>1. thread[th].pc = "execute" /\ thread[th].op = "create_table"
      BY DEF CreateTable, At
<1>2. PICK s \in Schemas, t \in Tables : s = thread[th].s /\ t = thread[th].t
      BY <1>0 DEF TypeInv, Statement
<1>3. CASE Throws(th)
      BY <1>0, <1>1, <1>3, InvReturns DEF Throws, TypeInv, locks
<1>. DEFINE d == IF stored[s][t] # 0 THEN stored[s][t] ELSE ddl + 1
<1>4. CASE /\ TakeMutex(th) /\ stored' = [stored EXCEPT ![s][t] = d]
           /\ Goto(th, "cache") /\ UNCHANGED <<dbs, cache, entry_lock, ddl, undefined>>
  <2>1. /\ thread' \in [Threads -> Statement] /\ thread'[th].pc = "cache"
        /\ thread'[th].op = "create_table" /\ thread'[th].s = s /\ thread'[th].t = t
        /\ \A x \in Threads \ {th} : thread'[x] = thread[x]
        BY <1>0, <1>1, <1>2, <1>4, GotoIs
  <2>2. d \in Nat
        BY <1>0 DEF TypeInv
  <2>. HIDE DEF d
  <2>3. /\ stored' \in [Schemas -> [Tables -> Nat]]
        /\ \A x \in Schemas, u \in Tables : (x = s /\ u = t) \/ stored'[x][u] = stored[x][u]
        BY <1>0, <1>4, <2>2 DEF TypeInv
  <2>4. mutex' \in Threads \cup {NoThread, NoMutex}
        BY <1>4 DEF TakeMutex
  <2>5. TypeInv'
        BY <1>0, <1>4, <2>1, <2>3, <2>4 DEF TypeInv, cache
  <2>6. \A x \in Schemas, u \in Tables : stored'[x][u] = stored[x][u] \/ Pending(th, x, u)'
        BY <2>1, <2>3 DEF Pending, Between
  <2>7. DdlAt(th)'
        BY <2>1 DEF DdlAt
  <2>. QED BY <1>1, <1>4, <2>1, <2>5, <2>6, <2>7, BeginKeeps
<1>. QED BY <1>2, <1>3, <1>4 DEF CreateTable

\* DROP TABLE calls Paimon, or fails.
LEMMA InvDropTable ==
  ASSUME CatalogInv, NEW th \in Threads, NEW ignore \in BOOLEAN, DropTable(th, ignore)
  PROVE  CatalogInv'
<1>0. TypeInv
      BY DEF CatalogInv
<1>1. thread[th].pc = "execute" /\ thread[th].op = "drop_table"
      BY DEF DropTable, At
<1>2. PICK s \in Schemas, t \in Tables : s = thread[th].s /\ t = thread[th].t
      BY <1>0 DEF TypeInv, Statement
<1>3. CASE Throws(th)
      BY <1>0, <1>1, <1>3, InvReturns DEF Throws, TypeInv, locks
<1>4. CASE /\ TakeMutex(th) /\ stored' = [stored EXCEPT ![s][t] = 0]
           /\ Goto(th, "cache") /\ UNCHANGED <<dbs, cache, entry_lock, ddl, undefined>>
  <2>1. /\ thread' \in [Threads -> Statement] /\ thread'[th].pc = "cache"
        /\ thread'[th].op = "drop_table" /\ thread'[th].s = s /\ thread'[th].t = t
        /\ \A x \in Threads \ {th} : thread'[x] = thread[x]
        BY <1>0, <1>1, <1>2, <1>4, GotoIs
  <2>3. /\ stored' \in [Schemas -> [Tables -> Nat]] /\ stored'[s][t] = 0
        /\ \A x \in Schemas, u \in Tables : (x = s /\ u = t) \/ stored'[x][u] = stored[x][u]
        BY <1>0, <1>4 DEF TypeInv
  <2>4. mutex' \in Threads \cup {NoThread, NoMutex}
        BY <1>4 DEF TakeMutex
  <2>5. TypeInv'
        BY <1>0, <1>4, <2>1, <2>3, <2>4 DEF TypeInv, cache
  <2>6. \A x \in Schemas, u \in Tables : stored'[x][u] = stored[x][u] \/ Pending(th, x, u)'
        BY <2>1, <2>3 DEF Pending, Between
  <2>7. DdlAt(th)'
        BY <2>1, <2>3 DEF DdlAt
  <2>. QED BY <1>1, <1>4, <2>1, <2>5, <2>6, <2>7, BeginKeeps
<1>. QED BY <1>2, <1>3, <1>4 DEF DropTable

\* CREATE SCHEMA calls Paimon.
LEMMA InvCreateSchema ==
  ASSUME CatalogInv, NEW th \in Threads, NEW s \in Schemas, NEW ignore \in BOOLEAN,
         CreateSchema(th, s, ignore)
  PROVE  CatalogInv'
<1>0. TypeInv
      BY DEF CatalogInv
<1>1. /\ thread[th].pc = "idle" /\ TakeMutex(th) /\ dbs' = dbs \cup {s} /\ ddl' = ddl + 1
      /\ thread' = Begin(th, "create_schema", s)
      /\ UNCHANGED <<stored, cache, entry_lock, undefined>>
      BY DEF CreateSchema, Idle
<1>2. /\ thread' \in [Threads -> Statement] /\ thread'[th].pc = "cache"
      /\ thread'[th].op = "create_schema" /\ thread'[th].s = s
      /\ \A x \in Threads \ {th} : thread'[x] = thread[x]
      BY <1>0, <1>1, BeginIs
<1>3. mutex' \in Threads \cup {NoThread, NoMutex}
      BY <1>1 DEF TakeMutex
<1>4. TypeInv'
      BY <1>0, <1>1, <1>2, <1>3 DEF TypeInv, cache
<1>5. \A x \in Schemas : (x \in dbs' <=> x \in dbs) \/ (x \in dbs' /\ Between(th, "create_schema", x)')
      BY <1>1, <1>2 DEF Between
<1>6. DdlAt(th)'
      BY <1>1, <1>2 DEF DdlAt
<1>7. \A x \in Schemas, u \in Tables : stored'[x][u] = stored[x][u]
      BY <1>1
<1>. QED BY <1>1, <1>2, <1>4, <1>5, <1>6, <1>7, BeginKeeps

\* DROP SCHEMA calls Paimon.
LEMMA InvDropSchema ==
  ASSUME CatalogInv, NEW th \in Threads, NEW s \in Schemas, NEW ignore \in BOOLEAN,
         NEW cascade \in BOOLEAN, DropSchema(th, s, ignore, cascade)
  PROVE  CatalogInv'
<1>0. TypeInv
      BY DEF CatalogInv
<1>1. /\ thread[th].pc = "idle" /\ TakeMutex(th) /\ dbs' = dbs \ {s} /\ ddl' = ddl + 1
      /\ thread' = Begin(th, "drop_schema", s) /\ stored' = [stored EXCEPT ![s] = NoTables]
      /\ UNCHANGED <<cache, entry_lock, undefined>>
      BY DEF DropSchema, Idle
<1>2. /\ thread' \in [Threads -> Statement] /\ thread'[th].pc = "cache"
      /\ thread'[th].op = "drop_schema" /\ thread'[th].s = s
      /\ \A x \in Threads \ {th} : thread'[x] = thread[x]
      BY <1>0, <1>1, BeginIs
<1>3. mutex' \in Threads \cup {NoThread, NoMutex}
      BY <1>1 DEF TakeMutex
<1>4. /\ stored' \in [Schemas -> [Tables -> Nat]]
      /\ \A x \in Schemas \ {s} : stored'[x] = stored[x]
      BY <1>0, <1>1 DEF TypeInv, NoTables
<1>5. TypeInv'
      BY <1>0, <1>1, <1>2, <1>3, <1>4 DEF TypeInv, cache
<1>6. \A x \in Schemas : (x \in dbs' <=> x \in dbs) \/ (x \notin dbs' /\ Between(th, "drop_schema", x)')
      BY <1>1, <1>2 DEF Between
<1>7. DdlAt(th)'
      BY <1>1, <1>2 DEF DdlAt
<1>8. \A x \in Schemas, u \in Tables : stored'[x][u] = stored[x][u] \/ Pending(th, x, u)'
      BY <1>2, <1>4 DEF Pending, Between
<1>. QED BY <1>1, <1>2, <1>5, <1>6, <1>7, <1>8, BeginKeeps

\* The end of a CREATE or DROP: what the mutex guarantees about the schema set.
LEMMA EndsAlone ==
  ASSUME CatalogInv, mutex # NoMutex, NEW th \in Threads, thread[th].pc = "cache", NEW s \in Schemas
  PROVE  /\ schemas[s].live => s \in dbs \/ Between(th, "drop_schema", s)
         /\ schemas_inited /\ s \in dbs => schemas[s].live \/ Between(th, "create_schema", s)
         /\ DdlAt(th)
<1>1. MutexInv /\ SetAt(s) /\ DdlAt(th)
      BY DEF CatalogInv, GuardedInv, SetInv, DdlInv
<1>2. \A x \in Threads : thread[x].pc = "cache" => x = th
      BY <1>1 DEF MutexInv
<1>. QED BY <1>1, <1>2 DEF SetAt, Between

\* CREATE TABLE or DROP TABLE brings the entry of its table up to date.
LEMMA TableEndKeeps ==
  ASSUME CatalogInv, NEW th \in Threads, thread[th].pc = "cache",
         thread[th].op \in {"create_table", "drop_table"},
         NEW s \in Schemas, NEW t \in Tables, s = thread[th].s, t = thread[th].t,
         Return(th), ReleaseMutex(th),
         UNCHANGED <<disk, schemas_inited, entry_lock, ddl, undefined>>,
         NEW d \in Nat, NEW L \in SUBSET Tables, schemas' = Put(s, t, d, L),
         \A u \in Tables \ {t} : u \in L <=> u \in schemas[s].lost,
         \/ d = stored[s][t]
         \/ d = 0 /\ t \in L
         \/ d = 0 /\ thread[th].op = "drop_table"
  PROVE  CatalogInv'
<1>0. TypeInv
      BY DEF CatalogInv
<1>1. /\ schemas' \in [Schemas -> Entry]
      /\ \A x \in Schemas \ {s} : schemas'[x] = schemas[x]
      /\ schemas'[s].id = schemas[s].id /\ schemas'[s].live = schemas[s].live
      /\ schemas'[s].inited = schemas[s].inited /\ schemas'[s].lost = L
      /\ schemas'[s].tables[t] = d
      /\ \A u \in Tables \ {t} : schemas'[s].tables[u] = schemas[s].tables[u]
      BY <1>0, TableSet
<1>2. thread' \in [Threads -> Statement] /\ thread'[th].pc = "idle"
      /\ \A x \in Threads \ {th} : thread'[x] = thread[x]
      BY <1>0, ReturnIs
<1>3. mutex' \in Threads \cup {NoThread, NoMutex}
      BY <1>0 DEF ReleaseMutex, TypeInv
<1>4. TypeInv'
      BY <1>0, <1>1, <1>2, <1>3 DEF TypeInv, disk
<1>5. ASSUME NEW x \in Schemas, NEW u \in Tables PROVE TableEnds(th, x, u)
  <2>1. CASE x = s /\ u = t
    <3>1. mutex # NoMutex /\ thread[th].op = "drop_table" => stored[s][t] = 0
          BY EndsAlone DEF DdlAt
    <3>. QED BY <1>1, <2>1, <3>1 DEF TableEnds
  <2>2. CASE ~(x = s /\ u = t)
    <3>1. ~Pending(th, x, u)
          BY <2>2 DEF Pending, Between
    <3>2. schemas'[x].tables[u] = schemas[x].tables[u] /\ (u \in schemas'[x].lost <=> u \in schemas[x].lost)
          BY <1>1, <2>2
    <3>. QED BY <3>1, <3>2 DEF TableEnds
  <2>. QED BY <2>1, <2>2
<1>6. ASSUME NEW x \in Schemas
      PROVE  /\ schemas'[x].id = schemas[x].id /\ schemas'[x].live = schemas[x].live
             /\ schemas'[x].inited = schemas[x].inited
      BY <1>1
<1>7. ASSUME mutex # NoMutex, NEW x \in Schemas
      PROVE  /\ schemas'[x].live => x \in dbs
             /\ schemas_inited /\ x \in dbs => schemas'[x].live
  <2>1. ~Between(th, "drop_schema", x) /\ ~Between(th, "create_schema", x)
        BY DEF Between
  <2>. QED BY <1>6, <1>7, <2>1, EndsAlone
<1>8. UNCHANGED <<dbs, stored, schemas_inited>>
      BY DEF disk
<1>. QED BY <1>2, <1>4, <1>5, <1>6, <1>7, <1>8, EndKeeps

\* The three ends of table statements: refreshed, erased and not loaded again,
\* erased.
LEMMA InvTableEnds ==
  ASSUME CatalogInv, NEW th \in Threads,
         CreateTableEntry(th) \/ RefreshFails(th) \/ DropTableErase(th)
  PROVE  CatalogInv'
<1>0. TypeInv
      BY DEF CatalogInv
<1>1. PICK s \in Schemas, t \in Tables : s = thread[th].s /\ t = thread[th].t
      BY <1>0 DEF TypeInv, Statement
<1>2. schemas[s] \in Entry /\ stored[s][t] \in Nat
      BY <1>0 DEF TypeInv
<1>. DEFINE L == schemas[s].lost \ {t}
            M == schemas[s].lost \cup {t}
<1>3. L \in SUBSET Tables /\ M \in SUBSET Tables
      BY <1>2 DEF Entry
<1>4. /\ \A u \in Tables \ {t} : u \in L <=> u \in schemas[s].lost
      /\ \A u \in Tables \ {t} : u \in M <=> u \in schemas[s].lost
      /\ t \in M
      OBVIOUS
<1>5. /\ thread[th].pc = "cache" /\ thread[th].op \in {"create_table", "drop_table"}
      /\ Return(th) /\ ReleaseMutex(th)
      /\ UNCHANGED <<disk, schemas_inited, entry_lock, ddl, undefined>>
      BY DEF CreateTableEntry, RefreshFails, DropTableErase, At
<1>6. CASE CreateTableEntry(th)
  <2>1. schemas' = Put(s, t, stored[s][t], L)
        BY <1>1, <1>6 DEF CreateTableEntry, RefreshEntry, Put
  <2>. HIDE DEF L
  <2>. QED BY <1>1, <1>2, <1>3, <1>4, <1>5, <2>1, TableEndKeeps
<1>7. CASE RefreshFails(th)
  <2>1. schemas' = Put(s, t, 0, M)
        BY <1>1, <1>7 DEF RefreshFails, Put
  <2>. HIDE DEF M
  <2>. QED BY <1>1, <1>2, <1>3, <1>4, <1>5, <2>1, TableEndKeeps
<1>8. CASE DropTableErase(th)
  <2>1. schemas' = Put(s, t, 0, L) /\ thread[th].op = "drop_table"
        BY <1>1, <1>8 DEF DropTableErase, DropTableEntry, Put, At
  <2>. HIDE DEF L
  <2>. QED BY <1>1, <1>2, <1>3, <1>4, <1>5, <2>1, TableEndKeeps
<1>. QED BY <1>6, <1>7, <1>8

\* CREATE SCHEMA adds an entry unless there is one.
LEMMA InvCreateSchemaEntry ==
  ASSUME CatalogInv, NEW th \in Threads, CreateSchemaEntry(th)
  PROVE  CatalogInv'
<1>0. TypeInv
      BY DEF CatalogInv
<1>1. PICK s \in Schemas : s = thread[th].s
      BY <1>0 DEF TypeInv, Statement
<1>2. /\ thread[th].pc = "cache" /\ thread[th].op = "create_schema"
      /\ schemas' = CreateEntry(s) /\ Return(th) /\ ReleaseMutex(th)
      /\ UNCHANGED <<disk, schemas_inited, entry_lock, ddl, undefined>>
      BY <1>1 DEF CreateSchemaEntry, At
<1>3. PICK n \in Nat : n = schemas[s].id
      BY <1>0 DEF TypeInv, Entry
<1>. DEFINE e == SchemaEntry(n + 1, TRUE)
<1>4. e \in Entry /\ e.id = n + 1 /\ e.live /\ ~e.inited /\ \A u \in Tables : e.tables[u] = 0
  <2>1. n + 1 \in Nat
        OBVIOUS
  <2>. QED BY <2>1, SchemaEntryIs
<1>5. n + 1 # n
      OBVIOUS
<1>6. \/ schemas[s].live /\ schemas' = schemas
      \/ ~schemas[s].live /\ schemas' = [schemas EXCEPT ![s] = e]
      BY <1>2, <1>3 DEF CreateEntry
<1>. HIDE DEF e
<1>7. /\ schemas' \in [Schemas -> Entry]
      /\ \A x \in Schemas \ {s} : schemas'[x] = schemas[x]
      /\ \/ schemas[s].live /\ schemas'[s] = schemas[s]
         \/ ~schemas[s].live /\ schemas'[s] = e
      BY <1>0, <1>4, <1>6 DEF TypeInv
<1>8. thread' \in [Threads -> Statement] /\ thread'[th].pc = "idle"
      /\ \A x \in Threads \ {th} : thread'[x] = thread[x]
      BY <1>0, <1>2, ReturnIs
<1>9. mutex' \in Threads \cup {NoThread, NoMutex}
      BY <1>0, <1>2 DEF ReleaseMutex, TypeInv
<1>10. TypeInv'
       BY <1>0, <1>2, <1>7, <1>8, <1>9 DEF TypeInv, disk
<1>11. ASSUME NEW x \in Schemas, NEW u \in Tables PROVE TableEnds(th, x, u)
  <2>1. ~Pending(th, x, u)
        BY <1>2 DEF Pending, Between
  <2>2. CASE schemas'[x] = schemas[x]
        BY <2>1, <2>2 DEF TableEnds
  <2>3. CASE x = s /\ schemas'[s] = e
        BY <1>3, <1>4, <1>5, <2>3 DEF TableEnds
  <2>. QED BY <1>7, <2>2, <2>3
<1>12. ASSUME NEW x \in Schemas
       PROVE  \/ /\ schemas'[x].id = schemas[x].id /\ (schemas'[x].live => schemas[x].live)
                 /\ schemas'[x].inited => schemas[x].inited
              \/ schemas'[x].id = schemas[x].id + 1 /\ ~schemas'[x].inited
       BY <1>3, <1>4, <1>7
<1>13. ASSUME mutex # NoMutex, NEW x \in Schemas
       PROVE  /\ schemas'[x].live => x \in dbs
              /\ schemas_inited /\ x \in dbs => schemas'[x].live
  <2>1. ~Between(th, "drop_schema", x) /\ (Between(th, "create_schema", x) => x = s)
        BY <1>1, <1>2 DEF Between
  <2>2. /\ schemas[x].live => x \in dbs
        /\ schemas_inited /\ x \in dbs => schemas[x].live \/ x = s
        /\ DdlAt(th)
        BY <1>2, <1>13, <2>1, EndsAlone
  <2>3. s \in dbs /\ schemas'[s].live
        BY <1>1, <1>2, <1>4, <1>7, <2>2 DEF DdlAt
  <2>. QED BY <1>7, <2>2, <2>3
<1>14. UNCHANGED <<dbs, stored, schemas_inited>>
       BY <1>2 DEF disk
<1>. QED BY <1>2, <1>8, <1>10, <1>11, <1>12, <1>13, <1>14, EndKeeps

\* DROP SCHEMA erases the entry with its table set.
LEMMA InvDropSchemaErase ==
  ASSUME CatalogInv, NEW th \in Threads, DropSchemaErase(th)
  PROVE  CatalogInv'
<1>0. TypeInv
      BY DEF CatalogInv
<1>1. PICK s \in Schemas : s = thread[th].s
      BY <1>0 DEF TypeInv, Statement
<1>2. /\ thread[th].pc = "cache" /\ thread[th].op = "drop_schema"
      /\ schemas' = DropEntry(s) /\ Return(th) /\ ReleaseMutex(th)
      /\ entry_lock' = [entry_lock EXCEPT ![s] = NoThread]
      /\ UNCHANGED <<disk, schemas_inited, ddl, undefined>>
      BY <1>1 DEF DropSchemaErase, At
<1>3. PICK n \in Nat : n = schemas[s].id
      BY <1>0 DEF TypeInv, Entry
<1>. DEFINE e == SchemaEntry(n, FALSE)
<1>4. e \in Entry /\ e.id = n /\ ~e.live /\ ~e.inited /\ \A u \in Tables : e.tables[u] = 0
      BY SchemaEntryIs
<1>5. schemas' = [schemas EXCEPT ![s] = e]
      BY <1>2, <1>3 DEF DropEntry
<1>. HIDE DEF e
<1>6. /\ schemas' \in [Schemas -> Entry] /\ schemas'[s] = e
      /\ \A x \in Schemas \ {s} : schemas'[x] = schemas[x]
      BY <1>0, <1>4, <1>5 DEF TypeInv
<1>7. thread' \in [Threads -> Statement] /\ thread'[th].pc = "idle"
      /\ \A x \in Threads \ {th} : thread'[x] = thread[x]
      BY <1>0, <1>2, ReturnIs
<1>8. /\ mutex' \in Threads \cup {NoThread, NoMutex}
      /\ entry_lock' \in [Schemas -> Threads \cup {NoThread}]
      BY <1>0, <1>2 DEF ReleaseMutex, TypeInv
<1>9. TypeInv'
      BY <1>0, <1>2, <1>6, <1>7, <1>8 DEF TypeInv, disk
<1>10. ASSUME NEW x \in Schemas, NEW u \in Tables PROVE TableEnds(th, x, u)
  <2>1. CASE x = s
        BY <1>4, <1>6, <2>1 DEF TableEnds
  <2>2. CASE x # s
    <3>1. ~Pending(th, x, u)
          BY <1>1, <1>2, <2>2 DEF Pending, Between
    <3>. QED BY <1>6, <2>2, <3>1 DEF TableEnds
  <2>. QED BY <2>1, <2>2
<1>11. ASSUME NEW x \in Schemas
       PROVE  /\ schemas'[x].id = schemas[x].id /\ (schemas'[x].live => schemas[x].live)
              /\ schemas'[x].inited => schemas[x].inited
       BY <1>3, <1>4, <1>6
<1>12. ASSUME mutex # NoMutex, NEW x \in Schemas
       PROVE  /\ schemas'[x].live => x \in dbs
              /\ schemas_inited /\ x \in dbs => schemas'[x].live
  <2>1. ~Between(th, "create_schema", x) /\ (Between(th, "drop_schema", x) => x = s)
        BY <1>1, <1>2 DEF Between
  <2>2. /\ schemas[x].live => x \in dbs \/ x = s
        /\ schemas_inited /\ x \in dbs => schemas[x].live
        /\ DdlAt(th)
        BY <1>2, <1>12, <2>1, EndsAlone
  <2>3. s \notin dbs /\ ~schemas'[s].live
        BY <1>1, <1>2, <1>4, <1>6, <2>2 DEF DdlAt
  <2>. QED BY <1>6, <2>2, <2>3
<1>13. UNCHANGED <<dbs, stored, schemas_inited>>
       BY <1>2 DEF disk
<1>. QED BY <1>2, <1>7, <1>9, <1>10, <1>11, <1>12, <1>13, EndKeeps

\* The invariant is about the warehouse, the cache, the mutex and the threads.
LEMMA InvSame ==
  ASSUME CatalogInv, UNCHANGED <<disk, cache, locks, thread, ddl>>, undefined' \in BOOLEAN
  PROVE  CatalogInv'
<1>1. UNCHANGED <<dbs, stored, schemas_inited, schemas, entry_lock, mutex, thread, ddl>>
      BY DEF disk, cache, locks
<1>2. TypeInv' /\ IdInv'
      BY <1>1 DEF CatalogInv, TypeInv, IdInv, IdAt
<1>3. \A th \in Threads, s \in Schemas, t \in Tables : Pending(th, s, t)' <=> Pending(th, s, t)
      BY <1>1 DEF Pending, Between
<1>4. StaleInv'
      BY <1>1, <1>3 DEF CatalogInv, StaleInv, StaleAt
<1>5. \A s \in Schemas, t \in Tables : Current(s, t)' <=> Current(s, t)
      BY <1>1, <1>3 DEF Current
<1>6. (MutexInv => MutexInv') /\ (DdlInv => DdlInv') /\ (SetInv => SetInv')
      BY <1>1 DEF MutexInv, DdlInv, DdlAt, SetInv, SetAt, Between
<1>7. LoadedInv => LoadedInv'
      BY <1>1 DEF LoadedInv, LoadedAt, ScanAt, Freed, Current, Pending, Between
<1>. QED BY <1>1, <1>2, <1>4, <1>6, <1>7 DEF CatalogInv, GuardedInv

\* Every step of any thread keeps the invariant.
LEMMA InvNext == CatalogInv /\ [Next]_vars => CatalogInv'
<1>. SUFFICES ASSUME CatalogInv, [Next]_vars PROVE CatalogInv'
     OBVIOUS
<1>0. undefined \in BOOLEAN
      BY DEF CatalogInv, TypeInv
<1>1. CASE UNCHANGED vars \/ Undefined
  <2>1. UNCHANGED vars
        BY <1>1 DEF Undefined
  <2>2. UNCHANGED <<disk, cache, locks, thread, ddl>> /\ undefined' = undefined
        BY <2>1 DEF vars, disk, cache, locks
  <2>3. undefined' \in BOOLEAN
        BY <1>0, <2>2, Zenon
  <2>. QED BY <2>2, <2>3, InvSame
<1>2. ASSUME NEW th \in Threads, Step(th) PROVE CatalogInv'
  <2>1. ASSUME NEW op \in {"get", "scan", "create_table", "drop_table"}, NEW s \in Schemas,
               NEW t \in Tables, LookupSchema(th, op, s, t)
        PROVE  CatalogInv'
        BY <2>1, InvLookupSchema
  <2>2. CASE \/ ScanSchemas(th) \/ LookupEntry(th) \/ ScanList(th) \/ ScanDone(th)
             \/ LookupFails(th) \/ ScanFails(th) \/ \E t \in Tables : ScanBuild(th, t)
        BY <2>2, InvScanSchemas, InvLookupEntry, InvScanList, InvScanDone, InvLookupFails, InvScanBuild
  <2>3. CASE \E ignore \in BOOLEAN : CreateTable(th, ignore) \/ DropTable(th, ignore)
        BY <2>3, InvCreateTable, InvDropTable
  <2>4. CASE \E s \in Schemas, ignore \in BOOLEAN : CreateSchema(th, s, ignore)
        BY <2>4, InvCreateSchema
  <2>5. CASE \E s \in Schemas, ignore \in BOOLEAN, cascade \in BOOLEAN : DropSchema(th, s, ignore, cascade)
        BY <2>5, InvDropSchema
  <2>6. CASE \/ CreateTableEntry(th) \/ RefreshFails(th) \/ DropTableErase(th)
             \/ CreateSchemaEntry(th) \/ DropSchemaErase(th)
        BY <2>6, InvTableEnds, InvCreateSchemaEntry, InvDropSchemaErase
  <2>7. CASE UseFreed(th)
    <3>1. UNCHANGED <<disk, cache, locks, thread, ddl>> /\ undefined' \in BOOLEAN
          BY <2>7, Zenon DEF UseFreed
    <3>. QED BY <3>1, InvSame
  <2>. QED BY <1>2, <2>1, <2>2, <2>3, <2>4, <2>5, <2>6, <2>7, Zenon DEF Step
<1>. QED BY <1>1, <1>2 DEF Next

-----------------------------------------------------------------------------
(***************************************************************************)
(* The theorems.                                                           *)
(***************************************************************************)

\* In every reachable state of any threads and statements the invariant holds.
THEOREM Invariant == Spec => []CatalogInv
BY InvInit, InvNext, PTL DEF Spec

\* No interleaving of lookups, scans, CREATE and DROP leaves a table entry of a
\* dropped table or of an older definition (BuildEntry, RefreshEntry, DropEntry
\* of PaimonTableSet), in builds with and without the mutation mutex.
THEOREM NoStaleTables == Spec => []TablesCurrentAtRest
<1>1. CatalogInv => TablesCurrentAtRest
      BY DEF CatalogInv, StaleInv, StaleAt, TablesCurrentAtRest, AtRest, Pending, Between
<1>. QED BY <1>1, Invariant, PTL

\* With the mutation mutex a loaded schema set has exactly the databases that
\* exist, and a loaded table set exactly its tables, but for those whose
\* RefreshEntry failed (CreateSchema, DropSchema, LoadEntries, Scan).
THEOREM CompleteCaches == Spec => []CompleteAtRest
<1>1. ASSUME CatalogInv PROVE CompleteAtRest
  <2>1. SUFFICES ASSUME AtRest, mutex # NoMutex, NEW s \in Schemas
                 PROVE  /\ schemas[s].live => s \in dbs
                        /\ schemas_inited /\ s \in dbs => schemas[s].live
                        /\ schemas[s].live /\ schemas[s].inited =>
                             \A t \in Tables \ schemas[s].lost : schemas[s].tables[t] = stored[s][t]
        BY DEF CompleteAtRest
  <2>2. SetAt(s) /\ LoadedAt(s) /\ \A th \in Threads : thread[th].pc # "cache"
        BY <1>1, <2>1 DEF CatalogInv, GuardedInv, SetInv, LoadedInv, AtRest
  <2>. QED BY <2>2 DEF SetAt, LoadedAt, Current, Pending, Between
<1>. QED BY <1>1, Invariant, PTL
=============================================================================
