------------------------- MODULE ScanThreadsProofs -------------------------
(***************************************************************************)
(* Theorems about ScanThreads, for any finite number of threads, any       *)
(* splits and any vector size, with and without failures.                  *)
(***************************************************************************)
EXTENDS ScanThreads, FiniteSetTheorems, TLAPS

-----------------------------------------------------------------------------
(***************************************************************************)
(* The inductive invariant.                                                *)
(***************************************************************************)

\* Only a thread that never draws again has moved the counter past the splits.
Past(a) == {t \in Threads : a[t] \notin {"none", "new", "open", "next_split", "output"}}
CountInv == split_index <= Len(Rows) + Cardinality(Past(at))

\* A reader is on a split that was drawn, and on no other thread's split.
ReaderInv ==
  \A t \in Threads :
    /\ reader[t] # 0 => reader[t] <= split_index /\ pos[t] <= Rows[reader[t]]
    /\ at[t] \in {"open", "output"} => reader[t] # 0
    /\ \A u \in Threads : reader[t] # 0 /\ reader[t] = reader[u] => t = u

\* What a thread holds: an armed batch was not released and lies before the
\* position of its own reader; any other batch was released.
ChunkAt(t) ==
  /\ chunk[t].armed => /\ chunk[t].batch \in Batch
                       /\ reader[t] = chunk[t].batch[1]
                       /\ chunk[t].batch[2] < pos[t]
                       /\ released[chunk[t].batch] = 0
  /\ ~chunk[t].armed => \/ chunk[t] = NoChunk
                        \/ /\ chunk[t].batch \in Batch
                           /\ released[chunk[t].batch] = 1
  /\ at[t] \notin {"open", "output", "failed"} => ~chunk[t].armed
  /\ at[t] = "output" =>
       chunk[t].armed /\ chunk[t].batch[2] + chunk[t].size = pos[t]
ChunkInv == \A t \in Threads : ChunkAt(t)

\* What lies ahead of the counter and of the readers was never released.
ReleaseAt(s, q) ==
  /\ released[<<s, q>>] <= 1
  /\ s > split_index => released[<<s, q>>] = 0
  /\ \A t \in Threads : reader[t] = s /\ q >= pos[t] => released[<<s, q>>] = 0
ReleaseInv == \A s \in Splits : \A q \in 0..(Rows[s] - 1) : ReleaseAt(s, q)

\* Rows reach the pipeline up to the position of the reader, and as long as
\* nothing failed every split that was drawn is out or being read.
OutAt(s, i) ==
  /\ out[<<s, i>>] <= 1
  /\ s > split_index => out[<<s, i>>] = 0
  /\ \A t \in Threads : reader[t] = s =>
       /\ at[t] = "open" => out[<<s, i>>] = IF i <= pos[t] THEN 1 ELSE 0
       /\ at[t] = "output" =>
            out[<<s, i>>] = IF i <= chunk[t].batch[2] THEN 1 ELSE 0
  /\ query \in {"running", "ok"} /\ s <= split_index =>
       \/ out[<<s, i>>] = 1
       \/ \E t \in Threads : at[t] \in {"open", "output"} /\ reader[t] = s
OutInv == \A s \in Splits : \A i \in 1..Rows[s] : OutAt(s, i)

\* A query that has not failed has a thread, and its threads leave only when
\* the splits are drawn.
QueryInv ==
  /\ query = "ok" => \A t \in Threads : at[t] \in {"none", "done", "destroying", "gone"}
  /\ \A t \in Threads : at[t] = "failed" => query \in {"failed", "stopped"}
  /\ query \in {"running", "ok"} =>
       /\ \E t \in Threads : at[t] # "none"
       /\ \A t \in Threads : at[t] \in {"exhausted", "done", "destroying", "gone"} =>
                             split_index >= Len(Rows)

ScanInv ==
  TypeOK /\ CountInv /\ ReaderInv /\ ChunkInv /\ ReleaseInv /\ OutInv /\ QueryInv

-----------------------------------------------------------------------------
(***************************************************************************)
(* Rows, batches and counting.                                             *)
(***************************************************************************)

\* The splits are numbered from 1, and each has a natural number of rows.
LEMMA SplitsAre ==
  /\ Splits = 1..Len(Rows) /\ Len(Rows) \in Nat
  /\ \A s \in Splits : s \in Nat \ {0} /\ Rows[s] \in Nat
BY RowsAssumption DEF Splits

\* A row is a split and the number of the row in it.
LEMMA RowsAre ==
  /\ \A s \in Splits : \A i \in 1..Rows[s] : <<s, i>> \in Row
  /\ \A r \in Row : /\ r = <<r[1], r[2]>>
                     /\ r[1] \in Splits /\ r[2] \in 1..Rows[r[1]]
BY DEF Row

\* A batch starts after some row of its split other than the last.
LEMMA BatchesAre ==
  /\ \A s \in Splits : \A q \in 0..(Rows[s] - 1) : <<s, q>> \in Batch
  /\ \A b \in Batch : /\ b = <<b[1], b[2]>>
                       /\ b[1] \in Splits /\ b[2] \in 0..(Rows[b[1]] - 1)
<1>1. ASSUME NEW s \in Splits, NEW q \in 0..(Rows[s] - 1)
      PROVE  <<s, q>> \in Batch
  <2>1. q + 1 \in 1..Rows[s] /\ (q + 1) - 1 = q
        BY SplitsAre
  <2>2. <<s, q + 1>> \in Row
        BY <2>1, RowsAre
  <2>. QED BY <2>1, <2>2 DEF Batch
<1>2. ASSUME NEW b \in Batch
      PROVE  /\ b = <<b[1], b[2]>>
             /\ b[1] \in Splits /\ b[2] \in 0..(Rows[b[1]] - 1)
  <2>1. PICK r \in Row : b = <<r[1], r[2] - 1>>
        BY DEF Batch
  <2>2. r[1] \in Splits /\ r[2] \in 1..Rows[r[1]] /\ Rows[r[1]] \in Nat
        BY RowsAre, SplitsAre
  <2>. QED BY <2>1, <2>2
<1>. QED BY <1>1, <1>2

\* The smaller of two integers.
LEMMA MinIs ==
  ASSUME NEW a \in Int, NEW b \in Int
  PROVE  Min({a, b}) = IF a <= b THEN a ELSE b
<1>. DEFINE m == IF a <= b THEN a ELSE b
<1>1. m \in {a, b} /\ \A y \in {a, b} : m <= y
      OBVIOUS
<1>2. \A x \in {a, b} : (\A y \in {a, b} : x <= y) => x = m
      OBVIOUS
<1>. QED BY <1>1, <1>2 DEF Min

\* The count of the threads that never draw again.
LEMMA PastCount ==
  ASSUME NEW a, NEW b
  PROVE  /\ Cardinality(Past(a)) \in Nat
         /\ Cardinality(Past(a)) <= Cardinality(Threads)
         /\ Past(a) \subseteq Past(b) => Cardinality(Past(a)) <= Cardinality(Past(b))
         /\ \A t \in Threads : t \notin Past(a) /\ Past(b) = Past(a) \cup {t}
              => Cardinality(Past(b)) = Cardinality(Past(a)) + 1
<1>1. Past(a) \subseteq Threads /\ Past(b) \subseteq Threads
      BY DEF Past
<1>2. IsFiniteSet(Past(a)) /\ IsFiniteSet(Past(b))
      BY <1>1, ThreadsAssumption, FS_Subset
<1>. QED BY <1>1, <1>2, ThreadsAssumption, FS_CardinalityType, FS_Subset,
            FS_AddElement

\* The counter's bound from the count.
LEMMA CountBound ==
  ASSUME split_index \in Nat, CountInv
  PROVE  split_index \in 0..(Len(Rows) + Cardinality(Threads))
<1>1. /\ Cardinality(Past(at)) \in Nat
      /\ Cardinality(Past(at)) <= Cardinality(Threads)
      BY PastCount
<1>2. Cardinality(Threads) \in Nat
      BY ThreadsAssumption, FS_CardinalityType
<1>. QED BY <1>1, <1>2, SplitsAre DEF CountInv

\* A step that moves no counter and brings no thread back keeps the count.
LEMMA CountKept ==
  ASSUME ScanInv, split_index' = split_index, Past(at) \subseteq Past(at')
  PROVE  CountInv' /\ split_index' \in 0..(Len(Rows) + Cardinality(Threads))
<1>1. /\ Cardinality(Past(at)) \in Nat /\ Cardinality(Past(at')) \in Nat
      /\ Cardinality(Past(at)) <= Cardinality(Past(at'))
      BY PastCount
<1>2. split_index <= Len(Rows) + Cardinality(Past(at)) /\ split_index \in Int
      BY DEF ScanInv, CountInv, TypeOK
<1>3. CountInv'
      BY <1>1, <1>2, SplitsAre DEF CountInv
<1>. QED BY <1>3 DEF ScanInv, TypeOK

-----------------------------------------------------------------------------
(***************************************************************************)
(* The invariant is inductive: one lemma per action.                       *)
(***************************************************************************)

\* The initial state satisfies the invariant.
LEMMA InvInit == Init => ScanInv
<1>. SUFFICES ASSUME Init PROVE ScanInv
     OBVIOUS
<1>. USE DEF Init
<1>1. CountInv
      BY PastCount, SplitsAre DEF CountInv
<1>2. TypeOK
  <2>1. split_index \in 0..(Len(Rows) + Cardinality(Threads))
        BY <1>1, CountBound
  <2>2. NoChunk \in [batch : Batch \cup {<<0, 0>>}, size : 0..VectorSize, armed : BOOLEAN]
        BY SizeAssumption DEF NoChunk
  <2>. QED BY <2>1, <2>2 DEF TypeOK
<1>3. ReaderInv
      BY DEF ReaderInv
<1>4. ChunkInv
      BY DEF ChunkInv, ChunkAt, NoChunk
<1>5. ReleaseInv
  <2>1. \A s \in Splits : \A q \in 0..(Rows[s] - 1) : released[<<s, q>>] = 0
        BY BatchesAre
  <2>2. SUFFICES ASSUME NEW s \in Splits, NEW q \in 0..(Rows[s] - 1)
                 PROVE  ReleaseAt(s, q)
        BY Zenon DEF ReleaseInv
  <2>3. released[<<s, q>>] = 0
        BY <2>1
  <2>4. released[<<s, q>>] <= 1
        BY <2>3
  <2>. QED BY <2>3, <2>4 DEF ReleaseAt
<1>6. OutInv
  <2>1. \A s \in Splits : \A i \in 1..Rows[s] : out[<<s, i>>] = 0
        BY RowsAre
  <2>2. \A s \in Splits : ~(s <= split_index) /\ \A t \in Threads : s # reader[t]
        BY SplitsAre
  <2>3. SUFFICES ASSUME NEW s \in Splits, NEW i \in 1..Rows[s]
                 PROVE  OutAt(s, i)
        BY Zenon DEF OutInv
  <2>4. out[<<s, i>>] = 0
        BY <2>1
  <2>5. out[<<s, i>>] <= 1
        BY <2>4
  <2>. QED BY <2>2, <2>4, <2>5 DEF OutAt
<1>7. QueryInv
  <2>1. {t \in Threads : at[t] = "new"} # {}
        BY FS_EmptySet
  <2>. QED BY <2>1 DEF QueryInv
<1>. QED BY <1>1, <1>2, <1>3, <1>4, <1>5, <1>6, <1>7 DEF ScanInv

\* A thread draws a split nobody has, or finds that there is none.
LEMMA InvNextSplit ==
  ASSUME ScanInv, NEW t \in Threads, NextSplit(t)
  PROVE  ScanInv'
<1>. USE DEF NextSplit, FetchAdd, NoMoreSplits, Throw
<1>1. /\ split_index \in Nat /\ split_index' = split_index + 1
      /\ Len(Rows) \in Nat /\ t \notin Past(at)
      /\ \A u \in Threads \ {t} : at'[u] = at[u] /\ reader'[u] = reader[u] /\ pos'[u] = pos[u]
      /\ UNCHANGED <<chunk, released, out>>
      BY SplitsAre DEF ScanInv, TypeOK, Past
<1>2. ~chunk[t].armed
      BY DEF ScanInv, ChunkInv, ChunkAt
<1>3. CountInv'
  <2>1. /\ Cardinality(Past(at)) \in Nat /\ Cardinality(Past(at')) \in Nat
        /\ split_index <= Len(Rows) + Cardinality(Past(at))
        BY PastCount DEF ScanInv, CountInv
  <2>2. CASE split_index < Len(Rows)
        BY <1>1, <2>1, <2>2 DEF CountInv
  <2>3. CASE split_index >= Len(Rows)
    <3>1. at' = [at EXCEPT ![t] = "exhausted"]
          BY <1>1, <2>3
    <3>2. Past(at') = Past(at) \cup {t}
          BY <3>1 DEF Past, ScanInv, TypeOK
    <3>3. Cardinality(Past(at')) = Cardinality(Past(at)) + 1
          BY <1>1, <3>2, PastCount
    <3>. QED BY <1>1, <2>1, <3>3 DEF CountInv
  <2>. QED BY <1>1, <2>2, <2>3
<1>4. /\ split_index < Len(Rows) => split_index + 1 \in Splits
      /\ reader'[t] # reader[t] => split_index < Len(Rows)
      BY <1>1, SplitsAre DEF ScanInv, TypeOK
<1>5. TypeOK'
  <2>1. split_index' \in 0..(Len(Rows) + Cardinality(Threads))
    <3>1. /\ Cardinality(Past(at')) \in Nat
          /\ Cardinality(Past(at')) <= Cardinality(Threads)
          BY PastCount
    <3>2. Cardinality(Threads) \in Nat
          BY ThreadsAssumption, FS_CardinalityType
    <3>. QED BY <1>1, <1>3, <3>1, <3>2 DEF CountInv
  <2>2. /\ reader' \in [Threads -> {0} \cup Splits]
        /\ pos' \in [Threads -> Nat]
    <3>1. reader \in [Threads -> {0} \cup Splits] /\ pos \in [Threads -> Nat]
          BY DEF ScanInv, TypeOK
    <3>2. CASE UNCHANGED <<reader, pos>>
          BY <3>1, <3>2
    <3>3. CASE /\ reader' = [reader EXCEPT ![t] = split_index + 1]
               /\ pos' = [pos EXCEPT ![t] = 0] /\ split_index < Len(Rows)
      <4>1. split_index + 1 \in Splits
            BY <1>4, <3>3
      <4>. HIDE DEF NextSplit
      <4>. QED BY <3>1, <3>3, <4>1
    <3>. QED BY <3>2, <3>3
  <2>3. /\ at' \in [Threads -> {"none", "new", "open", "next_split", "output", "exhausted",
                               "done", "failed", "destroying", "gone"}]
        /\ query' \in {"running", "ok", "failed", "stopped"}
        BY DEF ScanInv, TypeOK
  <2>. HIDE DEF NextSplit
  <2>. QED BY <2>1, <2>2, <2>3, <1>1 DEF ScanInv, TypeOK
<1>6. \/ /\ reader'[t] = reader[t] /\ pos'[t] = pos[t]
         /\ \/ at'[t] = "exhausted" /\ split_index >= Len(Rows) /\ query' = query
            \/ /\ at'[t] = "failed" /\ split_index < Len(Rows)
               /\ query' = IF query = "running" THEN "failed" ELSE query
      \/ /\ reader'[t] = split_index + 1 /\ pos'[t] = 0 /\ at'[t] = "open"
         /\ split_index + 1 \in Splits /\ query' = query
      BY <1>4 DEF ScanInv, TypeOK
<1>a. at[t] \in {"new", "next_split"}
      OBVIOUS
<1>. HIDE DEF NextSplit
<1>7. \A u \in Threads : reader[u] # 0 => reader[u] \in Nat /\ reader[u] <= split_index
      BY SplitsAre DEF ScanInv, ReaderInv, TypeOK
<1>8. ReaderInv'
  <2>1. \A u \in Threads : reader[u] # split_index + 1
        BY <1>1, <1>7
  <2>2. \A s \in Splits : Rows[s] \in Nat
        BY SplitsAre
  <2>3. ASSUME NEW u \in Threads
        PROVE  /\ reader'[u] # 0 => reader'[u] <= split_index' /\ pos'[u] <= Rows[reader'[u]]
               /\ at'[u] \in {"open", "output"} => reader'[u] # 0
    <3>1. /\ reader[u] # 0 => reader[u] <= split_index /\ pos[u] <= Rows[reader[u]]
          /\ at[u] \in {"open", "output"} => reader[u] # 0
          BY DEF ScanInv, ReaderInv
    <3>. QED BY <1>1, <1>6, <1>7, <2>2, <3>1
  <2>4. ASSUME NEW u \in Threads, NEW v \in Threads, reader'[u] # 0, reader'[u] = reader'[v]
        PROVE  u = v
        BY <1>1, <1>6, <2>1, <2>4 DEF ScanInv, ReaderInv
  <2>. QED BY <2>3, <2>4 DEF ReaderInv
<1>9. ChunkInv'
      BY <1>1, <1>2, <1>6 DEF ScanInv, ChunkInv, ChunkAt
<1>10. ReleaseInv'
  <2>1. SUFFICES ASSUME NEW s \in Splits, NEW q \in 0..(Rows[s] - 1)
                 PROVE  ReleaseAt(s, q)'
        BY Zenon DEF ReleaseInv
  <2>2. ReleaseAt(s, q)
        BY DEF ScanInv, ReleaseInv
  <2>3. s \in Nat
        BY SplitsAre
  <2>. QED BY <1>1, <1>6, <2>2, <2>3 DEF ReleaseAt
<1>11. QueryInv'
      BY <1>1, <1>6, <1>a DEF ScanInv, QueryInv, TypeOK
<1>12. OutInv'
  <2>1. SUFFICES ASSUME NEW s \in Splits, NEW i \in 1..Rows[s]
                 PROVE  OutAt(s, i)'
        BY Zenon DEF OutInv
  <2>2. OutAt(s, i)
        BY DEF ScanInv, OutInv
  <2>3. s \in Nat /\ s <= Len(Rows) /\ i \in Nat \ {0}
        BY SplitsAre
  <2>4. \A u \in Threads : reader'[u] = s =>
          /\ at'[u] = "open" => out[<<s, i>>] = IF i <= pos'[u] THEN 1 ELSE 0
          /\ at'[u] = "output" =>
               out[<<s, i>>] = IF i <= chunk[u].batch[2] THEN 1 ELSE 0
        BY <1>1, <1>6, <2>2, <2>3 DEF OutAt
  <2>5. ASSUME query' \in {"running", "ok"}, s <= split_index + 1
        PROVE  \/ out[<<s, i>>] = 1
               \/ \E u \in Threads : at'[u] \in {"open", "output"} /\ reader'[u] = s
    <3>1. query \in {"running", "ok"} /\ query = query'
          BY <1>6, <2>5 DEF ScanInv, TypeOK
    <3>2. CASE s <= split_index
          BY <1>1, <1>a, <2>2, <3>1, <3>2 DEF OutAt
    <3>3. CASE s = split_index + 1
      <4>1. split_index < Len(Rows)
            BY <1>1, <2>3, <3>3
      <4>2. CASE query = "ok"
            BY <1>a, <4>2 DEF ScanInv, QueryInv
      <4>3. CASE query = "running"
            BY <1>6, <3>1, <3>3, <4>1, <4>3, <1>1 DEF ScanInv, TypeOK
      <4>. QED BY <3>1, <4>2, <4>3
    <3>. QED BY <1>1, <2>3, <2>5, <3>2, <3>3
  <2>. QED BY <1>1, <2>2, <2>3, <2>4, <2>5 DEF OutAt
<1>. QED BY <1>3, <1>5, <1>8, <1>9, <1>10, <1>11, <1>12 DEF ScanInv

\* The batches in Rel are released, all of them batches that thread t had
\* read and nobody had released: no other thread notices.
Releases(Rel) ==
  released' = [b \in Batch |-> released[b] + IF b \in Rel THEN 1 ELSE 0]

\* Such a release keeps every batch released at most once, and leaves alone
\* what the other threads hold.
LEMMA ReleaseStep ==
  ASSUME ScanInv, NEW t \in Threads, NEW Rel \in SUBSET Batch, Releases(Rel),
         Rel # {} => reader[t] # 0,
         \A b \in Rel : b[1] = reader[t] /\ b[2] < pos'[t] /\ released[b] = 0,
         UNCHANGED <<split_index, reader>>,
         pos'[t] \in Nat, pos[t] <= pos'[t],
         \A u \in Threads \ {t} :
           at'[u] = at[u] /\ pos'[u] = pos[u] /\ chunk'[u] = chunk[u]
  PROVE  /\ ReleaseInv' /\ released' \in [Batch -> Nat]
         /\ \A u \in Threads \ {t} : ChunkAt(u)'
<1>1. released \in [Batch -> Nat] /\ pos \in [Threads -> Nat]
      BY DEF ScanInv, TypeOK
<1>2. /\ \A b \in Batch \ Rel : released'[b] = released[b]
      /\ \A b \in Rel : released'[b] = 1
      /\ released' \in [Batch -> Nat]
      BY <1>1 DEF Releases
<1>3. \A b \in Rel : b[1] <= split_index /\ b[1] \in Nat /\ b[2] \in Nat
      BY BatchesAre, SplitsAre DEF ScanInv, ReaderInv
<1>4. \A u \in Threads \ {t}, b \in Rel : b[1] # reader[u]
      BY DEF ScanInv, ReaderInv
<1>5. ReleaseInv'
  <2>1. SUFFICES ASSUME NEW s \in Splits, NEW q \in 0..(Rows[s] - 1)
                 PROVE  ReleaseAt(s, q)'
        BY Zenon DEF ReleaseInv
  <2>2. ReleaseAt(s, q)
        BY DEF ScanInv, ReleaseInv
  <2>3. <<s, q>> \in Batch /\ s \in Nat /\ q \in Int /\ split_index \in Int
        BY BatchesAre, SplitsAre DEF ScanInv, TypeOK
  <2>4. CASE <<s, q>> \notin Rel
    <3>1. released'[<<s, q>>] = released[<<s, q>>]
          BY <1>2, <2>3, <2>4
    <3>2. ASSUME NEW u \in Threads, reader'[u] = s, q >= pos'[u]
          PROVE  reader[u] = s /\ q >= pos[u]
      <4>1. pos[u] \in Nat /\ pos'[u] \in Nat /\ pos[u] <= pos'[u]
            BY <1>1
      <4>. QED BY <2>3, <3>2, <4>1
    <3>. QED BY <2>2, <3>1, <3>2 DEF ReleaseAt
  <2>5. CASE <<s, q>> \in Rel
    <3>1. released'[<<s, q>>] = 1 /\ s <= split_index /\ s = reader[t] /\ q < pos'[t]
          BY <1>2, <1>3, <2>5
    <3>2. ASSUME NEW u \in Threads, reader'[u] = s PROVE ~(q >= pos'[u])
      <4>1. u = t
            BY <1>4, <2>5, <3>2
      <4>. QED BY <2>3, <3>1, <4>1
    <3>. QED BY <2>3, <3>1, <3>2 DEF ReleaseAt
  <2>. QED BY <2>4, <2>5
<1>6. ASSUME NEW u \in Threads \ {t} PROVE ChunkAt(u)'
  <2>1. ChunkAt(u)
        BY DEF ScanInv, ChunkInv
  <2>2. ASSUME chunk[u].armed PROVE released'[chunk[u].batch] = 0
        BY <1>2, <1>4, <2>1, <2>2 DEF ChunkAt
  <2>3. ASSUME ~chunk[u].armed, chunk[u].batch \in Batch, released[chunk[u].batch] = 1
        PROVE  released'[chunk[u].batch] = 1
        BY <1>2, <2>3
  <2>. QED BY <2>1, <2>2, <2>3 DEF ChunkAt
<1>. QED BY <1>2, <1>5, <1>6

\* The batch a thread has in memory, as a set.
Current(t) == IF chunk[t].armed THEN {chunk[t].batch} ELSE {}

\* It is the thread's own, was read, and nobody released it.
LEMMA CurrentIs ==
  ASSUME ScanInv, NEW t \in Threads
  PROVE  /\ Current(t) \in SUBSET Batch
         /\ Current(t) # {} => reader[t] # 0
         /\ \A b \in Current(t) : b[1] = reader[t] /\ b[2] < pos[t] /\ released[b] = 0
         /\ (IF chunk[t].armed THEN [released EXCEPT ![chunk[t].batch] = @ + 1] ELSE released)
              = [b \in Batch |-> released[b] + IF b \in Current(t) THEN 1 ELSE 0]
<1>1. ChunkAt(t) /\ released \in [Batch -> Nat]
      BY DEF ScanInv, ChunkInv, TypeOK
<1>2. \A b \in Current(t) : b \in Batch /\ b[1] = reader[t] /\ b[2] < pos[t] /\ released[b] = 0
      BY <1>1 DEF ChunkAt, Current
<1>3. Current(t) # {} => reader[t] # 0
      BY <1>2, BatchesAre, SplitsAre
<1>4. CASE chunk[t].armed
  <2>. DEFINE c == chunk[t].batch
  <2>1. c \in Batch /\ Current(t) = {c}
        BY <1>1, <1>4 DEF Current, ChunkAt
  <2>. HIDE DEF c
  <2>2. [released EXCEPT ![c] = @ + 1] = [b \in Batch |-> released[b] + IF b = c THEN 1 ELSE 0]
    <3>1. \A b \in Batch : released[b] + 0 = released[b]
          BY <1>1
    <3>2. released = [b \in Batch |-> released[b]]
          BY <1>1
    <3>. QED BY <2>1, <3>1, <3>2
  <2>3. [released EXCEPT ![c] = @ + 1]
          = [b \in Batch |-> released[b] + IF b \in Current(t) THEN 1 ELSE 0]
        BY <2>1, <2>2
  <2>. QED BY <1>2, <1>3, <1>4, <2>3 DEF c
<1>5. CASE ~chunk[t].armed
  <2>1. released = [b \in Batch |-> released[b] + 0]
        BY <1>1
  <2>. QED BY <1>2, <1>3, <1>5, <2>1 DEF Current
<1>. QED BY <1>4, <1>5

\* A batch of n rows is read and goes to the pipeline, or the thread fails.
LEMMA InvScanBatch ==
  ASSUME ScanInv, NEW t \in Threads, ScanBatch(t)
  PROVE  ScanInv'
<1>. DEFINE s  == reader[t]
            nb == <<s, pos[t]>>
<1>1. /\ at[t] = "open" /\ query = "running" /\ pos[t] < Rows[s]
      /\ UNCHANGED <<split_index, reader, out>>
      BY DEF ScanBatch
<1>2. /\ s \in Splits /\ s \in Nat \ {0} /\ Rows[s] \in Nat /\ pos[t] \in Nat
      /\ VectorSize \in Nat \ {0} /\ nb \in Batch
  <2>1. s \in Splits /\ pos[t] \in Nat
        BY <1>1 DEF ScanInv, TypeOK, ReaderInv
  <2>2. s \in Nat \ {0} /\ Rows[s] \in Nat
        BY <2>1, SplitsAre
  <2>3. pos[t] \in 0..(Rows[s] - 1)
        BY <1>1, <2>1, <2>2
  <2>. HIDE DEF s
  <2>. QED BY <2>1, <2>2, <2>3, BatchesAre, SizeAssumption
<1>. DEFINE size(n) == Min({VectorSize, n})
            new(n)  == [batch |-> nb, size |-> size(n), armed |-> TRUE]
            old     == IF chunk[t].armed
                       THEN [released EXCEPT ![chunk[t].batch] = @ + 1] ELSE released
<1>3. PICK n \in 1..Min({BatchLimit, Rows[s] - pos[t]}) :
        /\ pos' = [pos EXCEPT ![t] = @ + n]
        /\ \/ /\ at' = [at EXCEPT ![t] = "output"]
              /\ chunk' = [chunk EXCEPT ![t] = new(n)]
              /\ released' = old
              /\ UNCHANGED query
           \/ /\ Throw(t)
              /\ chunk' = [chunk EXCEPT ![t] = new(n)]
              /\ released' = old
           \/ /\ Throw(t)
              /\ chunk' = [chunk EXCEPT ![t].armed = FALSE]
              /\ released' = [old EXCEPT ![nb] = @ + 1]
      BY DEF ScanBatch
<1>4. n \in Nat /\ 1 <= n /\ n <= VectorSize /\ pos[t] + n <= Rows[s] /\ size(n) = n
  <2>1. Rows[s] - pos[t] \in Int /\ VectorSize \in Int
        BY <1>2
  <2>2. Min({BatchLimit, Rows[s] - pos[t]})
          = IF VectorSize <= Rows[s] - pos[t] THEN VectorSize ELSE Rows[s] - pos[t]
        BY <2>1, MinIs DEF BatchLimit
  <2>3. n \in Nat /\ 1 <= n /\ n <= VectorSize /\ n <= Rows[s] - pos[t]
        BY <1>2, <2>1, <2>2
  <2>4. Min({VectorSize, n}) = IF VectorSize <= n THEN VectorSize ELSE n
        BY <2>1, <2>3, MinIs
  <2>. QED BY <1>2, <2>3, <2>4
<1>. HIDE DEF size
<1>5. new(n) \in [batch : Batch \cup {<<0, 0>>}, size : 0..VectorSize, armed : BOOLEAN]
      BY <1>2, <1>4
<1>6. /\ \A u \in Threads \ {t} :
           at'[u] = at[u] /\ pos'[u] = pos[u] /\ chunk'[u] = chunk[u]
      /\ pos'[t] = pos[t] + n /\ pos'[t] \in Nat /\ pos[t] <= pos'[t]
      /\ at'[t] \in {"output", "failed"}
      /\ at'[t] = "output" => query' = "running" /\ chunk'[t] = new(n)
      /\ at'[t] = "failed" => query' = "failed"
      /\ at' \in [Threads -> {"none", "new", "open", "next_split", "output", "exhausted",
                              "done", "failed", "destroying", "gone"}]
      /\ pos' \in [Threads -> Nat]
      /\ query' \in {"running", "ok", "failed", "stopped"}
  <2>1. /\ at \in [Threads -> {"none", "new", "open", "next_split", "output", "exhausted",
                              "done", "failed", "destroying", "gone"}]
        /\ chunk \in [Threads -> [batch : Batch \cup {<<0, 0>>}, size : 0..VectorSize,
                                  armed : BOOLEAN]]
        /\ pos \in [Threads -> Nat]
        BY DEF ScanInv, TypeOK
  <2>2. /\ pos'[t] = pos[t] + n /\ pos'[t] \in Nat /\ pos[t] <= pos'[t]
        /\ pos' \in [Threads -> Nat] /\ \A u \in Threads \ {t} : pos'[u] = pos[u]
        BY <1>2, <1>3, <1>4, <2>1
  <2>. HIDE DEF new, old, s
  <2>. QED BY <1>1, <1>3, <2>1, <2>2 DEF Throw
<1>. DEFINE Rel == Current(t) \cup IF chunk'[t].armed THEN {} ELSE {nb}
<1>7. /\ chunk' \in [Threads -> [batch : Batch \cup {<<0, 0>>}, size : 0..VectorSize,
                                 armed : BOOLEAN]]
      /\ \/ chunk'[t] = new(n) /\ chunk'[t].armed /\ released' = old
         \/ /\ ~chunk'[t].armed /\ chunk'[t] = [chunk[t] EXCEPT !.armed = FALSE]
            /\ released' = [old EXCEPT ![nb] = @ + 1] /\ at'[t] = "failed"
  <2>1. /\ chunk \in [Threads -> [batch : Batch \cup {<<0, 0>>}, size : 0..VectorSize,
                                  armed : BOOLEAN]]
        /\ at \in [Threads -> {"none", "new", "open", "next_split", "output", "exhausted",
                              "done", "failed", "destroying", "gone"}]
        BY DEF ScanInv, TypeOK
  <2>2. CASE chunk' = [chunk EXCEPT ![t] = new(n)] /\ released' = old
        BY <1>5, <2>1, <2>2
  <2>3. CASE /\ Throw(t)
             /\ chunk' = [chunk EXCEPT ![t].armed = FALSE]
             /\ released' = [old EXCEPT ![nb] = @ + 1]
        BY <2>1, <2>3 DEF Throw
  <2>. QED BY <1>3, <2>2, <2>3
<1>8. released[nb] = 0 /\ nb \notin Current(t)
  <2>1. pos[t] \in 0..(Rows[s] - 1)
        BY <1>1, <1>2
  <2>2. ReleaseAt(s, pos[t])
        BY <1>2, <2>1 DEF ScanInv, ReleaseInv
  <2>3. released[nb] = 0
        BY <1>2, <2>2 DEF ReleaseAt
  <2>4. \A b \in Current(t) : b[2] < pos[t]
        BY CurrentIs
  <2>. QED BY <1>2, <2>3, <2>4
<1>9. Releases(Rel)
  <2>1. old = [b \in Batch |-> released[b] + IF b \in Current(t) THEN 1 ELSE 0]
        BY CurrentIs
  <2>2. released \in [Batch -> Nat]
        BY DEF ScanInv, TypeOK
  <2>3. CASE chunk'[t].armed /\ released' = old
        BY <2>1, <2>3 DEF Releases
  <2>4. CASE ~chunk'[t].armed /\ released' = [old EXCEPT ![nb] = @ + 1]
    <3>. HIDE DEF old, nb
    <3>1. \A b \in Batch :
            released'[b] = released[b] + IF b \in Rel THEN 1 ELSE 0
          BY <1>2, <1>8, <2>1, <2>2, <2>4
    <3>2. released' = [b \in Batch |-> released'[b]]
          BY <2>1, <2>4
    <3>. QED BY <3>1, <3>2 DEF Releases
  <2>. QED BY <1>7, <2>3, <2>4
<1>10. \A b \in Rel : /\ b \in Batch /\ b[1] = reader[t] /\ b[2] < pos'[t]
                      /\ released[b] = 0
  <2>1. \A b \in Current(t) : /\ b \in Batch /\ b[1] = reader[t] /\ b[2] < pos[t]
                              /\ released[b] = 0 /\ b[2] \in Int
    <3>1. Current(t) \in SUBSET Batch
          BY CurrentIs
    <3>2. \A b \in Batch : b[2] \in Int
          BY BatchesAre
    <3>. HIDE DEF s, nb
    <3>. QED BY <3>1, <3>2, CurrentIs
  <2>2. nb \in Batch /\ nb[1] = reader[t] /\ nb[2] < pos'[t] /\ released[nb] = 0
        BY <1>2, <1>4, <1>6, <1>8
  <2>. HIDE DEF nb
  <2>. QED BY <1>2, <1>6, <2>1, <2>2
<1>. HIDE DEF Rel
<1>11. /\ ReleaseInv' /\ released' \in [Batch -> Nat]
       /\ \A u \in Threads \ {t} : ChunkAt(u)'
  <2>1. reader[t] # 0
        BY <1>2
  <2>. HIDE DEF s, nb
  <2>. QED BY <1>1, <1>6, <1>9, <1>10, <2>1, ReleaseStep
<1>12. CountInv' /\ split_index' \in 0..(Len(Rows) + Cardinality(Threads))
  <2>1. Past(at) \subseteq Past(at')
        BY <1>1, <1>6 DEF Past
  <2>. QED BY <1>1, <2>1, CountKept
<1>13. TypeOK'
       BY <1>1, <1>6, <1>7, <1>11, <1>12 DEF ScanInv, TypeOK
<1>14. ReaderInv'
       BY <1>1, <1>2, <1>4, <1>6 DEF ScanInv, ReaderInv
<1>15. ChunkInv'
  <2>1. ChunkAt(t)
        BY DEF ScanInv, ChunkInv
  <2>2. released \in [Batch -> Nat] /\ released' = [b \in Batch |-> released[b] + IF b \in Rel THEN 1 ELSE 0]
        BY <1>9 DEF Releases, ScanInv, TypeOK
  <2>3. CASE chunk'[t] = new(n) /\ chunk'[t].armed
    <3>1. nb \notin Rel
          BY <1>8, <2>3 DEF Rel
    <3>2. released'[nb] = 0
          BY <1>2, <1>8, <2>2, <3>1
    <3>3. /\ chunk'[t].batch = nb /\ chunk'[t].size = n /\ nb[1] = reader'[t]
          /\ nb[2] < pos'[t] /\ nb[2] + n = pos'[t]
          BY <1>1, <1>2, <1>4, <1>6, <2>3
    <3>4. ChunkAt(t)'
      <4>. HIDE DEF nb
      <4>. QED BY <1>2, <1>6, <2>3, <3>2, <3>3 DEF ChunkAt
    <3>. QED BY <1>11, <3>4 DEF ChunkInv
  <2>4. CASE /\ ~chunk'[t].armed /\ chunk'[t] = [chunk[t] EXCEPT !.armed = FALSE]
             /\ at'[t] = "failed"
    <3>1. CASE chunk[t].armed
      <4>1. chunk'[t].batch = chunk[t].batch
            BY <2>4 DEF ScanInv, TypeOK
      <4>2. chunk[t].batch \in Rel /\ chunk[t].batch \in Batch /\ released[chunk[t].batch] = 0
            BY <2>1, <3>1 DEF Rel, Current, ChunkAt
      <4>3. released'[chunk[t].batch] = 1
            BY <2>2, <4>2
      <4>4. ChunkAt(t)'
            BY <2>4, <4>1, <4>2, <4>3 DEF ChunkAt
      <4>. QED BY <1>11, <4>4 DEF ChunkInv
    <3>2. CASE ~chunk[t].armed
      <4>1. chunk'[t] = chunk[t]
            BY <2>4, <3>2 DEF ScanInv, TypeOK
      <4>2. ASSUME chunk[t].batch \in Batch, released[chunk[t].batch] = 1
            PROVE  released'[chunk[t].batch] = 1
            BY <1>10, <2>2, <4>2
      <4>3. ChunkAt(t)'
            BY <2>1, <2>4, <3>2, <4>1, <4>2 DEF ChunkAt
      <4>. QED BY <1>11, <4>3 DEF ChunkInv
    <3>. QED BY <3>1, <3>2
  <2>. QED BY <1>7, <2>3, <2>4
<1>16. OutInv'
  <2>1. SUFFICES ASSUME NEW r \in Splits, NEW i \in 1..Rows[r]
                 PROVE  OutAt(r, i)'
        BY Zenon DEF OutInv
  <2>2. OutAt(r, i)
        BY DEF ScanInv, OutInv
  <2>3. \A u \in Threads : reader'[u] = r =>
          /\ at'[u] = "open" => out[<<r, i>>] = IF i <= pos'[u] THEN 1 ELSE 0
          /\ at'[u] = "output" =>
               out[<<r, i>>] = IF i <= chunk'[u].batch[2] THEN 1 ELSE 0
        BY <1>1, <1>6, <2>2 DEF OutAt
  <2>4. ASSUME query' \in {"running", "ok"}, r <= split_index
        PROVE  \/ out[<<r, i>>] = 1
               \/ \E u \in Threads : at'[u] \in {"open", "output"} /\ reader'[u] = r
        BY <1>1, <1>6, <2>2, <2>4 DEF OutAt
  <2>. QED BY <1>1, <2>2, <2>3, <2>4 DEF OutAt
<1>17. QueryInv'
       BY <1>1, <1>6 DEF ScanInv, QueryInv
<1>. QED BY <1>11, <1>12, <1>13, <1>14, <1>15, <1>16, <1>17 DEF ScanInv

\* ReleaseCurrentBatch, by a thread that puts nothing out.
LEMMA ReleaseCurrent ==
  ASSUME ScanInv, NEW t \in Threads, ReleaseCurrentBatch(t),
         UNCHANGED <<split_index, reader, pos>>, at'[t] # "output",
         \A u \in Threads \ {t} : at'[u] = at[u]
  PROVE  /\ ReleaseInv' /\ ChunkInv' /\ released' \in [Batch -> Nat]
         /\ chunk' \in [Threads -> [batch : Batch \cup {<<0, 0>>}, size : 0..VectorSize,
                                    armed : BOOLEAN]]
<1>1. Releases(Current(t))
      BY CurrentIs DEF ReleaseCurrentBatch, Releases
<1>2. /\ Current(t) \in SUBSET Batch
      /\ Current(t) # {} => reader[t] # 0
      /\ \A b \in Current(t) : b[1] = reader[t] /\ b[2] < pos[t] /\ released[b] = 0
      BY CurrentIs
<1>3. /\ chunk' \in [Threads -> [batch : Batch \cup {<<0, 0>>}, size : 0..VectorSize,
                                 armed : BOOLEAN]]
      /\ \A u \in Threads \ {t} : chunk'[u] = chunk[u]
      /\ ~chunk'[t].armed /\ chunk'[t].batch = chunk[t].batch
      /\ ~chunk[t].armed => chunk'[t] = chunk[t]
      BY DEF ReleaseCurrentBatch, ScanInv, TypeOK
<1>4. pos'[t] \in Nat /\ pos[t] <= pos'[t] /\ pos'[t] = pos[t]
      BY DEF ScanInv, TypeOK
<1>5. /\ ReleaseInv' /\ released' \in [Batch -> Nat]
      /\ \A u \in Threads \ {t} : ChunkAt(u)'
      BY <1>1, <1>2, <1>3, <1>4, ReleaseStep
<1>6. ChunkAt(t) /\ released \in [Batch -> Nat]
      BY DEF ScanInv, ChunkInv, TypeOK
<1>7. ASSUME chunk[t].batch \in Batch, released[chunk[t].batch] = IF chunk[t].armed THEN 0 ELSE 1
      PROVE  released'[chunk[t].batch] = 1
  <2>1. released'[chunk[t].batch]
          = released[chunk[t].batch] + IF chunk[t].batch \in Current(t) THEN 1 ELSE 0
        BY <1>1, <1>7 DEF Releases
  <2>. QED BY <1>7, <2>1 DEF Current
<1>8. ChunkAt(t)'
  <2>1. CASE chunk[t].armed
        BY <1>3, <1>6, <1>7, <2>1 DEF ChunkAt
  <2>2. CASE ~chunk[t].armed
        BY <1>3, <1>6, <1>7, <2>2 DEF ChunkAt
  <2>. QED BY <2>1, <2>2
<1>. QED BY <1>3, <1>5, <1>8 DEF ChunkInv

\* A thread that puts nothing out leaves what the pipeline has seen as it is,
\* if its split is out or the query has failed.
LEMMA OutKept ==
  ASSUME ScanInv, NEW t \in Threads,
         UNCHANGED <<split_index, pos, out>>,
         query' = query \/ query' \notin {"running", "ok"},
         reader'[t] \in {0, reader[t]},
         at'[t] \notin {"open", "output"},
         \A u \in Threads \ {t} :
           at'[u] = at[u] /\ chunk'[u] = chunk[u] /\ reader'[u] = reader[u],
         at[t] \in {"open", "output"} /\ query' \in {"running", "ok"} =>
           at[t] = "open" /\ reader[t] \in Splits /\ pos[t] = Rows[reader[t]]
  PROVE  OutInv'
<1>1. SUFFICES ASSUME NEW s \in Splits, NEW i \in 1..Rows[s]
               PROVE  OutAt(s, i)'
      BY Zenon DEF OutInv
<1>2. OutAt(s, i)
      BY DEF ScanInv, OutInv
<1>3. \A u \in Threads : reader'[u] = s =>
        /\ at'[u] = "open" => out[<<s, i>>] = IF i <= pos[u] THEN 1 ELSE 0
        /\ at'[u] = "output" =>
             out[<<s, i>>] = IF i <= chunk'[u].batch[2] THEN 1 ELSE 0
      BY <1>2 DEF OutAt
<1>4. ASSUME query' \in {"running", "ok"}, s <= split_index
      PROVE  \/ out[<<s, i>>] = 1
             \/ \E u \in Threads : at'[u] \in {"open", "output"} /\ reader'[u] = s
  <2>1. query \in {"running", "ok"}
        BY <1>4
  <2>2. CASE out[<<s, i>>] = 1
        BY <2>2
  <2>3. CASE at[t] \in {"open", "output"} /\ reader[t] = s
    <3>1. at[t] = "open" /\ pos[t] = Rows[s]
          BY <1>4, <2>3
    <3>2. i <= Rows[s]
          BY SplitsAre
    <3>. QED BY <1>2, <2>3, <3>1, <3>2 DEF OutAt
  <2>4. CASE \E u \in Threads \ {t} : at[u] \in {"open", "output"} /\ reader[u] = s
        BY <2>4
  <2>. QED BY <1>2, <1>4, <2>1, <2>2, <2>3, <2>4 DEF OutAt
<1>. QED BY <1>2, <1>3, <1>4 DEF OutAt

\* The end of a split: the thread's batch is released and all rows are out.
LEMMA InvScanEof ==
  ASSUME ScanInv, NEW t \in Threads, ScanEof(t)
  PROVE  ScanInv'
<1>1. /\ at[t] = "open" /\ query = "running" /\ pos[t] = Rows[reader[t]]
      /\ ReleaseCurrentBatch(t)
      /\ UNCHANGED <<split_index, reader, pos, out, query>>
      BY DEF ScanEof
<1>2. /\ at' \in [Threads -> {"none", "new", "open", "next_split", "output", "exhausted",
                              "done", "failed", "destroying", "gone"}]
      /\ at'[t] = "next_split" /\ \A u \in Threads \ {t} : at'[u] = at[u]
      BY DEF ScanEof, ScanInv, TypeOK
<1>3. CountInv' /\ split_index' \in 0..(Len(Rows) + Cardinality(Threads))
  <2>1. Past(at) \subseteq Past(at')
        BY <1>1, <1>2 DEF Past
  <2>. QED BY <1>1, <2>1, CountKept
<1>4. /\ ReleaseInv' /\ ChunkInv' /\ released' \in [Batch -> Nat]
      /\ chunk' \in [Threads -> [batch : Batch \cup {<<0, 0>>}, size : 0..VectorSize,
                                 armed : BOOLEAN]]
      BY <1>1, <1>2, ReleaseCurrent
<1>5. TypeOK'
      BY <1>1, <1>2, <1>3, <1>4 DEF ScanInv, TypeOK
<1>6. ReaderInv'
      BY <1>1, <1>2 DEF ScanInv, ReaderInv
<1>7. OutInv'
  <2>1. \A u \in Threads \ {t} : chunk'[u] = chunk[u]
        BY <1>1 DEF ReleaseCurrentBatch, ScanInv, TypeOK
  <2>2. reader[t] \in Splits
        BY <1>1 DEF ScanInv, TypeOK, ReaderInv
  <2>. QED BY <1>1, <1>2, <2>1, <2>2, OutKept
<1>8. QueryInv'
      BY <1>1, <1>2 DEF ScanInv, QueryInv
<1>. QED BY <1>3, <1>4, <1>5, <1>6, <1>7, <1>8 DEF ScanInv

\* The destructor's body, and later the chunk's: the batch is released.
LEMMA InvDestroy ==
  ASSUME ScanInv, NEW t \in Threads, DestroyLocalState(t) \/ DestroyChunk(t)
  PROVE  ScanInv'
<1>1. /\ at[t] \in {"done", "failed", "destroying"} \/ query # "running"
      /\ at[t] \in {"open", "output", "exhausted", "done", "failed", "destroying"}
      /\ ReleaseCurrentBatch(t)
      /\ UNCHANGED <<split_index, reader, pos, out, query>>
      BY DEF DestroyLocalState, DestroyChunk
<1>2. /\ at' \in [Threads -> {"none", "new", "open", "next_split", "output", "exhausted",
                              "done", "failed", "destroying", "gone"}]
      /\ at'[t] \in {"destroying", "gone"} /\ \A u \in Threads \ {t} : at'[u] = at[u]
      BY DEF DestroyLocalState, DestroyChunk, ScanInv, TypeOK
<1>3. CountInv' /\ split_index' \in 0..(Len(Rows) + Cardinality(Threads))
  <2>1. Past(at) \subseteq Past(at')
        BY <1>1, <1>2 DEF Past
  <2>. QED BY <1>1, <2>1, CountKept
<1>4. /\ ReleaseInv' /\ ChunkInv' /\ released' \in [Batch -> Nat]
      /\ chunk' \in [Threads -> [batch : Batch \cup {<<0, 0>>}, size : 0..VectorSize,
                                 armed : BOOLEAN]]
      BY <1>1, <1>2, ReleaseCurrent
<1>5. TypeOK'
      BY <1>1, <1>2, <1>3, <1>4 DEF ScanInv, TypeOK
<1>6. ReaderInv'
      BY <1>1, <1>2 DEF ScanInv, ReaderInv
<1>7. query \in {"running", "ok"} => at[t] \in {"done", "destroying"}
      BY <1>1 DEF ScanInv, QueryInv
<1>8. OutInv'
  <2>1. \A u \in Threads \ {t} : chunk'[u] = chunk[u]
        BY <1>1 DEF ReleaseCurrentBatch, ScanInv, TypeOK
  <2>. QED BY <1>1, <1>2, <1>7, <2>1, OutKept
<1>9. QueryInv'
      BY <1>1, <1>2, <1>7 DEF ScanInv, QueryInv
<1>. QED BY <1>3, <1>4, <1>5, <1>6, <1>8, <1>9 DEF ScanInv

\* The reader goes after the batch it made.
LEMMA InvDestroyReader ==
  ASSUME ScanInv, NEW t \in Threads, DestroyReader(t)
  PROVE  ScanInv'
<1>1. /\ at[t] = "destroying" /\ UNCHANGED <<split_index, at, pos, chunk, released, out, query>>
      /\ reader'[t] = 0 /\ \A u \in Threads \ {t} : reader'[u] = reader[u]
      /\ reader' \in [Threads -> {0} \cup Splits]
      BY DEF DestroyReader, ScanInv, TypeOK
<1>2. CountInv' /\ TypeOK' /\ QueryInv'
      BY <1>1 DEF ScanInv, CountInv, TypeOK, QueryInv
<1>3. ReaderInv'
      BY <1>1 DEF ScanInv, ReaderInv
<1>4. ChunkInv'
  <2>1. ASSUME NEW u \in Threads PROVE ChunkAt(u)'
    <3>1. ChunkAt(u)
          BY DEF ScanInv, ChunkInv
    <3>. QED BY <1>1, <3>1 DEF ChunkAt
  <2>. QED BY <2>1 DEF ChunkInv
<1>5. ReleaseInv'
  <2>1. SUFFICES ASSUME NEW s \in Splits, NEW q \in 0..(Rows[s] - 1)
                 PROVE  ReleaseAt(s, q)'
        BY Zenon DEF ReleaseInv
  <2>2. ReleaseAt(s, q) /\ s # 0
        BY SplitsAre DEF ScanInv, ReleaseInv
  <2>. QED BY <1>1, <2>2 DEF ReleaseAt
<1>6. OutInv'
      BY <1>1, OutKept
<1>. QED BY <1>2, <1>3, <1>4, <1>5, <1>6 DEF ScanInv

\* A thread fails to read, or returns for the last time.
LEMMA InvScanEnds ==
  ASSUME ScanInv, NEW t \in Threads, ScanError(t) \/ ScanExhausted(t)
  PROVE  ScanInv'
<1>1. /\ UNCHANGED <<split_index, reader, pos, chunk, released, out>>
      /\ \/ at[t] = "open" /\ at'[t] = "failed" /\ query = "running" /\ query' = "failed"
         \/ at[t] = "exhausted" /\ at'[t] = "done" /\ query' = query
      /\ at' \in [Threads -> {"none", "new", "open", "next_split", "output", "exhausted",
                              "done", "failed", "destroying", "gone"}]
      /\ \A u \in Threads \ {t} : at'[u] = at[u]
      BY DEF ScanError, ScanExhausted, Throw, ScanInv, TypeOK
<1>2. CountInv' /\ split_index' \in 0..(Len(Rows) + Cardinality(Threads))
  <2>1. Past(at) \subseteq Past(at')
        BY <1>1 DEF Past
  <2>. QED BY <1>1, <2>1, CountKept
<1>3. TypeOK'
      BY <1>1, <1>2 DEF ScanInv, TypeOK
<1>4. ReaderInv' /\ QueryInv'
      BY <1>1 DEF ScanInv, ReaderInv, QueryInv
<1>5. ChunkInv'
  <2>1. ASSUME NEW u \in Threads PROVE ChunkAt(u)'
    <3>1. ChunkAt(u)
          BY DEF ScanInv, ChunkInv
    <3>. QED BY <1>1, <3>1 DEF ChunkAt
  <2>. QED BY <2>1 DEF ChunkInv
<1>6. ReleaseInv'
      BY <1>1 DEF ScanInv, ReleaseInv, ReleaseAt
<1>7. OutInv'
      BY <1>1, OutKept
<1>. QED BY <1>2, <1>3, <1>4, <1>5, <1>6, <1>7 DEF ScanInv

\* The pipeline takes the rows between the start of the batch and the
\* position of the reader, none of which it had seen.
LEMMA InvConsume ==
  ASSUME ScanInv, NEW t \in Threads, Consume(t)
  PROVE  ScanInv'
<1>. DEFINE c == chunk[t]
            taken == {<<c.batch[1], c.batch[2] + i>> : i \in 1..c.size}
<1>1. /\ at[t] = "output" /\ query = "running"
      /\ UNCHANGED <<split_index, reader, pos, chunk, released, query>>
      /\ out' = [r \in Row |-> out[r] + IF r \in taken THEN 1 ELSE 0]
      BY DEF Consume
<1>2. /\ at' \in [Threads -> {"none", "new", "open", "next_split", "output", "exhausted",
                              "done", "failed", "destroying", "gone"}]
      /\ at'[t] = "open" /\ \A u \in Threads \ {t} : at'[u] = at[u]
      BY DEF Consume, ScanInv, TypeOK
<1>3. /\ c.batch[1] = reader[t] /\ c.batch[2] \in Nat /\ c.size \in Nat
      /\ c.batch[2] + c.size = pos[t] /\ c.batch[1] \in Splits /\ pos[t] \in Nat
  <2>1. ChunkAt(t)
        BY DEF ScanInv, ChunkInv
  <2>2. c.batch \in Batch /\ c.size \in 0..VectorSize
        BY <1>1, <2>1 DEF ChunkAt, ScanInv, TypeOK
  <2>3. c.batch[2] \in 0..(Rows[c.batch[1]] - 1) /\ c.batch[1] \in Splits
        BY <2>2, BatchesAre
  <2>4. pos[t] \in Nat
        BY DEF ScanInv, TypeOK
  <2>. QED BY <1>1, <2>1, <2>2, <2>3, <2>4, SizeAssumption DEF ChunkAt
<1>4. \A s \in Splits : \A i \in 1..Rows[s] :
        <<s, i>> \in taken <=> s = reader[t] /\ c.batch[2] < i /\ i <= pos[t]
  <2>. SUFFICES ASSUME NEW s \in Splits, NEW i \in 1..Rows[s]
                PROVE  <<s, i>> \in taken <=> s = reader[t] /\ c.batch[2] < i /\ i <= pos[t]
       BY Zenon
  <2>0. Rows[s] \in Nat /\ i \in Nat
        BY SplitsAre
  <2>1. ASSUME s = reader[t], c.batch[2] < i, i <= pos[t] PROVE <<s, i>> \in taken
    <3>1. i - c.batch[2] \in 1..c.size /\ i = c.batch[2] + (i - c.batch[2])
          BY <1>3, <2>0, <2>1
    <3>. QED BY <1>3, <2>1, <3>1
  <2>2. ASSUME <<s, i>> \in taken PROVE s = reader[t] /\ c.batch[2] < i /\ i <= pos[t]
    <3>1. PICK k \in 1..c.size : <<s, i>> = <<c.batch[1], c.batch[2] + k>>
          BY <2>2
    <3>2. s = c.batch[1] /\ i = c.batch[2] + k
          BY <3>1
    <3>. QED BY <1>3, <3>2
  <2>. QED BY <2>1, <2>2
<1>5. /\ out \in [Row -> Nat] /\ out' \in [Row -> Nat]
      /\ \A s \in Splits : \A i \in 1..Rows[s] :
           out'[<<s, i>>] = out[<<s, i>>] +
             IF s = reader[t] /\ c.batch[2] < i /\ i <= pos[t] THEN 1 ELSE 0
  <2>1. out \in [Row -> Nat]
        BY DEF ScanInv, TypeOK
  <2>. HIDE DEF taken, c
  <2>2. out' \in [Row -> Nat]
        BY <1>1, <2>1
  <2>. QED BY <1>1, <1>4, <2>1, <2>2, RowsAre
<1>. HIDE DEF taken
<1>6. CountInv' /\ split_index' \in 0..(Len(Rows) + Cardinality(Threads))
  <2>1. Past(at) \subseteq Past(at')
        BY <1>1, <1>2 DEF Past
  <2>. QED BY <1>1, <2>1, CountKept
<1>7. TypeOK'
      BY <1>1, <1>2, <1>5, <1>6 DEF ScanInv, TypeOK
<1>8. ReaderInv' /\ QueryInv'
      BY <1>1, <1>2 DEF ScanInv, ReaderInv, QueryInv
<1>9. ChunkInv'
  <2>1. ASSUME NEW u \in Threads PROVE ChunkAt(u)'
    <3>1. ChunkAt(u)
          BY DEF ScanInv, ChunkInv
    <3>. QED BY <1>1, <1>2, <3>1 DEF ChunkAt
  <2>. QED BY <2>1 DEF ChunkInv
<1>10. ReleaseInv'
      BY <1>1 DEF ScanInv, ReleaseInv, ReleaseAt
<1>11. OutInv'
  <2>1. SUFFICES ASSUME NEW s \in Splits, NEW i \in 1..Rows[s]
                 PROVE  OutAt(s, i)'
        BY Zenon DEF OutInv
  <2>2. OutAt(s, i)
        BY DEF ScanInv, OutInv
  <2>3. i \in Nat /\ s \in Nat /\ split_index \in Nat
        BY SplitsAre DEF ScanInv, TypeOK
  <2>4. CASE s = reader[t]
    <3>1. out[<<s, i>>] = IF i <= c.batch[2] THEN 1 ELSE 0
          BY <1>1, <2>2, <2>4 DEF OutAt
    <3>2. out'[<<s, i>>] = IF i <= pos[t] THEN 1 ELSE 0
          BY <1>3, <1>5, <2>3, <2>4, <3>1
    <3>3. s <= split_index
          BY <1>3, <2>3, <2>4, SplitsAre DEF ScanInv, ReaderInv
    <3>4. \A u \in Threads : reader[u] = s => u = t
          BY <1>3, <2>4, SplitsAre DEF ScanInv, ReaderInv
    <3>. QED BY <1>1, <1>2, <2>3, <2>4, <3>2, <3>3, <3>4 DEF OutAt
  <2>5. CASE s # reader[t]
    <3>1. out'[<<s, i>>] = out[<<s, i>>]
          BY <1>5, <2>5, RowsAre
    <3>. QED BY <1>1, <1>2, <2>2, <2>5, <3>1 DEF OutAt
  <2>. QED BY <2>4, <2>5
<1>. QED BY <1>6, <1>7, <1>8, <1>9, <1>10, <1>11 DEF ScanInv

\* The query is over: successful when its threads are, or stopped.
LEMMA InvQueryEnds ==
  ASSUME ScanInv, Complete \/ Stop
  PROVE  ScanInv'
<1>1. /\ UNCHANGED <<split_index, reader, pos, chunk, released, out>> /\ query = "running"
      /\ \/ /\ query' = "ok" /\ at' = at
            /\ \A t \in Threads : at[t] \in {"none", "done", "destroying", "gone"}
         \/ query' = "stopped"
      /\ \A t \in Threads : at'[t] = IF at[t] = "new" /\ query' = "stopped" THEN "none" ELSE at[t]
      /\ at' \in [Threads -> {"none", "new", "open", "next_split", "output", "exhausted",
                              "done", "failed", "destroying", "gone"}]
      BY DEF Complete, Stop, ScanInv, TypeOK
<1>2. CountInv' /\ split_index' \in 0..(Len(Rows) + Cardinality(Threads))
  <2>1. Past(at) \subseteq Past(at')
        BY <1>1 DEF Past
  <2>. QED BY <1>1, <2>1, CountKept
<1>3. TypeOK'
      BY <1>1, <1>2 DEF ScanInv, TypeOK
<1>4. ReaderInv'
      BY <1>1 DEF ScanInv, ReaderInv
<1>5. QueryInv'
      BY <1>1 DEF ScanInv, QueryInv
<1>6. ChunkInv'
  <2>1. ASSUME NEW u \in Threads PROVE ChunkAt(u)'
    <3>1. ChunkAt(u)
          BY DEF ScanInv, ChunkInv
    <3>. QED BY <1>1, <3>1 DEF ChunkAt
  <2>. QED BY <2>1 DEF ChunkInv
<1>7. ReleaseInv'
      BY <1>1 DEF ScanInv, ReleaseInv, ReleaseAt
<1>8. OutInv'
  <2>1. SUFFICES ASSUME NEW s \in Splits, NEW i \in 1..Rows[s]
                 PROVE  OutAt(s, i)'
        BY Zenon DEF OutInv
  <2>2. OutAt(s, i)
        BY DEF ScanInv, OutInv
  <2>. QED BY <1>1, <2>2 DEF OutAt
<1>. QED BY <1>2, <1>3, <1>4, <1>5, <1>6, <1>7, <1>8 DEF ScanInv

\* Every step keeps the invariant.
LEMMA InvNext == ScanInv /\ [Next]_vars => ScanInv'
<1>. SUFFICES ASSUME ScanInv, [Next]_vars PROVE ScanInv'
     OBVIOUS
<1>1. CASE UNCHANGED vars
      BY <1>1 DEF vars, ScanInv, TypeOK, CountInv, ReaderInv, ChunkInv, ChunkAt,
                  ReleaseInv, ReleaseAt, OutInv, OutAt, QueryInv
<1>2. CASE Complete \/ Stop
      BY <1>2, InvQueryEnds
<1>3. ASSUME NEW t \in Threads, Step(t) \/ ScanError(t) PROVE ScanInv'
      BY <1>3, InvNextSplit, InvScanBatch, InvScanEof, InvScanEnds, InvConsume,
         InvDestroy, InvDestroyReader DEF Step
<1>. QED BY <1>1, <1>2, <1>3 DEF Next

-----------------------------------------------------------------------------
(***************************************************************************)
(* The theorems.                                                           *)
(***************************************************************************)

\* The invariant holds in every reachable state.
THEOREM Invariant == Spec => []ScanInv
BY InvInit, InvNext, PTL DEF Spec

\* Every variable keeps its type; the counter that the threads share passes
\* the number of splits by at most one per thread.
THEOREM TypeCorrect == Spec => []TypeOK
<1>1. ScanInv => TypeOK
      BY DEF ScanInv
<1>. QED BY <1>1, Invariant, PTL

\* A batch in memory has its reader, whatever path PaimonScan or the
\* destructor takes.
THEOREM BatchHasReader == Spec => []BatchWithinReader
<1>1. ScanInv => BatchWithinReader
      BY DEF ScanInv, ChunkInv, ChunkAt, BatchWithinReader
<1>. QED BY <1>1, Invariant, PTL

\* The release callback of a batch is called once.
THEOREM ReleaseOnce == Spec => []ReleasedOnce
<1>1. ASSUME ScanInv PROVE ReleasedOnce
  <2>1. ASSUME NEW b \in Batch PROVE released[b] <= 1
    <3>1. b = <<b[1], b[2]>> /\ b[1] \in Splits /\ b[2] \in 0..(Rows[b[1]] - 1)
          BY BatchesAre
    <3>2. ReleaseAt(b[1], b[2])
          BY <1>1, <3>1 DEF ScanInv, ReleaseInv
    <3>. QED BY <3>1, <3>2 DEF ReleaseAt
  <2>2. \A t \in Threads :
          /\ chunk[t].armed => released[chunk[t].batch] = 0
          /\ at[t] = "gone" /\ chunk[t] # NoChunk => released[chunk[t].batch] = 1
        BY <1>1 DEF ScanInv, ChunkInv, ChunkAt
  <2>. QED BY <2>1, <2>2 DEF ReleasedOnce
<1>2. ScanInv => ReleasedOnce
      BY <1>1
<1>. QED BY <1>2, Invariant, PTL

\* No row reaches the pipeline twice, and a scan that succeeds has put out
\* every row of every split.
THEOREM ExactlyOnce == Spec => []RowsExactlyOnce
<1>1. ASSUME ScanInv, NEW r \in Row
      PROVE  out[r] <= 1 /\ (query = "ok" => out[r] = 1)
  <2>1. r = <<r[1], r[2]>> /\ r[1] \in Splits /\ r[2] \in 1..Rows[r[1]]
        BY RowsAre
  <2>2. OutAt(r[1], r[2])
        BY <1>1, <2>1 DEF ScanInv, OutInv
  <2>3. ASSUME query = "ok" PROVE out[r] = 1
    <3>1. PICK t \in Threads : at[t] # "none"
          BY <1>1, <2>3 DEF ScanInv, QueryInv
    <3>2. \A u \in Threads : at[u] \in {"none", "done", "destroying", "gone"}
          BY <1>1, <2>3 DEF ScanInv, QueryInv
    <3>3. split_index >= Len(Rows)
          BY <1>1, <2>3, <3>1, <3>2 DEF ScanInv, QueryInv
    <3>4. r[1] <= split_index
          BY <1>1, <2>1, <3>3, SplitsAre DEF ScanInv, TypeOK
    <3>. QED BY <2>1, <2>2, <2>3, <3>2, <3>4 DEF OutAt
  <2>. QED BY <2>1, <2>2, <2>3 DEF OutAt
<1>2. ScanInv => RowsExactlyOnce
      BY <1>1 DEF RowsExactlyOnce
<1>. QED BY <1>2, Invariant, PTL
=============================================================================
