-------------------------- MODULE WorkerTaskProofs --------------------------
(***************************************************************************)
(* Theorems about WorkerTask, for any finite number of threads and         *)
(* partitions, any input and all limits.                                   *)
(***************************************************************************)
EXTENDS WorkerTask, SumTheorems

\* FilesOf and RowsIn for any contents w of the writers, and the files of the
\* threads that have combined, for any thread states th.
Contents   == [Threads -> [Parts -> Nat]]
Cell(w)    == [f \in File |-> w[f[1]][f[2]]]
Rows(w, m) == SumOf([f \in m |-> w[f[1]][f[2]]])
Files(w, t) == {<<t, p>> : p \in {q \in Parts : w[t][q] > 0}}
Combined(th, w) == UNION {Files(w, t) : t \in {u \in Threads : th[u] = "combined"}}

-----------------------------------------------------------------------------
(***************************************************************************)
(* The inductive invariant.                                                *)
(***************************************************************************)

\* What a thread has: a prepared thread holds the messages of all its files,
\* which are on disk, and no other thread holds any; a thread that has not
\* failed counted what it wrote.
ThreadInv ==
  \A t \in Threads :
    /\ thr[t] = "prepared" =>
         held[t] = Files(written, t) /\ held[t] \subseteq disk /\ local_rows[t] > 0
    /\ thr[t] # "prepared" => held[t] = {}
    /\ thr[t] = "new" => local_rows[t] = 0
    /\ thr[t] # "failed" => local_rows[t] = SumOf(written[t])

\* What the global state has until Finalize: the messages of the threads that
\* have combined, with their rows, and their files are on disk.
SharedInv ==
  task = "open" =>
    /\ messages = Combined(thr, written)
    /\ row_count = Rows(written, messages)
    /\ alive => messages \subseteq disk
    /\ fragment = {} /\ fragment_rows = 0

\* After Finalize no thread runs, and the messages are with the fragment.
EndInv ==
  /\ task # "open" => AllCombined
  /\ task = "failed" => fragment = {} /\ fragment_rows = 0
  /\ task = "published" =>
       /\ messages = {}
       /\ fragment = Combined(thr, written)
       /\ fragment_rows = Rows(written, fragment)
       /\ fragment \subseteq disk

\* When Paimon's Abort works, every file on disk is known to somebody.
DiskInv ==
  ~AbortFaults /\ ~crashed =>
    disk \subseteq fragment \cup orphans \cup
      (IF alive THEN messages \cup UNION {held[t] : t \in Threads} ELSE {})

TaskInv == TypeOK /\ ThreadInv /\ SharedInv /\ EndInv /\ DiskInv

-----------------------------------------------------------------------------
(***************************************************************************)
(* Files and their rows, for any contents w of the writers.                *)
(***************************************************************************)
\* The attempt writes finitely many files.
LEMMA FileFinite == IsFiniteSet(File)
BY FiniteAssumption, FS_Product DEF File

\* The rows of a set of files are a part of the sum over all files.
LEMMA RowsOnly ==
  ASSUME NEW w \in Contents, NEW m \in SUBSET File
  PROVE  Cell(w) \in [File -> Nat] /\ Rows(w, m) = SumOf(Only(Cell(w), m))
<1>1. Cell(w) \in [File -> Nat]
      BY DEF Cell, Contents, File
<1>2. [f \in m |-> w[f[1]][f[2]]] = Only(Cell(w), m)
      BY DEF Cell, Only
<1>. QED BY <1>1, <1>2 DEF Rows

\* Rows are counted by a natural, and files with rows count some.
LEMMA RowsNat ==
  ASSUME NEW w \in Contents, NEW m \in SUBSET File
  PROVE  /\ Rows(w, m) \in Nat
         /\ Rows(w, m) = 0 <=> \A f \in m : w[f[1]][f[2]] = 0
<1>. DEFINE g == [f \in m |-> w[f[1]][f[2]]]
<1>1. g \in [m -> Nat] /\ \A f \in m : g[f] = w[f[1]][f[2]]
      BY DEF Contents, File
<1>2. IsFiniteSet(m)
      BY FileFinite, FS_Subset
<1>3. Rows(w, m) = SumOf(g)
      BY DEF Rows
<1>. HIDE DEF g
<1>. QED BY <1>1, <1>2, <1>3, SumNat

\* The rows of two disjoint sets of files add up.
LEMMA RowsUnion ==
  ASSUME NEW w \in Contents, NEW a \in SUBSET File, NEW c \in SUBSET File,
         a \cap c = {}
  PROVE  Rows(w, a \cup c) = Rows(w, a) + Rows(w, c)
<1>1. a \cup c \in SUBSET File
      OBVIOUS
<1>2. Cell(w) \in [File -> Int]
      BY RowsOnly, <1>1 DEF Cell, Contents, File
<1>3. SumOf(Only(Cell(w), a \cup c))
        = SumOf(Only(Cell(w), a)) + SumOf(Only(Cell(w), c))
      BY <1>2, FileFinite, SumUnion
<1>4. /\ Rows(w, a \cup c) = SumOf(Only(Cell(w), a \cup c))
      /\ Rows(w, a) = SumOf(Only(Cell(w), a))
      /\ Rows(w, c) = SumOf(Only(Cell(w), c))
      BY <1>1, RowsOnly
<1>. QED BY <1>3, <1>4

\* The rows of a set of files depend on those files only.
LEMMA RowsSame ==
  ASSUME NEW w \in Contents, NEW v \in Contents, NEW m \in SUBSET File,
         \A f \in m : w[f[1]] = v[f[1]]
  PROVE  Rows(w, m) = Rows(v, m)
<1>1. [f \in m |-> w[f[1]][f[2]]] = [f \in m |-> v[f[1]][f[2]]]
      OBVIOUS
<1>. QED BY <1>1 DEF Rows

\* A thread's files hold exactly the rows it wrote.
LEMMA ThreadRows ==
  ASSUME NEW w \in Contents, NEW t \in Threads
  PROVE  /\ Files(w, t) \in SUBSET File
         /\ Rows(w, Files(w, t)) = SumOf(w[t])
         /\ SumOf(w[t]) \in Nat
         /\ SumOf(w[t]) = 0 <=> Files(w, t) = {}
<1>. DEFINE full == {q \in Parts : w[t][q] > 0}
            g    == Only(w[t], full)
            h    == [f \in Files(w, t) |-> w[f[1]][f[2]]]
            b    == [p \in full |-> <<t, p>>]
<1>1. w[t] \in [Parts -> Nat]
      BY DEF Contents
<1>2. Files(w, t) \in SUBSET File
      BY DEF Files, File
<1>3. IsFiniteSet(Files(w, t)) /\ IsFiniteSet(full)
      BY <1>2, FileFinite, FS_Subset, FiniteAssumption
<1>4. SumOf(w[t]) = SumOf(g)
  <2>1. full \in SUBSET Parts /\ \A x \in Parts \ full : w[t][x] = 0
        BY <1>1
  <2>. HIDE DEF full
  <2>. QED BY <1>1, <2>1, FiniteAssumption, SumSupport
<1>5. SumOf(h) = SumOf(g)
  <2>1. g \in [full -> Int]
        BY <1>1 DEF Only
  <2>2. h \in [Files(w, t) -> Int]
        BY <1>1 DEF Files
  <2>3. b \in [full -> Files(w, t)]
        BY DEF Files
  <2>4. \A x, y \in full : b[x] = b[y] => x = y
        OBVIOUS
  <2>5. \A z \in Files(w, t) : \E x \in full : z = b[x]
        BY DEF Files
  <2>6. \A x \in full : h[b[x]] = g[x]
        BY <2>3 DEF Only
  <2>. HIDE DEF full, g, h, b
  <2>. QED BY <1>3, <2>1, <2>2, <2>3, <2>4, <2>5, <2>6, SumReindex
<1>6. SumOf(w[t]) \in Nat /\ (SumOf(w[t]) = 0 <=> \A x \in Parts : w[t][x] = 0)
      BY <1>1, FiniteAssumption, SumNat
<1>7. (\A x \in Parts : w[t][x] = 0) <=> Files(w, t) = {}
  <2>1. Files(w, t) = {} <=> full = {}
        BY DEF Files
  <2>2. full = {} <=> \A x \in Parts : ~(w[t][x] > 0)
        OBVIOUS
  <2>3. \A x \in Parts : w[t][x] > 0 <=> w[t][x] # 0
        BY <1>1
  <2>. QED BY <2>1, <2>2, <2>3
<1>8. Rows(w, Files(w, t)) = SumOf(h)
      BY DEF Rows
<1>. QED BY <1>2, <1>4, <1>5, <1>6, <1>7, <1>8

-----------------------------------------------------------------------------
(***************************************************************************)
(* Type correctness.                                                       *)
(***************************************************************************)

\* The initial state has the declared types.
LEMMA TypeInit == Init => TypeOK
<1>. SUFFICES ASSUME Init PROVE TypeOK
     OBVIOUS
<1>1. 0 \in 0..MaxRowCount
      BY LimitsAssumption
<1>2. /\ written \in [Threads -> [Parts -> Nat]]
      /\ local_rows \in [Threads -> 0..MaxRowCount]
      /\ held \in [Threads -> SUBSET File]
      BY <1>1 DEF Init
<1>. QED BY <1>1, <1>2 DEF Init, TypeOK

\* What a chunk adds is a natural.
LEMMA ChunkTotal ==
  ASSUME NEW chunk \in Chunks
  PROVE  chunk \in [Parts -> Nat] /\ Total(chunk) \in Nat
BY ChunksAssumption, FiniteAssumption, SumNat DEF Total

\* A thread's files are files of the attempt.
LEMMA FilesOfType ==
  ASSUME NEW t \in Threads
  PROVE  FilesOf(t) \in SUBSET File
BY DEF FilesOf, File

\* Every step keeps the types; row counts stay within MaxRowCount.
LEMMA TypeNext == TypeOK /\ [Next]_vars => TypeOK'
<1>. SUFFICES ASSUME TypeOK, [Next]_vars PROVE TypeOK'
     OBVIOUS
<1>. USE DEF TypeOK, Runs, Throw, shared
<1>1. ASSUME NEW t \in Threads, InitializeLocal(t) PROVE TypeOK'
      BY <1>1 DEF InitializeLocal
<1>2. ASSUME NEW t \in Threads, NEW chunk \in Chunks, Sink(t, chunk)
      PROVE  TypeOK'
  <2>1. chunk \in [Parts -> Nat] /\ Total(chunk) \in Nat
        BY ChunkTotal
  <2>2. CASE /\ local_rows[t] + Total(chunk) <= MaxRowCount
             /\ written' = [written EXCEPT ![t] = [p \in Parts |-> @[p] + chunk[p]]]
             /\ local_rows' = [local_rows EXCEPT ![t] = @ + Total(chunk)]
             /\ UNCHANGED thr
    <3>1. written' \in [Threads -> [Parts -> Nat]]
          BY <2>1, <2>2
    <3>2. local_rows' \in [Threads -> 0..MaxRowCount]
          BY <2>1, <2>2, LimitsAssumption
    <3>. QED BY <1>2, <2>2, <3>1, <3>2 DEF Sink
  <2>3. CASE /\ \E ps \in SUBSET Parts :
                  written' = [written EXCEPT ![t] =
                                [p \in Parts |-> IF p \in ps THEN @[p] + chunk[p]
                                                             ELSE @[p]]]
             /\ Throw(t)
             /\ UNCHANGED local_rows
    <3>1. written' \in [Threads -> [Parts -> Nat]]
          BY <2>1, <2>3
    <3>. QED BY <1>2, <2>3, <3>1 DEF Sink
  <2>. QED BY <1>2, <2>2, <2>3 DEF Sink
<1>3. ASSUME NEW t \in Threads, CombineEmpty(t) PROVE TypeOK'
      BY <1>3 DEF CombineEmpty
<1>4. ASSUME NEW t \in Threads, CombinePrepare(t) PROVE TypeOK'
      BY <1>4, FilesOfType DEF CombinePrepare
<1>5. ASSUME NEW t \in Threads, CombineFails(t) PROVE TypeOK'
      BY <1>5, FilesOfType DEF CombineFails
<1>6. ASSUME NEW t \in Threads, CombineHandOver(t) PROVE TypeOK'
  <2>1. disk' \subseteq File /\ messages' \subseteq File
        BY <1>6 DEF CombineHandOver, BestEffortAbortMessages
  <2>2. row_count' \in 0..MaxRowCount
        BY <1>6, LimitsAssumption DEF CombineHandOver
  <2>3. held' \in [Threads -> SUBSET File]
        BY <1>6 DEF CombineHandOver
  <2>4. thr' \in [Threads -> {"new", "writing", "prepared", "combined", "failed"}]
        BY <1>6 DEF CombineHandOver
  <2>. QED BY <1>6, <2>1, <2>2, <2>3, <2>4 DEF CombineHandOver
<1>7. CASE Finalize
      BY <1>7 DEF Finalize
<1>8. CASE FinalizeFails
      BY <1>8 DEF FinalizeFails, BestEffortAbortMessages
<1>9. CASE Destroy
      BY <1>9 DEF Destroy, BestEffortAbortMessages
<1>10. CASE Crash
      BY <1>10 DEF Crash
<1>11. CASE UNCHANGED vars
      BY <1>11 DEF vars
<1>. QED BY <1>1, <1>2, <1>3, <1>4, <1>5, <1>6, <1>7, <1>8, <1>9, <1>10, <1>11
         DEF Next, Thread

-----------------------------------------------------------------------------
(***************************************************************************)
(* The files of the threads that have combined, for any thread states th.  *)
(***************************************************************************)
\* Which files these are.
LEMMA CombinedFiles ==
  ASSUME NEW w \in Contents, NEW th
  PROVE  /\ Combined(th, w) \in SUBSET File
         /\ \A f \in Combined(th, w) : f[1] \in Threads /\ th[f[1]] = "combined"
BY DEF Combined, Files, File

\* What the other threads do does not touch them.
LEMMA CombinedSame ==
  ASSUME NEW w \in Contents, NEW v \in Contents, NEW th, NEW ph,
         \A u \in Threads : th[u] = "combined" <=> ph[u] = "combined",
         \A u \in Threads : th[u] = "combined" => w[u] = v[u]
  PROVE  /\ Combined(th, w) = Combined(ph, v)
         /\ Rows(w, Combined(th, w)) = Rows(v, Combined(ph, v))
<1>1. Combined(th, w) = Combined(ph, v)
  <2>1. {u \in Threads : th[u] = "combined"} = {u \in Threads : ph[u] = "combined"}
        OBVIOUS
  <2>2. \A u \in {x \in Threads : th[x] = "combined"} : Files(w, u) = Files(v, u)
        BY DEF Files
  <2>. QED BY <2>1, <2>2 DEF Combined
<1>2. \A f \in Combined(th, w) : w[f[1]] = v[f[1]]
      BY CombinedFiles
<1>3. Rows(w, Combined(th, w)) = Rows(v, Combined(th, w))
      BY <1>2, CombinedFiles, RowsSame
<1>. QED BY <1>1, <1>3

\* When a thread combines, its files and its rows are added.
LEMMA CombinedAdd ==
  ASSUME NEW w \in Contents, NEW t \in Threads, NEW th, NEW ph,
         th[t] # "combined", ph[t] = "combined",
         \A u \in Threads \ {t} : ph[u] = th[u]
  PROVE  /\ Combined(ph, w) = Combined(th, w) \cup Files(w, t)
         /\ Combined(th, w) \cap Files(w, t) = {}
         /\ Rows(w, Combined(ph, w)) = Rows(w, Combined(th, w)) + SumOf(w[t])
<1>1. {u \in Threads : ph[u] = "combined"} = {u \in Threads : th[u] = "combined"} \cup {t}
      OBVIOUS
<1>2. Combined(ph, w) = Combined(th, w) \cup Files(w, t)
      BY <1>1 DEF Combined
<1>3. \A f \in Files(w, t) : f[1] = t
      BY DEF Files
<1>4. Combined(th, w) \cap Files(w, t) = {}
      BY <1>3, CombinedFiles
<1>5. Combined(th, w) \in SUBSET File
      BY CombinedFiles
<1>6. Files(w, t) \in SUBSET File /\ Rows(w, Files(w, t)) = SumOf(w[t])
      BY ThreadRows
<1>7. Rows(w, Combined(th, w) \cup Files(w, t))
        = Rows(w, Combined(th, w)) + Rows(w, Files(w, t))
      BY <1>4, <1>5, <1>6, RowsUnion
<1>. QED BY <1>2, <1>4, <1>6, <1>7

\* There are such files exactly when there are rows in them.
LEMMA CombinedNone ==
  ASSUME NEW w \in Contents, NEW th
  PROVE  Combined(th, w) = {} <=> Rows(w, Combined(th, w)) = 0
<1>1. Combined(th, w) \in SUBSET File
      BY CombinedFiles
<1>2. \A f \in Combined(th, w) : w[f[1]][f[2]] > 0
      BY DEF Combined, Files
<1>3. \A f \in Combined(th, w) : w[f[1]][f[2]] # 0
      BY <1>1, <1>2 DEF Contents, File
<1>. QED BY <1>1, <1>3, RowsNat

-----------------------------------------------------------------------------
(***************************************************************************)
(* The invariant is inductive: one lemma per action.                       *)
(***************************************************************************)

\* The initial state satisfies the invariant.
LEMMA InvInit == Init => TaskInv
<1>. SUFFICES ASSUME Init PROVE TaskInv
     OBVIOUS
<1>1. TypeOK
      BY TypeInit
<1>2. Combined(thr, written) = {}
      BY DEF Init, Combined
<1>3. Rows(written, {}) = 0
      BY SumEmpty DEF Rows
<1>4. ASSUME NEW t \in Threads PROVE SumOf(written[t]) = 0
      BY SumNat, FiniteAssumption DEF Init
<1>5. ThreadInv
      BY <1>4 DEF Init, ThreadInv
<1>6. SharedInv
      BY <1>2, <1>3 DEF Init, SharedInv
<1>7. EndInv /\ DiskInv
      BY DEF Init, EndInv, DiskInv
<1>. QED BY <1>1, <1>5, <1>6, <1>7 DEF TaskInv

\* A thread that is inside a callback is inside it before Finalize.
LEMMA RunsOpen ==
  ASSUME TaskInv, NEW t \in Threads, thr[t] \notin {"new", "combined"}
  PROVE  /\ task = "open" /\ fragment = {} /\ fragment_rows = 0
         /\ messages = Combined(thr, written)
         /\ row_count = Rows(written, messages)
         /\ alive => messages \subseteq disk
BY DEF TaskInv, EndInv, SharedInv, AllCombined

\* What a thread's failing or returning step leaves as it was: the messages,
\* as long as the thread does not become combined.
LEMMA SharedKept ==
  ASSUME TaskInv, TypeOK', task = "open", NEW t \in Threads, thr[t] # "combined",
         \A u \in Threads \ {t} : thr'[u] = thr[u] /\ written'[u] = written[u],
         thr'[t] # "combined",
         UNCHANGED <<messages, row_count, task, alive, fragment, fragment_rows>>,
         disk \subseteq disk'
  PROVE  SharedInv' /\ EndInv'
<1>1. written \in Contents /\ written' \in Contents
      BY DEF TaskInv, TypeOK, Contents
<1>2. /\ Combined(thr, written) = Combined(thr', written')
      /\ Rows(written, Combined(thr, written)) = Rows(written', Combined(thr', written'))
  <2>1. \A u \in Threads : thr[u] = "combined" <=> thr'[u] = "combined"
        OBVIOUS
  <2>2. \A u \in Threads : thr[u] = "combined" => written[u] = written'[u]
        OBVIOUS
  <2>. QED BY <1>1, <2>1, <2>2, CombinedSame
<1>3. SharedInv'
      BY <1>2 DEF TaskInv, SharedInv
<1>. QED BY <1>3 DEF EndInv

\* Opening a writer.
LEMMA InvInitializeLocal ==
  ASSUME TaskInv, TypeOK', NEW t \in Threads, InitializeLocal(t)
  PROVE  TaskInv'
<1>. USE DEF InitializeLocal, Runs, Throw, shared
<1>1. ThreadInv'
      BY DEF TaskInv, TypeOK, ThreadInv
<1>2. SharedInv' /\ EndInv'
  <2>1. /\ \A u \in Threads \ {t} : thr'[u] = thr[u] /\ written'[u] = written[u]
        /\ thr'[t] # "combined" /\ thr[t] # "combined"
        BY DEF TaskInv, TypeOK
  <2>. QED BY <2>1, SharedKept
<1>3. DiskInv'
      BY DEF TaskInv, DiskInv
<1>. QED BY <1>1, <1>2, <1>3 DEF TaskInv

\* Writing a chunk, or failing to.
LEMMA InvSink ==
  ASSUME TaskInv, TypeOK', NEW t \in Threads, NEW chunk \in Chunks, Sink(t, chunk)
  PROVE  TaskInv'
<1>. USE DEF Sink, Runs, Throw, shared
<1>1. task = "open"
      BY RunsOpen
<1>2. /\ \A u \in Threads \ {t} : thr'[u] = thr[u] /\ written'[u] = written[u]
      /\ \A u \in Threads \ {t} : local_rows'[u] = local_rows[u]
      /\ thr'[t] \in {"writing", "failed"} /\ thr[t] = "writing"
      BY DEF TaskInv, TypeOK
<1>3. thr'[t] # "failed" => local_rows'[t] = SumOf(written'[t])
  <2>. SUFFICES ASSUME thr'[t] # "failed"
                PROVE  local_rows'[t] = SumOf(written'[t])
       OBVIOUS
  <2>1. chunk \in [Parts -> Int]
        BY ChunkTotal
  <2>2. written[t] \in [Parts -> Int] /\ local_rows[t] = SumOf(written[t])
        BY DEF TaskInv, TypeOK, ThreadInv
  <2>3. /\ written'[t] = [p \in Parts |-> written[t][p] + chunk[p]]
        /\ local_rows'[t] = local_rows[t] + SumOf(chunk)
        BY DEF TaskInv, TypeOK, Total
  <2>4. SumOf([p \in Parts |-> written[t][p] + chunk[p]])
          = SumOf(written[t]) + SumOf(chunk)
        BY <2>1, <2>2, FiniteAssumption, SumPlus
  <2>. QED BY <2>2, <2>3, <2>4
<1>4. ThreadInv'
  <2>1. \A u \in Threads \ {t} : Files(written', u) = Files(written, u)
        BY <1>2 DEF Files
  <2>. QED BY <1>2, <1>3, <2>1 DEF TaskInv, ThreadInv
<1>5. SharedInv' /\ EndInv'
      BY <1>1, <1>2, SharedKept
<1>6. DiskInv'
      BY DEF TaskInv, DiskInv
<1>. QED BY <1>4, <1>5, <1>6 DEF TaskInv

\* A thread without rows combines: it has no files to add.
LEMMA InvCombineEmpty ==
  ASSUME TaskInv, TypeOK', NEW t \in Threads, CombineEmpty(t)
  PROVE  TaskInv'
<1>. USE DEF CombineEmpty, Runs, Throw, shared
<1>1. ThreadInv'
      BY DEF TaskInv, TypeOK, ThreadInv
<1>2. SharedInv' /\ EndInv'
  <2>1. /\ task = "open" /\ messages = Combined(thr, written)
        /\ row_count = Rows(written, messages) /\ fragment = {} /\ fragment_rows = 0
        /\ alive => messages \subseteq disk
        BY RunsOpen
  <2>2. CASE thr' = [thr EXCEPT ![t] = "combined"]
    <3>1. written \in Contents /\ SumOf(written[t]) = 0
          BY DEF TaskInv, TypeOK, ThreadInv, Contents
    <3>2. /\ Combined(thr', written) = Combined(thr, written) \cup Files(written, t)
          /\ Rows(written, Combined(thr', written))
               = Rows(written, Combined(thr, written)) + SumOf(written[t])
      <4>1. /\ thr[t] # "combined" /\ thr'[t] = "combined"
            /\ \A u \in Threads \ {t} : thr'[u] = thr[u]
            BY <2>2 DEF TaskInv, TypeOK
      <4>. QED BY <3>1, <4>1, CombinedAdd
    <3>3. Files(written, t) = {}
          BY <3>1, ThreadRows
    <3>4. Combined(thr', written) = Combined(thr, written)
          BY <3>2, <3>3
    <3>. QED BY <2>1, <3>4 DEF SharedInv, EndInv
  <2>3. CASE Throw(t)
    <3>1. /\ \A u \in Threads \ {t} : thr'[u] = thr[u] /\ written'[u] = written[u]
          /\ thr'[t] # "combined" /\ thr[t] # "combined"
          BY <2>3 DEF TaskInv, TypeOK
    <3>. QED BY <2>1, <3>1, SharedKept
  <2>. QED BY <2>2, <2>3
<1>3. DiskInv'
      BY DEF TaskInv, DiskInv
<1>. QED BY <1>1, <1>2, <1>3 DEF TaskInv

\* A thread's files are rolled, and it holds the messages for them.
LEMMA InvCombinePrepare ==
  ASSUME TaskInv, TypeOK', NEW t \in Threads, CombinePrepare(t)
  PROVE  TaskInv'
<1>. USE DEF CombinePrepare, Runs, shared
<1>1. FilesOf(t) = Files(written, t) /\ disk \subseteq disk'
      BY DEF FilesOf, Files
<1>2. ThreadInv'
      BY <1>1 DEF TaskInv, TypeOK, ThreadInv
<1>3. SharedInv' /\ EndInv'
  <2>1. /\ \A u \in Threads \ {t} : thr'[u] = thr[u] /\ written'[u] = written[u]
        /\ thr'[t] # "combined" /\ thr[t] # "combined"
        BY DEF TaskInv, TypeOK
  <2>. QED BY <1>1, <2>1, RunsOpen, SharedKept
<1>4. DiskInv'
  <2>1. held[t] = {} /\ held'[t] = FilesOf(t)
        BY DEF TaskInv, TypeOK, ThreadInv
  <2>2. UNION {held'[u] : u \in Threads} = FilesOf(t) \cup UNION {held[u] : u \in Threads}
        BY <2>1 DEF TaskInv, TypeOK
  <2>. QED BY <2>2 DEF TaskInv, DiskInv
<1>. QED BY <1>2, <1>3, <1>4 DEF TaskInv

\* Preparing fails: what has no message becomes an orphan.
LEMMA InvCombineFails ==
  ASSUME TaskInv, TypeOK', NEW t \in Threads, CombineFails(t)
  PROVE  TaskInv'
<1>. USE DEF CombineFails, Runs, Throw, shared
<1>1. disk \subseteq disk'
      OBVIOUS
<1>2. ThreadInv'
      BY <1>1 DEF TaskInv, TypeOK, ThreadInv
<1>3. SharedInv' /\ EndInv'
  <2>1. /\ \A u \in Threads \ {t} : thr'[u] = thr[u] /\ written'[u] = written[u]
        /\ thr'[t] # "combined" /\ thr[t] # "combined"
        BY DEF TaskInv, TypeOK
  <2>. QED BY <1>1, <2>1, RunsOpen, SharedKept
<1>4. DiskInv'
  <2>. SUFFICES ASSUME ~AbortFaults, ~crashed
                PROVE  disk' \subseteq disk \cup orphans' /\ orphans \subseteq orphans'
       BY DEF TaskInv, DiskInv
  <2>. QED OBVIOUS
<1>. QED BY <1>2, <1>3, <1>4 DEF TaskInv

\* The global state takes the messages of a thread over, or aborts them: no
\* other thread's files are among them.
LEMMA InvCombineHandOver ==
  ASSUME TaskInv, TypeOK', NEW t \in Threads, CombineHandOver(t)
  PROVE  TaskInv'
<1>. USE DEF CombineHandOver, Runs, Throw
<1>1. /\ task = "open" /\ messages = Combined(thr, written)
      /\ row_count = Rows(written, messages) /\ fragment = {} /\ fragment_rows = 0
      /\ alive => messages \subseteq disk
      BY RunsOpen
<1>2. /\ held[t] = Files(written, t) /\ held[t] \subseteq disk
      /\ local_rows[t] = SumOf(written[t])
      /\ written \in Contents /\ thr[t] = "prepared"
      BY DEF TaskInv, TypeOK, ThreadInv, Contents
<1>3. \A u \in Threads \ {t} :
        thr'[u] = thr[u] /\ held'[u] = held[u] /\ Files(written, u) \cap held[t] = {}
      BY <1>2 DEF TaskInv, TypeOK, Files
<1>4. held'[t] = {}
      BY DEF TaskInv, TypeOK
<1>5. UNION {held[u] : u \in Threads} = held[t] \cup UNION {held'[u] : u \in Threads}
      BY <1>3, <1>4 DEF TaskInv, TypeOK
<1>6. CASE row_count + local_rows[t] <= MaxRowCount
  <2>1. /\ messages' = messages \cup held[t] /\ row_count' = row_count + local_rows[t]
        /\ thr' = [thr EXCEPT ![t] = "combined"] /\ disk' = disk
        BY <1>6
  <2>2. /\ Combined(thr', written) = Combined(thr, written) \cup Files(written, t)
        /\ Rows(written, Combined(thr', written))
             = Rows(written, Combined(thr, written)) + SumOf(written[t])
    <3>1. thr[t] # "combined" /\ thr'[t] = "combined"
          BY <1>2, <2>1 DEF TaskInv, TypeOK
    <3>. HIDE DEF CombineHandOver
    <3>. QED BY <1>2, <1>3, <3>1, CombinedAdd
  <2>3. ThreadInv'
        BY <1>2, <1>3, <1>4, <2>1 DEF TaskInv, TypeOK, ThreadInv
  <2>4. SharedInv'
        BY <1>1, <1>2, <2>1, <2>2 DEF SharedInv
  <2>5. EndInv'
        BY <1>1 DEF EndInv
  <2>6. DiskInv'
        BY <1>5, <2>1 DEF TaskInv, DiskInv
  <2>. QED BY <2>3, <2>4, <2>5, <2>6 DEF TaskInv
<1>7. CASE ~(row_count + local_rows[t] <= MaxRowCount)
  <2>1. /\ BestEffortAbortMessages(held[t]) /\ UNCHANGED <<messages, row_count>>
        /\ thr' = [thr EXCEPT ![t] = "failed"]
        BY <1>7
  <2>2. PICK gone \in SUBSET held[t] :
          disk' = disk \ gone /\ (~AbortFaults => gone = held[t])
        BY <2>1 DEF BestEffortAbortMessages
  <2>3. ThreadInv'
        BY <1>2, <1>3, <1>4, <2>1, <2>2 DEF TaskInv, TypeOK, ThreadInv
  <2>4. SharedInv'
    <3>1. \A u \in Threads : thr[u] = "combined" <=> thr'[u] = "combined"
          BY <1>2, <2>1 DEF TaskInv, TypeOK
    <3>2. Combined(thr, written) = Combined(thr', written)
          BY <1>2, <3>1, CombinedSame
    <3>3. messages \cap held[t] = {}
          BY <1>1, <1>2, <1>3, CombinedFiles DEF Combined
    <3>. QED BY <1>1, <2>1, <2>2, <3>2, <3>3 DEF SharedInv
  <2>5. EndInv'
        BY <1>1 DEF EndInv
  <2>6. DiskInv'
        BY <1>5, <2>1, <2>2 DEF TaskInv, DiskInv
  <2>. QED BY <2>3, <2>4, <2>5, <2>6 DEF TaskInv
<1>. QED BY <1>6, <1>7

\* When all threads have combined, no thread holds a message.
LEMMA NothingHeld ==
  ASSUME TaskInv, \A t \in Threads : thr[t] # "prepared"
  PROVE  UNION {held[t] : t \in Threads} = {}
BY DEF TaskInv, ThreadInv

\* The fragment takes the messages over.
LEMMA InvFinalize ==
  ASSUME TaskInv, TypeOK', Finalize
  PROVE  TaskInv'
<1>. USE DEF Finalize
<1>1. ThreadInv'
      BY DEF TaskInv, ThreadInv
<1>2. SharedInv'
      BY DEF SharedInv
<1>3. EndInv'
      BY DEF TaskInv, SharedInv, EndInv, AllCombined
<1>4. DiskInv'
  <2>. SUFFICES ASSUME ~AbortFaults, ~crashed
                PROVE  disk \subseteq fragment' \cup orphans \cup messages'
                                        \cup UNION {held[t] : t \in Threads}
       BY DEF DiskInv
  <2>. QED BY DEF TaskInv, SharedInv, DiskInv
<1>. QED BY <1>1, <1>2, <1>3, <1>4 DEF TaskInv

\* Finalize throws: the messages stay with the global state.
LEMMA InvFinalizeFails ==
  ASSUME TaskInv, TypeOK', FinalizeFails
  PROVE  TaskInv'
<1>. USE DEF FinalizeFails, BestEffortAbortMessages
<1>1. \A t \in Threads : thr[t] # "prepared"
      BY DEF AllCombined
<1>2. ThreadInv'
      BY <1>1 DEF TaskInv, ThreadInv
<1>3. SharedInv'
      BY DEF SharedInv
<1>4. EndInv'
      BY DEF TaskInv, SharedInv, EndInv, AllCombined
<1>5. DiskInv'
  <2>1. disk' \subseteq disk
        OBVIOUS
  <2>. QED BY <2>1 DEF TaskInv, DiskInv
<1>. QED BY <1>2, <1>3, <1>4, <1>5 DEF TaskInv

\* The destructor aborts what the global state still owns.
LEMMA InvDestroy ==
  ASSUME TaskInv, TypeOK', Destroy
  PROVE  TaskInv'
<1>. USE DEF Destroy, BestEffortAbortMessages
<1>1. ThreadInv'
      BY DEF TaskInv, ThreadInv
<1>2. SharedInv'
      BY DEF TaskInv, SharedInv
<1>3. EndInv'
      BY DEF TaskInv, EndInv, AllCombined
<1>4. DiskInv'
  <2>. SUFFICES ASSUME ~AbortFaults, ~crashed
                PROVE  disk' \subseteq fragment \cup orphans
       BY DEF DiskInv
  <2>1. disk' = disk \ messages
        OBVIOUS
  <2>2. disk \subseteq fragment \cup orphans \cup messages
        BY NothingHeld DEF TaskInv, DiskInv
  <2>. QED BY <2>1, <2>2
<1>. QED BY <1>1, <1>2, <1>3, <1>4 DEF TaskInv

\* Every step keeps the invariant.
LEMMA InvNext == TaskInv /\ [Next]_vars => TaskInv'
<1>. SUFFICES ASSUME TaskInv, [Next]_vars PROVE TaskInv'
     OBVIOUS
<1>1. TypeOK'
      BY TypeNext DEF TaskInv
<1>2. ASSUME NEW t \in Threads, Thread(t) PROVE TaskInv'
      BY <1>1, <1>2, InvInitializeLocal, InvSink, InvCombineEmpty,
         InvCombinePrepare, InvCombineFails, InvCombineHandOver DEF Thread
<1>3. CASE Crash
      BY <1>1, <1>3 DEF Crash, TaskInv, ThreadInv, SharedInv, EndInv, DiskInv,
                        AllCombined
<1>4. CASE UNCHANGED vars
      BY <1>1, <1>4 DEF vars, TaskInv, ThreadInv, SharedInv, EndInv, DiskInv,
                        AllCombined
<1>. QED BY <1>1, <1>2, <1>3, <1>4, InvFinalize, InvFinalizeFails, InvDestroy
         DEF Next

-----------------------------------------------------------------------------
(***************************************************************************)
(* The theorems.                                                           *)
(***************************************************************************)

\* The invariant holds in every reachable state.
THEOREM Invariant == Spec => []TaskInv
BY InvInit, InvNext, PTL DEF Spec

\* Every variable of an attempt keeps its type, and no row count of Sink or
\* Combine leaves the range CheckedAdd allows.
THEOREM TypeCorrect == Spec => []TypeOK
<1>1. TaskInv => TypeOK
      BY DEF TaskInv
<1>. QED BY <1>1, Invariant, PTL

\* No error path and no destructor removes a file of a published fragment.
THEOREM PublishedStays == Spec => []PublishedFilesOnDisk
<1>1. TaskInv => PublishedFilesOnDisk
      BY DEF TaskInv, TypeOK, SharedInv, EndInv, PublishedFilesOnDisk
<1>. QED BY <1>1, Invariant, PTL

\* Finalize publishes the files of all threads and counts their rows.
THEOREM WholeTask == Spec => []FragmentIsWholeTask
<1>1. ASSUME TaskInv, task = "published"
      PROVE  /\ fragment = UNION {FilesOf(t) : t \in Threads}
             /\ fragment_rows = RowsIn(fragment)
  <2>1. /\ fragment = Combined(thr, written)
        /\ fragment_rows = Rows(written, fragment)
        /\ \A t \in Threads : thr[t] \in {"new", "combined"}
        BY <1>1 DEF TaskInv, EndInv, AllCombined
  <2>2. written \in Contents
        BY <1>1 DEF TaskInv, TypeOK, Contents
  <2>3. ASSUME NEW t \in Threads, thr[t] = "new" PROVE Files(written, t) = {}
        BY <1>1, <2>2, <2>3, ThreadRows DEF TaskInv, ThreadInv
  <2>4. UNION {Files(written, t) : t \in Threads} = Combined(thr, written)
        BY <2>1, <2>3 DEF Combined
  <2>5. \A t \in Threads : FilesOf(t) = Files(written, t)
        BY DEF FilesOf, Files
  <2>6. RowsIn(fragment) = Rows(written, fragment)
        BY DEF RowsIn, Rows
  <2>. QED BY <2>1, <2>4, <2>5, <2>6
<1>2. TaskInv => FragmentIsWholeTask
      BY <1>1 DEF FragmentIsWholeTask
<1>. QED BY <1>2, Invariant, PTL

\* Finalize's internal checks on messages and row count never fail.
THEOREM ChecksHold == Spec => []FinalizeChecksHold
<1>1. ASSUME TaskInv, task = "open"
      PROVE  (messages = {}) = (row_count = 0)
  <2>1. messages = Combined(thr, written) /\ row_count = Rows(written, messages)
        BY <1>1 DEF TaskInv, SharedInv
  <2>2. written \in Contents
        BY <1>1 DEF TaskInv, TypeOK, Contents
  <2>. QED BY <2>1, <2>2, CombinedNone
<1>2. TaskInv => FinalizeChecksHold
      BY <1>1 DEF FinalizeChecksHold
<1>. QED BY <1>2, Invariant, PTL

\* A task whose worker lived and whose aborts worked leaves behind what it
\* published and files nobody was told about.
THEOREM OnlyOrphansStay == Spec => []EndLeavesOnlyOrphans
<1>1. TaskInv => EndLeavesOnlyOrphans
      BY DEF TaskInv, DiskInv, EndLeavesOnlyOrphans
<1>. QED BY <1>1, Invariant, PTL
=============================================================================
