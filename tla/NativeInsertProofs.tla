------------------------- MODULE NativeInsertProofs -------------------------
(***************************************************************************)
(* Theorems about NativeInsert, for any statements with any input, any     *)
(* finite number of threads and of partition values.                       *)
(***************************************************************************)
EXTENDS NativeInsert, SumTheorems

Message  == [file : Files, rows : Nat \ {0}]
Contents == [Threads -> [Parts -> Nat]]
Snapshot == [inc : Nat, stmt : Stmts, msgs : SUBSET Message]

\* The rows of chunk i of a statement that belong to partition p, those of the
\* chunks after the first k, and what the writers of a statement have.
Group(o, i, p) == (IF p \in Values THEN Input[o][i][p] ELSE 0)
                    + (IF p = DefaultName THEN Input[o][i][Null] ELSE 0)
Rest(o, k, p)  == SumOf([i \in (k + 1)..Len(Input[o]) |-> Group(o, i, p)])
Gather(w, p)   == SumOf([t \in Threads |-> w[t][p]])

\* The messages of one writer, those of the threads that have combined, and
\* the row count of these.
MessagesOf(o, t, v) ==
  {[file |-> <<o, t, p>>, rows |-> v[p]] : p \in {q \in Parts : v[q] > 0}}
Handed(o, th, w) ==
  UNION {MessagesOf(o, t, w[t]) : t \in {u \in Threads : th[u] = "combined"}}
Counted(th, w) ==
  SumOf([t \in Threads |-> IF th[t] = "combined" THEN SumOf(w[t]) ELSE 0])

-----------------------------------------------------------------------------
(***************************************************************************)
(* The inductive invariant.                                                *)
(***************************************************************************)

\* The types of the variables, also of those TypeOK does not name.
TypeInv ==
  /\ TypeOK
  /\ left \in [Stmts -> Seq([Cells -> Nat])]
  /\ messages \in [Stmts -> SUBSET Message]
  /\ log \in Seq(Snapshot)

\* The input that is left is the end of the input, and unless the statement
\* failed the writers have all the rows before it.
Taken(o, l) == Len(Input[o]) - Len(l)
InputAt(o, l, w, s) ==
  /\ Len(l) <= Len(Input[o])
  /\ \A i \in 1..Len(l) : l[i] = Input[o][Taken(o, l) + i]
  /\ s # "failed" => \A p \in Parts :
       Gather(w, p) + Rest(o, Taken(o, l), p) = TotalInput(o)[p]
InputInv == \A o \in Stmts : InputAt(o, left[o], written[o], pc[o])

\* The global sink state has what the combined threads wrote.  Threads start
\* with the sink and have combined at the end.
ThreadInv ==
  \A o \in Stmts :
    /\ messages[o] = Handed(o, thr[o], written[o])
    /\ count[o] = Counted(thr[o], written[o])
    /\ \A t \in Threads : thr[o][t] = "new" => written[o][t] = NoRows
    /\ pc[o] \in {"none", "planned", "created"} => \A t \in Threads : thr[o][t] = "new"
    /\ pc[o] \in {"ok", "unknown"} =>
         left[o] = <<>> /\ \A t \in Threads : thr[o][t] \in {"new", "combined"}

\* A statement that ended well has one snapshot, with its messages, if it had
\* any; one with an unknown outcome may have.
LogInv ==
  /\ \A i \in DOMAIN log :
       /\ pc[log[i].stmt] \in {"ok", "unknown"}
       /\ log[i].msgs = messages[log[i].stmt] /\ log[i].msgs # {}
       /\ \A j \in DOMAIN log : log[i].stmt = log[j].stmt => i = j
  /\ \A o \in Stmts :
       /\ pc[o] = "ok" /\ messages[o] # {} => \E i \in DOMAIN log : log[i].stmt = o
       /\ reported[o] # -1 => pc[o] = "ok" /\ reported[o] = count[o]

\* Files with rows are on disk while the table is there that they were
\* written for.
FileInv ==
  \A o \in Stmts :
    /\ sunk[o] <= created
    /\ pc[o] = "sinking" => sunk[o] # 0
    /\ \A t \in Threads, p \in Parts : written[o][t][p] > 0 =>
         sunk[o] # 0 /\ (sunk[o] = table => <<o, t, p>> \in disk)

InsertInv == TypeInv /\ InputInv /\ ThreadInv /\ LogInv /\ FileInv

-----------------------------------------------------------------------------
(***************************************************************************)
(* Input chunks, writers and messages.                                     *)
(***************************************************************************)

\* There are finitely many partitions.
LEMMA PartsFinite == IsFiniteSet(Parts)
BY FiniteAssumption, FS_AddElement DEF Parts

\* The chunks of a statement are a sequence of counted rows.
LEMMA InputIs ==
  ASSUME NEW o \in Stmts
  PROVE  /\ Len(Input[o]) \in Nat /\ DOMAIN Input[o] = 1..Len(Input[o])
         /\ \A i \in 1..Len(Input[o]) :
              /\ Input[o][i] \in [Cells -> Nat]
              /\ \A p \in Parts : /\ Group(o, i, p) \in Nat
                                  /\ PartitionGroups(Input[o][i])[p] = Group(o, i, p)
<1>1. Input[o] \in Seq([Cells -> Nat])
      BY InputAssumption
<1>2. \A i \in 1..Len(Input[o]) : Input[o][i] \in [Cells -> Nat]
      BY <1>1
<1>3. \A i \in 1..Len(Input[o]), p \in Parts :
        /\ Group(o, i, p) \in Nat
        /\ PartitionGroups(Input[o][i])[p] = Group(o, i, p)
      BY <1>2 DEF Group, PartitionGroups, Cells
<1>. QED BY <1>1, <1>2, <1>3

\* The groups of a chunk are counted rows of the partitions.
LEMMA GroupsAre ==
  ASSUME NEW chunk \in [Cells -> Nat]
  PROVE  PartitionGroups(chunk) \in [Parts -> Nat]
BY DEF PartitionGroups, Cells

\* Before the first chunk all rows are left, after the last none.
LEMMA RestEnds ==
  ASSUME NEW o \in Stmts, NEW p \in Parts
  PROVE  Rest(o, 0, p) = TotalInput(o)[p] /\ Rest(o, Len(Input[o]), p) = 0
<1>1. Len(Input[o]) \in Nat /\ DOMAIN Input[o] = 1..Len(Input[o])
      BY InputIs
<1>2. [i \in (0 + 1)..Len(Input[o]) |-> Group(o, i, p)]
        = [i \in DOMAIN Input[o] |-> Group(o, i, p)]
      BY <1>1
<1>3. Rest(o, 0, p) = TotalInput(o)[p]
      BY <1>2 DEF Rest, TotalInput, Group
<1>4. DOMAIN [i \in (Len(Input[o]) + 1)..Len(Input[o]) |-> Group(o, i, p)] = {}
      BY <1>1
<1>. QED BY <1>3, <1>4, SumEmpty DEF Rest

\* A chunk is taken off what is left.
LEMMA RestStep ==
  ASSUME NEW o \in Stmts, NEW p \in Parts, NEW k \in Nat, k < Len(Input[o])
  PROVE  /\ Rest(o, k, p) = Group(o, k + 1, p) + Rest(o, k + 1, p)
         /\ Rest(o, k + 1, p) \in Int /\ Group(o, k + 1, p) \in Nat
<1>. DEFINE n == Len(Input[o])
            S == (k + 1)..n
            f == [i \in S |-> Group(o, i, p)]
            g == [i \in (k + 2)..n |-> Group(o, i, p)]
<1>1. n \in Nat /\ \A i \in 1..n : Group(o, i, p) \in Nat
      BY InputIs
<1>2. f \in [S -> Int] /\ IsFiniteSet(S) /\ k + 1 \in S
  <2>1. f \in [S -> Int] /\ k + 1 \in S
        BY <1>1
  <2>2. k + 1 \in Int /\ n \in Int
        BY <1>1
  <2>. QED BY <2>1, <2>2, FS_Interval
<1>3. (k + 2)..n = S \ {k + 1} /\ k + 1 + 1 = k + 2
      BY <1>1
<1>4. g = Only(f, S \ {k + 1})
      BY <1>3 DEF Only
<1>5. f[k + 1] = Group(o, k + 1, p) /\ Group(o, k + 1, p) \in Nat
      BY <1>1, <1>2
<1>6. Rest(o, k, p) = SumOf(f) /\ Rest(o, k + 1, p) = SumOf(g)
      BY <1>3 DEF Rest
<1>7. /\ SumOf(f) = f[k + 1] + SumOf(Only(f, S \ {k + 1}))
      /\ SumOf(Only(f, S \ {k + 1})) \in Int
  <2>. HIDE DEF f, S
  <2>. QED BY <1>2, SumRemove
<1>. HIDE DEF f, g, S
<1>. QED BY <1>4, <1>5, <1>6, <1>7

\* What one thread writes is added to what the writers have.
LEMMA GatherAdd ==
  ASSUME NEW w \in Contents, NEW v \in Contents, NEW t \in Threads, NEW p \in Parts,
         \A u \in Threads \ {t} : v[u] = w[u]
  PROVE  /\ Gather(w, p) \in Int
         /\ Gather(v, p) = Gather(w, p) - w[t][p] + v[t][p]
<1>. DEFINE f == [u \in Threads |-> w[u][p]]
            g == [u \in Threads |-> v[u][p]]
<1>1. f \in [Threads -> Int] /\ g \in [Threads -> Int]
      BY DEF Contents
<1>2. (\A u \in Threads \ {t} : f[u] = g[u]) /\ f[t] = w[t][p] /\ g[t] = v[t][p]
      OBVIOUS
<1>3. Gather(w, p) = SumOf(f) /\ Gather(v, p) = SumOf(g)
      BY DEF Gather
<1>. HIDE DEF f, g
<1>4. SumOf(f) \in Int
      BY <1>1, FiniteAssumption, SumRemove
<1>5. SumOf(g) = SumOf(f) - f[t] + g[t]
      BY <1>1, <1>2, FiniteAssumption, SumChange
<1>. QED BY <1>2, <1>3, <1>4, <1>5

\* Nothing is written before a statement starts.
LEMMA GatherNone ==
  ASSUME NEW w, \A t \in Threads : w[t] = NoRows, NEW p \in Parts
  PROVE  Gather(w, p) = 0
<1>. DEFINE f == [u \in Threads |-> w[u][p]]
<1>1. f \in [Threads -> Nat] /\ \A u \in Threads : f[u] = 0
      BY DEF NoRows
<1>. HIDE DEF f
<1>2. SumOf(f) = 0
      BY <1>1, FiniteAssumption, SumNat
<1>. QED BY <1>2 DEF Gather, f

\* The rows of a thread: a natural number, 0 exactly when it wrote none.
LEMMA WriterRows ==
  ASSUME NEW w \in Contents, NEW t \in Threads
  PROVE  /\ SumOf(w[t]) \in Nat
         /\ SumOf(w[t]) = 0 <=> \A p \in Parts : w[t][p] = 0
BY PartsFinite, SumNat DEF Contents

\* Which messages were handed over.
LEMMA HandedIs ==
  ASSUME NEW o \in Stmts, NEW th, NEW w \in Contents
  PROVE  /\ Handed(o, th, w) \in SUBSET Message
         /\ \A m \in Handed(o, th, w) : \E t \in Threads, p \in Parts :
              /\ th[t] = "combined" /\ w[t][p] > 0
              /\ m = [file |-> <<o, t, p>>, rows |-> w[t][p]]
         /\ \A t \in Threads, p \in Parts : th[t] = "combined" /\ w[t][p] > 0
              => [file |-> <<o, t, p>>, rows |-> w[t][p]] \in Handed(o, th, w)
<1>1. \A m \in Handed(o, th, w) : \E t \in Threads, p \in Parts :
        /\ th[t] = "combined" /\ w[t][p] > 0
        /\ m = [file |-> <<o, t, p>>, rows |-> w[t][p]]
      BY DEF Handed, MessagesOf
<1>2. \A t \in Threads, p \in Parts : w[t][p] \in Nat
      BY DEF Contents
<1>3. ASSUME NEW m \in Handed(o, th, w) PROVE m \in Message
  <2>1. PICK t \in Threads, p \in Parts :
          w[t][p] > 0 /\ m = [file |-> <<o, t, p>>, rows |-> w[t][p]]
        BY <1>1
  <2>2. w[t][p] \in Nat \ {0} /\ <<o, t, p>> \in Files
        BY <1>2, <2>1 DEF Files
  <2>. QED BY <2>1, <2>2 DEF Message
<1>. QED BY <1>1, <1>3 DEF Handed, MessagesOf

\* The count is a sum over the threads.
CountOf(th, w) == [t \in Threads |-> IF th[t] = "combined" THEN SumOf(w[t]) ELSE 0]

\* Counted is that sum: a number, and zero only if no thread handed rows over.
LEMMA CountedIs ==
  ASSUME NEW th, NEW w \in Contents
  PROVE  /\ CountOf(th, w) \in [Threads -> Nat] /\ Counted(th, w) = SumOf(CountOf(th, w))
         /\ Counted(th, w) \in Nat
         /\ Counted(th, w) = 0 <=> \A t \in Threads : CountOf(th, w)[t] = 0
<1>1. \A t \in Threads : SumOf(w[t]) \in Nat
      BY WriterRows
<1>2. CountOf(th, w) \in [Threads -> Nat]
      BY <1>1 DEF CountOf
<1>3. Counted(th, w) = SumOf(CountOf(th, w))
      BY DEF Counted, CountOf
<1>. QED BY <1>2, <1>3, FiniteAssumption, SumNat

\* What a combined thread handed over is not touched by the others.
LEMMA HandedSame ==
  ASSUME NEW o \in Stmts, NEW th, NEW ph, NEW w \in Contents, NEW v \in Contents,
         \A t \in Threads : th[t] = "combined" <=> ph[t] = "combined",
         \A t \in Threads : th[t] = "combined" => w[t] = v[t]
  PROVE  Handed(o, th, w) = Handed(o, ph, v) /\ Counted(th, w) = Counted(ph, v)
<1>1. {u \in Threads : th[u] = "combined"} = {u \in Threads : ph[u] = "combined"}
      OBVIOUS
<1>2. Handed(o, th, w) = Handed(o, ph, v)
      BY <1>1 DEF Handed, MessagesOf
<1>3. CountOf(th, w) = CountOf(ph, v)
      BY DEF CountOf
<1>. QED BY <1>2, <1>3, CountedIs

\* When a thread combines, its messages and its rows are added.
LEMMA HandedAdd ==
  ASSUME NEW o \in Stmts, NEW th, NEW ph, NEW w \in Contents, NEW t \in Threads,
         th[t] # "combined", ph[t] = "combined", \A u \in Threads \ {t} : ph[u] = th[u]
  PROVE  /\ Handed(o, ph, w) = Handed(o, th, w) \cup MessagesOf(o, t, w[t])
         /\ Counted(ph, w) = Counted(th, w) + SumOf(w[t])
<1>1. {u \in Threads : ph[u] = "combined"} = {u \in Threads : th[u] = "combined"} \cup {t}
      OBVIOUS
<1>2. Handed(o, ph, w) = Handed(o, th, w) \cup MessagesOf(o, t, w[t])
      BY <1>1 DEF Handed
<1>3. /\ \A u \in Threads \ {t} : CountOf(th, w)[u] = CountOf(ph, w)[u]
      /\ CountOf(th, w)[t] = 0 /\ CountOf(ph, w)[t] = SumOf(w[t])
      BY DEF CountOf
<1>4. /\ CountOf(th, w) \in [Threads -> Int] /\ CountOf(ph, w) \in [Threads -> Int]
      /\ Counted(th, w) = SumOf(CountOf(th, w)) /\ Counted(th, w) \in Int
      /\ Counted(ph, w) = SumOf(CountOf(ph, w)) /\ SumOf(w[t]) \in Int
  <2>1. CountOf(th, w) \in [Threads -> Nat] /\ CountOf(ph, w) \in [Threads -> Nat]
        BY CountedIs
  <2>. QED BY <2>1, CountedIs, WriterRows
<1>5. SumOf(CountOf(ph, w)) = SumOf(CountOf(th, w)) - CountOf(th, w)[t] + CountOf(ph, w)[t]
      BY <1>3, <1>4, FiniteAssumption, SumChange
<1>. QED BY <1>2, <1>3, <1>4, <1>5

\* When all threads that wrote have combined and the writers have the whole
\* input, the messages have it, partition by partition, and the count is its
\* number of rows.
LEMMA WholeInput ==
  ASSUME NEW o \in Stmts, NEW th, NEW w \in Contents,
         \A t \in Threads : th[t] # "combined" => w[t] = NoRows,
         \A p \in Parts : Gather(w, p) = TotalInput(o)[p]
  PROVE  /\ RowsIn(Handed(o, th, w)) = TotalInput(o)
         /\ Counted(th, w) = SumOf(TotalInput(o))
         /\ Handed(o, th, w) = {} <=> Counted(th, w) = 0
<1>1. \A t \in Threads, p \in Parts : w[t][p] \in Nat
      BY DEF Contents
<1>2. TotalInput(o) = [p \in Parts |-> Gather(w, p)]
      BY DEF TotalInput
<1>3. ASSUME NEW p \in Parts
      PROVE  RowsIn(Handed(o, th, w))[p] = Gather(w, p)
  <2>. DEFINE M == {n \in Handed(o, th, w) : n.file[3] = p}
              h == [m \in M |-> m.rows]
              f == [t \in Threads |-> w[t][p]]
              W == {t \in Threads : w[t][p] > 0}
              b == [t \in W |-> [file |-> <<o, t, p>>, rows |-> w[t][p]]]
  <2>1. f \in [Threads -> Nat] /\ W \in SUBSET Threads /\ \A t \in Threads \ W : f[t] = 0
        BY <1>1
  <2>2. \A t \in W : th[t] = "combined"
        BY <1>1 DEF NoRows
  <2>3. b \in [W -> M]
        BY <2>2, HandedIs
  <2>4. \A x, y \in W : b[x] = b[y] => x = y
    <3>1. \A x \in W : b[x].file = <<o, x, p>>
          OBVIOUS
    <3>. QED BY <3>1
  <2>5. ASSUME NEW z \in M PROVE \E x \in W : z = b[x]
    <3>1. PICK t \in Threads, q \in Parts :
            /\ th[t] = "combined" /\ w[t][q] > 0
            /\ z = [file |-> <<o, t, q>>, rows |-> w[t][q]]
          BY HandedIs
    <3>2. q = p
          BY <3>1
    <3>. QED BY <3>1, <3>2
  <2>6. h \in [M -> Int]
        BY HandedIs DEF Message
  <2>7. Only(f, W) \in [W -> Int] /\ \A x \in W : h[b[x]] = Only(f, W)[x]
        BY <1>1, <2>3 DEF Only
  <2>8. IsFiniteSet(W) /\ IsFiniteSet(M)
    <3>1. IsFiniteSet(W)
          BY FiniteAssumption, FS_Subset
    <3>2. b \in Surjection(W, M)
          BY <2>3, <2>5 DEF Surjection
    <3>. QED BY <3>1, <3>2, FS_Surjection
  <2>9. RowsIn(Handed(o, th, w))[p] = SumOf(h) /\ Gather(w, p) = SumOf(f)
        BY DEF RowsIn, Gather
  <2>. HIDE DEF M, h, f, W, b
  <2>10. SumOf(h) = SumOf(Only(f, W))
        BY <2>3, <2>4, <2>5, <2>6, <2>7, <2>8, SumReindex
  <2>11. SumOf(f) = SumOf(Only(f, W))
        BY <2>1, FiniteAssumption, SumSupport
  <2>. QED BY <2>9, <2>10, <2>11
<1>4. RowsIn(Handed(o, th, w)) = TotalInput(o)
      BY <1>2, <1>3 DEF RowsIn
<1>5. ASSUME NEW t \in Threads, th[t] # "combined" PROVE SumOf(w[t]) = 0
      BY <1>5, WriterRows DEF NoRows
<1>6. Counted(th, w) = SumOf([t \in Threads |-> SumOf(w[t])])
  <2>1. CountOf(th, w) = [t \in Threads |-> SumOf(w[t])]
        BY <1>5 DEF CountOf
  <2>. QED BY <2>1, CountedIs
<1>7. SumOf([t \in Threads |-> SumOf(w[t])])
        = SumOf([p \in Parts |-> SumOf([t \in Threads |-> w[t][p]])])
  <2>1. w \in [Threads -> [Parts -> Int]]
        BY DEF Contents
  <2>. QED BY <2>1, FiniteAssumption, PartsFinite, SumSwap
<1>8. Counted(th, w) = SumOf(TotalInput(o))
      BY <1>2, <1>6, <1>7 DEF Gather
<1>9. Counted(th, w) = 0 <=> \A t \in Threads : CountOf(th, w)[t] = 0
      BY CountedIs
<1>10. ASSUME Handed(o, th, w) = {}, NEW t \in Threads PROVE CountOf(th, w)[t] = 0
  <2>1. CASE th[t] = "combined"
    <3>1. \A p \in Parts : ~(w[t][p] > 0)
          BY <1>10, <2>1, HandedIs
    <3>2. \A p \in Parts : w[t][p] = 0
          BY <1>1, <3>1
    <3>. QED BY <3>2, WriterRows DEF CountOf
  <2>2. CASE th[t] # "combined"
        BY <2>2 DEF CountOf
  <2>. QED BY <2>1, <2>2
<1>11. ASSUME \A t \in Threads : CountOf(th, w)[t] = 0, NEW m \in Handed(o, th, w)
       PROVE  FALSE
  <2>1. PICK t \in Threads, p \in Parts : th[t] = "combined" /\ w[t][p] > 0
        BY HandedIs
  <2>2. SumOf(w[t]) = 0
        BY <1>11, <2>1 DEF CountOf
  <2>. QED BY <1>1, <2>1, <2>2, WriterRows
<1>. QED BY <1>4, <1>8, <1>9, <1>10, <1>11

-----------------------------------------------------------------------------
(***************************************************************************)
(* Type correctness.                                                       *)
(***************************************************************************)

\* The initial state has the declared types.
LEMMA TypeInit == Init => TypeInv
<1>. SUFFICES ASSUME Init PROVE TypeInv
     OBVIOUS
<1>1. left \in [Stmts -> Seq([Cells -> Nat])]
      BY InputAssumption DEF Init
<1>2. /\ messages \in [Stmts -> SUBSET Message] /\ log \in Seq(Snapshot)
      /\ written \in [Stmts -> [Threads -> [Parts -> Nat]]]
      BY DEF Init, NoRows
<1>3. table \in 0..created /\ created \in 0..MaxTables /\ sunk \in [Stmts -> 0..MaxTables]
      BY InputAssumption DEF Init
<1>4. TypeOK
      BY <1>2, <1>3 DEF Init, TypeOK
<1>. QED BY <1>1, <1>2, <1>4 DEF TypeInv

\* The statement takes a chunk and writes it, or fails to.
LEMMA TypeSink ==
  ASSUME TypeInv, NEW o \in Stmts, NEW t \in Threads, Sink(o, t)
  PROVE  /\ TypeInv'
         /\ left'[o] = Tail(left[o]) /\ left[o] # <<>> /\ Head(left[o]) \in [Cells -> Nat]
         /\ \A u \in Stmts \ {o} : left'[u] = left[u] /\ written'[u] = written[u] /\ pc'[u] = pc[u]
         /\ \A u \in Threads \ {t} : written'[o][u] = written[o][u]
         /\ \/ /\ pc'[o] = "sinking"
               /\ \A p \in Parts :
                    written'[o][t][p] = written[o][t][p] + PartitionGroups(Head(left[o]))[p]
               /\ disk' = disk \cup {<<o, t, p>> : p \in {q \in Parts : PartitionGroups(Head(left[o]))[q] > 0}}
            \/ /\ pc'[o] = "failed" /\ written'[o] = written[o] /\ written' = written
               /\ disk \subseteq disk'
<1>. DEFINE g == PartitionGroups(Head(left[o]))
<1>1. left[o] \in Seq([Cells -> Nat]) /\ left[o] # <<>>
      BY DEF TypeInv, Sink
<1>2. Head(left[o]) \in [Cells -> Nat] /\ Tail(left[o]) \in Seq([Cells -> Nat])
      BY <1>1
<1>3. g \in [Parts -> Nat]
      BY <1>2, GroupsAre
<1>4. /\ left' = [left EXCEPT ![o] = Tail(@)]
      /\ pc[o] = "sinking"
      /\ UNCHANGED <<table, created, log, sunk, thr, messages, count, reported>>
      /\ \/ /\ written' = [written EXCEPT ![o][t] = [p \in Parts |-> @[p] + g[p]]]
            /\ disk' = disk \cup {<<o, t, p>> : p \in {q \in Parts : g[q] > 0}}
            /\ UNCHANGED pc
         \/ /\ \E P \in SUBSET {q \in Parts : g[q] > 0} : disk' = disk \cup {<<o, t, p>> : p \in P}
            /\ pc' = [pc EXCEPT ![o] = "failed"]
            /\ UNCHANGED written
      BY DEF Sink, Fail
<1>. HIDE DEF g
<1>5. /\ left' \in [Stmts -> Seq([Cells -> Nat])] /\ left'[o] = Tail(left[o])
      /\ \A u \in Stmts \ {o} : left'[u] = left[u]
      BY <1>2, <1>4 DEF TypeInv
<1>6. disk' \subseteq Files
      BY <1>4 DEF TypeInv, TypeOK, Files
<1>7. CASE written' = [written EXCEPT ![o][t] = [p \in Parts |-> @[p] + g[p]]] /\ UNCHANGED pc
  <2>1. written \in [Stmts -> [Threads -> [Parts -> Nat]]]
        BY DEF TypeInv, TypeOK
  <2>2. [p \in Parts |-> written[o][t][p] + g[p]] \in [Parts -> Nat]
        BY <1>3, <2>1
  <2>3. written' \in [Stmts -> [Threads -> [Parts -> Nat]]]
        BY <1>7, <2>1, <2>2
  <2>4. /\ \A u \in Stmts \ {o} : written'[u] = written[u]
        /\ \A u \in Threads \ {t} : written'[o][u] = written[o][u]
        /\ written'[o][t] = [p \in Parts |-> written[o][t][p] + g[p]]
        BY <1>7, <2>1
  <2>5. \A p \in Parts : written'[o][t][p] = written[o][t][p] + g[p]
        BY <2>4
  <2>6. TypeInv'
        BY <1>4, <1>5, <1>6, <1>7, <2>3 DEF TypeInv, TypeOK
  <2>7. disk' = disk \cup {<<o, t, p>> : p \in {q \in Parts : g[q] > 0}}
    <3>1. ~(pc' = [pc EXCEPT ![o] = "failed"])
          BY <1>4, <1>7 DEF TypeInv, TypeOK
    <3>. QED BY <1>4, <3>1
  <2>. QED BY <1>1, <1>2, <1>4, <1>5, <1>7, <2>4, <2>5, <2>6, <2>7 DEF g
<1>8. CASE pc' = [pc EXCEPT ![o] = "failed"] /\ UNCHANGED written
  <2>1. TypeInv'
        BY <1>4, <1>5, <1>6, <1>8 DEF TypeInv, TypeOK
  <2>2. pc'[o] = "failed" /\ \A u \in Stmts \ {o} : pc'[u] = pc[u]
        BY <1>8 DEF TypeInv, TypeOK
  <2>3. disk \subseteq disk'
        BY <1>4
  <2>. QED BY <1>1, <1>2, <1>5, <1>8, <2>1, <2>2, <2>3
<1>. QED BY <1>4, <1>7, <1>8

\* A thread combines, or fails to.
LEMMA TypeCombine ==
  ASSUME TypeInv, NEW o \in Stmts, NEW t \in Threads, Combine(o, t)
  PROVE  TypeInv'
<1>1. /\ UNCHANGED <<path, sunk, left, written, reported>>
      /\ \/ HandOver(o, t) /\ thr' = [thr EXCEPT ![o][t] = "combined"] /\ UNCHANGED pc
         \/ pc' = [pc EXCEPT ![o] = "failed"] /\ UNCHANGED <<thr, messages, count>>
      BY DEF Combine, Fail
<1>2. CASE pc' = [pc EXCEPT ![o] = "failed"] /\ UNCHANGED <<thr, messages, count>>
      BY <1>1, <1>2 DEF TypeInv, TypeOK, path
<1>3. CASE HandOver(o, t) /\ thr' = [thr EXCEPT ![o][t] = "combined"] /\ UNCHANGED pc
  <2>1. Prepared(o, t) \in SUBSET Message
        BY DEF Prepared, Message, Files, TypeInv, TypeOK
  <2>2. messages' \in [Stmts -> SUBSET Message]
        BY <1>3, <2>1 DEF HandOver, TypeInv
  <2>3. SumOf(written[o][t]) \in Nat
        BY PartsFinite, SumNat DEF TypeInv, TypeOK
  <2>4. count' \in [Stmts -> Nat]
        BY <1>3, <2>3 DEF HandOver, TypeInv, TypeOK
  <2>5. thr' \in [Stmts -> [Threads -> {"new", "writing", "combined"}]]
        BY <1>3 DEF TypeInv, TypeOK
  <2>6. \A u \in Stmts : messages'[u] \subseteq [file : Files, rows : Nat \ {0}]
        BY <2>2 DEF Message
  <2>. QED BY <1>1, <1>3, <2>2, <2>4, <2>5, <2>6 DEF TypeInv, TypeOK, path
<1>. QED BY <1>1, <1>2, <1>3

\* The statement ends.
LEMMA TypeFinalize ==
  ASSUME TypeInv, NEW o \in Stmts, Finalize(o)
  PROVE  /\ TypeInv' /\ UNCHANGED <<table, created, disk, local, sunk, reported>>
         /\ pc[o] = "sinking" /\ left[o] = <<>>
         /\ \A t \in Threads : thr[o][t] \in {"new", "combined"}
         /\ \A u \in Stmts \ {o} : pc'[u] = pc[u]
         /\ \/ pc'[o] = "ok" /\ messages[o] = {} /\ log' = log
            \/ /\ pc'[o] \in {"ok", "unknown"} /\ messages[o] # {}
               /\ log' = Append(log, Committed(o)) /\ Committed(o) \in Snapshot
            \/ pc'[o] \in {"failed", "unknown"} /\ messages[o] # {} /\ log' = log
<1>1. /\ UNCHANGED <<table, created, disk, local, sunk, reported>>
      /\ pc[o] = "sinking" /\ left[o] = <<>>
      /\ \A t \in Threads : thr[o][t] \in {"new", "combined"}
      BY DEF Finalize
<1>2. /\ pc' \in [Stmts -> {"none", "planned", "created", "sinking", "ok", "failed", "unknown"}]
      /\ \A u \in Stmts \ {o} : pc'[u] = pc[u]
      /\ \/ pc'[o] = "ok" /\ messages[o] = {} /\ log' = log
         \/ /\ pc'[o] \in {"ok", "unknown"} /\ messages[o] # {} /\ table # 0
            /\ log' = Append(log, Committed(o))
         \/ pc'[o] \in {"failed", "unknown"} /\ messages[o] # {} /\ log' = log
      BY DEF Finalize, TypeInv, TypeOK
<1>3. table # 0 => Committed(o) \in Snapshot /\ Committed(o).inc \in 1..created /\ Committed(o).stmt = o
  <2>1. table \in Nat /\ created \in Nat /\ table <= created /\ messages[o] \in SUBSET Message
        BY DEF TypeInv, TypeOK
  <2>. QED BY <2>1 DEF Committed, Snapshot
<1>4. CASE log' = log
      BY <1>1, <1>2, <1>3, <1>4 DEF TypeInv, TypeOK, local
<1>5. CASE log' = Append(log, Committed(o)) /\ table # 0
  <2>1. log \in Seq(Snapshot) /\ log' \in Seq(Snapshot)
        BY <1>3, <1>5 DEF TypeInv
  <2>2. \A i \in DOMAIN log' : log'[i].inc \in 1..created /\ log'[i].stmt \in Stmts
    <3>1. SUFFICES ASSUME NEW i \in DOMAIN log' PROVE log'[i].inc \in 1..created /\ log'[i].stmt \in Stmts
          OBVIOUS
    <3>2. CASE i \in DOMAIN log
      <4>1. log'[i] = log[i]
            BY <1>3, <1>5, <2>1, <3>2
      <4>. QED BY <3>2, <4>1 DEF TypeInv, TypeOK
    <3>3. CASE i \notin DOMAIN log
      <4>1. log'[i] = Committed(o)
            BY <1>3, <1>5, <2>1, <3>3
      <4>. QED BY <1>3, <1>5, <4>1
    <3>. QED BY <3>2, <3>3
  <2>3. TypeInv'
        BY <1>1, <1>2, <2>1, <2>2 DEF TypeInv, TypeOK, local
  <2>. QED BY <1>1, <1>2, <1>3, <1>5, <2>3
<1>. QED BY <1>2, <1>4, <1>5

\* The steps that write nothing.
Setup(o) ==
  \/ Plan(o) \/ CreateCtasTable(o) \/ GetGlobalSinkState(o)
  \/ \E t \in Threads : GetLocalSinkState(o, t)

\* What they may change: the statement moves on or fails, a thread starts.
LEMMA TypeSetup ==
  ASSUME TypeInv, NEW o \in Stmts, Setup(o)
  PROVE  /\ TypeInv' /\ UNCHANGED <<log, left, written, messages, count, reported>>
         /\ \A u \in Stmts \ {o} : pc'[u] = pc[u] /\ thr'[u] = thr[u] /\ sunk'[u] = sunk[u]
         /\ \A t \in Threads : \/ thr'[o][t] = thr[o][t]
                               \/ /\ thr[o][t] = "new" /\ thr'[o][t] = "writing"
                                  /\ pc'[o] = "sinking"
         /\ \/ pc[o] \in {"none", "planned"} /\ pc'[o] \in {"planned", "created"}
               /\ sunk'[o] = sunk[o]
            \/ pc[o] \in {"planned", "created"} /\ pc'[o] = "sinking" /\ sunk'[o] = table
               /\ table # 0
            \/ pc[o] = "sinking" /\ pc'[o] = "sinking" /\ sunk'[o] = sunk[o]
            \/ pc[o] \in {"planned", "created", "sinking"} /\ pc'[o] = "failed"
               /\ sunk'[o] = sunk[o]
         /\ disk' = disk
         /\ \/ UNCHANGED <<table, created>>
            \/ /\ table = 0 /\ table' = created + 1 /\ created' = created + 1
               /\ sunk' = sunk
<1>. USE DEF TypeInv, TypeOK, Fail, path, local
<1>1. CASE Plan(o)
      BY <1>1 DEF Plan
<1>2. CASE CreateCtasTable(o)
  <2>1. CASE /\ table = 0 /\ created < MaxTables
             /\ table' = created + 1 /\ created' = created + 1
             /\ pc' = [pc EXCEPT ![o] = "created"]
    <3>1. /\ table' \in 0..created' /\ created' \in 0..MaxTables
          /\ \A i \in DOMAIN log : log[i].inc \in 1..created'
          BY <2>1, InputAssumption
    <3>2. UNCHANGED <<disk, log, local, sunk, reported>> /\ pc[o] = "planned"
          BY <1>2 DEF CreateCtasTable
    <3>3. TypeInv'
          BY <2>1, <3>1, <3>2
    <3>. QED BY <2>1, <3>2, <3>3
  <2>2. CASE pc' = [pc EXCEPT ![o] = "created"] /\ UNCHANGED <<table, created>>
        BY <1>2, <2>2 DEF CreateCtasTable
  <2>3. CASE Fail(o) /\ UNCHANGED <<table, created>>
        BY <1>2, <2>3 DEF CreateCtasTable
  <2>. QED BY <1>2, <2>1, <2>2, <2>3 DEF CreateCtasTable
<1>3. CASE GetGlobalSinkState(o)
  <2>1. CASE table # 0 /\ pc' = [pc EXCEPT ![o] = "sinking"] /\ sunk' = [sunk EXCEPT ![o] = table]
    <3>1. sunk' \in [Stmts -> 0..MaxTables] /\ sunk'[o] = table
          BY <2>1, InputAssumption
    <3>2. UNCHANGED <<path, local, reported>> /\ pc[o] \in {"planned", "created"}
          BY <1>3 DEF GetGlobalSinkState
    <3>3. TypeInv'
          BY <2>1, <3>1, <3>2
    <3>. QED BY <2>1, <3>1, <3>2, <3>3
  <2>2. CASE Fail(o) /\ UNCHANGED sunk
        BY <1>3, <2>2 DEF GetGlobalSinkState
  <2>. QED BY <1>3, <2>1, <2>2 DEF GetGlobalSinkState
<1>4. ASSUME NEW t \in Threads, GetLocalSinkState(o, t)
      PROVE  /\ TypeInv' /\ UNCHANGED <<path, sunk, left, written, messages, count, reported>>
             /\ pc[o] = "sinking" /\ pc'[o] \in {"sinking", "failed"}
             /\ \A u \in Stmts \ {o} : pc'[u] = pc[u] /\ thr'[u] = thr[u]
             /\ \A u \in Threads : \/ thr'[o][u] = thr[o][u]
                                   \/ /\ thr[o][u] = "new" /\ thr'[o][u] = "writing"
                                      /\ pc'[o] = "sinking"
  <2>1. CASE thr' = [thr EXCEPT ![o][t] = "writing"] /\ UNCHANGED pc
        BY <1>4, <2>1 DEF GetLocalSinkState
  <2>2. CASE Fail(o) /\ UNCHANGED thr
        BY <1>4, <2>2 DEF GetLocalSinkState
  <2>. QED BY <1>4, <2>1, <2>2 DEF GetLocalSinkState
<1>. HIDE DEF TypeInv, TypeOK
<1>5. CASE \E t \in Threads : GetLocalSinkState(o, t)
      BY <1>4, <1>5
<1>. QED BY <1>1, <1>2, <1>3, <1>5 DEF Setup

\* The statements of others on the table.
LEMMA TypeDdl ==
  ASSUME TypeInv, DropTable \/ CreateTable
  PROVE  /\ TypeInv' /\ UNCHANGED <<log, local, pc, sunk, reported>>
         /\ table' # table
         /\ \/ table' = 0 /\ created' = created
            \/ table' = created + 1 /\ created' = created + 1
<1>. USE DEF TypeInv, TypeOK, local
<1>1. CASE DropTable
      BY <1>1 DEF DropTable
<1>2. CASE CreateTable
  <2>1. /\ table' \in 0..created' /\ created' \in 0..MaxTables
        /\ \A i \in DOMAIN log : log[i].inc \in 1..created'
        BY <1>2, InputAssumption DEF CreateTable
  <2>. QED BY <1>2, <2>1 DEF CreateTable
<1>. QED BY <1>1, <1>2

\* The count is returned.
LEMMA TypeGetData ==
  ASSUME TypeInv, NEW o \in Stmts, GetDataInternal(o)
  PROVE  /\ TypeInv' /\ UNCHANGED <<path, local, pc, sunk>>
         /\ pc[o] = "ok" /\ reported'[o] = count[o]
         /\ \A u \in Stmts \ {o} : reported'[u] = reported[u]
BY DEF GetDataInternal, TypeInv, TypeOK, path, local

-----------------------------------------------------------------------------
(***************************************************************************)
(* The invariant is inductive: one lemma per kind of step.                 *)
(***************************************************************************)

\* The writers of a statement have the declared contents.
LEMMA WrittenIs ==
  ASSUME TypeInv, NEW o \in Stmts
  PROVE  written[o] \in Contents /\ \A t \in Threads, p \in Parts : written[o][t][p] \in Nat
BY DEF TypeInv, TypeOK, Contents

\* A chunk goes from the input to the writer of one thread.
LEMMA InputTake ==
  ASSUME NEW o \in Stmts, NEW l \in Seq([Cells -> Nat]), l # <<>>, NEW t \in Threads,
         NEW w \in Contents, NEW v \in Contents, NEW s, NEW r, InputAt(o, l, w, s),
         r # "failed" =>
           /\ s # "failed"
           /\ \A u \in Threads \ {t} : v[u] = w[u]
           /\ \A p \in Parts : v[t][p] = w[t][p] + PartitionGroups(Head(l))[p]
  PROVE  InputAt(o, Tail(l), v, r)
<1>. DEFINE n == Len(Input[o])
            k == n - Len(l)
<1>1. /\ Len(l) \in Nat /\ Len(l) > 0 /\ Len(Tail(l)) = Len(l) - 1 /\ Head(l) = l[1]
      /\ \A i \in 1..Len(Tail(l)) : Tail(l)[i] = l[i + 1]
      OBVIOUS
<1>2. /\ n \in Nat /\ Len(l) <= n /\ Taken(o, l) = k
      /\ \A i \in 1..Len(l) : l[i] = Input[o][k + i]
      BY InputIs DEF InputAt, Taken
<1>3. k \in Nat /\ k < n /\ n - Len(Tail(l)) = k + 1
      BY <1>1, <1>2
<1>4. Taken(o, Tail(l)) = k + 1
      BY <1>3 DEF Taken
<1>5. ASSUME NEW i \in 1..Len(Tail(l)) PROVE Tail(l)[i] = Input[o][(k + 1) + i]
  <2>1. i + 1 \in 1..Len(l) /\ k + (i + 1) = (k + 1) + i
    <3>1. i \in Nat /\ 1 <= i /\ i <= Len(l) - 1
          BY <1>1
    <3>. HIDE DEF k
    <3>. QED BY <1>1, <1>3, <3>1
  <2>2. l[i + 1] = Input[o][k + (i + 1)]
        BY <1>2, <2>1
  <2>. QED BY <1>1, <2>1, <2>2
<1>6. ASSUME r # "failed", NEW p \in Parts
      PROVE  Gather(v, p) + Rest(o, k + 1, p) = TotalInput(o)[p]
  <2>. DEFINE d == PartitionGroups(Head(l))[p]
  <2>1. d = Group(o, k + 1, p)
    <3>1. 1 \in 1..Len(l) /\ k + 1 \in 1..n
          BY <1>1, <1>2, <1>3
    <3>2. Head(l) = Input[o][k + 1]
          BY <1>1, <1>2, <3>1
    <3>. QED BY <3>1, <3>2, InputIs
  <2>2. v[t][p] = w[t][p] + d
        BY <1>6
  <2>. HIDE DEF d, k, n
  <2>3. /\ Rest(o, k, p) = Group(o, k + 1, p) + Rest(o, k + 1, p)
        /\ Rest(o, k + 1, p) \in Int /\ Group(o, k + 1, p) \in Nat
        BY <1>3, RestStep DEF n
  <2>4. Gather(w, p) \in Int /\ Gather(v, p) = Gather(w, p) - w[t][p] + v[t][p]
        BY <1>6, GatherAdd
  <2>5. w[t][p] \in Nat
        BY DEF Contents
  <2>6. Gather(w, p) + Rest(o, k, p) = TotalInput(o)[p]
        BY <1>2, <1>6 DEF InputAt
  <2>. QED BY <2>1, <2>2, <2>3, <2>4, <2>5, <2>6
<1>7. Len(Tail(l)) <= n
      BY <1>1, <1>2
<1>. HIDE DEF k
<1>. QED BY <1>4, <1>5, <1>6, <1>7 DEF InputAt

\* The initial state satisfies the invariant.
LEMMA InvInit == Init => InsertInv
<1>. SUFFICES ASSUME Init PROVE InsertInv
     OBVIOUS
<1>1. TypeInv
      BY TypeInit
<1>2. ASSUME NEW o \in Stmts
      PROVE  /\ Taken(o, left[o]) = 0 /\ Len(left[o]) = Len(Input[o]) /\ left[o] = Input[o]
             /\ written[o] \in Contents /\ \A t \in Threads : written[o][t] = NoRows
             /\ thr[o] = [t \in Threads |-> "new"]
  <2>1. left[o] = Input[o] /\ Len(Input[o]) \in Nat
        BY InputIs DEF Init
  <2>. QED BY <1>1, <2>1, WrittenIs DEF Init, Taken
<1>3. InputInv
  <2>1. SUFFICES ASSUME NEW o \in Stmts
                 PROVE  /\ Len(left[o]) <= Len(Input[o])
                        /\ \A i \in 1..Len(left[o]) : left[o][i] = Input[o][Taken(o, left[o]) + i]
                        /\ \A p \in Parts :
                             Gather(written[o], p) + Rest(o, Taken(o, left[o]), p) = TotalInput(o)[p]
        BY DEF InputInv, InputAt
  <2>2. Len(Input[o]) \in Nat
        BY InputIs
  <2>3. ASSUME NEW p \in Parts
        PROVE  Gather(written[o], p) + Rest(o, Taken(o, left[o]), p) = TotalInput(o)[p]
    <3>1. Gather(written[o], p) = 0
          BY <1>2, GatherNone
    <3>2. Rest(o, 0, p) = TotalInput(o)[p]
          BY RestEnds
    <3>3. TotalInput(o)[p] \in Int
      <4>1. CASE Len(Input[o]) = 0
            BY <3>2, <4>1, RestEnds
      <4>2. CASE 0 < Len(Input[o])
        <5>1. 0 \in Nat /\ Rest(o, 0, p) = Group(o, 0 + 1, p) + Rest(o, 0 + 1, p)
              /\ Rest(o, 0 + 1, p) \in Int /\ Group(o, 0 + 1, p) \in Nat
              BY <4>2, RestStep
        <5>. QED BY <3>2, <5>1
      <4>. QED BY <2>2, <4>1, <4>2
    <3>. QED BY <1>2, <3>1, <3>2, <3>3
  <2>. QED BY <1>2, <2>2, <2>3
<1>4. ThreadInv
  <2>1. SUFFICES ASSUME NEW o \in Stmts
                 PROVE  /\ Handed(o, thr[o], written[o]) = {} /\ Counted(thr[o], written[o]) = 0
        BY <1>2 DEF Init, ThreadInv
  <2>2. Handed(o, thr[o], written[o]) = {}
        BY <1>2 DEF Handed, MessagesOf
  <2>3. \A t \in Threads : CountOf(thr[o], written[o])[t] = 0
        BY <1>2 DEF CountOf
  <2>. QED BY <1>2, <2>2, <2>3, CountedIs
<1>5. LogInv
      BY DEF Init, LogInv
<1>6. FileInv
      BY DEF Init, FileInv, NoRows
<1>. QED BY <1>1, <1>3, <1>4, <1>5, <1>6 DEF InsertInv

\* A statement is planned, opens its sink, a thread starts, or one fails.
LEMMA InvSetup ==
  ASSUME InsertInv, NEW o \in Stmts, Setup(o)
  PROVE  InsertInv'
<1>0. TypeInv
      BY DEF InsertInv
<1>1. /\ TypeInv' /\ UNCHANGED <<log, left, written, messages, count, reported>>
      /\ \A u \in Stmts \ {o} : pc'[u] = pc[u] /\ thr'[u] = thr[u] /\ sunk'[u] = sunk[u]
      /\ \A t \in Threads : \/ thr'[o][t] = thr[o][t]
                            \/ thr[o][t] = "new" /\ thr'[o][t] = "writing" /\ pc'[o] = "sinking"
      /\ pc[o] \in {"none", "planned", "created", "sinking"}
      /\ pc'[o] \notin {"none", "ok", "unknown"}
      /\ pc'[o] \in {"planned", "created"} => pc[o] \in {"none", "planned"}
      BY <1>0, TypeSetup
<1>2. InputInv'
      BY <1>1 DEF InsertInv, InputInv, InputAt
<1>3. ThreadInv'
  <2>1. ASSUME NEW u \in Stmts
        PROVE  /\ Handed(u, thr'[u], written'[u]) = Handed(u, thr[u], written[u])
               /\ Counted(thr'[u], written'[u]) = Counted(thr[u], written[u])
    <3>1. written[u] \in Contents /\ written'[u] = written[u]
          BY <1>0, <1>1, WrittenIs
    <3>2. \A t \in Threads : thr[u][t] = "combined" <=> thr'[u][t] = "combined"
          BY <1>1
    <3>. QED BY <3>1, <3>2, HandedSame
  <2>. QED BY <1>1, <2>1 DEF InsertInv, ThreadInv
<1>4. LogInv'
  <2>1. \A i \in DOMAIN log : log[i].stmt \in Stmts \ {o}
        BY <1>1 DEF InsertInv, LogInv, TypeInv, TypeOK
  <2>. QED BY <1>1, <2>1 DEF InsertInv, LogInv
<1>5. FileInv'
  <2>1. SUFFICES ASSUME NEW u \in Stmts
                 PROVE  /\ sunk'[u] <= created'
                        /\ pc'[u] = "sinking" => sunk'[u] # 0
                        /\ \A t \in Threads, p \in Parts : written[u][t][p] > 0 =>
                             sunk'[u] # 0 /\ (sunk'[u] = table' => <<u, t, p>> \in disk')
        BY <1>1 DEF FileInv
  <2>2. /\ sunk[u] <= created
        /\ pc[u] = "sinking" => sunk[u] # 0
        /\ \A t \in Threads, p \in Parts : written[u][t][p] > 0 =>
             sunk[u] # 0 /\ (sunk[u] = table => <<u, t, p>> \in disk)
        BY DEF InsertInv, FileInv
  <2>3. sunk[u] \in Nat /\ created \in Nat /\ table \in Nat /\ table <= created
        BY DEF InsertInv, TypeInv, TypeOK
  <2>4. pc[o] \in {"planned", "created"} => \A t \in Threads, p \in Parts : ~(written[o][t][p] > 0)
        BY DEF InsertInv, ThreadInv, NoRows
  <2>. QED BY <1>0, <2>2, <2>3, <2>4, TypeSetup
<1>. QED BY <1>1, <1>2, <1>3, <1>4, <1>5 DEF InsertInv

\* A chunk goes from the input to the writer of a thread, and its files to the
\* disk.
LEMMA InvSink ==
  ASSUME InsertInv, NEW o \in Stmts, NEW t \in Threads, Sink(o, t)
  PROVE  InsertInv'
<1>0. TypeInv
      BY DEF InsertInv
<1>. DEFINE g == PartitionGroups(Head(left[o]))
<1>1. /\ TypeInv'
      /\ left'[o] = Tail(left[o]) /\ left[o] # <<>> /\ Head(left[o]) \in [Cells -> Nat]
      /\ \A u \in Stmts \ {o} : left'[u] = left[u] /\ written'[u] = written[u] /\ pc'[u] = pc[u]
      /\ \A u \in Threads \ {t} : written'[o][u] = written[o][u]
      /\ \/ /\ pc'[o] = "sinking"
            /\ \A p \in Parts : written'[o][t][p] = written[o][t][p] + g[p]
            /\ disk' = disk \cup {<<o, t, p>> : p \in {q \in Parts : g[q] > 0}}
         \/ /\ pc'[o] = "failed" /\ written'[o] = written[o]
            /\ disk \subseteq disk'
      BY <1>0, TypeSink
<1>2. /\ pc[o] = "sinking" /\ thr[o][t] = "writing"
      /\ UNCHANGED <<table, created, log, sunk, thr, messages, count, reported>>
      BY DEF Sink
<1>3. g \in [Parts -> Nat]
      BY <1>1, GroupsAre
<1>. HIDE DEF g
<1>4. written[o] \in Contents /\ written'[o] \in Contents
      BY <1>0, <1>1, WrittenIs DEF TypeInv, TypeOK, Contents
<1>5. disk \subseteq disk'
      BY <1>1
<1>6. InputInv'
  <2>1. \A u \in Stmts : InputAt(u, left[u], written[u], pc[u])
        BY DEF InsertInv, InputInv
  <2>2. ASSUME NEW u \in Stmts \ {o} PROVE InputAt(u, left'[u], written'[u], pc'[u])
        BY <1>1, <2>1
  <2>3. left[o] \in Seq([Cells -> Nat])
        BY <1>0 DEF TypeInv
  <2>4. InputAt(o, Tail(left[o]), written'[o], pc'[o])
    <3>1. CASE pc'[o] = "failed"
          BY <1>4, <1>1, <2>1, <2>3, <3>1, InputTake
    <3>2. CASE pc'[o] # "failed"
          BY <1>1, <1>2, <1>3, <1>4, <2>1, <2>3, <3>2, InputTake DEF g
    <3>. QED BY <3>1, <3>2
  <2>. QED BY <1>1, <2>2, <2>4 DEF InputInv
<1>7. ThreadInv'
  <2>1. ASSUME NEW u \in Stmts
        PROVE  /\ Handed(u, thr'[u], written'[u]) = Handed(u, thr[u], written[u])
               /\ Counted(thr'[u], written'[u]) = Counted(thr[u], written[u])
    <3>1. written[u] \in Contents /\ written'[u] \in Contents
          BY <1>0, <1>1, WrittenIs DEF TypeInv, TypeOK, Contents
    <3>2. \A v \in Threads : thr[u][v] = "combined" => written[u][v] = written'[u][v]
          BY <1>1, <1>2
    <3>. QED BY <1>2, <3>1, <3>2, HandedSame
  <2>. QED BY <1>1, <1>2, <2>1 DEF InsertInv, ThreadInv
<1>8. LogInv'
  <2>1. \A i \in DOMAIN log : log[i].stmt \in Stmts \ {o}
        BY <1>2 DEF InsertInv, LogInv, TypeInv, TypeOK
  <2>. QED BY <1>1, <1>2, <2>1 DEF InsertInv, LogInv
<1>9. FileInv'
  <2>1. SUFFICES ASSUME NEW u \in Stmts
                 PROVE  /\ sunk[u] <= created
                        /\ pc'[u] = "sinking" => sunk[u] # 0
                        /\ \A v \in Threads, p \in Parts : written'[u][v][p] > 0 =>
                             sunk[u] # 0 /\ (sunk[u] = table => <<u, v, p>> \in disk')
        BY <1>2 DEF FileInv
  <2>2. /\ sunk[u] <= created
        /\ pc[u] = "sinking" => sunk[u] # 0
        /\ \A v \in Threads, p \in Parts : written[u][v][p] > 0 =>
             sunk[u] # 0 /\ (sunk[u] = table => <<u, v, p>> \in disk)
        BY DEF InsertInv, FileInv
  <2>3. ASSUME NEW v \in Threads, NEW p \in Parts, written'[u][v][p] > 0
        PROVE  sunk[u] # 0 /\ (sunk[u] = table => <<u, v, p>> \in disk')
    <3>1. CASE written[u][v][p] > 0
          BY <1>5, <2>2, <3>1
    <3>2. CASE ~(written[u][v][p] > 0)
      <4>1. written'[u][v][p] # written[u][v][p]
            BY <2>3, <3>2
      <4>2. u = o /\ v = t /\ pc'[o] = "sinking"
            BY <1>1, <4>1
      <4>3. written'[o][t][p] = written[o][t][p] + g[p] /\ written[o][t][p] \in Nat /\ g[p] \in Nat
            BY <1>0, <1>1, <1>3, <4>2, WrittenIs
      <4>4. g[p] > 0
            BY <2>3, <3>2, <4>2, <4>3
      <4>5. <<o, t, p>> \in disk'
            BY <1>1, <4>2, <4>4
      <4>. QED BY <1>2, <2>2, <4>2, <4>5
    <3>. QED BY <3>1, <3>2
  <2>. QED BY <1>1, <1>2, <2>2, <2>3
<1>. QED BY <1>1, <1>6, <1>7, <1>8, <1>9 DEF InsertInv

\* A thread hands over what it wrote, or fails to.
LEMMA InvCombine ==
  ASSUME InsertInv, NEW o \in Stmts, NEW t \in Threads, Combine(o, t)
  PROVE  InsertInv'
<1>0. TypeInv
      BY DEF InsertInv
<1>1. /\ TypeInv' /\ pc[o] = "sinking" /\ thr[o][t] = "writing" /\ left[o] = <<>>
      /\ UNCHANGED <<path, sunk, left, written, reported>>
      BY <1>0, TypeCombine DEF Combine
<1>2. /\ \A u \in Stmts \ {o} : /\ pc'[u] = pc[u] /\ thr'[u] = thr[u]
                                /\ messages'[u] = messages[u] /\ count'[u] = count[u]
      /\ \A u \in Threads \ {t} : thr'[o][u] = thr[o][u]
      /\ \/ /\ pc'[o] = "sinking" /\ thr'[o][t] = "combined"
            /\ messages'[o] = messages[o] \cup Prepared(o, t)
            /\ count'[o] = count[o] + SumOf(written[o][t])
         \/ /\ pc'[o] = "failed" /\ thr'[o] = thr[o]
            /\ messages'[o] = messages[o] /\ count'[o] = count[o]
      BY <1>0, <1>1 DEF Combine, HandOver, Fail, TypeInv, TypeOK
<1>3. InputInv'
  <2>1. \A u \in Stmts : InputAt(u, left[u], written[u], pc[u])
        BY DEF InsertInv, InputInv
  <2>2. InputAt(o, left[o], written[o], pc'[o])
        BY <1>1, <2>1 DEF InputAt
  <2>. QED BY <1>1, <1>2, <2>1, <2>2 DEF InputInv
<1>4. ThreadInv'
  <2>1. /\ messages[o] = Handed(o, thr[o], written[o])
        /\ count[o] = Counted(thr[o], written[o])
        BY DEF InsertInv, ThreadInv
  <2>2. written[o] \in Contents
        BY <1>0, WrittenIs
  <2>3. /\ messages'[o] = Handed(o, thr'[o], written[o])
        /\ count'[o] = Counted(thr'[o], written[o])
    <3>1. CASE thr'[o] = thr[o]
          BY <1>1, <1>2, <2>1, <3>1
    <3>2. CASE thr'[o][t] = "combined"
      <4>1. /\ messages'[o] = messages[o] \cup Prepared(o, t)
            /\ count'[o] = count[o] + SumOf(written[o][t])
            /\ thr[o][t] # "combined" /\ \A u \in Threads \ {t} : thr'[o][u] = thr[o][u]
            BY <1>1, <1>2, <3>2
      <4>2. /\ Handed(o, thr'[o], written[o]) = Handed(o, thr[o], written[o]) \cup Prepared(o, t)
            /\ Counted(thr'[o], written[o]) = Counted(thr[o], written[o]) + SumOf(written[o][t])
        <5>1. Prepared(o, t) = MessagesOf(o, t, written[o][t])
              BY DEF Prepared, MessagesOf
        <5>. QED BY <2>2, <3>2, <4>1, <5>1, HandedAdd
      <4>. QED BY <2>1, <4>1, <4>2
    <3>. QED BY <1>2, <3>1, <3>2
  <2>4. \A u \in Threads : thr'[o][u] = "new" => written[o][u] = NoRows
        BY <1>1, <1>2 DEF InsertInv, ThreadInv
  <2>. QED BY <1>1, <1>2, <2>3, <2>4 DEF InsertInv, ThreadInv
<1>5. LogInv'
  <2>1. \A i \in DOMAIN log : log[i].stmt \in Stmts \ {o}
        BY <1>1 DEF InsertInv, LogInv, TypeInv, TypeOK
  <2>2. log' = log /\ reported' = reported /\ reported[o] = -1
        BY <1>1 DEF path, InsertInv, LogInv
  <2>. QED BY <1>1, <1>2, <2>1, <2>2 DEF InsertInv, LogInv
<1>6. FileInv'
      BY <1>1, <1>2 DEF InsertInv, FileInv, path
<1>. QED BY <1>1, <1>3, <1>4, <1>5, <1>6 DEF InsertInv

\* A statement commits its messages, has none, or fails.
LEMMA InvFinalize ==
  ASSUME InsertInv, NEW o \in Stmts, Finalize(o)
  PROVE  InsertInv'
<1>0. TypeInv
      BY DEF InsertInv
<1>1. /\ TypeInv' /\ UNCHANGED <<table, created, disk, local, sunk, reported>>
      /\ pc[o] = "sinking" /\ left[o] = <<>>
      /\ \A t \in Threads : thr[o][t] \in {"new", "combined"}
      /\ \A u \in Stmts \ {o} : pc'[u] = pc[u]
      /\ \/ pc'[o] = "ok" /\ messages[o] = {} /\ log' = log
         \/ /\ pc'[o] \in {"ok", "unknown"} /\ messages[o] # {}
            /\ log' = Append(log, Committed(o)) /\ Committed(o) \in Snapshot
         \/ pc'[o] \in {"failed", "unknown"} /\ messages[o] # {} /\ log' = log
      BY <1>0, TypeFinalize
<1>2. InputInv'
  <2>1. \A u \in Stmts : InputAt(u, left[u], written[u], pc[u])
        BY DEF InsertInv, InputInv
  <2>2. InputAt(o, left[o], written[o], pc'[o])
        BY <1>1, <2>1 DEF InputAt
  <2>. QED BY <1>1, <2>1, <2>2 DEF InputInv, local
<1>3. ThreadInv'
      BY <1>1 DEF InsertInv, ThreadInv, local
<1>4. LogInv'
  <2>1. /\ \A i \in DOMAIN log : log[i].stmt \in Stmts \ {o}
        /\ reported[o] = -1 /\ log \in Seq(Snapshot)
        BY <1>0, <1>1 DEF InsertInv, LogInv, TypeInv, TypeOK
  <2>2. CASE log' = log
        BY <1>1, <2>1, <2>2 DEF InsertInv, LogInv, local
  <2>3. CASE log' = Append(log, Committed(o)) /\ messages[o] # {} /\ pc'[o] \in {"ok", "unknown"}
    <3>. DEFINE n == Len(log) + 1
    <3>1. /\ DOMAIN log' = DOMAIN log \cup {n} /\ n \notin DOMAIN log
          /\ \A i \in DOMAIN log : log'[i] = log[i]
          /\ log'[n] = Committed(o)
          BY <2>1, <2>3
    <3>2. log'[n].stmt = o /\ log'[n].msgs = messages[o]
          BY <3>1 DEF Committed
    <3>. HIDE DEF n
    <3>3. \A i \in DOMAIN log :
            /\ pc[log[i].stmt] \in {"ok", "unknown"}
            /\ log[i].msgs = messages[log[i].stmt] /\ log[i].msgs # {}
            /\ \A j \in DOMAIN log : log[i].stmt = log[j].stmt => i = j
          BY DEF InsertInv, LogInv
    <3>4. ASSUME NEW i \in DOMAIN log'
          PROVE  /\ pc'[log'[i].stmt] \in {"ok", "unknown"}
                 /\ log'[i].msgs = messages'[log'[i].stmt] /\ log'[i].msgs # {}
                 /\ \A j \in DOMAIN log' : log'[i].stmt = log'[j].stmt => i = j
      <4>1. CASE i = n
            BY <1>1, <2>1, <2>3, <3>1, <3>2, <4>1 DEF local
      <4>2. CASE i \in DOMAIN log
            BY <1>1, <2>1, <2>3, <3>1, <3>2, <3>3, <4>2 DEF local
      <4>. QED BY <3>1, <4>1, <4>2
    <3>5. ASSUME NEW u \in Stmts
          PROVE  /\ pc'[u] = "ok" /\ messages'[u] # {} => \E i \in DOMAIN log' : log'[i].stmt = u
                 /\ reported'[u] # -1 => pc'[u] = "ok" /\ reported'[u] = count'[u]
      <4>1. CASE u = o
            BY <1>1, <2>1, <3>1, <3>2, <4>1
      <4>2. CASE u # o
        <5>1. /\ pc[u] = "ok" /\ messages[u] # {} => \E i \in DOMAIN log : log[i].stmt = u
              /\ reported[u] # -1 => pc[u] = "ok" /\ reported[u] = count[u]
              BY DEF InsertInv, LogInv
        <5>. QED BY <1>1, <3>1, <4>2, <5>1 DEF local
      <4>. QED BY <4>1, <4>2
    <3>. QED BY <3>4, <3>5 DEF LogInv
  <2>. QED BY <1>1, <2>2, <2>3
<1>5. FileInv'
      BY <1>1 DEF InsertInv, FileInv, local
<1>. QED BY <1>1, <1>2, <1>3, <1>4, <1>5 DEF InsertInv

\* The statement returns its count.
LEMMA InvGetData ==
  ASSUME InsertInv, NEW o \in Stmts, GetDataInternal(o)
  PROVE  InsertInv'
<1>0. TypeInv
      BY DEF InsertInv
<1>1. /\ TypeInv' /\ UNCHANGED <<path, local, pc, sunk>>
      /\ pc[o] = "ok" /\ reported'[o] = count[o]
      /\ \A u \in Stmts \ {o} : reported'[u] = reported[u]
      BY <1>0, TypeGetData
<1>2. InputInv' /\ ThreadInv' /\ FileInv'
      BY <1>1 DEF InsertInv, InputInv, ThreadInv, FileInv, path, local
<1>3. LogInv'
      BY <1>1 DEF InsertInv, LogInv, path, local
<1>. QED BY <1>1, <1>2, <1>3 DEF InsertInv

\* Others drop or create the table: the sinks that are open lose their table.
LEMMA InvDdl ==
  ASSUME InsertInv, DropTable \/ CreateTable
  PROVE  InsertInv'
<1>0. TypeInv
      BY DEF InsertInv
<1>1. /\ TypeInv' /\ UNCHANGED <<log, local, pc, sunk, reported>>
      /\ \/ table' = 0 /\ created' = created
         \/ table' = created + 1 /\ created' = created + 1
      BY <1>0, TypeDdl
<1>2. InputInv' /\ ThreadInv' /\ LogInv'
      BY <1>1 DEF InsertInv, InputInv, ThreadInv, LogInv, local
<1>3. FileInv'
  <2>1. SUFFICES ASSUME NEW u \in Stmts
                 PROVE  /\ sunk[u] <= created'
                        /\ pc[u] = "sinking" => sunk[u] # 0
                        /\ \A v \in Threads, p \in Parts : written[u][v][p] > 0 =>
                             sunk[u] # 0 /\ (sunk[u] = table' => <<u, v, p>> \in disk')
        BY <1>1 DEF FileInv, local
  <2>2. /\ sunk[u] <= created
        /\ pc[u] = "sinking" => sunk[u] # 0
        /\ \A v \in Threads, p \in Parts : written[u][v][p] > 0 => sunk[u] # 0
        BY DEF InsertInv, FileInv
  <2>3. sunk[u] \in Nat /\ created \in Nat
        BY <1>0 DEF TypeInv, TypeOK
  <2>4. sunk[u] <= created' /\ (sunk[u] # 0 => sunk[u] # table')
        BY <1>1, <2>2, <2>3
  <2>. QED BY <2>2, <2>4
<1>. QED BY <1>1, <1>2, <1>3 DEF InsertInv

-----------------------------------------------------------------------------
(***************************************************************************)
(* The theorems.                                                           *)
(***************************************************************************)

\* A statement whose input is all taken and whose threads have all combined:
\* its messages are the whole input.
LEMMA EndsWhole ==
  ASSUME InsertInv, NEW o \in Stmts, pc[o] \in {"sinking", "ok", "unknown"}, left[o] = <<>>,
         \A t \in Threads : thr[o][t] \in {"new", "combined"}
  PROVE  /\ RowsIn(messages[o]) = TotalInput(o) /\ count[o] = SumOf(TotalInput(o))
         /\ messages[o] = {} <=> count[o] = 0
<1>1. written[o] \in Contents
      BY WrittenIs DEF InsertInv
<1>2. InputAt(o, <<>>, written[o], pc[o])
      BY DEF InsertInv, InputInv
<1>3. ASSUME NEW p \in Parts PROVE Gather(written[o], p) = TotalInput(o)[p]
  <2>. DEFINE n == Len(Input[o])
  <2>1. n \in Nat /\ Len(<<>>) = 0
        BY InputIs
  <2>2. Taken(o, <<>>) = n
        BY <2>1 DEF Taken
  <2>3. Gather(written[o], p) + Rest(o, n, p) = TotalInput(o)[p]
        BY <1>2, <2>2 DEF InputAt
  <2>4. Rest(o, n, p) = 0
        BY RestEnds
  <2>5. Gather(written[o], p) \in Int
    <3>1. Gather(written[o], p) = SumOf([t \in Threads |-> written[o][t][p]])
          BY DEF Gather
    <3>2. [t \in Threads |-> written[o][t][p]] \in [Threads -> Nat]
          BY <1>1 DEF Contents
    <3>. QED BY <3>1, <3>2, FiniteAssumption, SumNat
  <2>. HIDE DEF n
  <2>. QED BY <2>3, <2>4, <2>5
<1>4. \A t \in Threads : thr[o][t] # "combined" => written[o][t] = NoRows
      BY DEF InsertInv, ThreadInv
<1>5. /\ messages[o] = Handed(o, thr[o], written[o])
      /\ count[o] = Counted(thr[o], written[o])
      BY DEF InsertInv, ThreadInv
<1>6. /\ RowsIn(Handed(o, thr[o], written[o])) = TotalInput(o)
      /\ Counted(thr[o], written[o]) = SumOf(TotalInput(o))
      /\ Handed(o, thr[o], written[o]) = {} <=> Counted(thr[o], written[o]) = 0
      BY <1>1, <1>3, <1>4, WholeInput
<1>. QED BY <1>5, <1>6

\* Every step of any statement, thread or other session keeps the invariant.
LEMMA InvNext == InsertInv /\ [Next]_vars => InsertInv'
<1>. SUFFICES ASSUME InsertInv, [Next]_vars PROVE InsertInv'
     OBVIOUS
<1>1. CASE UNCHANGED vars
  <2>1. TypeInv' /\ InputInv'
        BY <1>1 DEF vars, InsertInv, TypeInv, TypeOK, InputInv
  <2>2. ThreadInv' /\ LogInv' /\ FileInv'
        BY <1>1 DEF vars, InsertInv, ThreadInv, LogInv, FileInv
  <2>. QED BY <2>1, <2>2 DEF InsertInv
<1>2. CASE Next
  <2>1. CASE DropTable \/ CreateTable
        BY <2>1, InvDdl
  <2>2. ASSUME NEW o \in Stmts, Setup(o) \/ Finalize(o) \/ GetDataInternal(o)
        PROVE  InsertInv'
        BY <2>2, InvSetup, InvFinalize, InvGetData
  <2>3. ASSUME NEW o \in Stmts, NEW t \in Threads, Sink(o, t) \/ Combine(o, t)
        PROVE  InsertInv'
        BY <2>3, InvSink, InvCombine
  <2>. QED BY <1>2, <2>1, <2>2, <2>3 DEF Next, Setup
<1>. QED BY <1>1, <1>2

\* In every reachable state of any number of statements the invariant holds.
THEOREM Invariant == Spec => []InsertInv
BY InvInit, InvNext, PTL DEF Spec

\* The variables of paimon_insert.cpp's operator always have their types; every
\* commit message is of a file with rows.
THEOREM TypeCorrect == Spec => []TypeOK
<1>1. InsertInv => TypeOK
      BY DEF InsertInv, TypeInv
<1>. QED BY <1>1, Invariant, PTL

\* The count an INSERT or CTAS returns is the number of its input rows, and
\* its only snapshot has them all in their partitions (Sink, Combine,
\* Finalize), for any input, any spread of it over threads and any failures.
THEOREM StoresWhatItReports == Spec => []ReportedRowsAreStored
<1>1. ASSUME InsertInv PROVE ReportedRowsAreStored
  <2>1. SUFFICES ASSUME NEW o \in Stmts, reported[o] # -1,
                        NEW mine, mine = {i \in DOMAIN log : log[i].stmt = o}
                 PROVE  /\ reported[o] = SumOf(TotalInput(o))
                        /\ IF reported[o] = 0 THEN mine = {}
                           ELSE \E i \in mine : mine = {i} /\ RowsIn(log[i].msgs) = TotalInput(o)
        BY DEF ReportedRowsAreStored
  <2>2. pc[o] = "ok" /\ reported[o] = count[o]
        BY <1>1, <2>1 DEF InsertInv, LogInv
  <2>3. left[o] = <<>> /\ \A t \in Threads : thr[o][t] \in {"new", "combined"}
        BY <1>1, <2>2 DEF InsertInv, ThreadInv
  <2>4. /\ RowsIn(messages[o]) = TotalInput(o) /\ count[o] = SumOf(TotalInput(o))
        /\ messages[o] = {} <=> count[o] = 0
        BY <1>1, <2>2, <2>3, EndsWhole
  <2>5. ASSUME NEW i \in mine
        PROVE  mine = {i} /\ RowsIn(log[i].msgs) = TotalInput(o) /\ messages[o] # {}
        BY <1>1, <2>1, <2>4 DEF InsertInv, LogInv
  <2>6. messages[o] # {} => mine # {}
        BY <1>1, <2>1, <2>2 DEF InsertInv, LogInv
  <2>. QED BY <2>2, <2>4, <2>5, <2>6
<1>. QED BY <1>1, Invariant, PTL

\* No failure path of the operator removes a file that a snapshot refers to,
\* a commit that took effect and reported an error included.
THEOREM FilesStay == Spec => []SnapshotHasFiles
<1>1. ASSUME InsertInv PROVE SnapshotHasFiles
  <2>1. SUFFICES ASSUME NEW i \in DOMAIN log, log[i].inc = table, log[i].inc = sunk[log[i].stmt],
                        NEW m \in log[i].msgs
                 PROVE  m.file \in disk
        BY DEF SnapshotHasFiles
  <2>. DEFINE o == log[i].stmt
  <2>2. o \in Stmts /\ log[i].msgs = messages[o] /\ written[o] \in Contents
        BY <1>1, WrittenIs DEF InsertInv, LogInv, TypeInv, TypeOK
  <2>3. messages[o] = Handed(o, thr[o], written[o])
        BY <1>1, <2>2 DEF InsertInv, ThreadInv
  <2>. HIDE DEF o
  <2>4. PICK t \in Threads, p \in Parts :
          written[o][t][p] > 0 /\ m = [file |-> <<o, t, p>>, rows |-> written[o][t][p]]
        BY <2>2, <2>3, HandedIs
  <2>5. sunk[o] = table => <<o, t, p>> \in disk
        BY <1>1, <2>2, <2>4 DEF InsertInv, FileInv
  <2>. QED BY <2>1, <2>4, <2>5 DEF o
<1>. QED BY <1>1, Invariant, PTL

-----------------------------------------------------------------------------
(***************************************************************************)
(* NativeInsert implements AtomicAppend: only Finalize makes anything      *)
(* visible, with the answer, and a failure before it leaves nothing.       *)
(***************************************************************************)

Ended == {"ok", "failed", "unknown"}

\* A statement that has not ended was not answered; one step answers one
\* statement.
LEMMA ToldStep ==
  ASSUME TypeInv, NEW o \in Stmts, pc[o] \notin Ended,
         \A u \in Stmts \ {o} : pc'[u] = pc[u]
  PROVE  /\ Told \in [Stmts -> Ended \cup {"none"}] /\ Told[o] = "none"
         /\ pc'[o] \in Ended => Told' = [Told EXCEPT ![o] = pc'[o]]
         /\ pc'[o] \notin Ended => Told' = Told
BY DEF Told, Ended, TypeInv, TypeOK

\* Nothing becomes visible without a snapshot.
LEMMA VisibleSame == ASSUME log' = log PROVE Visible' = Visible
BY DEF Visible

\* A statement that goes on stutters, one that fails is refused.
LEMMA FailRefines ==
  ASSUME TypeInv, NEW o \in Stmts, pc[o] \notin Ended, log' = log,
         \A u \in Stmts \ {o} : pc'[u] = pc[u],
         pc'[o] \in Ended => pc'[o] \in {"failed", "unknown"}
  PROVE  Abstract!Refuse(o) \/ UNCHANGED Abstract!vars
<1>1. Visible' = Visible
      BY VisibleSame
<1>2. CASE pc'[o] \in Ended
      BY <1>1, <1>2, ToldStep DEF Abstract!Refuse
<1>3. CASE pc'[o] \notin Ended
      BY <1>1, <1>3, ToldStep DEF Abstract!vars
<1>. QED BY <1>2, <1>3

\* The selection of a statement with rows: the statement as a whole.
LEMMA Selected ==
  ASSUME NEW o \in Stmts, HasRows[o] = {o}
  PROVE  {<<o, o, 1>>} \in Abstract!Selections(o)
<1>. DEFINE one == [x \in {o} |-> 1]
<1>1. one \in [{o} -> 1..1] /\ {<<o, x, one[x]>> : x \in {o}} = {<<o, o, 1>>}
      OBVIOUS
<1>. HIDE DEF one
<1>. QED BY <1>1 DEF Abstract!Selections

\* Finalize appends the whole input or nothing, and says which unless the
\* commit itself fails.
LEMMA FinalizeRefines ==
  ASSUME InsertInv, NEW o \in Stmts, Finalize(o)
  PROVE  Abstract!Append(o) \/ Abstract!AppendNothing(o) \/ Abstract!Refuse(o)
         \/ UNCHANGED Abstract!vars
<1>0. TypeInv
      BY DEF InsertInv
<1>1. /\ pc[o] = "sinking" /\ left[o] = <<>> /\ pc[o] \notin Ended
      /\ \A t \in Threads : thr[o][t] \in {"new", "combined"}
      /\ \A u \in Stmts \ {o} : pc'[u] = pc[u]
      /\ \/ pc'[o] = "ok" /\ messages[o] = {} /\ log' = log
         \/ /\ pc'[o] \in {"ok", "unknown"} /\ messages[o] # {}
            /\ log' = Append(log, Committed(o)) /\ Committed(o) \in Snapshot
         \/ pc'[o] \in {"failed", "unknown"} /\ messages[o] # {} /\ log' = log
      BY <1>0, TypeFinalize DEF Ended
<1>2. /\ RowsIn(messages[o]) = TotalInput(o) /\ count[o] = SumOf(TotalInput(o))
      /\ messages[o] = {} <=> count[o] = 0
      BY <1>1, EndsWhole
<1>3. count[o] \in Nat
      BY <1>0 DEF TypeInv, TypeOK
<1>4. HasRows[o] = IF messages[o] = {} THEN {} ELSE {o}
      BY <1>2, <1>3 DEF HasRows
<1>5. CASE pc'[o] = "ok" /\ messages[o] = {} /\ log' = log
  <2>1. Told[o] = "none" /\ Told' = [Told EXCEPT ![o] = "ok"]
        BY <1>0, <1>1, <1>5, ToldStep DEF Ended
  <2>. QED BY <1>4, <1>5, <2>1, VisibleSame DEF Abstract!AppendNothing
<1>6. CASE /\ pc'[o] \in {"ok", "unknown"} /\ messages[o] # {}
           /\ log' = Append(log, Committed(o)) /\ Committed(o) \in Snapshot
  <2>1. Told[o] = "none" /\ Told' = [Told EXCEPT ![o] = pc'[o]]
        BY <1>0, <1>1, <1>6, ToldStep DEF Ended
  <2>2. log \in Seq(Snapshot) /\ \A i \in DOMAIN log : log[i].stmt # o
        BY <1>0, <1>1 DEF InsertInv, LogInv, TypeInv, Ended
  <2>. DEFINE n == Len(log) + 1
  <2>3. /\ DOMAIN log' = DOMAIN log \cup {n} /\ n \notin DOMAIN log
        /\ \A i \in DOMAIN log : log'[i] = log[i]
        /\ log'[n] = Committed(o)
        BY <1>6, <2>2
  <2>4. log'[n].stmt = o /\ log'[n].msgs = messages[o]
        BY <2>3 DEF Committed
  <2>. HIDE DEF n
  <2>5. ASSUME NEW u \in Stmts \ {o} PROVE Visible'[u] = Visible[u]
    <3>1. {j \in DOMAIN log' : log'[j].stmt = u} = {j \in DOMAIN log : log[j].stmt = u}
          BY <2>3, <2>4
    <3>2. \A j \in {j \in DOMAIN log : log[j].stmt = u} : log'[j] = log[j]
          BY <2>3
    <3>. QED BY <3>1, <3>2 DEF Visible
  <2>6. Visible'[o] = {<<o, o, 1>>}
    <3>1. {j \in DOMAIN log' : log'[j].stmt = o} = {n}
          BY <2>2, <2>3, <2>4
    <3>. QED BY <1>2, <2>4, <3>1 DEF Visible
  <2>7. Visible' = [Visible EXCEPT ![o] = {<<o, o, 1>>}]
        BY <2>5, <2>6 DEF Visible
  <2>8. {<<o, o, 1>>} \in Abstract!Selections(o) /\ HasRows[o] # {}
        BY <1>4, <1>6, Selected
  <2>. QED BY <1>6, <2>1, <2>7, <2>8 DEF Abstract!Append
<1>7. CASE pc'[o] \in {"failed", "unknown"} /\ messages[o] # {} /\ log' = log
      BY <1>0, <1>1, <1>7, FailRefines
<1>. QED BY <1>1, <1>5, <1>6, <1>7

\* Every step is a step of the atomic append or changes nothing it shows.
LEMMA StepRefines ==
  ASSUME InsertInv, [Next]_vars
  PROVE  [Abstract!Next]_(Abstract!vars)
<1>0. TypeInv
      BY DEF InsertInv
<1>1. CASE UNCHANGED <<log, pc>>
  <2>1. Told' = Told
        BY <1>1 DEF Told
  <2>. QED BY <1>1, <2>1, VisibleSame DEF Abstract!vars
<1>2. ASSUME NEW o \in Stmts, Setup(o) PROVE Abstract!Refuse(o) \/ UNCHANGED Abstract!vars
  <2>1. /\ log' = log /\ pc[o] \notin Ended /\ \A u \in Stmts \ {o} : pc'[u] = pc[u]
        /\ pc'[o] \in Ended => pc'[o] \in {"failed", "unknown"}
        BY <1>0, <1>2, TypeSetup DEF Ended
  <2>. QED BY <1>0, <2>1, FailRefines
<1>3. ASSUME NEW o \in Stmts, NEW t \in Threads, Sink(o, t) \/ Combine(o, t)
      PROVE  Abstract!Refuse(o) \/ UNCHANGED Abstract!vars
  <2>1. /\ log' = log /\ pc[o] \notin Ended /\ \A u \in Stmts \ {o} : pc'[u] = pc[u]
        /\ pc'[o] \in {"sinking", "failed"}
    <3>1. CASE Sink(o, t)
          BY <1>0, <3>1 DEF Sink, Fail, Ended, TypeInv, TypeOK
    <3>2. CASE Combine(o, t)
          BY <1>0, <3>2 DEF Combine, Fail, Ended, path, TypeInv, TypeOK
    <3>. QED BY <1>3, <3>1, <3>2
  <2>. QED BY <1>0, <2>1, FailRefines DEF Ended
<1>4. ASSUME NEW o \in Stmts, Finalize(o)
      PROVE  Abstract!Append(o) \/ Abstract!AppendNothing(o) \/ Abstract!Refuse(o)
             \/ UNCHANGED Abstract!vars
      BY <1>4, FinalizeRefines
<1>5. ASSUME NEW o \in Stmts, GetDataInternal(o) PROVE UNCHANGED <<log, pc>>
      BY <1>5 DEF GetDataInternal, path
<1>6. CASE DropTable \/ CreateTable \/ UNCHANGED vars
      BY <1>1, <1>6 DEF DropTable, CreateTable, vars
<1>7. CASE Next /\ ~(DropTable \/ CreateTable)
  <2>1. PICK o \in Stmts : \/ Setup(o) \/ Finalize(o) \/ GetDataInternal(o)
                           \/ \E t \in Threads : Sink(o, t) \/ Combine(o, t)
        BY <1>7 DEF Next, Setup
  <2>2. CASE GetDataInternal(o)
        BY <1>1, <1>5, <2>2
  <2>3. CASE Setup(o) \/ Finalize(o) \/ \E t \in Threads : Sink(o, t) \/ Combine(o, t)
    <3>1. \/ Abstract!Append(o) \/ Abstract!AppendNothing(o) \/ Abstract!Refuse(o)
          \/ UNCHANGED Abstract!vars
          BY <1>2, <1>3, <1>4, <2>3
    <3>. QED BY <3>1 DEF Abstract!Next
  <2>. QED BY <2>1, <2>2, <2>3
<1>. QED BY <1>6, <1>7

\* An INSERT or CTAS is an atomic append whose answer is truthful, for any
\* statements, threads and failures.
THEOREM IsAtomicAppend == Spec => ImplementsAtomicAppend
<1>1. Init => Abstract!Init
      BY DEF Init, Abstract!Init, Visible, Told
<1>2. InsertInv /\ [Next]_vars => [Abstract!Next]_(Abstract!vars)
      BY StepRefines
<1>. QED BY <1>1, <1>2, Invariant, PTL DEF Spec, ImplementsAtomicAppend, Abstract!Spec
=============================================================================
