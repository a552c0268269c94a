----------------------- MODULE DistributedScanProofs -----------------------
(***************************************************************************)
(* Theorems about DistributedScan, for every set of scans, filters, tasks  *)
(* and snapshot options and for all bounds.                                *)
(***************************************************************************)
EXTENDS DistributedScan, SumTheorems

-----------------------------------------------------------------------------
(* The inductive invariant *)

Binds == [phase : {"none", "COORDINATOR", "DISTRIBUTED_COORDINATOR"},
          opts : Options, pred : BOOLEAN]
Templates == [phase : {"none", "WORKER_TEMPLATE"}, opts : Options, pred : BOOLEAN]
Plan == UNION {[snap : Nat, splits : {S}, share : [S -> Tasks]] : S \in SUBSET Splits}
Workers == [phase : {"none", "WORKER_TEMPLATE", "WORKER_ASSIGNED", "done", "failed"},
            set : Scans \cup {"none"}, batch : {"vector", "default"}, snap : Nat,
            splits : Seq(Splits), read : [Splits -> Nat]]
Answers(q) == [st : {"none", "ok", "failed"}, read : [Match[q] -> Nat]]

TypeInv ==
  /\ latest \in 0..MaxSnapshot
  /\ asked \in [Scans -> AttachPins \cup AtPins \cup {NoPin}]
  /\ since \in [Scans -> -1..MaxSnapshot]
  /\ bind \in [Scans -> Binds]
  /\ plans \in [Scans -> Seq(Plan)]
  /\ \A q \in Scans : Len(plans[q]) <= MaxPlans
  /\ template \in [Scans -> Templates]
  /\ worker \in [Attempts -> Workers]
  /\ DOMAIN answer = Scans
  /\ \A q \in Scans : answer[q] \in Answers(q)

\* The options a query that asks for p has at whatever place its bind data are.
OptionsFor(p) ==
  [id |-> IF p.kind = "id" THEN p.n ELSE -1,
   time |-> IF p.kind = "time" THEN p.n ELSE -1, batch |-> "vector"]

\* Snapshot s may answer a query that asks for p, was bound at from and is
\* answered at to.
MayServe(p, s, from, to) ==
  \E now \in from..to : s \in 0..now /\ Abstract!Serves(p, s, now)

\* The filter pushed down cost the plan no matching row, and its snapshot may
\* answer the query.
PlanOK(q, P, p, from, to) ==
  /\ \A x \in Match[q] : x \in P.splits <=> x <= P.snap
  /\ MayServe(p, P.snap, from, to)

\* Bind data b, template tm and plans ps of scan q.
ScanOK(q, b, tm, ps, p, from, to) ==
  /\ b.phase = "none" => from = -1
  /\ b.phase # "none" => from \in 0..to /\ b.opts = OptionsFor(p)
  /\ ps # <<>> => tm.phase = "WORKER_TEMPLATE" /\ b.phase = "DISTRIBUTED_COORDINATOR"
  /\ \A i \in DOMAIN ps : PlanOK(q, ps[i], p, from, to)

ScanInv ==
  \A q \in Scans :
    ScanOK(q, bind[q], template[q], plans[q], asked[q], since[q], latest)

\* The splits that a plan gives to a task, and a list of them.
TaskSplits(P, t) == {x \in P.splits : P.share[x] = t}
Lists(s, S) ==
  /\ s \in [1..Cardinality(S) -> S]
  /\ \A i, j \in DOMAIN s : s[i] = s[j] => i = j
  /\ \A x \in S : \E i \in DOMAIN s : s[i] = x

\* Each split of S once.
OnceEach(S) == [x \in Splits |-> IF x \in S THEN 1 ELSE 0]

\* A worker that took splits has all those that the last plan gives to its
\* task and no other; when it is done, it read each of them once.
WorkerOK(w, q, t, ps) ==
  /\ w.phase # "none" => ps # <<>>
  /\ w.phase \in {"WORKER_TEMPLATE", "WORKER_ASSIGNED", "done"} =>
       w.batch = "vector" /\ w.set = q
  /\ w.phase \in {"WORKER_ASSIGNED", "done"} =>
       /\ Lists(w.splits, TaskSplits(ps[Len(ps)], t))
       /\ TaskSplits(ps[Len(ps)], t) # {} => w.snap = ps[Len(ps)].snap
  /\ w.phase = "done" => w.read = OnceEach(TaskSplits(ps[Len(ps)], t))

WorkerInv == \A a \in Attempts : WorkerOK(worker[a], a[1], a[2], plans[a[1]])

DistInv == TypeInv /\ ScanInv /\ WorkerInv

-----------------------------------------------------------------------------
(* Lists of splits *)

\* A finite set has a list, and SetToSeq returns one.
LEMMA SetToSeqLists ==
  ASSUME NEW S, IsFiniteSet(S)
  PROVE  Lists(SetToSeq(S), S) /\ Cardinality(S) \in Nat
<1> DEFINE n == Cardinality(S)
<1>1. n \in Nat /\ ExistsBijection(1..n, S)
      BY FS_CardinalityType
<1>2. \E f \in [1..n -> S] : IsInjective(f)
      BY <1>1 DEF ExistsBijection, Bijection, Injection
<1>3. SetToSeq(S) \in [1..n -> S] /\ IsInjective(SetToSeq(S))
      BY <1>2 DEF SetToSeq
<1> DEFINE s == SetToSeq(S)
<1>4. s \in Injection(1..n, S)
      BY <1>3 DEF Injection
<1>5. IsFiniteSet(1..n) /\ Cardinality(1..n) = n
      BY <1>1, FS_Interval
<1>6. s \in Surjection(1..n, S)
      BY <1>4, <1>5, FS_Injection
<1> QED BY <1>1, <1>3, <1>6 DEF Lists, IsInjective, Surjection

\* A list of a set is a sequence of its elements, as long as the set is large.
LEMMA ListIsSeq ==
  ASSUME NEW S, IsFiniteSet(S), NEW s, Lists(s, S)
  PROVE  /\ s \in Seq(S)
         /\ Len(s) = Cardinality(S)
         /\ Range(s) = S
<1>1. Cardinality(S) \in Nat
      BY FS_CardinalityType
<1>2. s \in Seq(S) /\ Len(s) = Cardinality(S)
      BY <1>1 DEF Lists
<1> QED BY <1>2 DEF Lists, Range

\* A list of the splits S has each of them once: that is what reading it yields,
\* when the batches are limited to the vector size.
LEMMA ReadList ==
  ASSUME NEW S \in SUBSET Splits, NEW s, Lists(s, S)
  PROVE  Reads(s, "vector") = {OnceEach(S)}
<1> DEFINE at(x) == {i \in DOMAIN s : s[i] = x}
<1>1. ASSUME NEW x \in Splits
      PROVE  Cardinality(at(x)) = IF x \in S THEN 1 ELSE 0
  <2>1. CASE x \in S
    <3>1. PICK i \in DOMAIN s : s[i] = x
          BY <2>1 DEF Lists
    <3>2. at(x) = {i}
          BY <3>1 DEF Lists
    <3> QED BY <2>1, <3>2, FS_Singleton
  <2>2. CASE x \notin S
    <3>1. at(x) = {}
          BY <2>2 DEF Lists
    <3> QED BY <2>2, <3>1, FS_EmptySet
  <2> QED BY <2>1, <2>2
<1>2. [x \in Splits |-> Cardinality(at(x))] = OnceEach(S)
      BY <1>1 DEF OnceEach
<1>3. Reads(s, "vector") = {[x \in Splits |-> Cardinality(at(x))]}
      BY DEF Reads
<1> QED BY <1>2, <1>3

\* Sets of splits are finite.
LEMMA SplitsFinite ==
  ASSUME NEW S \in SUBSET Splits
  PROVE  IsFiniteSet(S)
<1>1. IsFiniteSet(Splits)
      BY ScanAssumption, FS_Interval DEF Splits
<1> QED BY <1>1, FS_Subset

\* A plan has its splits, each given to one task.
LEMMA PlanParts ==
  ASSUME NEW P \in Plan
  PROVE  /\ P.snap \in Nat
         /\ P.splits \in SUBSET Splits
         /\ P.share \in [P.splits -> Tasks]
BY DEF Plan

-----------------------------------------------------------------------------
(* Deliveries *)

\* The envelopes of the splits that plan P of scan q gives to task t.
Envelope(q, P, x) ==
  [set |-> q, id |-> SplitId(P.splits, x), snap |-> P.snap, split |-> x,
   intact |-> TRUE]
Mine(q, P, t) == {Envelope(q, P, x) : x \in TaskSplits(P, t)}

\* The share of a task is a list of the envelopes of the last plan for it.
LEMMA ShareIs ==
  ASSUME NEW q, NEW t
  PROVE  Share(q, t) = SetToSeq(Mine(q, plans[q][Len(plans[q])], t))
<1> DEFINE P == plans[q][Len(plans[q])]
           mine == {e \in EnvelopesOf(q, Len(plans[q])) : P.share[e.split] = t}
<1>1. EnvelopesOf(q, Len(plans[q])) = {Envelope(q, P, x) : x \in P.splits}
      BY DEF EnvelopesOf, Envelope
<1>2. \A x : Envelope(q, P, x).split = x
      BY DEF Envelope
<1>3. mine = Mine(q, P, t)
      BY <1>1, <1>2 DEF Mine, TaskSplits
<1>4. Share(q, t) = SetToSeq(mine)
      BY DEF Share
<1> QED BY <1>3, <1>4

\* A list of the envelopes of a task gives a list of its splits, all of the
\* snapshot of the plan.
LEMMA MineLists ==
  ASSUME NEW q, NEW P \in Plan, NEW t, NEW d, d = SetToSeq(Mine(q, P, t))
  PROVE  /\ d \in Seq(Mine(q, P, t))
         /\ \A i \in DOMAIN d : d[i].snap = P.snap
         /\ Lists([i \in DOMAIN d |-> d[i].split], TaskSplits(P, t))
         /\ d = <<>> <=> TaskSplits(P, t) = {}
<1> DEFINE T == TaskSplits(P, t)
           M == Mine(q, P, t)
           f == [x \in T |-> Envelope(q, P, x)]
           s == [i \in DOMAIN d |-> d[i].split]
<1>1. T \in SUBSET Splits
      BY PlanParts DEF TaskSplits
<1>2. IsFiniteSet(T) /\ Cardinality(T) \in Nat
      BY <1>1, SplitsFinite, FS_CardinalityType
<1>3. \A x : Envelope(q, P, x).split = x /\ Envelope(q, P, x).snap = P.snap
      BY DEF Envelope
<1>4. f \in Bijection(T, M)
  <2>1. f \in [T -> M]
        BY DEF Mine
  <2>2. f \in Injection(T, M)
        BY <2>1, <1>3 DEF Injection, IsInjective
  <2>3. f \in Surjection(T, M)
        BY <2>1 DEF Surjection, Mine
  <2> QED BY <2>2, <2>3 DEF Bijection
<1>5. IsFiniteSet(M) /\ Cardinality(M) = Cardinality(T)
      BY <1>2, <1>4, FS_Bijection DEF ExistsBijection
<1>6. Lists(d, M)
      BY <1>5, SetToSeqLists
<1>7. d \in [1..Cardinality(T) -> M] /\ DOMAIN d = 1..Cardinality(T)
      BY <1>5, <1>6 DEF Lists
<1>8. ASSUME NEW e \in M
      PROVE  e.split \in T /\ e.snap = P.snap /\ e = Envelope(q, P, e.split)
      BY <1>3 DEF Mine
<1>9. d \in Seq(M)
      BY <1>2, <1>7
<1>10. Lists(s, T)
  <2>1. s \in [1..Cardinality(T) -> T] /\ DOMAIN s = DOMAIN d
        BY <1>7, <1>8
  <2>2. ASSUME NEW i \in DOMAIN s, NEW j \in DOMAIN s, s[i] = s[j]
        PROVE  i = j
    <3>1. d[i] \in M /\ d[j] \in M /\ d[i].split = d[j].split
          BY <2>1, <2>2, <1>7
    <3>2. d[i] = d[j]
          BY <3>1, <1>8
    <3> QED BY <3>2, <2>1, <1>6 DEF Lists
  <2>3. ASSUME NEW x \in T
        PROVE  \E i \in DOMAIN s : s[i] = x
    <3>1. Envelope(q, P, x) \in M
          BY DEF Mine
    <3>2. PICK i \in DOMAIN d : d[i] = Envelope(q, P, x)
          BY <3>1, <1>6 DEF Lists
    <3> QED BY <3>2, <2>1, <1>3
  <2> QED BY <2>1, <2>2, <2>3 DEF Lists
<1>11. d = <<>> <=> T = {}
  <2>1. d = <<>> <=> Cardinality(T) = 0
        BY <1>2, <1>7, <1>9
  <2> QED BY <2>1, <1>2, FS_EmptySet
<1>12. \A i \in DOMAIN d : d[i].snap = P.snap
      BY <1>7, <1>8
<1> QED BY <1>9, <1>10, <1>11, <1>12

\* Whatever the runtime delivers, what apply_splits accepts is the share of
\* the task: a repeated envelope repeats an id, one of another plan is of
\* another snapshot.
LEMMA OnlyShareValid ==
  ASSUME NEW q, NEW t, NEW P \in Plan, Share(q, t) = SetToSeq(Mine(q, P, t)),
         NEW w, w.set = q, NEW d \in Deliveries(q, t), ValidDelivery(w, d)
  PROVE  d = Share(q, t)
<1> DEFINE mine == Share(q, t)
<1>0. mine = SetToSeq(Mine(q, P, t))
      OBVIOUS
<1> HIDE DEF mine
<1>1. mine \in Seq(Mine(q, P, t))
      BY <1>0, MineLists
<1>2. /\ DOMAIN mine = 1..Len(mine)
      /\ Len(mine) \in Nat
      /\ mine = [i \in DOMAIN mine |-> mine[i]]
      BY <1>1
<1>3. ASSUME NEW i \in DOMAIN mine
      PROVE  \E x : mine[i] = Envelope(q, P, x)
  <2>1. mine[i] \in Mine(q, P, t)
        BY <1>1, <1>2
  <2> QED BY <2>1 DEF Mine
<1> USE DEF mine
<1> DEFINE Stray(e) == \E i \in DOMAIN mine : e = mine[i] \/ e.snap # mine[i].snap
<1>4. \/ d = mine
      \/ \E e : Stray(e) /\ (d = Append(mine, e) \/ d = <<e>> \o mine)
      \/ \E i \in DOMAIN mine : d = [mine EXCEPT ![i] = Damaged(@)]
      \/ \E i \in DOMAIN mine : d = [mine EXCEPT ![i] = Foreign(@)]
      BY DEF Deliveries
<1> HIDE DEF mine
<1>5. ASSUME NEW e, NEW i \in DOMAIN mine, e = mine[i] \/ e.snap # mine[i].snap,
             NEW j \in DOMAIN d, NEW k \in DOMAIN d, j # k, d[j] = e, d[k] = mine[i]
      PROVE  FALSE
      BY <1>5 DEF ValidDelivery
<1>6. ASSUME NEW e, Stray(e), d = Append(mine, e) PROVE FALSE
  <2>1. PICK i \in DOMAIN mine : e = mine[i] \/ e.snap # mine[i].snap
        BY <1>6
  <2>2. /\ i \in DOMAIN d /\ Len(mine) + 1 \in DOMAIN d /\ i # Len(mine) + 1
        /\ d[i] = mine[i] /\ d[Len(mine) + 1] = e
        BY <1>1, <1>2, <1>6
  <2> QED BY <2>1, <2>2, <1>5
<1>7. ASSUME NEW e, Stray(e), d = <<e>> \o mine PROVE FALSE
  <2>1. PICK i \in DOMAIN mine : e = mine[i] \/ e.snap # mine[i].snap
        BY <1>7
  <2>2. /\ 1 \in DOMAIN d /\ i + 1 \in DOMAIN d /\ 1 # i + 1
        /\ d[1] = e /\ d[i + 1] = mine[i]
        BY <1>1, <1>2, <1>7
  <2> QED BY <2>1, <2>2, <1>5
<1>8. ASSUME NEW i \in DOMAIN mine, d = [mine EXCEPT ![i] = Damaged(@)] PROVE FALSE
  <2>1. i \in DOMAIN d /\ d[i] = Damaged(mine[i])
        BY <1>2, <1>8
  <2>2. ~Damaged(mine[i]).intact
        BY <1>3 DEF Damaged, Envelope
  <2> QED BY <2>1, <2>2 DEF ValidDelivery
<1>9. ASSUME NEW i \in DOMAIN mine, d = [mine EXCEPT ![i] = Foreign(@)]
      PROVE  d = mine
  <2>1. i \in DOMAIN d /\ d[i] = Foreign(mine[i])
        BY <1>2, <1>9
  <2>2. Foreign(mine[i]).set = q
        BY <2>1 DEF ValidDelivery
  <2>3. Foreign(mine[i]) = mine[i]
        BY <2>2, <1>3 DEF Foreign, Envelope
  <2> QED BY <2>3, <1>2, <1>9
<1> QED BY <1>4, <1>6, <1>7, <1>8, <1>9 DEF mine

-----------------------------------------------------------------------------
(* Options, snapshots and answers *)

Pins == AttachPins \cup AtPins \cup {NoPin}

\* What a query may ask for.
LEMMA PinKinds ==
  ASSUME NEW p \in Pins
  PROVE  \/ p = NoPin /\ p.kind = "latest"
         \/ p.kind = "id" /\ p.n \in Nat
         \/ p.kind = "time" /\ p.n \in Nat
BY PinAssumption DEF Pins, NoPin

\* ATTACH options and an AT clause together give the options of what the query
\* asks for: AT hides an option of ATTACH of the same kind, and one of the other
\* kind is a conflict.
LEMMA BoundOptions ==
  ASSUME NEW attach \in AttachPins, NEW at \in AtPins,
         ~Conflicting(ScanParameters(attach, at))
  PROVE  GetPaimonOptions(ScanParameters(attach, at))
           = OptionsFor(IF at = NoPin THEN attach ELSE at)
<1>1. attach \in Pins /\ at \in Pins
      BY DEF Pins
<1>2. /\ \/ attach = NoPin /\ attach.kind = "latest"
         \/ attach.kind = "id" /\ attach.n \in Nat
         \/ attach.kind = "time" /\ attach.n \in Nat
      /\ \/ at = NoPin /\ at.kind = "latest"
         \/ at.kind = "id" /\ at.n \in Nat
         \/ at.kind = "time" /\ at.n \in Nat
      BY <1>1, PinKinds
<1> DEFINE p == IF at = NoPin THEN attach ELSE at
           params == ScanParameters(attach, at)
<1>3. CASE at = NoPin
  <2>1. at.kind = "latest"
        BY <1>3 DEF NoPin
  <2>2. /\ params.id = IF attach.kind = "id" THEN attach.n ELSE -1
        /\ params.time = IF attach.kind = "time" THEN attach.n ELSE -1
        BY <2>1 DEF ScanParameters
  <2> HIDE DEF params
  <2>3. GetPaimonOptions(params) = OptionsFor(attach)
        BY <2>2 DEF GetPaimonOptions, OptionsFor
  <2> QED BY <1>3, <2>3 DEF params
<1>4. CASE at # NoPin
  <2>1. at.n \in Nat /\ at.kind \in {"id", "time"}
        BY <1>2, <1>4
  <2>2. /\ params.id = IF at.kind = "id" THEN at.n
                       ELSE IF attach.kind = "id" THEN attach.n ELSE -1
        /\ params.time = IF at.kind = "time" THEN at.n
                         ELSE IF attach.kind = "time" THEN attach.n ELSE -1
        BY DEF ScanParameters
  <2>3. ~(params.id >= 0 /\ params.time >= 0)
        BY DEF Conflicting
  <2> HIDE DEF params
  <2>4. /\ params.id = IF at.kind = "id" THEN at.n ELSE -1
        /\ params.time = IF at.kind = "time" THEN at.n ELSE -1
        BY <1>2, <2>1, <2>2, <2>3
  <2>5. GetPaimonOptions(params) = OptionsFor(at)
        BY <2>4 DEF GetPaimonOptions, OptionsFor
  <2> QED BY <1>4, <2>5 DEF params
<1> QED BY <1>3, <1>4

\* Options survive serialization: the portable ones travel, the batch size is
\* set again at the receiver.
LEMMA ShippedOptions ==
  ASSUME NEW p \in Pins
  PROVE  /\ OptionsFor(p) \in Options
         /\ GetPortableOptions(OptionsFor(p)) \in Options
         /\ LocalOptions(GetPortableOptions(OptionsFor(p))) = OptionsFor(p)
<1> DEFINE o == OptionsFor(p)
<1>1. o = [id |-> o.id, time |-> o.time, batch |-> "vector"]
      BY DEF OptionsFor
<1>2. o.id \in Int /\ o.time \in Int
      BY PinKinds DEF OptionsFor
<1> HIDE DEF o
<1> DEFINE m == GetPortableOptions(o)
<1>3. m = [id |-> o.id, time |-> o.time, batch |-> "default"]
      BY <1>1 DEF GetPortableOptions
<1>4. o \in Options
      BY <1>1, <1>2 DEF Options
<1>5. m \in Options
      BY <1>2, <1>3 DEF Options
<1> HIDE DEF m
<1>6. LocalOptions(m) = [id |-> m.id, time |-> m.time, batch |-> "vector"]
  <2>1. GetPaimonOptions([id |-> -1, time |-> -1])
          = [id |-> -1, time |-> -1, batch |-> "vector"]
        BY DEF GetPaimonOptions
  <2> DEFINE base == [id |-> -1, time |-> -1, batch |-> "vector"]
             r == [base EXCEPT !.id = m.id]
  <2>2. LocalOptions(m) = [r EXCEPT !.time = m.time]
        BY <2>1 DEF LocalOptions
  <2>3. r = [id |-> m.id, time |-> -1, batch |-> "vector"]
        OBVIOUS
  <2> HIDE DEF r
  <2> QED BY <2>2, <2>3
<1>7. LocalOptions(m) = o
      BY <1>1, <1>3, <1>6
<1> QED BY <1>4, <1>5, <1>7 DEF o, m

\* Whatever options a process received, its batch size is set.
LEMMA LocalBatch == ASSUME NEW o PROVE LocalOptions(o).batch = "vector"
BY DEF LocalOptions, GetPaimonOptions

\* The snapshot a plan finds is one that may answer the query now.
LEMMA SnapshotServes ==
  ASSUME NEW p \in Pins, latest \in Nat, NEW from \in 0..latest,
         HasSnapshot(OptionsFor(p))
  PROVE  /\ SnapshotOf(OptionsFor(p)) \in 0..latest
         /\ MayServe(p, SnapshotOf(OptionsFor(p)), from, latest)
<1> DEFINE s == SnapshotOf(OptionsFor(p))
<1>1. s \in 0..latest /\ Abstract!Serves(p, s, latest)
  <2>1. CASE p.kind = "latest"
        BY <2>1 DEF SnapshotOf, OptionsFor, Abstract!Serves
  <2>2. CASE p.kind = "id" /\ p.n \in Nat
        BY <2>2 DEF SnapshotOf, HasSnapshot, OptionsFor, Abstract!Serves
  <2>3. CASE p.kind = "time" /\ p.n \in Nat
        BY <2>3 DEF SnapshotOf, OptionsFor, Abstract!Serves
  <2> QED BY <2>1, <2>2, <2>3, PinKinds
<1>2. latest \in from..latest
      OBVIOUS
<1> HIDE DEF s
<1>3. MayServe(p, s, from, latest)
      BY <1>1, <1>2 DEF MayServe
<1> QED BY <1>1, <1>3 DEF s

\* A snapshot that may answer a query still may when others have committed.
LEMMA ServesLater ==
  ASSUME NEW p, NEW s, NEW from \in Int, NEW to \in Int, NEW later \in Int,
         to <= later, MayServe(p, s, from, to)
  PROVE  MayServe(p, s, from, later)
BY DEF MayServe

\* The splits of snapshot s without the skipped ones hold every matching row.
LEMMA PlannedMatch ==
  ASSUME NEW q \in Scans, NEW pred, NEW s \in 0..MaxSnapshot
  PROVE  /\ PlannedSplits(q, pred, s) \in SUBSET Splits
         /\ \A x \in Match[q] : x \in PlannedSplits(q, pred, s) <=> x <= s
<1>1. /\ Match[q] \in SUBSET Splits
      /\ Match[q] \cap Skips[q] = {}
      /\ MaxSnapshot \in Nat
      BY ScanAssumption
<1>2. \A x \in Match[q] : x \in Int /\ 1 <= x /\ x \notin Skips[q]
      BY <1>1 DEF Splits
<1> QED BY <1>1, <1>2 DEF PlannedSplits, Splits

\* Reading each split of S once gives the rows of snapshot s.
LEMMA OnceIsRows ==
  ASSUME NEW q \in Scans, NEW s, NEW S, NEW read, read = OnceEach(S),
         \A x \in Match[q] : x \in S <=> x <= s
  PROVE  [x \in Match[q] |-> read[x]] = Abstract!RowsOf(q, s)
<1>1. Match[q] \in SUBSET Splits
      BY ScanAssumption
<1> QED BY <1>1 DEF OnceEach, Abstract!RowsOf

\* If one attempt of every task read the splits that the plan gives to it,
\* together they read each split of the plan once.
LEMMA TasksTogether ==
  ASSUME NEW P \in Plan, NEW x \in Splits, NEW f,
         f = [t \in Tasks |-> OnceEach(TaskSplits(P, t))[x]]
  PROVE  SumOf(f) = OnceEach(P.splits)[x]
<1>1. IsFiniteSet(Tasks)
      BY ScanAssumption
<1>2. P.share \in [P.splits -> Tasks]
      BY PlanParts
<1>3. f \in [Tasks -> Nat] /\ f \in [Tasks -> Int]
      BY DEF OnceEach
<1>4. \A t \in Tasks : f[t] = IF x \in P.splits /\ P.share[x] = t THEN 1 ELSE 0
      BY DEF OnceEach, TaskSplits
<1>5. CASE x \in P.splits
  <2> DEFINE t == P.share[x]
             g == Only(f, Tasks \ {t})
  <2>1. t \in Tasks /\ f[t] = 1
        BY <1>2, <1>4, <1>5
  <2>2. SumOf(f) = f[t] + SumOf(g)
        BY <1>1, <1>3, <2>1, SumRemove
  <2>3. g \in [Tasks \ {t} -> Nat] /\ \A y \in Tasks \ {t} : g[y] = 0
        BY <1>3, <1>4 DEF Only
  <2>4. IsFiniteSet(Tasks \ {t})
        BY <1>1, FS_RemoveElement
  <2>5. SumOf(g) = 0
        BY <2>3, <2>4, SumNat
  <2> QED BY <1>5, <2>1, <2>2, <2>5 DEF OnceEach
<1>6. CASE x \notin P.splits
  <2>1. SumOf(f) = 0
        BY <1>1, <1>3, <1>4, <1>6, SumNat
  <2> QED BY <1>6, <2>1 DEF OnceEach
<1> QED BY <1>5, <1>6

-----------------------------------------------------------------------------
(* What a step on one scan, one answer or one worker has to keep *)

\* Bind data, templates and options have their fields.
LEMMA BindParts ==
  /\ \A ph \in {"none", "COORDINATOR", "DISTRIBUTED_COORDINATOR"}, o \in Options,
        pr \in BOOLEAN : [phase |-> ph, opts |-> o, pred |-> pr] \in Binds
  /\ \A ph \in {"none", "WORKER_TEMPLATE"}, o \in Options, pr \in BOOLEAN :
        [phase |-> ph, opts |-> o, pred |-> pr] \in Templates
BY DEF Binds, Templates

\* Scan q goes to bind data b, template tm and plans ps, a query that asks for p
\* and was bound at from; its plans change only while no task has started.
ScanValues(b, tm, ps, p, from) ==
  /\ b \in Binds /\ tm \in Templates /\ ps \in Seq(Plan) /\ Len(ps) <= MaxPlans
  /\ p \in Pins /\ from \in -1..MaxSnapshot
ScanMoves(q, b, tm, ps, p, from) ==
  /\ bind' = [bind EXCEPT ![q] = b] /\ template' = [template EXCEPT ![q] = tm]
  /\ plans' = [plans EXCEPT ![q] = ps] /\ asked' = [asked EXCEPT ![q] = p]
  /\ since' = [since EXCEPT ![q] = from] /\ UNCHANGED <<latest, worker, answer>>
  /\ ps = plans[q] \/ \A a \in Attempts : a[1] = q => worker[a].phase = "none"

\* Steps on the bind data, the template or the plans of one scan.
LEMMA ScanStep ==
  ASSUME DistInv, NEW q \in Scans, NEW b, NEW tm, NEW ps, NEW p, NEW from,
         ScanValues(b, tm, ps, p, from), ScanMoves(q, b, tm, ps, p, from),
         ScanOK(q, b, tm, ps, p, from, latest)
  PROVE  DistInv'
<1> USE DEF ScanValues, ScanMoves
<1> USE DEF DistInv
<1>1. TypeInv'
      BY DEF TypeInv, Pins
<1>2. ScanInv'
  <2> SUFFICES ASSUME NEW r \in Scans
               PROVE  ScanOK(r, bind'[r], template'[r], plans'[r], asked'[r],
                             since'[r], latest')
      BY Zenon DEF ScanInv
  <2>1. CASE r = q
    <3>1. bind'[r] = b /\ template'[r] = tm /\ plans'[r] = ps /\ asked'[r] = p
          /\ since'[r] = from /\ latest' = latest
          BY <2>1 DEF TypeInv
    <3> QED BY <2>1, <3>1
  <2>2. CASE r # q
    <3>1. bind'[r] = bind[r] /\ template'[r] = template[r] /\ plans'[r] = plans[r]
          /\ asked'[r] = asked[r] /\ since'[r] = since[r] /\ latest' = latest
          BY <2>2 DEF TypeInv
    <3> QED BY <3>1 DEF ScanInv
  <2> QED BY <2>1, <2>2
<1>3. WorkerInv'
  <2> SUFFICES ASSUME NEW a \in Attempts
               PROVE  WorkerOK(worker'[a], a[1], a[2], plans'[a[1]])
      BY Zenon DEF WorkerInv
  <2>1. worker'[a] = worker[a] /\ a[1] \in Scans
        BY DEF Attempts
  <2>2. WorkerOK(worker[a], a[1], a[2], plans[a[1]])
        BY DEF WorkerInv
  <2>3. plans'[a[1]] = plans[a[1]] \/ worker[a].phase = "none"
        BY <2>1 DEF TypeInv
  <2>4. CASE plans'[a[1]] = plans[a[1]]
        BY <2>1, <2>2, <2>4
  <2>5. CASE worker[a].phase = "none"
        BY <2>1, <2>5 DEF WorkerOK
  <2> QED BY <2>3, <2>4, <2>5
<1> QED BY <1>1, <1>2, <1>3

\* Steps on the answer of one query.
LEMMA AnswerStep ==
  ASSUME DistInv, NEW q \in Scans, NEW r \in Answers(q),
         answer' = [answer EXCEPT ![q] = r],
         UNCHANGED <<latest, asked, since, bind, plans, template, worker>>
  PROVE  DistInv'
<1> USE DEF DistInv
<1>1. TypeInv'
      BY DEF TypeInv
<1>2. ScanInv'
      BY DEF ScanInv
<1>3. WorkerInv'
      BY DEF WorkerInv
<1> QED BY <1>1, <1>2, <1>3

\* Steps of one attempt of a task.
LEMMA WorkerStep ==
  ASSUME DistInv, NEW a \in Attempts, NEW w \in Workers,
         worker' = [worker EXCEPT ![a] = w],
         UNCHANGED <<latest, asked, since, bind, plans, template, answer>>,
         WorkerOK(w, a[1], a[2], plans[a[1]])
  PROVE  DistInv'
<1> USE DEF DistInv
<1>1. TypeInv'
      BY DEF TypeInv
<1>2. ScanInv'
      BY DEF ScanInv
<1>3. WorkerInv'
  <2> SUFFICES ASSUME NEW c \in Attempts
               PROVE  WorkerOK(worker'[c], c[1], c[2], plans'[c[1]])
      BY Zenon DEF WorkerInv
  <2>1. plans'[c[1]] = plans[c[1]]
        OBVIOUS
  <2>2. worker'[c] = IF c = a THEN w ELSE worker[c]
        BY DEF TypeInv
  <2>3. CASE c = a
        BY <2>1, <2>2, <2>3
  <2>4. CASE c # a
        BY <2>1, <2>2, <2>4 DEF WorkerInv
  <2> QED BY <2>3, <2>4
<1> QED BY <1>1, <1>2, <1>3

-----------------------------------------------------------------------------
(* Every step keeps the invariant *)

\* No scan is bound in the initial state.
LEMMA DistInvInit == Init => DistInv
<1> SUFFICES ASSUME Init PROVE DistInv
    OBVIOUS
<1> USE DEF Init
<1>1. NoBind \in Binds /\ NoBind \in Templates /\ NoBind.phase = "none"
  <2>1. [id |-> -1, time |-> -1, batch |-> "default"] \in Options
        BY DEF Options
  <2> QED BY <2>1, BindParts, Zenon DEF NoBind
<1>2. NoWorker \in Workers /\ NoWorker.phase = "none"
      BY DEF NoWorker, Workers
<1>3. TypeInv
  <2>1. latest \in 0..MaxSnapshot /\ since \in [Scans -> -1..MaxSnapshot]
        BY ScanAssumption
  <2>2. asked \in [Scans -> AttachPins \cup AtPins \cup {NoPin}]
        OBVIOUS
  <2>3. plans \in [Scans -> Seq(Plan)] /\ \A q \in Scans : Len(plans[q]) <= MaxPlans
        BY ScanAssumption
  <2>4. \A q \in Scans : answer[q] \in Answers(q)
        BY DEF Answers
  <2>5. bind \in [Scans -> Binds] /\ template \in [Scans -> Templates]
        BY <1>1
  <2>6. worker \in [Attempts -> Workers]
        BY <1>2
  <2> QED BY <2>1, <2>2, <2>3, <2>4, <2>5, <2>6 DEF TypeInv
<1>4. ScanInv
      BY <1>1 DEF ScanInv, ScanOK
<1>5. WorkerInv
      BY <1>2 DEF WorkerInv, WorkerOK
<1> QED BY <1>3, <1>4, <1>5 DEF DistInv

\* Snapshots that others commit take nothing from a plan.
LEMMA CommitKeeps == DistInv /\ Commit => DistInv'
<1> SUFFICES ASSUME DistInv, Commit PROVE DistInv'
    OBVIOUS
<1> USE DEF DistInv, Commit
<1>1. TypeInv'
      BY ScanAssumption DEF TypeInv
<1>2. ScanInv'
  <2> SUFFICES ASSUME NEW q \in Scans
               PROVE  ScanOK(q, bind[q], template[q], plans[q], asked[q],
                             since[q], latest')
      BY DEF ScanInv
  <2>1. ScanOK(q, bind[q], template[q], plans[q], asked[q], since[q], latest)
        BY DEF ScanInv
  <2>2. latest \in Int /\ latest' \in Int /\ latest <= latest' /\ since[q] \in Int
        BY ScanAssumption DEF TypeInv
  <2>3. ASSUME NEW i \in DOMAIN plans[q]
        PROVE  PlanOK(q, plans[q][i], asked[q], since[q], latest')
        BY <2>1, <2>2, ServesLater DEF ScanOK, PlanOK
  <2>4. bind[q].phase # "none" => since[q] \in 0..latest'
        BY <2>1, <2>2 DEF ScanOK
  <2> HIDE DEF Commit
  <2> QED BY <2>1, <2>3, <2>4 DEF ScanOK
<1>3. WorkerInv'
      BY DEF WorkerInv
<1> QED BY <1>1, <1>2, <1>3

\* What a scan has in a state of the invariant.
LEMMA ScanParts ==
  ASSUME DistInv, NEW q \in Scans
  PROVE  /\ bind[q] \in Binds /\ bind[q].opts \in Options /\ template[q] \in Templates
         /\ plans[q] \in Seq(Plan) /\ asked[q] \in Pins /\ since[q] \in -1..MaxSnapshot
         /\ Len(plans[q]) <= MaxPlans /\ answer[q] \in Answers(q)
         /\ latest \in Nat /\ latest <= MaxSnapshot
         /\ ScanOK(q, bind[q], template[q], plans[q], asked[q], since[q], latest)
         /\ bind = [bind EXCEPT ![q] = bind[q]]
         /\ template = [template EXCEPT ![q] = template[q]]
         /\ plans = [plans EXCEPT ![q] = plans[q]]
         /\ asked = [asked EXCEPT ![q] = asked[q]]
         /\ since = [since EXCEPT ![q] = since[q]]
<1>1. /\ bind[q] \in Binds /\ template[q] \in Templates
      /\ plans[q] \in Seq(Plan) /\ asked[q] \in Pins /\ since[q] \in -1..MaxSnapshot
      /\ Len(plans[q]) <= MaxPlans /\ answer[q] \in Answers(q)
      BY DEF DistInv, TypeInv, Pins
<1>2. bind[q].opts \in Options
      BY <1>1 DEF Binds
<1>3. latest \in Nat /\ latest <= MaxSnapshot
      BY ScanAssumption DEF DistInv, TypeInv
<1>4. ScanOK(q, bind[q], template[q], plans[q], asked[q], since[q], latest)
      BY DEF DistInv, ScanInv
<1>5. /\ bind = [bind EXCEPT ![q] = bind[q]]
      /\ template = [template EXCEPT ![q] = template[q]]
      /\ plans = [plans EXCEPT ![q] = plans[q]]
      /\ asked = [asked EXCEPT ![q] = asked[q]]
      /\ since = [since EXCEPT ![q] = since[q]]
      BY DEF DistInv, TypeInv
<1> QED BY <1>1, <1>2, <1>3, <1>4, <1>5

\* A query that fails keeps what it read: nothing.
LEMMA FailedAnswer ==
  ASSUME DistInv, NEW q \in Scans
  PROVE  [answer[q] EXCEPT !.st = "failed"] \in Answers(q)
BY ScanParts DEF Answers

\* Binding starts the history of the query with the options it asks for.
LEMMA BindKeeps ==
  ASSUME DistInv, NEW q \in Scans, PaimonScanBind(q)
  PROVE  DistInv'
<1>1. PICK attach \in AttachPins, at \in AtPins :
        LET params == ScanParameters(attach, at)
        IN IF Conflicting(params)
           THEN /\ answer' = [answer EXCEPT ![q].st = "failed"]
                /\ UNCHANGED <<asked, since, bind>>
           ELSE /\ bind' = [bind EXCEPT ![q] =
                     [phase |-> "COORDINATOR", opts |-> GetPaimonOptions(params),
                      pred |-> FALSE]]
                /\ asked' = [asked EXCEPT ![q] = IF at = NoPin THEN attach ELSE at]
                /\ since' = [since EXCEPT ![q] = latest]
                /\ UNCHANGED answer
      BY DEF PaimonScanBind
<1>2. /\ bind[q].phase = "none" /\ answer[q].st = "none"
      /\ UNCHANGED <<latest, plans, template, worker>>
      BY DEF PaimonScanBind
<1> DEFINE params == ScanParameters(attach, at)
           p == IF at = NoPin THEN attach ELSE at
           b == [phase |-> "COORDINATOR", opts |-> OptionsFor(p), pred |-> FALSE]
<1>3. p \in Pins
      BY DEF Pins
<1>4. CASE Conflicting(params)
  <2>1. answer' = [answer EXCEPT ![q] = [answer[q] EXCEPT !.st = "failed"]]
        BY <1>1, <1>4
  <2>2. UNCHANGED <<latest, asked, since, bind, plans, template, worker>>
        BY <1>1, <1>2, <1>4
  <2>3. [answer[q] EXCEPT !.st = "failed"] \in Answers(q)
        BY FailedAnswer
  <2> QED BY <2>1, <2>2, <2>3, AnswerStep
<1>5. CASE ~Conflicting(params)
  <2>1. GetPaimonOptions(params) = OptionsFor(p)
        BY <1>5, BoundOptions
  <2>2. /\ bind' = [bind EXCEPT ![q] = b] /\ asked' = [asked EXCEPT ![q] = p]
        /\ since' = [since EXCEPT ![q] = latest] /\ UNCHANGED answer
        BY <1>1, <1>5, <2>1
  <2>3. b \in Binds /\ b.phase = "COORDINATOR" /\ b.opts = OptionsFor(p)
    <3>1. OptionsFor(p) \in Options
          BY <1>3, ShippedOptions
    <3> HIDE DEF p
    <3>2. FALSE \in BOOLEAN
          BY Zenon
    <3> QED BY <3>1, <3>2, BindParts, Zenon
  <2> HIDE DEF b, p
  <2>4. plans[q] = <<>>
        BY <1>2, ScanParts DEF ScanOK
  <2>5. ScanOK(q, b, template[q], plans[q], p, latest, latest)
    <3>1. latest \in 0..latest
          BY ScanParts
    <3> QED BY <2>3, <2>4, <3>1 DEF ScanOK
  <2>6. latest \in -1..MaxSnapshot
        BY ScanParts, ScanAssumption
  <2>7. template' = [template EXCEPT ![q] = template[q]]
        /\ plans' = [plans EXCEPT ![q] = plans[q]] /\ UNCHANGED <<latest, worker, answer>>
        BY <1>2, <2>2, ScanParts
  <2>8. template[q] \in Templates /\ plans[q] \in Seq(Plan) /\ Len(plans[q]) <= MaxPlans
        BY ScanParts
  <2>9. /\ ScanValues(b, template[q], plans[q], p, latest)
        /\ ScanMoves(q, b, template[q], plans[q], p, latest)
        BY <1>3, <2>2, <2>3, <2>6, <2>7, <2>8 DEF ScanValues, ScanMoves
  <2> QED BY <2>5, <2>9, ScanStep
<1> QED BY <1>4, <1>5

\* Steps that change the bind data of a bound scan without plans, not its options.
LEMMA BindChange ==
  ASSUME DistInv, NEW q \in Scans, NEW b \in Binds, bind[q].phase # "none",
         b.phase # "none", b.opts = bind[q].opts, plans[q] = <<>>,
         bind' = [bind EXCEPT ![q] = b],
         UNCHANGED <<latest, asked, since, plans, template, worker, answer>>
  PROVE  DistInv'
<1>1. ScanOK(q, b, template[q], plans[q], asked[q], since[q], latest)
      BY ScanParts DEF ScanOK
<1>2. ScanMoves(q, b, template[q], plans[q], asked[q], since[q])
      BY ScanParts DEF ScanMoves
<1>3. ScanValues(b, template[q], plans[q], asked[q], since[q])
      BY ScanParts DEF ScanValues
<1> QED BY <1>1, <1>2, <1>3, ScanStep

\* Pushing a filter down changes no option.
LEMMA PushdownKeeps ==
  ASSUME DistInv, NEW q \in Scans, PaimonPushdownFilter(q)
  PROVE  DistInv'
<1> DEFINE b == [bind[q] EXCEPT !.pred = TRUE]
<1>1. \A r \in Binds : \A v \in BOOLEAN :
        LET c == [r EXCEPT !.pred = v]
        IN c \in Binds /\ c.phase = r.phase /\ c.opts = r.opts
      BY DEF Binds
<1>2. bind[q] \in Binds
      BY ScanParts
<1>3. b \in Binds /\ b.phase = bind[q].phase /\ b.opts = bind[q].opts
  <2>1. TRUE \in BOOLEAN
        BY Zenon
  <2> QED BY <1>1, <1>2, <2>1, Zenon
<1>4. bind' = [bind EXCEPT ![q] = b]
      BY DEF PaimonPushdownFilter
<1> HIDE DEF b
<1>5. /\ bind[q].phase # "none" /\ plans[q] = <<>>
      /\ UNCHANGED <<latest, asked, since, plans, template, worker, answer>>
      BY DEF PaimonPushdownFilter
<1> QED BY <1>3, <1>4, <1>5, BindChange

\* A plan that is serialized and deserialized has the options it had.
LEMMA ShipKeeps ==
  ASSUME DistInv, NEW q \in Scans, ShipCoordinator(q)
  PROVE  DistInv'
<1>1. /\ bind[q].phase \in {"COORDINATOR", "DISTRIBUTED_COORDINATOR"}
      /\ plans[q] = <<>>
      /\ UNCHANGED <<latest, asked, since, plans, template, worker, answer>>
      BY DEF ShipCoordinator
<1>2. DeserializedPhase(BindKind(bind[q].phase)) = "DISTRIBUTED_COORDINATOR"
      BY <1>1 DEF DeserializedPhase, BindKind
<1>3. asked[q] \in Pins /\ bind[q].opts = OptionsFor(asked[q])
      BY <1>1, ScanParts DEF ScanOK
<1>4. LocalOptions(GetPortableOptions(bind[q].opts)) = bind[q].opts
      BY <1>3, ShippedOptions
<1> DEFINE b == [phase |-> "DISTRIBUTED_COORDINATOR", opts |-> bind[q].opts,
                 pred |-> FALSE]
<1>5. bind' = [bind EXCEPT ![q] = b]
      BY <1>2, <1>4, Zenon DEF ShipCoordinator
<1>6. b \in Binds /\ b.phase = "DISTRIBUTED_COORDINATOR" /\ b.opts = bind[q].opts
  <2>1. FALSE \in BOOLEAN
        BY Zenon
  <2>2. bind[q].opts \in Options
        BY ScanParts
  <2> QED BY <2>1, <2>2, BindParts, Zenon
<1> HIDE DEF b
<1> QED BY <1>1, <1>5, <1>6, BindChange

\* The template takes the portable options.
LEMMA TemplateKeeps ==
  ASSUME DistInv, NEW q \in Scans, PaimonCreateDistributedWorkerBind(q)
  PROVE  DistInv'
<1> DEFINE tm == [phase |-> "WORKER_TEMPLATE", pred |-> FALSE,
                  opts  |-> GetPortableOptions(bind[q].opts)]
<1>1. /\ bind[q].phase = "DISTRIBUTED_COORDINATOR"
      /\ template' = [template EXCEPT ![q] = tm]
      /\ UNCHANGED <<latest, asked, since, bind, plans, worker, answer>>
      BY DEF PaimonCreateDistributedWorkerBind
<1>2. asked[q] \in Pins /\ bind[q].opts = OptionsFor(asked[q])
      BY <1>1, ScanParts DEF ScanOK
<1>3. tm \in Templates /\ tm.phase = "WORKER_TEMPLATE"
  <2>1. FALSE \in BOOLEAN
        BY Zenon
  <2>2. GetPortableOptions(bind[q].opts) \in Options
        BY <1>2, ShippedOptions
  <2> QED BY <2>1, <2>2, BindParts, Zenon
<1> HIDE DEF tm
<1>4. ScanOK(q, bind[q], tm, plans[q], asked[q], since[q], latest)
      BY <1>3, ScanParts DEF ScanOK
<1>5. ScanMoves(q, bind[q], tm, plans[q], asked[q], since[q])
      BY <1>1, ScanParts DEF ScanMoves
<1>6. ScanValues(bind[q], tm, plans[q], asked[q], since[q])
      BY <1>3, ScanParts DEF ScanValues
<1> QED BY <1>4, <1>5, <1>6, ScanStep

\* Planning: the snapshot that Paimon finds may answer the query, and the plan
\* has every matching row of it.
LEMMA PlanKeeps ==
  ASSUME DistInv, NEW q \in Scans, PaimonPlanDistributedScanSplits(q)
  PROVE  DistInv'
<1> DEFINE s == SnapshotOf(bind[q].opts)
           S == PlannedSplits(q, bind[q].pred, s)
<1>1. PICK share \in [S -> Tasks] :
        plans' = [plans EXCEPT ![q] =
                    Append(@, [snap |-> s, splits |-> S, share |-> share])]
      BY DEF PaimonPlanDistributedScanSplits
<1>2. /\ bind[q].phase = "DISTRIBUTED_COORDINATOR" /\ template[q].phase # "none"
      /\ Len(plans[q]) < MaxPlans
      /\ \A a \in Attempts : a[1] = q => worker[a].phase = "none"
      /\ HasSnapshot(bind[q].opts)
      /\ UNCHANGED <<latest, asked, since, bind, template, worker, answer>>
      BY DEF PaimonPlanDistributedScanSplits
<1>3. /\ asked[q] \in Pins /\ bind[q].opts = OptionsFor(asked[q])
      /\ latest \in Nat /\ latest <= MaxSnapshot /\ since[q] \in 0..latest
      BY <1>2, ScanParts DEF ScanOK
<1>4. s \in 0..latest /\ MayServe(asked[q], s, since[q], latest)
      BY <1>2, <1>3, SnapshotServes
<1> HIDE DEF s
<1>5. S \in SUBSET Splits /\ \A x \in Match[q] : x \in S <=> x <= s
  <2>1. s \in 0..MaxSnapshot
        BY <1>3, <1>4, ScanAssumption
  <2> QED BY <2>1, PlannedMatch
<1> DEFINE P == [snap |-> s, splits |-> S, share |-> share]
           ps == Append(plans[q], P)
<1> HIDE DEF S
<1>6. P \in Plan /\ P.snap = s /\ P.splits = S
      BY <1>3, <1>4, <1>5 DEF Plan
<1>7. PlanOK(q, P, asked[q], since[q], latest)
      BY <1>4, <1>5, <1>6 DEF PlanOK
<1> HIDE DEF P
<1>8. plans[q] \in Seq(Plan)
      BY ScanParts
<1>9. /\ ps \in Seq(Plan) /\ Len(ps) = Len(plans[q]) + 1 /\ ps # <<>>
      /\ \A i \in DOMAIN ps :
           ps[i] = P \/ (i \in DOMAIN plans[q] /\ ps[i] = plans[q][i])
      BY <1>6, <1>8
<1>10. Len(ps) <= MaxPlans
      BY <1>2, <1>8, <1>9, ScanAssumption
<1>11. plans' = [plans EXCEPT ![q] = ps]
      BY <1>1 DEF P
<1> HIDE DEF ps
<1>12. template[q] \in Templates /\ template[q].phase = "WORKER_TEMPLATE"
      BY <1>2, ScanParts DEF Templates
<1>13. ScanOK(q, bind[q], template[q], plans[q], asked[q], since[q], latest)
      BY ScanParts
<1>14. ScanOK(q, bind[q], template[q], ps, asked[q], since[q], latest)
  <2>1. \A i \in DOMAIN ps : PlanOK(q, ps[i], asked[q], since[q], latest)
        BY <1>7, <1>9, <1>13 DEF ScanOK
  <2> QED BY <1>2, <1>12, <1>13, <2>1 DEF ScanOK
<1>15. ScanMoves(q, bind[q], template[q], ps, asked[q], since[q])
      BY <1>2, <1>11, ScanParts DEF ScanMoves
<1>16. ScanValues(bind[q], template[q], ps, asked[q], since[q])
      BY <1>9, <1>10, ScanParts DEF ScanValues
<1> QED BY <1>14, <1>15, <1>16, ScanStep

\* The query returns the rows of a snapshot that may answer it.
Returns(q, s) ==
  /\ MayServe(asked[q], s, since[q], latest)
  /\ answer' = [answer EXCEPT ![q] = [st |-> "ok", read |-> Abstract!RowsOf(q, s)]]

AnswersRight(q) ==
  /\ bind[q].phase # "none" /\ answer[q].st = "none"
  /\ UNCHANGED <<latest, asked, since, bind, plans, template, worker>>
  /\ \E s : Returns(q, s)

\* The coordinator's own plan: its snapshot may answer the query.
LEMMA LocalPlan ==
  ASSUME DistInv, NEW q \in Scans, bind[q].phase = "COORDINATOR",
         HasSnapshot(bind[q].opts)
  PROVE  /\ MayServe(asked[q], SnapshotOf(bind[q].opts), since[q], latest)
         /\ SnapshotOf(bind[q].opts) \in 0..MaxSnapshot
         /\ bind[q].opts.batch = "vector"
<1>1. /\ asked[q] \in Pins /\ bind[q].opts = OptionsFor(asked[q])
      /\ latest \in Nat /\ latest <= MaxSnapshot /\ since[q] \in 0..latest
      BY ScanParts DEF ScanOK
<1> DEFINE s == SnapshotOf(bind[q].opts)
<1>2. s \in 0..latest /\ MayServe(asked[q], s, since[q], latest)
      BY <1>1, SnapshotServes
<1> HIDE DEF s
<1>3. s \in 0..MaxSnapshot
      BY <1>1, <1>2, ScanAssumption
<1>4. bind[q].opts.batch = "vector"
      BY <1>1 DEF OptionsFor
<1> QED BY <1>2, <1>3, <1>4 DEF s

\* Local execution answers with the rows of such a snapshot.
LEMMA LocalAnswers ==
  ASSUME DistInv, NEW q \in Scans, ExecuteLocal(q)
  PROVE  AnswersRight(q)
<1> DEFINE s == SnapshotOf(bind[q].opts)
           S == PlannedSplits(q, bind[q].pred, s)
<1>1. /\ bind[q].phase = "COORDINATOR" /\ answer[q].st = "none"
      /\ HasSnapshot(bind[q].opts)
      /\ UNCHANGED <<latest, asked, since, bind, plans, template, worker>>
      BY DEF ExecuteLocal
<1>2. PICK read \in Reads(SetToSeq(S), bind[q].opts.batch) : Answer(q, read)
      BY DEF ExecuteLocal
<1>3. /\ MayServe(asked[q], s, since[q], latest)
      /\ s \in 0..MaxSnapshot
      /\ bind[q].opts.batch = "vector"
      BY <1>1, LocalPlan
<1> HIDE DEF s
<1>4. S \in SUBSET Splits /\ \A x \in Match[q] : x \in S <=> x <= s
      BY <1>3, PlannedMatch
<1> HIDE DEF S
<1>5. Lists(SetToSeq(S), S)
      BY <1>4, SplitsFinite, SetToSeqLists
<1>6. Reads(SetToSeq(S), "vector") = {OnceEach(S)}
      BY <1>4, <1>5, ReadList
<1>7. read = OnceEach(S)
      BY <1>2, <1>3, <1>6
<1>8. [x \in Match[q] |-> read[x]] = Abstract!RowsOf(q, s)
      BY <1>4, <1>7, OnceIsRows
<1>9. Returns(q, s)
      BY <1>2, <1>3, <1>8 DEF Answer, Returns
<1> QED BY <1>1, <1>9 DEF AnswersRight

\* So do the statistics that answer COUNT( * ).
LEMMA StatsAnswer ==
  ASSUME DistInv, NEW q \in Scans, PaimonGetPartitionStats(q)
  PROVE  AnswersRight(q)
<1> DEFINE s == SnapshotOf(bind[q].opts)
           S == PlannedSplits(q, FALSE, s)
<1>1. /\ bind[q].phase = "COORDINATOR" /\ answer[q].st = "none"
      /\ HasSnapshot(bind[q].opts)
      /\ UNCHANGED <<latest, asked, since, bind, plans, template, worker>>
      BY DEF PaimonGetPartitionStats
<1>2. Answer(q, [x \in Splits |-> IF x \in S THEN 1 ELSE 0])
      BY Zenon DEF PaimonGetPartitionStats
<1>3. MayServe(asked[q], s, since[q], latest) /\ s \in 0..MaxSnapshot
      BY <1>1, LocalPlan
<1> HIDE DEF s
<1>4. \A x \in Match[q] : x \in S <=> x <= s
  <2>1. ASSUME NEW pred
        PROVE  \A x \in Match[q] : x \in PlannedSplits(q, pred, s) <=> x <= s
        BY <1>3, PlannedMatch
  <2> QED BY <2>1, Zenon
<1> HIDE DEF S
<1>5. Answer(q, OnceEach(S))
      BY <1>2 DEF OnceEach
<1>6. [x \in Match[q] |-> OnceEach(S)[x]] = Abstract!RowsOf(q, s)
      BY <1>4, OnceIsRows
<1>7. Returns(q, s)
      BY <1>3, <1>5, <1>6 DEF Answer, Returns
<1> QED BY <1>1, <1>7 DEF AnswersRight

\* And so does a distributed scan: whichever attempts the runtime takes, they
\* read the shares of the last plan.
LEMMA DistributedAnswers ==
  ASSUME DistInv, NEW q \in Scans, FinishDistributed(q)
  PROVE  AnswersRight(q)
<1>1. /\ plans[q] # <<>> /\ answer[q].st = "none"
      /\ UNCHANGED <<latest, asked, since, bind, plans, template, worker>>
      BY DEF FinishDistributed
<1>2. PICK chosen \in [Tasks -> 1..MaxAttempts] :
        /\ \A t \in Tasks : worker[<<q, t, chosen[t]>>].phase = "done"
        /\ Answer(q, [x \in Splits |->
             SumOf([t \in Tasks |-> worker[<<q, t, chosen[t]>>].read[x]])])
      BY DEF FinishDistributed
<1> DEFINE P == plans[q][Len(plans[q])]
<1>3. P \in Plan /\ Len(plans[q]) \in DOMAIN plans[q]
      BY <1>1, ScanParts
<1>4. ASSUME NEW t \in Tasks
      PROVE  worker[<<q, t, chosen[t]>>].read = OnceEach(TaskSplits(P, t))
  <2> DEFINE a == <<q, t, chosen[t]>>
  <2>1. a \in Attempts /\ a[1] = q /\ a[2] = t
        BY DEF Attempts
  <2> HIDE DEF a
  <2>2. WorkerOK(worker[a], q, t, plans[q])
        BY <2>1 DEF DistInv, WorkerInv
  <2>3. worker[a].phase = "done"
        BY <1>2 DEF a
  <2>4. worker[a].read = OnceEach(TaskSplits(P, t))
        BY <2>2, <2>3 DEF WorkerOK
  <2> QED BY <2>4 DEF a
<1>5. PlanOK(q, P, asked[q], since[q], latest)
      BY <1>3, ScanParts DEF ScanOK
<1>6. bind[q].phase # "none"
      BY <1>1, ScanParts DEF ScanOK
<1> HIDE DEF P
<1> DEFINE f(x) == [t \in Tasks |-> worker[<<q, t, chosen[t]>>].read[x]]
           read == [x \in Splits |-> SumOf(f(x))]
<1>7. ASSUME NEW x \in Splits
      PROVE  SumOf(f(x)) = OnceEach(P.splits)[x]
  <2>1. f(x) = [t \in Tasks |-> OnceEach(TaskSplits(P, t))[x]]
        BY <1>4
  <2> QED BY <1>3, <2>1, TasksTogether
<1>8. Answer(q, read)
      BY <1>2
<1> HIDE DEF f
<1>9. read = OnceEach(P.splits)
      BY <1>7 DEF OnceEach
<1> HIDE DEF read
<1>10. [x \in Match[q] |-> read[x]] = Abstract!RowsOf(q, P.snap)
      BY <1>5, <1>9, OnceIsRows DEF PlanOK
<1>11. Returns(q, P.snap)
      BY <1>5, <1>8, <1>10 DEF Answer, Returns, PlanOK
<1> QED BY <1>1, <1>6, <1>11 DEF AnswersRight

\* An answer is as the types say.
LEMMA AnswersKeep ==
  ASSUME DistInv, NEW q \in Scans, AnswersRight(q)
  PROVE  DistInv'
<1>1. PICK s : Returns(q, s)
      BY DEF AnswersRight
<1> DEFINE r == [st |-> "ok", read |-> Abstract!RowsOf(q, s)]
<1>2. r \in Answers(q)
      BY DEF Answers, Abstract!RowsOf
<1>3. answer' = [answer EXCEPT ![q] = r]
      BY <1>1 DEF Returns
<1> HIDE DEF r
<1>4. UNCHANGED <<latest, asked, since, bind, plans, template, worker>>
      BY DEF AnswersRight
<1> QED BY <1>2, <1>3, <1>4, AnswerStep

\* So is that of a query that fails.
LEMMA FailKeeps ==
  ASSUME DistInv, NEW q \in Scans, FailQuery(q)
  PROVE  DistInv'
<1>1. answer' = [answer EXCEPT ![q] = [answer[q] EXCEPT !.st = "failed"]]
      BY DEF FailQuery
<1>2. UNCHANGED <<latest, asked, since, bind, plans, template, worker>>
      BY DEF FailQuery
<1>3. [answer[q] EXCEPT !.st = "failed"] \in Answers(q)
      BY FailedAnswer
<1> QED BY <1>1, <1>2, <1>3, AnswerStep

\* What an attempt has in a state of the invariant.
LEMMA WorkerParts ==
  ASSUME DistInv, NEW a \in Attempts
  PROVE  /\ worker[a] \in Workers /\ a[1] \in Scans /\ a[2] \in Tasks
         /\ WorkerOK(worker[a], a[1], a[2], plans[a[1]])
BY DEF DistInv, TypeInv, WorkerInv, Attempts

\* The bind of a worker is made from the template.
LEMMA ShipTemplateKeeps ==
  ASSUME DistInv, NEW a \in Attempts, ShipTemplate(a)
  PROVE  DistInv'
<1> DEFINE q == a[1]
           ph == DeserializedPhase(BindKind(template[q].phase))
           ba == LocalOptions(template[q].opts).batch
           w == [phase |-> "WORKER_TEMPLATE", set |-> q, batch |-> "vector",
                 snap |-> 0, splits |-> <<>>, read |-> [x \in Splits |-> 0]]
<1>1. /\ plans[q] # <<>>
      /\ UNCHANGED <<latest, asked, since, bind, plans, template, answer>>
      BY DEF ShipTemplate
<1>2. q \in Scans
      BY WorkerParts
<1>3. ph = "WORKER_TEMPLATE"
  <2>1. template[q].phase = "WORKER_TEMPLATE"
        BY <1>1, <1>2, ScanParts DEF ScanOK
  <2> QED BY <2>1 DEF DeserializedPhase, BindKind
<1>4. ba = "vector"
      BY LocalBatch
<1>5. worker' = [worker EXCEPT ![a] =
                   [NoWorker EXCEPT !.phase = ph, !.set = q, !.batch = ba]]
      BY DEF ShipTemplate
<1> HIDE DEF ph, ba, q
<1>6. [NoWorker EXCEPT !.phase = ph, !.set = q, !.batch = ba] = w
  <2> DEFINE r1 == [NoWorker EXCEPT !.phase = ph]
             r2 == [r1 EXCEPT !.set = q]
  <2>1. r1 = [phase |-> "WORKER_TEMPLATE", set |-> "none", batch |-> "default",
              snap |-> 0, splits |-> <<>>, read |-> [x \in Splits |-> 0]]
        BY <1>3 DEF NoWorker
  <2> HIDE DEF r1
  <2>2. r2 = [phase |-> "WORKER_TEMPLATE", set |-> q, batch |-> "default",
              snap |-> 0, splits |-> <<>>, read |-> [x \in Splits |-> 0]]
        BY <2>1
  <2> HIDE DEF r2
  <2>3. [r2 EXCEPT !.batch = ba] = w
        BY <1>4, <2>2
  <2> QED BY <2>3 DEF r1, r2
<1>7. w \in Workers /\ w.phase = "WORKER_TEMPLATE" /\ w.batch = "vector" /\ w.set = q
      BY <1>2 DEF Workers
<1> HIDE DEF w
<1>8. WorkerOK(w, a[1], a[2], plans[a[1]])
      BY <1>1, <1>7 DEF WorkerOK, q
<1>9. worker' = [worker EXCEPT ![a] = w]
      BY <1>5, <1>6
<1> QED BY <1>1, <1>7, <1>8, <1>9, WorkerStep

\* What the worker takes of a delivery is a list of the splits that the last
\* plan gives to its task.
LEMMA ApplyKeeps ==
  ASSUME DistInv, NEW a \in Attempts, PaimonApplyDistributedScanSplits(a)
  PROVE  DistInv'
<1> DEFINE q == a[1]
           t == a[2]
           P == plans[q][Len(plans[q])]
           old == worker[a]
<1>1. /\ old.phase = "WORKER_TEMPLATE"
      /\ UNCHANGED <<latest, asked, since, bind, plans, template, answer>>
      BY DEF PaimonApplyDistributedScanSplits
<1>2. PICK d \in Deliveries(q, t) : worker' = [worker EXCEPT ![a] = AfterDelivery(@, d)]
      BY DEF PaimonApplyDistributedScanSplits
<1>3. /\ old \in Workers /\ q \in Scans /\ WorkerOK(old, q, t, plans[q])
      BY WorkerParts
<1>4. plans[q] # <<>> /\ old.batch = "vector" /\ old.set = q
      BY <1>1, <1>3 DEF WorkerOK
<1>5. worker' = [worker EXCEPT ![a] = AfterDelivery(old, d)]
      BY <1>2
<1>6. CASE ~ValidDelivery(old, d)
  <2>1. AfterDelivery(old, d) = old
        BY <1>6 DEF AfterDelivery
  <2> QED BY <1>1, <1>3, <1>5, <2>1, WorkerStep
<1>7. CASE ValidDelivery(old, d)
  <2> DEFINE T == TaskSplits(P, t)
             s == [i \in DOMAIN d |-> d[i].split]
             n == IF d = <<>> THEN 0 ELSE d[1].snap
             w == Assigned(old, d)
  <2>1. AfterDelivery(old, d) = w
        BY <1>7 DEF AfterDelivery
  <2>2. plans[q] \in Seq(Plan)
        BY <1>3, ScanParts
  <2>3. P \in Plan
        BY <1>4, <2>2
  <2>4. Share(q, t) = SetToSeq(Mine(q, P, t))
        BY ShareIs
  <2> HIDE DEF P, q, t
  <2>5. d = SetToSeq(Mine(q, P, t))
        BY <1>4, <1>7, <2>3, <2>4, OnlyShareValid
  <2>6. /\ d \in Seq(Mine(q, P, t)) /\ \A i \in DOMAIN d : d[i].snap = P.snap
        /\ Lists(s, T) /\ (d = <<>> <=> T = {})
        BY <2>3, <2>5, MineLists
  <2>7. P.snap \in Nat /\ T \in SUBSET Splits
        BY <2>3, PlanParts DEF TaskSplits
  <2>8. n \in Nat /\ (T # {} => n = P.snap)
    <3>1. CASE d = <<>>
          BY <2>6, <3>1
    <3>2. CASE d # <<>>
      <4>1. 1 \in DOMAIN d
            BY <2>6, <3>2
      <4> QED BY <2>6, <2>7, <3>2, <4>1
    <3> QED BY <3>1, <3>2
  <2>9. s \in Seq(Splits)
    <3>1. s \in Seq(T)
          BY <2>6, <2>7, SplitsFinite, ListIsSeq
    <3> HIDE DEF s
    <3> QED BY <2>7, <3>1
  <2> HIDE DEF s, n, T
  <2>10. /\ w \in Workers /\ w.phase = "WORKER_ASSIGNED" /\ w.splits = s /\ w.snap = n
         /\ w.batch = old.batch /\ w.set = old.set
    <3> DEFINE c == [old EXCEPT !.phase = "WORKER_ASSIGNED", !.splits = s, !.snap = n]
    <3>1. w = c
          BY DEF Assigned, s, n
    <3> HIDE DEF old, w
    <3>2. /\ c \in Workers /\ c.phase = "WORKER_ASSIGNED" /\ c.splits = s /\ c.snap = n
          /\ c.batch = old.batch /\ c.set = old.set
          BY <1>3, <2>8, <2>9 DEF Workers
    <3> HIDE DEF c
    <3> QED BY <3>1, <3>2
  <2> HIDE DEF w
  <2>11. WorkerOK(w, q, t, plans[q])
        BY <1>4, <2>6, <2>8, <2>10 DEF WorkerOK, P, T
  <2>12. WorkerOK(w, a[1], a[2], plans[a[1]])
        BY <2>11 DEF q, t
  <2> QED BY <1>1, <1>5, <2>1, <2>10, <2>12, WorkerStep
<1> QED BY <1>6, <1>7

\* A worker reads each of its splits once.
LEMMA ExecuteKeeps ==
  ASSUME DistInv, NEW a \in Attempts, ExecuteWorker(a)
  PROVE  DistInv'
<1> DEFINE q == a[1]
           T == TaskSplits(plans[q][Len(plans[q])], a[2])
           old == worker[a]
<1>1. /\ old.phase = "WORKER_ASSIGNED"
      /\ UNCHANGED <<latest, asked, since, bind, plans, template, answer>>
      BY DEF ExecuteWorker
<1>2. PICK read \in Reads(old.splits, old.batch) :
        worker' = [worker EXCEPT ![a].phase = "done", ![a].read = read]
      BY DEF ExecuteWorker
<1>3. /\ old \in Workers /\ q \in Scans /\ WorkerOK(old, q, a[2], plans[q])
      BY WorkerParts
<1>4. /\ plans[q] # <<>> /\ old.batch = "vector" /\ old.set = q
      /\ Lists(old.splits, T)
      BY <1>1, <1>3 DEF WorkerOK
<1>5. T \in SUBSET Splits
  <2>1. plans[q] \in Seq(Plan)
        BY <1>3, ScanParts
  <2>2. plans[q][Len(plans[q])] \in Plan
        BY <1>4, <2>1
  <2> QED BY <2>2, PlanParts DEF TaskSplits
<1>6. read = OnceEach(T)
  <2> HIDE DEF T, old
  <2>1. Reads(old.splits, "vector") = {OnceEach(T)}
        BY <1>4, <1>5, ReadList
  <2> QED BY <1>2, <1>4, <2>1
<1>7. OnceEach(T) \in [Splits -> Nat]
      BY DEF OnceEach
<1> DEFINE w == [old EXCEPT !.phase = "done", !.read = read]
<1>8. worker' = [worker EXCEPT ![a] = w]
      BY <1>2 DEF DistInv, TypeInv
<1>9. /\ w \in Workers /\ w.phase = "done" /\ w.read = read
      /\ w.splits = old.splits /\ w.snap = old.snap
      /\ w.batch = old.batch /\ w.set = old.set
  <2> HIDE DEF old, T
  <2> QED BY <1>3, <1>6, <1>7 DEF Workers
<1> HIDE DEF w
<1>10. WorkerOK(w, a[1], a[2], plans[a[1]])
      BY <1>1, <1>3, <1>4, <1>6, <1>9 DEF WorkerOK
<1> QED BY <1>1, <1>8, <1>9, <1>10, WorkerStep

\* A worker that fails holds nothing.
LEMMA FailWorkerKeeps ==
  ASSUME DistInv, NEW a \in Attempts, FailWorker(a)
  PROVE  DistInv'
<1> DEFINE w == [NoWorker EXCEPT !.phase = "failed"]
<1>1. /\ worker[a].phase # "none" /\ worker' = [worker EXCEPT ![a] = w]
      /\ UNCHANGED <<latest, asked, since, bind, plans, template, answer>>
      BY DEF FailWorker
<1>2. w \in Workers /\ w.phase = "failed"
  <2>1. w = [phase |-> "failed", set |-> "none", batch |-> "default", snap |-> 0,
             splits |-> <<>>, read |-> [x \in Splits |-> 0]]
        BY DEF NoWorker
  <2> HIDE DEF w
  <2> QED BY <2>1 DEF Workers
<1> HIDE DEF w
<1>3. WorkerOK(w, a[1], a[2], plans[a[1]])
      BY <1>1, <1>2, WorkerParts DEF WorkerOK
<1> QED BY <1>1, <1>2, <1>3, WorkerStep

\* Every step keeps the invariant.
LEMMA DistInvNext == DistInv /\ [Next]_vars => DistInv'
<1> SUFFICES ASSUME DistInv, [Next]_vars PROVE DistInv'
    OBVIOUS
<1>1. CASE Commit
      BY <1>1, CommitKeeps
<1>2. ASSUME NEW q \in Scans, PaimonScanBind(q) PROVE DistInv'
      BY <1>2, BindKeeps
<1>3. ASSUME NEW q \in Scans, PaimonPushdownFilter(q) PROVE DistInv'
      BY <1>3, PushdownKeeps
<1>4. ASSUME NEW q \in Scans, ShipCoordinator(q) PROVE DistInv'
      BY <1>4, ShipKeeps
<1>5. ASSUME NEW q \in Scans, PaimonCreateDistributedWorkerBind(q) PROVE DistInv'
      BY <1>5, TemplateKeeps
<1>6. ASSUME NEW q \in Scans, PaimonPlanDistributedScanSplits(q) PROVE DistInv'
      BY <1>6, PlanKeeps
<1>7. ASSUME NEW q \in Scans, FinishDistributed(q) PROVE DistInv'
      BY <1>7, DistributedAnswers, AnswersKeep
<1>8. ASSUME NEW q \in Scans, ExecuteLocal(q) PROVE DistInv'
      BY <1>8, LocalAnswers, AnswersKeep
<1>9. ASSUME NEW q \in Scans, PaimonGetPartitionStats(q) PROVE DistInv'
      BY <1>9, StatsAnswer, AnswersKeep
<1>10. ASSUME NEW q \in Scans, FailQuery(q) PROVE DistInv'
      BY <1>10, FailKeeps
<1>11. ASSUME NEW a \in Attempts, ShipTemplate(a) PROVE DistInv'
      BY <1>11, ShipTemplateKeeps
<1>12. ASSUME NEW a \in Attempts, PaimonApplyDistributedScanSplits(a) PROVE DistInv'
      BY <1>12, ApplyKeeps
<1>13. ASSUME NEW a \in Attempts, ExecuteWorker(a) PROVE DistInv'
      BY <1>13, ExecuteKeeps
<1>14. ASSUME NEW a \in Attempts, FailWorker(a) PROVE DistInv'
      BY <1>14, FailWorkerKeeps
<1>15. CASE UNCHANGED vars
      BY <1>15 DEF vars, DistInv, TypeInv, ScanInv, WorkerInv
<1> QED BY <1>1, <1>2, <1>3, <1>4, <1>5, <1>6, <1>7, <1>8, <1>9, <1>10, <1>11,
      <1>12, <1>13, <1>14, <1>15 DEF Next

-----------------------------------------------------------------------------
(* The theorems *)

\* In every reachable state the bind data of every scan have the options of its
\* query, every plan is of a snapshot that may answer it, and every worker holds
\* the share of the last plan or nothing.
THEOREM Invariant == Spec => []DistInv
BY DistInvInit, DistInvNext, PTL DEF Spec

\* State has the declared types; the phases of the coordinator's bind and of a
\* worker's bind never mix.
THEOREM TypeCorrect == Spec => []TypeOK
<1>1. DistInv => TypeOK
  <2> SUFFICES ASSUME DistInv PROVE TypeOK
      OBVIOUS
  <2>1. latest \in 0..MaxSnapshot
        BY DEF DistInv, TypeInv
  <2>2. ASSUME NEW q \in Scans
        PROVE  /\ asked[q] \in AttachPins \cup AtPins \cup {NoPin}
               /\ since[q] \in -1..MaxSnapshot
               /\ bind[q].phase \in {"none", "COORDINATOR", "DISTRIBUTED_COORDINATOR"}
               /\ template[q].phase \in {"none", "WORKER_TEMPLATE"}
               /\ {bind[q].opts, template[q].opts} \subseteq Options
               /\ Len(plans[q]) <= MaxPlans
               /\ answer[q].st \in {"none", "ok", "failed"}
               /\ answer[q].read \in [Match[q] -> Nat]
    <3>1. /\ asked[q] \in Pins /\ since[q] \in -1..MaxSnapshot
          /\ bind[q] \in Binds /\ template[q] \in Templates
          /\ Len(plans[q]) <= MaxPlans /\ answer[q] \in Answers(q)
          BY ScanParts
    <3>2. /\ bind[q].phase \in {"none", "COORDINATOR", "DISTRIBUTED_COORDINATOR"}
          /\ template[q].phase \in {"none", "WORKER_TEMPLATE"}
          /\ bind[q].opts \in Options /\ template[q].opts \in Options
          BY <3>1 DEF Binds, Templates
    <3>3. /\ answer[q].st \in {"none", "ok", "failed"}
          /\ answer[q].read \in [Match[q] -> Nat]
          BY <3>1 DEF Answers
    <3> QED BY <3>1, <3>2, <3>3 DEF Pins
  <2>3. ASSUME NEW a \in Attempts
        PROVE  /\ worker[a].phase \in {"none", "WORKER_TEMPLATE", "WORKER_ASSIGNED",
                                       "done", "failed"}
               /\ worker[a].splits \in Seq(Splits)
        BY WorkerParts DEF Workers
  <2> QED BY <2>1, <2>2, <2>3, Zenon DEF TypeOK
<1> QED BY <1>1, Invariant, PTL

\* apply_splits: whatever the runtime delivers, and however often it delivers
\* again after a rejection, an assigned worker holds splits of one plan of its
\* own scan, each of them once.
THEOREM HoldsOnePlan == Spec => []WorkerHoldsOnePlan
<1>1. DistInv => WorkerHoldsOnePlan
  <2> SUFFICES ASSUME DistInv, NEW a \in Attempts,
                      worker[a].phase \in {"WORKER_ASSIGNED", "done"}
               PROVE  /\ Cardinality(Range(worker[a].splits)) = Len(worker[a].splits)
                      /\ Range(worker[a].splits) # {} => \E p \in DOMAIN plans[a[1]] :
                           /\ plans[a[1]][p].snap = worker[a].snap
                           /\ Range(worker[a].splits) \subseteq plans[a[1]][p].splits
      BY DEF WorkerHoldsOnePlan
  <2> DEFINE q == a[1]
             n == Len(plans[q])
             T == TaskSplits(plans[q][n], a[2])
  <2>1. WorkerOK(worker[a], q, a[2], plans[q]) /\ q \in Scans
        BY WorkerParts
  <2>2. Lists(worker[a].splits, T) /\ (T # {} => worker[a].snap = plans[q][n].snap)
        BY <2>1 DEF WorkerOK
  <2>3. n \in DOMAIN plans[q] /\ plans[q][n] \in Plan
    <3>1. plans[q] # <<>> /\ plans[q] \in Seq(Plan)
          BY <2>1, ScanParts DEF WorkerOK
    <3> QED BY <3>1
  <2>4. T \subseteq plans[q][n].splits /\ IsFiniteSet(T)
        BY <2>3, PlanParts, SplitsFinite DEF TaskSplits
  <2> HIDE DEF T
  <2>5. Range(worker[a].splits) = T /\ Len(worker[a].splits) = Cardinality(T)
        BY <2>2, <2>4, ListIsSeq
  <2> QED BY <2>2, <2>3, <2>4, <2>5
<1> QED BY <1>1, Invariant, PTL

-----------------------------------------------------------------------------
(* Refinement *)

\* A step of the detailed specification is a step of ConsistentScan or leaves
\* its variables alone.
LEMMA RefineNext == DistInv /\ [Next]_vars => [Abstract!Next]_(Abstract!vars)
<1> SUFFICES ASSUME DistInv, [Next]_vars PROVE [Abstract!Next]_(Abstract!vars)
    OBVIOUS
<1> USE DEF Abstract!vars
<1>1. CASE Commit
      BY <1>1 DEF Commit, Abstract!Next, Abstract!Commit
<1>2. ASSUME NEW q \in Scans, PaimonScanBind(q)
      PROVE  Abstract!Open(q) \/ Abstract!Fail(q)
  <2>1. bind[q].phase = "none" /\ answer[q].st = "none" /\ UNCHANGED latest
        BY <1>2 DEF PaimonScanBind
  <2>2. since[q] = -1
        BY <2>1, ScanParts DEF ScanOK
  <2>3. \/ /\ answer' = [answer EXCEPT ![q].st = "failed"]
           /\ UNCHANGED <<asked, since>>
        \/ /\ \E attach \in AttachPins, at \in AtPins :
                asked' = [asked EXCEPT ![q] = IF at = NoPin THEN attach ELSE at]
           /\ since' = [since EXCEPT ![q] = latest] /\ UNCHANGED answer
        BY <1>2 DEF PaimonScanBind
  <2>4. CASE answer' = [answer EXCEPT ![q].st = "failed"] /\ UNCHANGED <<asked, since>>
        BY <2>1, <2>4 DEF Abstract!Fail
  <2>5. CASE /\ \E attach \in AttachPins, at \in AtPins :
                  asked' = [asked EXCEPT ![q] = IF at = NoPin THEN attach ELSE at]
             /\ since' = [since EXCEPT ![q] = latest] /\ UNCHANGED answer
    <3>1. \E p \in AttachPins \cup AtPins \cup {NoPin} : asked' = [asked EXCEPT ![q] = p]
          BY <2>5
    <3> QED BY <2>1, <2>2, <2>5, <3>1 DEF Abstract!Open
  <2> QED BY <2>3, <2>4, <2>5
<1>3. ASSUME NEW q \in Scans, AnswersRight(q)
      PROVE  Abstract!Return(q)
  <2>1. PICK s : Returns(q, s)
        BY <1>3 DEF AnswersRight
  <2>2. /\ bind[q].phase # "none" /\ answer[q].st = "none"
        /\ UNCHANGED <<latest, asked, since>>
        BY <1>3 DEF AnswersRight
  <2>3. since[q] \in 0..latest /\ latest \in Nat
        BY <2>2, ScanParts DEF ScanOK
  <2>4. PICK now \in since[q]..latest : s \in 0..now /\ Abstract!Serves(asked[q], s, now)
        BY <2>1 DEF Returns, MayServe
  <2>5. answer' = [answer EXCEPT ![q] = [st |-> "ok", read |-> Abstract!RowsOf(q, s)]]
        BY <2>1 DEF Returns
  <2>6. since[q] >= 0
        BY <2>3
  <2> QED BY <2>2, <2>4, <2>5, <2>6 DEF Abstract!Return
<1>4. ASSUME NEW q \in Scans, FinishDistributed(q) PROVE Abstract!Return(q)
      BY <1>3, <1>4, DistributedAnswers
<1>5. ASSUME NEW q \in Scans, ExecuteLocal(q) PROVE Abstract!Return(q)
      BY <1>3, <1>5, LocalAnswers
<1>6. ASSUME NEW q \in Scans, PaimonGetPartitionStats(q) PROVE Abstract!Return(q)
      BY <1>3, <1>6, StatsAnswer
<1>7. ASSUME NEW q \in Scans, FailQuery(q) PROVE Abstract!Fail(q)
      BY <1>7 DEF FailQuery, Abstract!Fail
<1>8. ASSUME NEW q \in Scans,
             \/ PaimonPushdownFilter(q) \/ ShipCoordinator(q)
             \/ PaimonCreateDistributedWorkerBind(q)
             \/ PaimonPlanDistributedScanSplits(q)
      PROVE  UNCHANGED <<latest, asked, since, answer>>
      BY <1>8 DEF PaimonPushdownFilter, ShipCoordinator,
         PaimonCreateDistributedWorkerBind, PaimonPlanDistributedScanSplits
<1>9. ASSUME NEW a \in Attempts,
             \/ ShipTemplate(a) \/ PaimonApplyDistributedScanSplits(a)
             \/ ExecuteWorker(a) \/ FailWorker(a)
      PROVE  UNCHANGED <<latest, asked, since, answer>>
      BY <1>9 DEF ShipTemplate, PaimonApplyDistributedScanSplits, ExecuteWorker,
         FailWorker
<1>10. CASE UNCHANGED vars
      BY <1>10 DEF vars
<1> QED BY <1>1, <1>2, <1>4, <1>5, <1>6, <1>7, <1>8, <1>9, <1>10
      DEF Next, Abstract!Next

\* Every way to execute a scan (distributed with retries, locally, by
\* statistics) returns each matching row of one snapshot once, and that is the
\* snapshot the query asked for or one that was current while it ran.
THEOREM IsConsistentScan == Spec => ImplementsConsistentScan
<1>1. Init => Abstract!Init
  <2> SUFFICES ASSUME Init PROVE Abstract!Init
      OBVIOUS
  <2>1. ASSUME NEW q \in Scans
        PROVE  [x \in Match[q] |-> 0] = Abstract!RowsOf(q, 0)
        BY ScanAssumption DEF Abstract!RowsOf, Splits
  <2>2. NoPin = Abstract!NoPin
        BY DEF NoPin, Abstract!NoPin
  <2>3. answer = [q \in Scans |-> [st |-> "none", read |-> Abstract!RowsOf(q, 0)]]
        BY <2>1 DEF Init
  <2> QED BY <2>2, <2>3 DEF Init, Abstract!Init
<1>2. DistInv /\ [Next]_vars => [Abstract!Next]_(Abstract!vars)
      BY RefineNext
<1>3. ImplementsConsistentScan <=> Abstract!Init /\ [][Abstract!Next]_(Abstract!vars)
      BY DEF ImplementsConsistentScan, Abstract!Spec
<1> QED BY <1>1, <1>2, <1>3, Invariant, PTL DEF Spec
=============================================================================
