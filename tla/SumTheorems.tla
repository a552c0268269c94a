---------------------------- MODULE SumTheorems -----------------------------
(***************************************************************************)
(* What SumOf computes.  Induction is over the finite subsets of the       *)
(* domain: a set of counterexamples would have a minimal element           *)
(* (FiniteSetMinimal).                                                     *)
(***************************************************************************)
EXTENDS Sums, FiniteSetTheorems, TLAPS

-----------------------------------------------------------------------------
(***************************************************************************)
(* The recursive function below SumOf exists and is unique.                *)
(***************************************************************************)
Pick(s)      == CHOOSE x \in s : TRUE
Only(f, T)   == [x \in T |-> f[x]]

IsFold(g, f, S) ==
  g = [s \in SUBSET S |-> IF s = {} THEN 0 ELSE f[Pick(s)] + g[s \ {Pick(s)}]]

\* Every non-empty collection of subsets of a finite set has a member none of
\* whose proper subsets belongs to the collection.
LEMMA FiniteSetMinimal ==
  ASSUME NEW S, IsFiniteSet(S), NEW B, B \subseteq SUBSET S, B # {}
  PROVE  \E T \in B : \A U \in SUBSET T : U # T => U \notin B
<1>1. IsWellFoundedOn(StrictSubsetOrdering(S), FiniteSubsetsOf(S))
      BY FS_StrictSubsetOrderingWellFounded
<1>2. B \subseteq FiniteSubsetsOf(S)
      BY FS_FiniteSubsetsOfFinite
<1>3. \E T \in B : \A U \in B : ~(<<U, T>> \in StrictSubsetOrdering(S))
      BY <1>1, <1>2, WFMin
<1>4. PICK T \in B : \A U \in B : ~(<<U, T>> \in StrictSubsetOrdering(S))
      BY <1>3
<1>5. ASSUME NEW U \in SUBSET T, U # T, U \in B PROVE FALSE
  <2>1. T \in SUBSET S /\ U \in SUBSET S
        BY <1>4, <1>5
  <2>2. <<U, T>> \in (SUBSET S) \X (SUBSET S)
        BY <2>1
  <2>3. <<U, T>> \in StrictSubsetOrdering(S)
        BY <2>2, <1>5 DEF StrictSubsetOrdering
  <2> QED BY <2>3, <1>4, <1>5
<1> QED BY <1>4, <1>5

\* A sum is the value of a function that is defined by adding a summand at a
\* time: what the definition of the fold unfolds to.
LEMMA SumIsFold ==
  ASSUME NEW f
  PROVE  SumOf(f) = (CHOOSE g : IsFold(g, f, DOMAIN f))[DOMAIN f]
BY DEF SumOf, MapThenSumSet, MapThenFoldSet, IsFold, Pick

\* The summand that is taken first is one of the summands.
LEMMA PickIn == ASSUME NEW s, s # {} PROVE Pick(s) \in s
BY DEF Pick

\* Two such functions agree where they are defined for the same summands.
LEMMA FoldsAgree ==
  ASSUME NEW S, IsFiniteSet(S), NEW f, NEW h, NEW T, NEW W, NEW g, NEW k,
         IsFold(g, f, T), IsFold(k, h, W), S \subseteq T, S \subseteq W,
         \A x \in S : f[x] = h[x]
  PROVE  \A s \in SUBSET S : g[s] = k[s]
<1> DEFINE B == {s \in SUBSET S : g[s] # k[s]}
<1> SUFFICES ASSUME B # {} PROVE FALSE
    OBVIOUS
<1>1. PICK s \in B : \A U \in SUBSET s : U # s => U \notin B
  <2> B \subseteq SUBSET S OBVIOUS
  <2> HIDE DEF B
  <2> QED BY FiniteSetMinimal
<1>2. s \in SUBSET T /\ s \in SUBSET W /\ s \in SUBSET S
      BY <1>1
<1>3. g[s] = IF s = {} THEN 0 ELSE f[Pick(s)] + g[s \ {Pick(s)}]
      BY <1>2 DEF IsFold
<1>4. k[s] = IF s = {} THEN 0 ELSE h[Pick(s)] + k[s \ {Pick(s)}]
      BY <1>2 DEF IsFold
<1>5. CASE s = {}
      BY <1>5, <1>3, <1>4, <1>1
<1>6. CASE s # {}
  <2>1. Pick(s) \in s BY <1>6, PickIn
  <2>2. g[s \ {Pick(s)}] = k[s \ {Pick(s)}]
        BY <2>1, <1>1, <1>2
  <2>3. f[Pick(s)] = h[Pick(s)]
        BY <2>1, <1>2
  <2> QED BY <2>2, <2>3, <1>3, <1>4, <1>6, <1>1
<1> QED BY <1>5, <1>6

\* It exists, with integers as values.
LEMMA FoldExists ==
  ASSUME NEW S, IsFiniteSet(S), NEW f, \A x \in S : f[x] \in Int
  PROVE  \E g \in [SUBSET S -> Int] : IsFold(g, f, S)
<1> DEFINE Fold(T) == {g \in [SUBSET T -> Int] : IsFold(g, f, T)}
           B == {T \in SUBSET S : Fold(T) = {}}
           h(T) == CHOOSE g : g \in Fold(T)
<1> SUFFICES ASSUME B # {} PROVE FALSE
  <2> S \in SUBSET S OBVIOUS
  <2> QED OBVIOUS
<1>1. PICK T \in B : \A U \in SUBSET T : U # T => U \notin B
  <2> B \subseteq SUBSET S OBVIOUS
  <2> HIDE DEF B
  <2> QED BY FiniteSetMinimal
<1>2. \A U \in SUBSET T : U # T => h(U) \in Fold(U)
  <2> TAKE U \in SUBSET T
  <2> HAVE U # T
  <2>1. U \in SUBSET S BY <1>1
  <2>2. Fold(U) # {} BY <1>1, <2>1
  <2> HIDE DEF Fold
  <2> QED BY <2>2
<1> DEFINE rest(s) == s \ {Pick(s)}
           val(s) == IF s = {} THEN 0 ELSE f[Pick(s)] + h(rest(s))[rest(s)]
           g == [s \in SUBSET T |-> val(s)]
<1>3. \A s \in SUBSET T : s # {} => rest(s) \in SUBSET T /\ rest(s) # T /\ Pick(s) \in S
  <2> TAKE s \in SUBSET T
  <2> HAVE s # {}
  <2>1. Pick(s) \in s BY PickIn
  <2> QED BY <2>1, <1>1
<1>4. \A s \in SUBSET T : val(s) \in Int
  <2> TAKE s \in SUBSET T
  <2>1. CASE s = {} BY <2>1
  <2>2. CASE s # {}
    <3>1. h(rest(s)) \in Fold(rest(s)) BY <2>2, <1>2, <1>3
    <3>2. h(rest(s))[rest(s)] \in Int
      <4> HIDE DEF h, rest
      <4> QED BY <3>1
    <3>3. f[Pick(s)] \in Int BY <2>2, <1>3
    <3> HIDE DEF h, rest
    <3> QED BY <3>2, <3>3, <2>2
  <2> QED BY <2>1, <2>2
<1>5. \A s \in SUBSET T : s # T => h(s)[s] = val(s)
  <2> TAKE s \in SUBSET T
  <2> HAVE s # T
  <2>1. h(s) \in Fold(s) BY <1>2
  <2>2. h(s)[s] = IF s = {} THEN 0 ELSE f[Pick(s)] + h(s)[rest(s)]
    <3> HIDE DEF h
    <3> QED BY <2>1 DEF IsFold
  <2>3. CASE s = {} BY <2>2, <2>3
  <2>4. CASE s # {}
    <3>1. h(rest(s)) \in Fold(rest(s)) BY <2>4, <1>2, <1>3
    <3>2. rest(s) \subseteq s /\ rest(s) \in SUBSET S BY <1>1
    <3>3. IsFiniteSet(rest(s)) BY <3>2, FS_Subset
    <3>4. IsFold(h(s), f, s) /\ IsFold(h(rest(s)), f, rest(s))
      <4> HIDE DEF h, rest
      <4> QED BY <2>1, <3>1
    <3>5. h(s)[rest(s)] = h(rest(s))[rest(s)]
      <4> HIDE DEF h, rest
      <4> QED BY <3>2, <3>3, <3>4, FoldsAgree
    <3> HIDE DEF h, rest
    <3> QED BY <3>5, <2>2, <2>4
  <2> QED BY <2>3, <2>4
<1>6. \A s \in SUBSET T : s # {} => g[rest(s)] = h(rest(s))[rest(s)]
  <2> TAKE s \in SUBSET T
  <2> HAVE s # {}
  <2>1. rest(s) \in SUBSET T /\ rest(s) # T BY <1>3
  <2>2. g[rest(s)] = val(rest(s))
    <3> HIDE DEF rest, val
    <3> QED BY <2>1
  <2> QED BY <2>1, <2>2, <1>5
<1>7. g \in [SUBSET T -> Int]
  <2> HIDE DEF val
  <2> QED BY <1>4
<1>8. IsFold(g, f, T)
  <2>1. ASSUME NEW s \in SUBSET T
        PROVE val(s) = IF s = {} THEN 0 ELSE f[Pick(s)] + g[rest(s)]
    <3> HIDE DEF g, h, rest
    <3> QED BY <2>1, <1>6
  <2>2. g = [s \in SUBSET T |-> IF s = {} THEN 0 ELSE f[Pick(s)] + g[rest(s)]]
    <3>1. g = [s \in SUBSET T |-> val(s)] OBVIOUS
    <3> HIDE DEF g, val, rest
    <3> QED BY <2>1, <3>1
  <2> HIDE DEF g
  <2> QED BY <2>2 DEF IsFold
<1>9. T \in B BY <1>1
<1> HIDE DEF g, h
<1> QED BY <1>7, <1>8, <1>9

\* The sums over all subsets of S.
IsTable(g, f, S) ==
  /\ g \in [SUBSET S -> Int]
  /\ IsFold(g, f, S)
  /\ \A T \in SUBSET S : SumOf(Only(f, T)) = g[T]

\* What holds of SumOf: it is such a function, applied to the whole domain.
LEMMA SumFold ==
  ASSUME NEW S, IsFiniteSet(S), NEW f \in [S -> Int]
  PROVE  \E g : IsTable(g, f, S)
<1>1. PICK g \in [SUBSET S -> Int] : IsFold(g, f, S)
      BY FoldExists
<1>2. ASSUME NEW T \in SUBSET S PROVE SumOf(Only(f, T)) = g[T]
  <2> DEFINE o == Only(f, T)
             k == CHOOSE e : IsFold(e, o, T)
  <2>1. IsFiniteSet(T) BY FS_Subset
  <2>2. DOMAIN o = T /\ \A x \in T : o[x] = f[x] /\ o[x] \in Int
        BY DEF Only
  <2> HIDE DEF o
  <2>3. \E e \in [SUBSET T -> Int] : IsFold(e, o, T)
        BY <2>1, <2>2, FoldExists
  <2>4. IsFold(k, o, T) BY <2>3
  <2>5. SumOf(o) = k[T] BY <2>2, SumIsFold
  <2>6. g[T] = k[T]
    <3> HIDE DEF k
    <3>1. \A s \in SUBSET T : g[s] = k[s]
          BY <1>1, <2>1, <2>2, <2>4, FoldsAgree
    <3> QED BY <3>1
  <2> QED BY <2>5, <2>6 DEF o
<1> QED BY <1>1, <1>2 DEF IsTable

\* Any element of a set can be taken first.
LEMMA FoldStep ==
  ASSUME NEW S, IsFiniteSet(S), NEW f \in [S -> Int],
         NEW g, IsTable(g, f, S), NEW T0 \in SUBSET S, NEW x0 \in T0
  PROVE  g[T0] = f[x0] + g[T0 \ {x0}]
<1> USE DEF IsTable
<1> DEFINE B == {T \in SUBSET S : \E x \in T : g[T] # f[x] + g[T \ {x}]}
<1> SUFFICES ASSUME B # {} PROVE FALSE
    OBVIOUS
<1>1. PICK T \in B : \A U \in SUBSET T : U # T => U \notin B
  <2> B \subseteq SUBSET S OBVIOUS
  <2> HIDE DEF B
  <2> QED BY FiniteSetMinimal
<1>2. PICK x \in T : g[T] # f[x] + g[T \ {x}]
      BY <1>1
<1> DEFINE y == Pick(T)
<1>3. y \in T BY <1>2, PickIn
<1> HIDE DEF y
<1>4. T \in SUBSET S /\ T # {} BY <1>1, <1>2
<1>5. g[T] = f[y] + g[T \ {y}] BY <1>4 DEF IsFold, y
<1>6. x # y BY <1>2, <1>5
<1>7. T \ {y} \in SUBSET T /\ T \ {x} \in SUBSET T /\ T \ {y} # T /\ T \ {x} # T
      BY <1>2, <1>3
<1>8. T \ {y} \notin B /\ T \ {x} \notin B BY <1>1, <1>7
<1>9. x \in T \ {y} /\ y \in T \ {x} BY <1>2, <1>3, <1>6
<1>10. g[T \ {y}] = f[x] + g[(T \ {y}) \ {x}]
  <2> T \ {y} \in SUBSET S BY <1>4
  <2> QED BY <1>8, <1>9
<1>11. g[T \ {x}] = f[y] + g[(T \ {x}) \ {y}]
  <2> T \ {x} \in SUBSET S BY <1>4
  <2> QED BY <1>8, <1>9
<1>12. (T \ {y}) \ {x} = (T \ {x}) \ {y} OBVIOUS
<1>13. f[x] \in Int /\ f[y] \in Int /\ g[(T \ {x}) \ {y}] \in Int
  <2>1. x \in S /\ y \in S BY <1>2, <1>3, <1>4
  <2>2. (T \ {x}) \ {y} \in SUBSET S BY <1>4
  <2> QED BY <2>1, <2>2
<1>14. g[(T \ {y}) \ {x}] = g[(T \ {x}) \ {y}] BY <1>12
<1> HIDE DEF B
<1> QED BY <1>2, <1>5, <1>10, <1>11, <1>13, <1>14

-----------------------------------------------------------------------------
(***************************************************************************)
(* Rules of calculation with SumOf.                                        *)
(***************************************************************************)

\* A function is the same as itself on its whole domain.
LEMMA OnlyAll ==
  ASSUME NEW S, NEW V, NEW f \in [S -> V]
  PROVE  Only(f, S) = f
BY DEF Only

\* A sum without summands is 0.
LEMMA SumEmpty ==
  ASSUME NEW f, DOMAIN f = {}
  PROVE  SumOf(f) = 0
<1>1. IsFiniteSet({}) BY FS_EmptySet
<1>2. PICK g \in [SUBSET {} -> Int] : IsFold(g, f, {})
      BY <1>1, FoldExists
<1> DEFINE k == CHOOSE e : IsFold(e, f, {})
<1>3. IsFold(k, f, {}) BY <1>2
<1>4. SumOf(f) = k[{}] BY SumIsFold
<1> HIDE DEF k
<1>5. k[{}] = 0
  <2> {} \in SUBSET {} OBVIOUS
  <2> QED BY <1>3 DEF IsFold
<1> QED BY <1>4, <1>5

\* The sum of the values at T, one of them put first.
LEMMA SumStep ==
  ASSUME NEW S, IsFiniteSet(S), NEW f \in [S -> Int], NEW T \in SUBSET S
  PROVE  /\ SumOf(Only(f, T)) \in Int
         /\ \A x \in T : SumOf(Only(f, T)) = f[x] + SumOf(Only(f, T \ {x}))
<1>1. PICK g : IsTable(g, f, S)
      BY SumFold
<1>2. \A x \in T : g[T] = f[x] + g[T \ {x}]
      BY <1>1, FoldStep
<1>3. \A x \in T : T \ {x} \in SUBSET S
      OBVIOUS
<1> QED BY <1>1, <1>2, <1>3 DEF IsTable

\* The same for the whole function.
LEMMA SumRemove ==
  ASSUME NEW S, IsFiniteSet(S), NEW f \in [S -> Int]
  PROVE  /\ SumOf(f) \in Int
         /\ \A x \in S : /\ SumOf(f) = f[x] + SumOf(Only(f, S \ {x}))
                         /\ SumOf(Only(f, S \ {x})) \in Int
<1>1. S \in SUBSET S /\ \A x \in S : S \ {x} \in SUBSET S
      OBVIOUS
<1>2. Only(f, S) = f BY OnlyAll
<1> QED BY <1>1, <1>2, SumStep

\* A sum of naturals is a natural, at least each of them, and 0 only if all
\* of them are.
LEMMA SumNat ==
  ASSUME NEW S, IsFiniteSet(S), NEW f \in [S -> Nat]
  PROVE  /\ SumOf(f) \in Nat
         /\ \A x \in S : f[x] <= SumOf(f)
         /\ SumOf(f) = 0 <=> \A x \in S : f[x] = 0
<1>0. f \in [S -> Int] OBVIOUS
<1> DEFINE sum(T) == SumOf(Only(f, T))
           ok(T) == /\ sum(T) \in Nat
                    /\ (\A x \in T : f[x] = 0) => sum(T) = 0
           B == {T \in SUBSET S : ~ok(T)}
<1>1. \A T \in SUBSET S : \A x \in T : sum(T) = f[x] + sum(T \ {x})
  <2> TAKE T \in SUBSET S
  <2> TAKE x \in T
  <2>1. SumOf(Only(f, T)) = f[x] + SumOf(Only(f, T \ {x}))
        BY <1>0, SumStep
  <2> QED BY <2>1
<1>2. B = {}
  <2> SUFFICES ASSUME B # {} PROVE FALSE OBVIOUS
  <2>1. PICK T \in B : \A U \in SUBSET T : U # T => U \notin B
    <3> B \subseteq SUBSET S OBVIOUS
    <3> HIDE DEF B
    <3> QED BY FiniteSetMinimal
  <2>2. CASE T = {}
    <3>1. DOMAIN Only(f, {}) = {} BY DEF Only
    <3>2. sum(T) = 0 BY <2>2, <3>1, SumEmpty
    <3> QED BY <3>2, <2>1
  <2>3. CASE T # {}
    <3>1. PICK x \in T : TRUE BY <2>3
    <3>2. T \in SUBSET S /\ x \in S /\ T \ {x} \in SUBSET T /\ T \ {x} # T /\ T \ {x} \in SUBSET S
          BY <2>1, <3>1
    <3>3. ok(T \ {x}) BY <2>1, <3>2
    <3>4. sum(T) = f[x] + sum(T \ {x}) BY <1>1, <3>1, <3>2
    <3>5. f[x] \in Nat BY <3>2
    <3> HIDE DEF sum
    <3>6. ok(T) BY <3>3, <3>4, <3>5
    <3> QED BY <3>6, <2>1
  <2> QED BY <2>2, <2>3
<1>3. Only(f, S) = f BY OnlyAll
<1>4. \A T \in SUBSET S : sum(T) \in Nat BY <1>2
<1>5. SumOf(f) \in Nat /\ ((\A x \in S : f[x] = 0) => SumOf(f) = 0)
  <2> S \in SUBSET S OBVIOUS
  <2>1. ok(S) BY <1>2
  <2> QED BY <2>1, <1>3
<1>6. \A x \in S : f[x] <= SumOf(f)
  <2> TAKE x \in S
  <2>1. sum(S) = f[x] + sum(S \ {x}) BY <1>1, S \in SUBSET S
  <2>2. sum(S \ {x}) \in Nat BY <1>4, S \ {x} \in SUBSET S
  <2>3. sum(S) = SumOf(f) BY <1>3
  <2>4. f[x] \in Nat OBVIOUS
  <2> HIDE DEF sum
  <2> QED BY <2>1, <2>2, <2>3, <2>4, <1>5
<1>7. SumOf(f) = 0 => \A x \in S : f[x] = 0
  <2> SUFFICES ASSUME SumOf(f) = 0, NEW x \in S PROVE f[x] = 0 OBVIOUS
  <2>1. f[x] <= 0 /\ f[x] \in Nat BY <1>6
  <2> QED BY <2>1
<1> QED BY <1>5, <1>6, <1>7

\* Sums add up, value by value.
LEMMA SumPlus ==
  ASSUME NEW S, IsFiniteSet(S), NEW f \in [S -> Int], NEW g \in [S -> Int]
  PROVE  SumOf([x \in S |-> f[x] + g[x]]) = SumOf(f) + SumOf(g)
<1> DEFINE h == [x \in S |-> f[x] + g[x]]
           ok(T) == SumOf(Only(h, T)) = SumOf(Only(f, T)) + SumOf(Only(g, T))
           B == {T \in SUBSET S : ~ok(T)}
<1>1. h \in [S -> Int] /\ \A x \in S : h[x] = f[x] + g[x]
      OBVIOUS
<1> HIDE DEF h
<1>2. B = {}
  <2> SUFFICES ASSUME B # {} PROVE FALSE OBVIOUS
  <2>1. PICK T \in B : \A U \in SUBSET T : U # T => U \notin B
    <3> B \subseteq SUBSET S OBVIOUS
    <3> HIDE DEF B
    <3> QED BY FiniteSetMinimal
  <2>2. CASE T = {}
    <3>1. DOMAIN Only(f, {}) = {} /\ DOMAIN Only(g, {}) = {} /\ DOMAIN Only(h, {}) = {}
          BY DEF Only
    <3>2. SumOf(Only(f, {})) = 0 /\ SumOf(Only(g, {})) = 0 /\ SumOf(Only(h, {})) = 0
          BY <3>1, SumEmpty
    <3> QED BY <3>2, <2>1, <2>2
  <2>3. CASE T # {}
    <3>1. PICK x \in T : TRUE BY <2>3
    <3>2. T \in SUBSET S /\ x \in S /\ T \ {x} \in SUBSET T /\ T \ {x} # T /\ T \ {x} \in SUBSET S
          BY <2>1, <3>1
    <3>3. ok(T \ {x}) BY <2>1, <3>2
    <3>4. SumOf(Only(f, T)) = f[x] + SumOf(Only(f, T \ {x})) /\ SumOf(Only(f, T \ {x})) \in Int
          BY <3>1, <3>2, SumStep
    <3>5. SumOf(Only(g, T)) = g[x] + SumOf(Only(g, T \ {x})) /\ SumOf(Only(g, T \ {x})) \in Int
          BY <3>1, <3>2, SumStep
    <3>6. SumOf(Only(h, T)) = h[x] + SumOf(Only(h, T \ {x}))
          BY <1>1, <3>1, <3>2, SumStep
    <3>7. f[x] \in Int /\ g[x] \in Int /\ h[x] = f[x] + g[x] BY <3>2, <1>1
    <3>8. ok(T)
      <4> HIDE DEF B
      <4> QED BY <3>3, <3>4, <3>5, <3>6, <3>7
    <3> QED BY <3>8, <2>1
  <2> QED BY <2>2, <2>3
<1>3. ok(S) BY <1>2, S \in SUBSET S
<1>4. Only(f, S) = f /\ Only(g, S) = g /\ Only(h, S) = h BY <1>1, OnlyAll
<1> QED BY <1>3, <1>4 DEF h

\* Terms that are 0 can be left out.
LEMMA SumSupport ==
  ASSUME NEW S, IsFiniteSet(S), NEW f \in [S -> Nat], NEW W \in SUBSET S,
         \A x \in S \ W : f[x] = 0
  PROVE  SumOf(f) = SumOf(Only(f, W))
<1>0. f \in [S -> Int] OBVIOUS
<1> DEFINE B == {T \in SUBSET S : W \subseteq T /\ SumOf(Only(f, T)) # SumOf(Only(f, W))}
<1>1. B = {}
  <2> SUFFICES ASSUME B # {} PROVE FALSE OBVIOUS
  <2>1. PICK T \in B : \A U \in SUBSET T : U # T => U \notin B
    <3> B \subseteq SUBSET S OBVIOUS
    <3> HIDE DEF B
    <3> QED BY FiniteSetMinimal
  <2>2. PICK x \in T : x \notin W
    <3> SUFFICES ASSUME \A x \in T : x \in W PROVE FALSE OBVIOUS
    <3>1. T = W BY <2>1
    <3> QED BY <2>1, <3>1
  <2>3. T \in SUBSET S /\ T \ {x} \in SUBSET T /\ T \ {x} # T /\ W \subseteq T \ {x} /\ T \ {x} \in SUBSET S
        BY <2>1, <2>2
  <2>4. SumOf(Only(f, T \ {x})) = SumOf(Only(f, W)) BY <2>1, <2>3
  <2>5. SumOf(Only(f, T)) = f[x] + SumOf(Only(f, T \ {x})) /\ SumOf(Only(f, T \ {x})) \in Int
        BY <1>0, <2>2, <2>3, SumStep
  <2>6. f[x] = 0 BY <2>2, <2>3
  <2> QED BY <2>1, <2>4, <2>5, <2>6
<1>2. SumOf(Only(f, S)) = SumOf(Only(f, W)) BY <1>1, S \in SUBSET S
<1> QED BY <1>2, OnlyAll

\* Sums over disjoint sets add up.
LEMMA SumUnion ==
  ASSUME NEW S, IsFiniteSet(S), NEW f \in [S -> Int],
         NEW A \in SUBSET S, NEW C \in SUBSET S, A \cap C = {}
  PROVE  SumOf(Only(f, A \cup C)) = SumOf(Only(f, A)) + SumOf(Only(f, C))
<1> DEFINE ok(T) == SumOf(Only(f, T \cup C)) = SumOf(Only(f, T)) + SumOf(Only(f, C))
           B == {T \in SUBSET A : ~ok(T)}
<1>0. SumOf(Only(f, C)) \in Int BY SumStep
<1>1. B = {}
  <2> SUFFICES ASSUME B # {} PROVE FALSE OBVIOUS
  <2>1. PICK T \in B : \A U \in SUBSET T : U # T => U \notin B
    <3> B \subseteq SUBSET S OBVIOUS
    <3> HIDE DEF B
    <3> QED BY FiniteSetMinimal
  <2>2. CASE T = {}
    <3>1. DOMAIN Only(f, {}) = {} BY DEF Only
    <3>2. SumOf(Only(f, {})) = 0 BY <3>1, SumEmpty
    <3>3. {} \cup C = C OBVIOUS
    <3>4. ok({}) BY <3>2, <3>3, <1>0
    <3> QED BY <3>4, <2>1, <2>2
  <2>3. CASE T # {}
    <3>1. PICK x \in T : TRUE BY <2>3
    <3>2. T \in SUBSET S /\ T \ {x} \in SUBSET T /\ T \ {x} # T /\ T \ {x} \in SUBSET A
          BY <2>1, <3>1
    <3>3. ok(T \ {x}) BY <2>1, <3>2
    <3>4. SumOf(Only(f, T)) = f[x] + SumOf(Only(f, T \ {x}))
          BY <3>1, <3>2, SumStep
    <3>5. T \cup C \in SUBSET S /\ x \in T \cup C BY <3>1, <3>2
    <3>6. SumOf(Only(f, T \cup C)) = f[x] + SumOf(Only(f, (T \cup C) \ {x}))
          BY <3>5, SumStep
    <3>7. (T \cup C) \ {x} = (T \ {x}) \cup C BY <2>1, <3>1
    <3>8. f[x] \in Int /\ SumOf(Only(f, T \ {x})) \in Int
      <4>1. x \in S /\ T \ {x} \in SUBSET S BY <3>1, <3>2
      <4> QED BY <4>1, SumStep
    <3>9. SumOf(Only(f, (T \cup C) \ {x})) = SumOf(Only(f, (T \ {x}) \cup C))
          BY <3>7
    <3>10. ok(T)
      <4> HIDE DEF B
      <4> QED BY <3>3, <3>4, <3>6, <3>8, <3>9, <1>0
    <3> QED BY <3>10, <2>1
  <2> QED BY <2>2, <2>3
<1>2. A \in SUBSET A OBVIOUS
<1> QED BY <1>1, <1>2

\* A sum does not depend on what its terms are indexed by.
LEMMA SumReindex ==
  ASSUME NEW S, IsFiniteSet(S), NEW R, IsFiniteSet(R),
         NEW f \in [S -> Int], NEW h \in [R -> Int], NEW b \in [S -> R],
         \A x, y \in S : b[x] = b[y] => x = y,
         \A z \in R : \E x \in S : z = b[x],
         \A x \in S : h[b[x]] = f[x]
  PROVE  SumOf(h) = SumOf(f)
<1> DEFINE im(T) == {b[x] : x \in T}
           ok(T) == SumOf(Only(h, im(T))) = SumOf(Only(f, T))
           B == {T \in SUBSET S : ~ok(T)}
<1>1. B = {}
  <2> SUFFICES ASSUME B # {} PROVE FALSE OBVIOUS
  <2>1. PICK T \in B : \A U \in SUBSET T : U # T => U \notin B
    <3> B \subseteq SUBSET S OBVIOUS
    <3> HIDE DEF B
    <3> QED BY FiniteSetMinimal
  <2>2. CASE T = {}
    <3>1. DOMAIN Only(f, {}) = {} /\ DOMAIN Only(h, {}) = {} BY DEF Only
    <3>2. SumOf(Only(f, {})) = 0 /\ SumOf(Only(h, {})) = 0 BY <3>1, SumEmpty
    <3>3. im({}) = {} OBVIOUS
    <3>4. ok({}) BY <3>2, <3>3
    <3> QED BY <3>4, <2>1, <2>2
  <2>3. CASE T # {}
    <3>1. PICK x \in T : TRUE BY <2>3
    <3>2. T \in SUBSET S /\ x \in S /\ T \ {x} \in SUBSET T /\ T \ {x} # T /\ T \ {x} \in SUBSET S
          BY <2>1, <3>1
    <3>3. ok(T \ {x}) BY <2>1, <3>2
    <3>4. SumOf(Only(f, T)) = f[x] + SumOf(Only(f, T \ {x}))
          BY <3>1, <3>2, SumStep
    <3>5. im(T) \in SUBSET R /\ b[x] \in im(T)
          BY <3>1, <3>2
    <3>6. im(T) \ {b[x]} = im(T \ {x})
          BY <3>1, <3>2
    <3>7. SumOf(Only(h, im(T))) = h[b[x]] + SumOf(Only(h, im(T) \ {b[x]}))
      <4> HIDE DEF im
      <4> QED BY <3>5, SumStep
    <3>8. h[b[x]] = f[x] BY <3>2
    <3>9. ok(T)
      <4> HIDE DEF B, im
      <4> QED BY <3>3, <3>4, <3>6, <3>7, <3>8
    <3> QED BY <3>9, <2>1
  <2> QED BY <2>2, <2>3
<1>2. ok(S) BY <1>1, S \in SUBSET S
<1>3. im(S) = R OBVIOUS
<1>4. Only(h, R) = h /\ Only(f, S) = f BY OnlyAll
<1> HIDE DEF im
<1> QED BY <1>2, <1>3, <1>4

\* Changing one value changes the sum by the difference.
LEMMA SumChange ==
  ASSUME NEW S, IsFiniteSet(S), NEW f \in [S -> Int], NEW g \in [S -> Int],
         NEW x \in S, \A y \in S \ {x} : f[y] = g[y]
  PROVE  SumOf(g) = SumOf(f) - f[x] + g[x]
<1>1. Only(f, S \ {x}) = Only(g, S \ {x}) BY DEF Only
<1>2. SumOf(f) = f[x] + SumOf(Only(f, S \ {x})) /\ SumOf(Only(f, S \ {x})) \in Int
      BY SumRemove
<1>3. SumOf(g) = g[x] + SumOf(Only(g, S \ {x}))
      BY SumRemove
<1>4. f[x] \in Int /\ g[x] \in Int OBVIOUS
<1> QED BY <1>1, <1>2, <1>3, <1>4

\* Two sums can be taken in either order.
LEMMA SumSwap ==
  ASSUME NEW S, IsFiniteSet(S), NEW R, IsFiniteSet(R), NEW f \in [S -> [R -> Int]]
  PROVE  /\ \A y \in R : SumOf([x \in S |-> f[x][y]]) \in Int
         /\ SumOf([x \in S |-> SumOf(f[x])])
              = SumOf([y \in R |-> SumOf([x \in S |-> f[x][y]])])
<1> DEFINE row == [x \in S |-> SumOf(f[x])]
           c(y) == [x \in S |-> f[x][y]]
           col(T) == [y \in R |-> SumOf(Only(c(y), T))]
           ok(T) == SumOf(Only(row, T)) = SumOf(col(T))
           B == {T \in SUBSET S : ~ok(T)}
<1>1. \A x \in S : f[x] \in [R -> Int]
      OBVIOUS
<1>2. ASSUME NEW x \in S PROVE SumOf(f[x]) \in Int
      BY <1>1, SumRemove
<1>3. row \in [S -> Int] /\ \A x \in S : row[x] = SumOf(f[x])
      BY <1>2
<1>4. \A y \in R : c(y) \in [S -> Int] /\ \A x \in S : c(y)[x] = f[x][y]
      OBVIOUS
<1> HIDE DEF row, c
<1>5. ASSUME NEW T \in SUBSET S, NEW y \in R
      PROVE  /\ SumOf(Only(c(y), T)) \in Int
             /\ \A x \in T : SumOf(Only(c(y), T)) = f[x][y] + SumOf(Only(c(y), T \ {x}))
      BY <1>4, SumStep
<1>6. \A T \in SUBSET S : col(T) \in [R -> Int]
      BY <1>5
<1>7. B = {}
  <2> SUFFICES ASSUME B # {} PROVE FALSE OBVIOUS
  <2>1. PICK T \in B : \A U \in SUBSET T : U # T => U \notin B
    <3> B \subseteq SUBSET S OBVIOUS
    <3> HIDE DEF B
    <3> QED BY FiniteSetMinimal
  <2>2. CASE T = {}
    <3>1. DOMAIN Only(row, {}) = {} /\ \A y \in R : DOMAIN Only(c(y), {}) = {}
          BY DEF Only
    <3>2. SumOf(Only(row, {})) = 0 /\ \A y \in R : SumOf(Only(c(y), {})) = 0
          BY <3>1, SumEmpty
    <3>3. col({}) \in [R -> Nat] /\ \A y \in R : col({})[y] = 0
          BY <3>2
    <3>4. SumOf(col({})) = 0
      <4> HIDE DEF col
      <4> QED BY <3>3, SumNat
    <3> QED BY <3>2, <3>4, <2>1, <2>2
  <2>3. CASE T # {}
    <3>1. PICK x \in T : TRUE BY <2>3
    <3> DEFINE W == T \ {x}
    <3>2. T \in SUBSET S /\ x \in S /\ W \in SUBSET T /\ W # T /\ W \in SUBSET S
          BY <2>1, <3>1
    <3>3. ok(W) BY <2>1, <3>2
    <3>4. SumOf(Only(row, T)) = row[x] + SumOf(Only(row, W))
          BY <1>3, <3>1, <3>2, SumStep
    <3> HIDE DEF B
    <3>5. \A y \in R : col(T)[y] = f[x][y] + col(W)[y]
          BY <1>5, <3>1, <3>2
    <3>6. col(W) \in [R -> Int] /\ f[x] \in [R -> Int] /\ col(T) \in [R -> Int]
          BY <1>1, <1>6, <3>2
    <3>7. col(T) = [y \in R |-> f[x][y] + col(W)[y]]
          BY <3>5
    <3> HIDE DEF col, W
    <3>8. SumOf([y \in R |-> f[x][y] + col(W)[y]]) = SumOf(f[x]) + SumOf(col(W))
          BY <3>6, SumPlus
    <3>9. ok(T)
          BY <1>3, <3>2, <3>3, <3>4, <3>7, <3>8
    <3> QED BY <3>9, <2>1 DEF B
  <2> QED BY <2>2, <2>3
<1>8. ok(S) BY <1>7, S \in SUBSET S
<1>9. Only(row, S) = row /\ \A y \in R : Only(c(y), S) = c(y)
      BY <1>3, <1>4, OnlyAll
<1>10. \A y \in R : SumOf(c(y)) \in Int
      BY <1>5, <1>9, S \in SUBSET S
<1>11. col(S) = [y \in R |-> SumOf(c(y))]
      BY <1>9
<1> QED BY <1>8, <1>9, <1>10, <1>11 DEF row, c
=============================================================================
