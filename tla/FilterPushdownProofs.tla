------------------------ MODULE FilterPushdownProofs ------------------------
(***************************************************************************)
(* Theorems about FilterPushdown, for every table, every set of expressions*)
(* of any height and every list of filters.                                *)
(***************************************************************************)
EXTENDS FilterPushdown, WellFoundedInduction, TLAPS

-----------------------------------------------------------------------------
(***************************************************************************)
(* Numbers, and recursion along a height.                                  *)
(***************************************************************************)

\* A non-empty set of natural numbers has a least one.
LEMMA LeastNat ==
  ASSUME NEW T \in SUBSET Nat, T # {}
  PROVE  \E x \in T : \A y \in T : x <= y
<1>1. \E x \in T : \A y \in T : ~(<<y, x>> \in OpToRel(<, Nat))
      BY NatLessThanWellFounded, WFMin
<1>2. PICK x \in T : \A y \in T : ~(<<y, x>> \in OpToRel(<, Nat))
      BY <1>1
<1>3. ASSUME NEW y \in T PROVE x <= y
  <2>1. x \in Nat /\ y \in Nat
        OBVIOUS
  <2>2. y < x => <<y, x>> \in OpToRel(<, Nat)
        BY <2>1 DEF OpToRel
  <2>3. ~(y < x)
        BY <1>2, <2>2, Zenon
  <2>. QED BY <2>1, <2>3
<1>. QED BY <1>3

\* Min picks a member.
LEMMA MinIn ==
  ASSUME NEW T \in SUBSET Nat, T # {}
  PROVE  Min(T) \in T
BY LeastNat DEF Min

\* Max picks a member of a bounded set.
LEMMA MaxIn ==
  ASSUME NEW n \in Nat, NEW T \in SUBSET (1..n), T # {}
  PROVE  Max(T) \in T
<1>. DEFINE D == {n - x : x \in T}
<1>0. \A x \in T : x \in Int /\ n - x \in Nat
      OBVIOUS
<1>1. D \in SUBSET Nat /\ D # {}
      BY <1>0
<1>2. PICK d \in D : \A y \in D : d <= y
      BY <1>1, LeastNat
<1>3. PICK m \in T : d = n - m
      BY <1>2
<1>4. \A y \in T : m >= y
  <2>1. SUFFICES ASSUME NEW y \in T PROVE m >= y
        OBVIOUS
  <2>2. n - m <= n - y
        BY <1>2, <1>3
  <2>3. m \in Int /\ y \in Int
        OBVIOUS
  <2>. QED BY <2>2, <2>3
<1>. QED BY <1>4 DEF Max

\* What holds for every expression whose children have it holds for all: S is
\* the set of expressions that have it.
LEMMA HeightInduction ==
  ASSUME NEW S,
         \A e \in Exprs : (\A d \in Exprs : Height[d] < Height[e] => d \in S) => e \in S
  PROVE  Exprs \subseteq S
<1>. DEFINE B == {Height[e] : e \in Exprs \ S}
<1>1. SUFFICES ASSUME Exprs \ S # {} PROVE FALSE
      OBVIOUS
<1>2. B \in SUBSET Nat /\ B # {}
      BY <1>1, ExprsAssumption
<1>3. PICK h \in B : \A y \in B : h <= y
      BY <1>2, LeastNat
<1>4. PICK e \in Exprs \ S : h = Height[e]
      BY <1>3
<1>5. ASSUME NEW d \in Exprs, Height[d] < Height[e] PROVE d \in S
  <2>1. Height[d] \in Nat /\ Height[e] \in Nat
        BY ExprsAssumption
  <2>2. d \notin S => Height[d] \in B
        OBVIOUS
  <2>. QED BY <1>3, <1>4, <1>5, <2>1, <2>2
<1>. QED BY <1>4, <1>5

\* A step function gives the value for an expression from those for lower ones.
IsStep(F, V) ==
  /\ F \in [Exprs -> [[Exprs -> V] -> V]]
  /\ \A e \in Exprs : \A f, g \in [Exprs -> V] :
       (\A d \in Exprs : Height[d] < Height[e] => f[d] = g[d]) => F[e][f] = F[e][g]

\* f is as F says for the expressions below height n.
Upto(f, F, n) == \A e \in Exprs : Height[e] < n => f[e] = F[e][f]

\* Two such functions agree below that height.
LEMMA UptoUnique ==
  ASSUME NEW V, NEW F, IsStep(F, V), NEW n \in Nat,
         NEW f \in [Exprs -> V], NEW g \in [Exprs -> V], Upto(f, F, n), Upto(g, F, n)
  PROVE  \A e \in Exprs : Height[e] < n => f[e] = g[e]
<1>. DEFINE S == {e \in Exprs : Height[e] < n => f[e] = g[e]}
<1>1. ASSUME NEW e \in Exprs, \A d \in Exprs : Height[d] < Height[e] => d \in S
      PROVE  e \in S
  <2>1. SUFFICES ASSUME Height[e] < n PROVE f[e] = g[e]
        OBVIOUS
  <2>2. ASSUME NEW d \in Exprs, Height[d] < Height[e] PROVE f[d] = g[d]
    <3>1. Height[d] < n
          BY <2>1, <2>2, ExprsAssumption
    <3>. QED BY <1>1, <2>2, <3>1
  <2>3. F[e][f] = F[e][g]
        BY <2>2 DEF IsStep
  <2>. QED BY <2>1, <2>3 DEF Upto
<1>. HIDE DEF S
<1>2. Exprs \subseteq S
      BY <1>1, HeightInduction
<1>. QED BY <1>2 DEF S

\* There is one for every height.
LEMMA UptoExists ==
  ASSUME NEW V, V # {}, NEW F, IsStep(F, V)
  PROVE  \A n \in Nat : \E f \in [Exprs -> V] : Upto(f, F, n)
<1>. DEFINE B == {n \in Nat : ~\E f \in [Exprs -> V] : Upto(f, F, n)}
<1>1. SUFFICES ASSUME B # {} PROVE FALSE
      OBVIOUS
<1>2. PICK n \in B : \A y \in B : n <= y
      BY <1>1, LeastNat
<1>3. CASE n = 0
  <2>1. PICK v \in V : TRUE
        OBVIOUS
  <2>2. [e \in Exprs |-> v] \in [Exprs -> V]
        OBVIOUS
  <2>3. Upto([e \in Exprs |-> v], F, n)
        BY <1>3, ExprsAssumption DEF Upto
  <2>. QED BY <2>2, <2>3
<1>4. CASE n # 0
  <2>1. n \in Nat /\ n - 1 \in Nat /\ ~(n <= n - 1)
        BY <1>4
  <2>2. PICK f \in [Exprs -> V] : Upto(f, F, n - 1)
        BY <1>2, <2>1
  <2>. DEFINE g == [e \in Exprs |-> F[e][f]]
  <2>3. g \in [Exprs -> V]
        BY DEF IsStep
  <2>4. ASSUME NEW e \in Exprs, Height[e] < n PROVE g[e] = F[e][g]
    <3>1. ASSUME NEW d \in Exprs, Height[d] < Height[e] PROVE f[d] = g[d]
      <4>1. Height[d] < n - 1
            BY <2>1, <2>4, <3>1, ExprsAssumption
      <4>. QED BY <2>2, <4>1 DEF Upto
    <3>2. F[e][f] = F[e][g]
          BY <2>3, <3>1 DEF IsStep
    <3>. QED BY <3>2
  <2>5. Upto(g, F, n)
        BY <2>4 DEF Upto
  <2>. QED BY <2>3, <2>5
<1>. QED BY <1>3, <1>4

Solves(f, F) == f = [e \in Exprs |-> F[e][f]]

\* A recursive definition along the height has a solution, with values of
\* the type.
LEMMA RecursionExists ==
  ASSUME NEW V, V # {}, NEW F, IsStep(F, V)
  PROVE  \E f \in [Exprs -> V] : Solves(f, F)
<1>. DEFINE A(n) == CHOOSE f \in [Exprs -> V] : Upto(f, F, n)
            g == [e \in Exprs |-> A(Height[e] + 1)[e]]
<1>1. \A n \in Nat : A(n) \in [Exprs -> V] /\ Upto(A(n), F, n)
      BY UptoExists
<1>. HIDE DEF A
<1>2. \A e \in Exprs : Height[e] \in Nat /\ Height[e] + 1 \in Nat
      BY ExprsAssumption
<1>3. g \in [Exprs -> V]
      BY <1>1, <1>2
<1>4. ASSUME NEW e \in Exprs PROVE g[e] = F[e][g]
  <2>. DEFINE a == A(Height[e] + 1)
  <2>1. a \in [Exprs -> V] /\ Upto(a, F, Height[e] + 1)
        BY <1>1, <1>2
  <2>2. ASSUME NEW d \in Exprs, Height[d] < Height[e] PROVE a[d] = g[d]
    <3>. DEFINE b == A(Height[d] + 1)
    <3>1. b \in [Exprs -> V] /\ Upto(b, F, Height[d] + 1)
          BY <1>1, <1>2
    <3>2. Upto(a, F, Height[d] + 1)
          BY <1>2, <2>1, <2>2 DEF Upto
    <3>. HIDE DEF a, b
    <3>3. a[d] = b[d]
          BY <1>2, <2>1, <3>1, <3>2, UptoUnique
    <3>. QED BY <3>3 DEF b
  <2>3. a[e] = F[e][a]
        BY <1>2, <2>1 DEF Upto
  <2>. HIDE DEF a
  <2>4. F[e][a] = F[e][g]
        BY <1>3, <2>1, <2>2 DEF IsStep
  <2>5. g[e] = a[e]
        BY DEF a
  <2>. QED BY <2>3, <2>4, <2>5
<1>5. Solves(g, F)
      BY <1>3, <1>4 DEF Solves
<1>. QED BY <1>3, <1>5

-----------------------------------------------------------------------------
(***************************************************************************)
(* Expressions, and what they evaluate to.                                 *)
(***************************************************************************)
\* Every expression is of one class.
LEMMA ExprIs ==
  ASSUME NEW e \in Exprs
  PROVE  \/ e \in Comparison /\ e.class = "comparison"
         \/ e \in Between /\ e.class = "between"
         \/ e \in Function /\ e.class = "function"
         \/ e \in NullTest /\ e.class = "operator" /\ e.type \in {"IS_NULL", "IS_NOT_NULL"}
         \/ e \in InList /\ e.class = "operator" /\ e.type \in {"IN", "NOT_IN"}
         \/ e \in Negation /\ e.class = "operator" /\ e.type = "NOT"
         \/ e \in Conjunction /\ e.class = "conjunction" /\ e.type \in {"AND", "OR"}
<1>1. e \in Comparison => e.class = "comparison"
      BY DEF Comparison
<1>2. e \in Between => e.class = "between"
      BY DEF Between
<1>3. e \in Function => e.class = "function"
      BY DEF Function
<1>4. e \in NullTest => e.class = "operator" /\ e.type \in {"IS_NULL", "IS_NOT_NULL"}
      BY DEF NullTest
<1>5. e \in InList => e.class = "operator" /\ e.type \in {"IN", "NOT_IN"}
      BY DEF InList
<1>6. e \in Negation => e.class = "operator" /\ e.type = "NOT"
      BY DEF Negation
<1>7. e \in Conjunction => e.class = "conjunction" /\ e.type \in {"AND", "OR"}
      BY DEF Conjunction
<1>. QED BY <1>1, <1>2, <1>3, <1>4, <1>5, <1>6, <1>7, ExprsAssumption

\* The children of a negation or a conjunction are lower expressions.
LEMMA ChildrenAre ==
  ASSUME NEW e \in Exprs, IsCompound(e)
  PROVE  /\ e \in Negation \cup Conjunction
         /\ 1 \in DOMAIN e.children
         /\ DOMAIN e.children = 1..Len(e.children) /\ Len(e.children) \in Nat
         /\ \A i \in DOMAIN e.children :
              e.children[i] \in Exprs /\ Height[e.children[i]] < Height[e]
<1>1. e \in Negation \cup Conjunction
      BY ExprIs, SMT DEF IsCompound, IsNot
<1>2. e.children \in Seq(Exprs) /\ Len(e.children) >= 1
  <2>1. CASE e \in Negation
        BY <2>1 DEF Negation
  <2>2. CASE e \in Conjunction
        BY <2>2 DEF Conjunction
  <2>. QED BY <1>1, <2>1, <2>2
<1>. QED BY <1>1, <1>2, ExprsAssumption

Truths == {"T", "F", "N"}

\* The truth of an expression depends on its children only.
LEMMA EvaluateDepends ==
  ASSUME NEW e \in Exprs, NEW f, NEW g,
         \A d \in Exprs : Height[d] < Height[e] => f[d] = g[d]
  PROVE  Evaluate(e, f) = Evaluate(e, g)
<1>1. CASE IsNot(e)
  <2>1. f[e.children[1]] = g[e.children[1]]
        BY <1>1, ChildrenAre DEF IsCompound
  <2>. QED BY <2>1, <1>1 DEF Evaluate, IsNot
<1>2. CASE e.class = "conjunction"
  <2>1. \A i \in DOMAIN e.children : f[e.children[i]] = g[e.children[i]]
        BY <1>2, ChildrenAre DEF IsCompound
  <2>2. \A r \in Rows : {f[e.children[i]][r] : i \in DOMAIN e.children}
                          = {g[e.children[i]][r] : i \in DOMAIN e.children}
        BY <2>1
  <2>. QED BY <1>2, <2>2 DEF Evaluate, IsNot
<1>3. CASE ~IsNot(e) /\ e.class # "conjunction"
  <2>1. CASE e.class = "comparison"
        BY <2>1 DEF Evaluate
  <2>2. CASE e.class = "between"
        BY <2>2 DEF Evaluate
  <2>3. CASE e.class = "function"
        BY <2>3 DEF Evaluate
  <2>4. CASE e.class = "operator"
        BY <1>3, <2>4 DEF Evaluate
  <2>. QED BY <1>3, <2>1, <2>2, <2>3, <2>4, ExprIs
<1>. QED BY <1>1, <1>2, <1>3

\* The three-valued operators yield truth values.
LEMMA TruthTypes ==
  /\ \A b \in BOOLEAN : Truth(b) \in Truths
  /\ \A a, op, b : CompareTruth(a, op, b) \in Truths
  /\ \A ts : AndTruth(ts) \in Truths /\ OrTruth(ts) \in Truths
  /\ \A t : NotTruth(t) \in Truths
BY DEF Truth, CompareTruth, AndTruth, OrTruth, NotTruth, Truths

\* The comparisons that Paimon has are unknown for NULL.
LEMMA CompareTruthIs ==
  ASSUME NEW op \in Comparator, NEW a, NEW b
  PROVE  CompareTruth(a, op, b) =
           IF a = Null \/ b = Null THEN "N" ELSE Truth(Compares(a, op, b))
<1>1. op \notin NullSafe
      BY DEF Comparator, NullSafe
<1>. QED BY <1>1 DEF CompareTruth

\* An equality in particular.
LEMMA EqualTruthIs ==
  ASSUME NEW a, NEW b
  PROVE  CompareTruth(a, "EQUAL", b) = IF a = Null \/ b = Null THEN "N" ELSE Truth(a = b)
<1>1. "EQUAL" \in Comparator
      BY DEF Comparator
<1>2. Compares(a, "EQUAL", b) = (a = b)
      BY DEF Compares
<1>. QED BY <1>1, <1>2, CompareTruthIs

\* So does an expression.
LEMMA EvaluateType ==
  ASSUME NEW e \in Exprs, NEW f
  PROVE  Evaluate(e, f) \in [Rows -> Truths]
<1>1. SUFFICES ASSUME NEW r \in Rows PROVE Evaluate(e, f)[r] \in Truths
      BY DEF Evaluate
<1>2. CASE e.class = "comparison"
      BY <1>2, TruthTypes DEF Evaluate
<1>3. CASE e.class = "between"
      BY <1>3, TruthTypes DEF Evaluate, BetweenTruth
<1>4. CASE e.class = "function"
      BY <1>4, TruthTypes DEF Evaluate, FunctionTruth, Truths, Truth
<1>5. CASE e.class = "operator" /\ ~IsNot(e)
  <2>1. OperatorTruth(e, r) \in Truths
        BY <1>5, ExprIs, TruthTypes DEF OperatorTruth, InTruth, IsNot, Truths, Truth
  <2>2. Evaluate(e, f)[r] = OperatorTruth(e, r)
        BY <1>5 DEF Evaluate
  <2>. QED BY <2>1, <2>2
<1>6. CASE IsNot(e)
      BY <1>6, TruthTypes DEF Evaluate, IsNot
<1>7. CASE e.class = "conjunction"
      BY <1>7, TruthTypes DEF Evaluate, IsNot
<1>. QED BY <1>2, <1>3, <1>4, <1>5, <1>6, <1>7, ExprIs

\* Eval is the evaluation along the expression.
LEMMA EvalIs ==
  /\ Eval \in [Exprs -> [Rows -> Truths]]
  /\ \A e \in Exprs : Eval[e] = Evaluate(e, Eval)
<1>. DEFINE V == [Rows -> Truths]
            F == [e \in Exprs |-> [f \in [Exprs -> V] |-> Evaluate(e, f)]]
<1>1. V # {}
  <2>1. [r \in Rows |-> "T"] \in V
        BY DEF Truths
  <2>. QED BY <2>1
<1>2. IsStep(F, V)
  <2>. HIDE DEF V
  <2>1. F \in [Exprs -> [[Exprs -> V] -> V]]
        BY EvaluateType DEF V
  <2>2. \A e \in Exprs : \A f, g \in [Exprs -> V] :
          (\A d \in Exprs : Height[d] < Height[e] => f[d] = g[d]) => F[e][f] = F[e][g]
        BY EvaluateDepends
  <2>. QED BY <2>1, <2>2 DEF IsStep
<1>3. \E f \in [Exprs -> V] : Solves(f, F)
  <2>. HIDE DEF V, F
  <2>. QED BY <1>1, <1>2, RecursionExists
<1>4. PICK f \in [Exprs -> V] : Solves(f, F)
      BY <1>3
<1>5. f = [e \in Exprs |-> Evaluate(e, f)]
      BY <1>4 DEF Solves
<1>6. Eval = [e \in Exprs |-> Evaluate(e, Eval)]
      BY <1>5 DEF Eval
<1>. QED BY <1>6, EvaluateType

-----------------------------------------------------------------------------
(***************************************************************************)
(* Predicates, and what expressions are converted to.                      *)
(***************************************************************************)
Results ==
  [st : {"predicate", "nullptr", "IOException"}, accepts : SUBSET Rows,
   rejects : SUBSET Rows, negatable : BOOLEAN]

\* The results by their fields.
LEMMA ResultIs ==
  ASSUME NEW st, NEW a, NEW b, NEW n
  PROVE  LET p == Result(st, a, b, n)
         IN  p.st = st /\ p.accepts = a /\ p.rejects = b /\ p.negatable = n
BY DEF Result

\* A result that is no predicate is one of these.
LEMMA NoPredicateIs ==
  /\ NoPredicate \in Results /\ Thrown \in Results
  /\ ~IsPredicate(NoPredicate) /\ ~IsPredicate(Thrown) /\ NoPredicate # Thrown
<1>1. NoPredicate.st = "nullptr" /\ Thrown.st = "IOException"
      BY DEF NoPredicate, Thrown, Result
<1>2. NoPredicate \in Results /\ Thrown \in Results
      BY DEF NoPredicate, Thrown, Result, Results
<1>. QED BY <1>1, <1>2 DEF IsPredicate

\* Leaves and combinations are predicates.
LEMMA PredicateTypes ==
  /\ \A fn, c, ks : Leaf(fn, c, ks) \in Results /\ IsPredicate(Leaf(fn, c, ks))
  /\ \A ps : And(ps) \in Results /\ IsPredicate(And(ps))
  /\ \A ps : Or(ps) \in Results /\ IsPredicate(Or(ps))
  /\ \A p \in Results : Not(p) \in Results /\ Not(p) # Thrown
<1>0. ASSUME NEW a \in SUBSET Rows, NEW b \in SUBSET Rows, NEW n \in BOOLEAN
      PROVE  /\ Result("predicate", a, b, n) \in Results
             /\ IsPredicate(Result("predicate", a, b, n))
      BY DEF Result, Results, IsPredicate
<1>1. \A fn, c, ks : Leaf(fn, c, ks) \in Results /\ IsPredicate(Leaf(fn, c, ks))
      BY <1>0 DEF Leaf
<1>2. \A ps : And(ps) \in Results /\ IsPredicate(And(ps))
  <2>1. ASSUME NEW ps PROVE And(ps) \in Results /\ IsPredicate(And(ps))
    <3>1. (\A p \in ps : p.negatable) \in BOOLEAN
          OBVIOUS
    <3>2. /\ {r \in Rows : \A p \in ps : r \in p.accepts} \in SUBSET Rows
          /\ {r \in Rows : \E p \in ps : r \in p.rejects} \in SUBSET Rows
          OBVIOUS
    <3>. QED BY <1>0, <3>1, <3>2, Zenon DEF And
  <2>. QED BY <2>1
<1>3. \A ps : Or(ps) \in Results /\ IsPredicate(Or(ps))
  <2>1. ASSUME NEW ps PROVE Or(ps) \in Results /\ IsPredicate(Or(ps))
    <3>1. (\A p \in ps : p.negatable) \in BOOLEAN
          OBVIOUS
    <3>2. /\ {r \in Rows : \E p \in ps : r \in p.accepts} \in SUBSET Rows
          /\ {r \in Rows : \A p \in ps : r \in p.rejects} \in SUBSET Rows
          OBVIOUS
    <3>. QED BY <1>0, <3>1, <3>2, Zenon DEF Or
  <2>. QED BY <2>1
<1>4. ASSUME NEW p \in Results PROVE Not(p) \in Results /\ Not(p) # Thrown
  <2>1. p.accepts \in SUBSET Rows /\ p.rejects \in SUBSET Rows
        BY DEF Results
  <2>2. Result("predicate", p.rejects, p.accepts, TRUE) \in Results
        BY <1>0, <2>1
  <2>3. Result("predicate", p.rejects, p.accepts, TRUE) # Thrown
        BY DEF Result, Thrown
  <2>. QED BY <2>2, <2>3, NoPredicateIs DEF Not
<1>. QED BY <1>1, <1>2, <1>3, <1>4

\* Conversion of literals only ever withdraws a predicate.
LEMMA WithLiteralsIs ==
  ASSUME NEW ks, NEW c, NEW p \in Results, IsPredicate(p)
  PROVE  /\ WithLiterals(ks, c, p) \in Results
         /\ IsPredicate(WithLiterals(ks, c, p)) =>
              WithLiterals(ks, c, p) = p /\ \A k \in ks : k # Null
         /\ WithLiterals(ks, c, p) = Thrown => \E k \in ks : k = Null
BY NoPredicateIs DEF WithLiterals, ConvertLiteral

\* What a conjunction is converted to.
LEMMA CombineIs ==
  ASSUME NEW type \in {"AND", "OR"}, NEW n \in Nat, NEW ps \in [1..n -> Results]
  PROVE  LET good == {i \in 1..n : IsPredicate(ps[i])}
             conv == {ps[i] : i \in good}
         IN  /\ Combine(type, ps) \in Results
             /\ Combine(type, ps) = Thrown => \E i \in 1..n : ps[i] = Thrown
             /\ IsPredicate(Combine(type, ps)) =>
                  \/ type = "AND" /\ Combine(type, ps) = And(conv)
                  \/ type = "OR" /\ Combine(type, ps) = Or(conv) /\ good = 1..n
             /\ ~IsPredicate(Combine("AND", ps)) /\ Combine("AND", ps) # Thrown =>
                  Combine("AND", ps) = NoPredicate
<1>. DEFINE good == {i \in 1..n : IsPredicate(ps[i])}
            conv == {ps[i] : i \in good}
            bad  == 1..n \ good
<1>0. DOMAIN ps = 1..n
      OBVIOUS
<1>1. bad \subseteq Nat
      OBVIOUS
<1>2. bad # {} => Min(bad) \in bad
      BY <1>1, MinIn
<1>3. /\ And(conv) \in Results /\ IsPredicate(And(conv))
      /\ Or(conv) \in Results /\ IsPredicate(Or(conv))
      BY PredicateTypes
<1>4. Combine(type, ps) =
        IF type = "OR" /\ bad # {} THEN ps[Min(bad)]
        ELSE IF \E i \in bad : ps[i] = Thrown THEN Thrown
        ELSE IF good = {} THEN NoPredicate
        ELSE IF type = "AND" THEN And(conv) ELSE Or(conv)
      BY <1>0, Zenon DEF Combine
<1>5. Combine("AND", ps) =
        IF \E i \in bad : ps[i] = Thrown THEN Thrown
        ELSE IF good = {} THEN NoPredicate ELSE And(conv)
      BY <1>0 DEF Combine
<1>6. \A i \in bad : i \in 1..n /\ ~IsPredicate(ps[i]) /\ ps[i] \in Results
      OBVIOUS
<1>. HIDE DEF bad, conv
<1>7. bad = {} => good = 1..n
      BY DEF bad
<1>. HIDE DEF good
<1>8. Combine(type, ps) \in Results
      BY <1>2, <1>3, <1>4, <1>6, NoPredicateIs
<1>9. Combine(type, ps) = Thrown => \E i \in 1..n : ps[i] = Thrown
      BY <1>2, <1>3, <1>4, <1>6, NoPredicateIs
<1>10. IsPredicate(Combine(type, ps)) =>
         \/ type = "AND" /\ Combine(type, ps) = And(conv)
         \/ type = "OR" /\ Combine(type, ps) = Or(conv) /\ good = 1..n
  <2>1. CASE type = "AND"
        BY <1>5, <2>1, NoPredicateIs
  <2>2. CASE type = "OR"
        BY <1>2, <1>4, <1>6, <1>7, <2>2, NoPredicateIs
  <2>. QED BY <2>1, <2>2
<1>11. ~IsPredicate(Combine("AND", ps)) /\ Combine("AND", ps) # Thrown =>
         Combine("AND", ps) = NoPredicate
      BY <1>3, <1>5
<1>. QED BY <1>8, <1>9, <1>10, <1>11 DEF good, conv

\* What a leaf expression is converted to is a result.
LEMMA ConvertLeafType ==
  ASSUME NEW e \in Exprs, ~IsCompound(e), NEW f
  PROVE  TryConvert(e, f) \in Results
<1>1. CASE e.class = "comparison"
  <2>1. TryConvertComparison(e) \in Results
        BY WithLiteralsIs, PredicateTypes, NoPredicateIs DEF TryConvertComparison
  <2>. QED BY <1>1, <2>1 DEF TryConvert
<1>2. CASE e.class = "between"
  <2>1. TryConvertBetween(e) \in Results
        BY WithLiteralsIs, PredicateTypes, NoPredicateIs DEF TryConvertBetween
  <2>. QED BY <1>2, <2>1 DEF TryConvert
<1>3. CASE e.class = "function"
  <2>1. TryConvertFunction(e) \in Results
        BY WithLiteralsIs, PredicateTypes, NoPredicateIs DEF TryConvertFunction
  <2>. QED BY <1>3, <2>1 DEF TryConvert
<1>4. CASE e.class = "operator"
  <2>1. ConvertIn(e) \in Results
        BY PredicateTypes, NoPredicateIs DEF ConvertIn
  <2>2. e.type # "NOT"
        BY <1>4 DEF IsCompound, IsNot
  <2>3. TryConvertOperator(e, f) \in Results
        BY <2>1, <2>2, PredicateTypes, NoPredicateIs DEF TryConvertOperator
  <2>. QED BY <1>4, <2>3 DEF TryConvert
<1>. QED BY <1>1, <1>2, <1>3, <1>4, ExprIs DEF IsCompound, IsNot

\* The conversion of a negation, and of a conjunction.
LEMMA ConvertCompound ==
  ASSUME NEW e \in Exprs, NEW f
  PROVE  /\ IsNot(e) => TryConvert(e, f) =
              IF IsPredicate(f[e.children[1]]) THEN Not(f[e.children[1]])
                                               ELSE f[e.children[1]]
         /\ e.class = "conjunction" => TryConvert(e, f) =
              Combine(e.type, [i \in DOMAIN e.children |-> f[e.children[i]]])
BY DEF TryConvert, TryConvertOperator, IsNot

\* The conversion depends on the children only.
LEMMA ConvertDepends ==
  ASSUME NEW e \in Exprs, NEW f, NEW g,
         \A d \in Exprs : Height[d] < Height[e] => f[d] = g[d]
  PROVE  TryConvert(e, f) = TryConvert(e, g)
<1>1. CASE IsNot(e)
  <2>1. f[e.children[1]] = g[e.children[1]]
        BY <1>1, ChildrenAre DEF IsCompound
  <2>2. TryConvertOperator(e, f) = TryConvertOperator(e, g)
        BY <1>1, <2>1 DEF TryConvertOperator, IsNot
  <2>. QED BY <1>1, <2>2 DEF TryConvert, IsNot
<1>2. CASE e.class = "conjunction"
  <2>1. \A i \in DOMAIN e.children : f[e.children[i]] = g[e.children[i]]
        BY <1>2, ChildrenAre DEF IsCompound
  <2>2. [i \in DOMAIN e.children |-> f[e.children[i]]]
          = [i \in DOMAIN e.children |-> g[e.children[i]]]
        BY <2>1
  <2>. QED BY <1>2, <2>2 DEF TryConvert
<1>3. CASE ~IsNot(e) /\ e.class # "conjunction"
  <2>1. CASE e.class = "operator"
    <3>1. e.type # "NOT"
          BY <1>3, <2>1 DEF IsNot
    <3>2. TryConvertOperator(e, f) = TryConvertOperator(e, g)
          BY <3>1 DEF TryConvertOperator
    <3>. QED BY <2>1, <3>2 DEF TryConvert
  <2>2. CASE e.class = "comparison"
        BY <2>2 DEF TryConvert
  <2>3. CASE e.class = "between"
        BY <2>3 DEF TryConvert
  <2>4. CASE e.class = "function"
        BY <2>4 DEF TryConvert
  <2>. QED BY <1>3, <2>1, <2>2, <2>3, <2>4, ExprIs
<1>. QED BY <1>1, <1>2, <1>3

\* The conversion is a result if those of the children are.
LEMMA ConvertType ==
  ASSUME NEW e \in Exprs, NEW f,
         \A d \in Exprs : Height[d] < Height[e] => f[d] \in Results
  PROVE  TryConvert(e, f) \in Results
<1>1. CASE IsNot(e)
  <2>1. f[e.children[1]] \in Results
        BY <1>1, ChildrenAre DEF IsCompound
  <2>. QED BY <1>1, <2>1, ConvertCompound, PredicateTypes
<1>2. CASE e.class = "conjunction"
  <2>. DEFINE ps == [i \in DOMAIN e.children |-> f[e.children[i]]]
  <2>1. ps \in [1..Len(e.children) -> Results] /\ Len(e.children) \in Nat
        BY <1>2, ChildrenAre DEF IsCompound
  <2>2. e.type \in {"AND", "OR"}
        BY <1>2, ExprIs
  <2>3. TryConvert(e, f) = Combine(e.type, ps)
        BY <1>2, ConvertCompound
  <2>. HIDE DEF ps
  <2>. QED BY <2>1, <2>2, <2>3, CombineIs
<1>. QED BY <1>1, <1>2, ConvertLeafType DEF IsCompound

\* TryConvertExpression is the conversion along the expression.
LEMMA TryConvertExpressionIs ==
  /\ TryConvertExpression \in [Exprs -> Results]
  /\ \A e \in Exprs : TryConvertExpression[e] = TryConvert(e, TryConvertExpression)
<1>. DEFINE F == [e \in Exprs |-> [f \in [Exprs -> Results] |-> TryConvert(e, f)]]
<1>1. IsStep(F, Results)
  <2>1. F \in [Exprs -> [[Exprs -> Results] -> Results]]
    <3>1. ASSUME NEW e \in Exprs, NEW f \in [Exprs -> Results]
          PROVE  TryConvert(e, f) \in Results
          BY ConvertType
    <3>. QED BY <3>1
  <2>2. \A e \in Exprs : \A f, g \in [Exprs -> Results] :
          (\A d \in Exprs : Height[d] < Height[e] => f[d] = g[d]) => F[e][f] = F[e][g]
        BY ConvertDepends
  <2>. QED BY <2>1, <2>2 DEF IsStep
<1>2. \E f \in [Exprs -> Results] : Solves(f, F)
  <2>. HIDE DEF F
  <2>. QED BY <1>1, NoPredicateIs, RecursionExists
<1>3. PICK f \in [Exprs -> Results] : Solves(f, F)
      BY <1>2
<1>4. f = [e \in Exprs |-> TryConvert(e, f)]
      BY <1>3 DEF Solves
<1>5. TryConvertExpression = [e \in Exprs |-> TryConvert(e, TryConvertExpression)]
      BY <1>4 DEF TryConvertExpression
<1>. DEFINE S == {e \in Exprs : TryConvertExpression[e] \in Results}
<1>6. ASSUME NEW e \in Exprs, \A d \in Exprs : Height[d] < Height[e] => d \in S
      PROVE  e \in S
  <2>1. TryConvert(e, TryConvertExpression) \in Results
        BY <1>6, ConvertType
  <2>. QED BY <1>5, <2>1
<1>. HIDE DEF S
<1>7. Exprs \subseteq S
      BY <1>6, HeightInduction
<1>. QED BY <1>5, <1>7 DEF S

-----------------------------------------------------------------------------
(***************************************************************************)
(* The other functions along an expression.                                *)
(***************************************************************************)
\* Whether an expression is free of NULL depends on its children only.
LEMMA WithoutNullDepends ==
  ASSUME NEW e \in Exprs, NEW f, NEW g,
         \A d \in Exprs : Height[d] < Height[e] => f[d] = g[d]
  PROVE  WithoutNull(e, f) = WithoutNull(e, g)
<1>1. CASE IsCompound(e)
  <2>1. \A i \in DOMAIN e.children : f[e.children[i]] = g[e.children[i]]
        BY <1>1, ChildrenAre
  <2>2. (\A i \in DOMAIN e.children : f[e.children[i]])
          = (\A i \in DOMAIN e.children : g[e.children[i]])
        BY <2>1, Zenon
  <2>. QED BY <2>2, Zenon DEF WithoutNull
<1>2. CASE ~IsCompound(e)
      BY <1>2, Zenon DEF WithoutNull
<1>. QED BY <1>1, <1>2

\* NullFree is the test along the expression.
LEMMA NullFreeIs ==
  \A e \in Exprs : NullFree[e] = WithoutNull(e, NullFree)
<1>. DEFINE F == [e \in Exprs |-> [f \in [Exprs -> BOOLEAN] |-> WithoutNull(e, f)]]
<1>1. IsStep(F, BOOLEAN)
  <2>1. F \in [Exprs -> [[Exprs -> BOOLEAN] -> BOOLEAN]]
    <3>1. ASSUME NEW e \in Exprs, NEW f \in [Exprs -> BOOLEAN]
          PROVE  WithoutNull(e, f) \in BOOLEAN
          BY Zenon DEF WithoutNull
    <3>. QED BY <3>1
  <2>2. \A e \in Exprs : \A f, g \in [Exprs -> BOOLEAN] :
          (\A d \in Exprs : Height[d] < Height[e] => f[d] = g[d]) => F[e][f] = F[e][g]
        BY WithoutNullDepends
  <2>. QED BY <2>1, <2>2 DEF IsStep
<1>2. \E f \in [Exprs -> BOOLEAN] : Solves(f, F)
  <2>. HIDE DEF F
  <2>. QED BY <1>1, RecursionExists
<1>3. PICK f \in [Exprs -> BOOLEAN] : Solves(f, F)
      BY <1>2
<1>4. f = [e \in Exprs |-> WithoutNull(e, f)]
      BY <1>3 DEF Solves
<1>5. NullFree = [e \in Exprs |-> WithoutNull(e, NullFree)]
      BY <1>4 DEF NullFree
<1>. QED BY <1>5

\* Whether a negation is harmless depends on the children only.
LEMMA KeepsMatchesDepends ==
  ASSUME NEW e \in Exprs, NEW f, NEW g,
         \A d \in Exprs : Height[d] < Height[e] => f[d] = g[d]
  PROVE  KeepsMatches(e, f) = KeepsMatches(e, g)
<1>1. CASE IsCompound(e)
  <2>1. \A i \in DOMAIN e.children : f[e.children[i]] = g[e.children[i]]
        BY <1>1, ChildrenAre
  <2>2. ASSUME NEW neg \in BOOLEAN
        PROVE  (\A i \in DOMAIN e.children :
                  f[e.children[i]][IF IsNot(e) THEN ~neg ELSE neg])
               = (\A i \in DOMAIN e.children :
                  g[e.children[i]][IF IsNot(e) THEN ~neg ELSE neg])
        BY <2>1, Zenon
  <2>3. \A neg \in BOOLEAN :
          (IsPredicate(TryConvertExpression[e]) =>
             /\ neg => ~Weakens(e)
             /\ IsCompound(e) => \A i \in DOMAIN e.children :
                  f[e.children[i]][IF IsNot(e) THEN ~neg ELSE neg])
          = (IsPredicate(TryConvertExpression[e]) =>
             /\ neg => ~Weakens(e)
             /\ IsCompound(e) => \A i \in DOMAIN e.children :
                  g[e.children[i]][IF IsNot(e) THEN ~neg ELSE neg])
        BY <2>2, Zenon
  <2>. QED BY <2>3, Zenon DEF KeepsMatches
<1>2. CASE ~IsCompound(e)
      BY <1>2, Zenon DEF KeepsMatches
<1>. QED BY <1>1, <1>2

\* Harmless is the test along the expression.
LEMMA HarmlessIs ==
  \A e \in Exprs : Harmless[e] = KeepsMatches(e, Harmless)
<1>. DEFINE V == [BOOLEAN -> BOOLEAN]
            F == [e \in Exprs |-> [f \in [Exprs -> V] |-> KeepsMatches(e, f)]]
<1>0. V # {}
  <2>1. [b \in BOOLEAN |-> TRUE] \in V
        OBVIOUS
  <2>. QED BY <2>1
<1>1. IsStep(F, V)
  <2>. HIDE DEF V
  <2>1. F \in [Exprs -> [[Exprs -> V] -> V]]
    <3>1. ASSUME NEW e \in Exprs, NEW f \in [Exprs -> V]
          PROVE  KeepsMatches(e, f) \in V
          BY Zenon DEF KeepsMatches, V
    <3>. QED BY <3>1
  <2>2. \A e \in Exprs : \A f, g \in [Exprs -> V] :
          (\A d \in Exprs : Height[d] < Height[e] => f[d] = g[d]) => F[e][f] = F[e][g]
        BY KeepsMatchesDepends
  <2>. QED BY <2>1, <2>2 DEF IsStep
<1>2. \E f \in [Exprs -> V] : Solves(f, F)
  <2>. HIDE DEF F, V
  <2>. QED BY <1>0, <1>1, RecursionExists
<1>3. PICK f \in [Exprs -> V] : Solves(f, F)
      BY <1>2
<1>4. f = [e \in Exprs |-> KeepsMatches(e, f)]
      BY <1>3 DEF Solves
<1>5. Harmless = [e \in Exprs |-> KeepsMatches(e, Harmless)]
      BY <1>4 DEF Harmless
<1>. QED BY <1>5

-----------------------------------------------------------------------------
(***************************************************************************)
(* Partition filters.                                                      *)
(***************************************************************************)
Texts == [text : Values]
Maps  == UNION {[S -> Texts] : S \in SUBSET PartKeys}

\* A map constrains partition keys.
LEMMA MapIs ==
  \A m : m \in Maps <=> m \in [DOMAIN m -> Texts] /\ DOMAIN m \subseteq PartKeys
BY DEF Maps

\* The overlay of maps is a map, each of its constraints being one of theirs.
LEMMA OverlayIs ==
  ASSUME NEW n \in Nat, NEW D \in SUBSET (1..n), NEW maps \in [D -> Maps]
  PROVE  /\ Overlay(maps) \in Maps
         /\ \A c \in DOMAIN Overlay(maps) :
              \E i \in D : c \in DOMAIN maps[i] /\ Overlay(maps)[c] = maps[i][c]
<1>. DEFINE on(c) == {i \in D : c \in DOMAIN maps[i]}
            keys == UNION {DOMAIN maps[i] : i \in D}
<1>0. DOMAIN maps = D
      OBVIOUS
<1>1. Overlay(maps) = [c \in keys |-> maps[Max(on(c))][c]]
      BY <1>0, Zenon DEF Overlay
<1>2. ASSUME NEW c \in keys PROVE Max(on(c)) \in on(c)
  <2>1. on(c) # {} /\ on(c) \in SUBSET (1..n)
        OBVIOUS
  <2>. HIDE DEF on
  <2>. QED BY <2>1, MaxIn
<1>3. \A i \in D : DOMAIN maps[i] \subseteq PartKeys /\ maps[i] \in [DOMAIN maps[i] -> Texts]
      BY MapIs
<1>4. keys \subseteq PartKeys
      BY <1>3
<1>5. ASSUME NEW c \in keys
      PROVE  /\ Max(on(c)) \in D /\ c \in DOMAIN maps[Max(on(c))]
             /\ maps[Max(on(c))][c] \in Texts
      BY <1>2, <1>3
<1>. HIDE DEF keys, on
<1>6. DOMAIN Overlay(maps) = keys /\ \A c \in keys : Overlay(maps)[c] = maps[Max(on(c))][c]
      BY <1>1
<1>7. Overlay(maps) \in [keys -> Texts]
      BY <1>1, <1>5
<1>. QED BY <1>4, <1>5, <1>6, <1>7, MapIs

\* What an equality constrains.
LEMMA EqualityFilterIs ==
  ASSUME NEW x \in Operand, x.ref = "column", NEW k \in Operand, k.ref = "constant"
  PROVE  EqualityFilter(x, k) \in Maps
<1>1. x.col \in Cols /\ k.value \in Values
      BY DEF Operand
<1>2. NoMap \in Maps
      BY MapIs DEF NoMap
<1>3. CASE x.col \in PartKeys /\ k.value # Null
  <2>1. PartText(k.value) \in Texts
        BY <1>1 DEF PartText, Texts
  <2>2. [c \in {x.col} |-> PartText(k.value)] \in [{x.col} -> Texts]
        BY <2>1
  <2>3. [c \in {x.col} |-> PartText(k.value)] \in Maps
        BY <1>3, <2>2 DEF Maps
  <2>. QED BY <1>3, <2>3 DEF EqualityFilter
<1>4. CASE ~(x.col \in PartKeys /\ k.value # Null)
      BY <1>2, <1>4 DEF EqualityFilter
<1>. QED BY <1>3, <1>4

\* The constraints of an expression depend on its children only.
LEMMA ExtractDepends ==
  ASSUME NEW e \in Exprs, NEW f, NEW g,
         \A d \in Exprs : Height[d] < Height[e] => f[d] = g[d]
  PROVE  ExtractPartitionFilter(e, f) = ExtractPartitionFilter(e, g)
<1>1. CASE e.class = "conjunction"
  <2>1. \A i \in DOMAIN e.children : f[e.children[i]] = g[e.children[i]]
        BY <1>1, ChildrenAre DEF IsCompound
  <2>2. [i \in DOMAIN e.children |-> f[e.children[i]]]
          = [i \in DOMAIN e.children |-> g[e.children[i]]]
        BY <2>1
  <2>. QED BY <1>1, <2>2 DEF ExtractPartitionFilter
<1>2. CASE e.class # "conjunction"
      BY <1>2 DEF ExtractPartitionFilter
<1>. QED BY <1>1, <1>2

\* They are a map if those of the children are.
LEMMA ExtractType ==
  ASSUME NEW e \in Exprs, NEW f,
         \A d \in Exprs : Height[d] < Height[e] => f[d] \in Maps
  PROVE  ExtractPartitionFilter(e, f) \in Maps
<1>0. NoMap \in Maps
      BY MapIs DEF NoMap
<1>1. CASE e.class = "conjunction"
  <2>. DEFINE ms == [i \in DOMAIN e.children |-> f[e.children[i]]]
  <2>1. ms \in [1..Len(e.children) -> Maps] /\ Len(e.children) \in Nat
        BY <1>1, ChildrenAre DEF IsCompound
  <2>2. Overlay(ms) \in Maps
    <3>. HIDE DEF ms
    <3>. QED BY <2>1, OverlayIs
  <2>. QED BY <1>0, <1>1, <2>2 DEF ExtractPartitionFilter
<1>2. CASE e.class = "comparison"
  <2>1. e.left \in Operand /\ e.right \in Operand
        BY <1>2, ExprIs DEF Comparison
  <2>. QED BY <1>0, <1>2, <2>1, EqualityFilterIs DEF ExtractPartitionFilter
<1>3. CASE e.class # "conjunction" /\ e.class # "comparison"
      BY <1>0, <1>3 DEF ExtractPartitionFilter
<1>. QED BY <1>1, <1>2, <1>3

\* TryExtractPartitionFilter collects the constraints along the expression.
LEMMA TryExtractPartitionFilterIs ==
  /\ TryExtractPartitionFilter \in [Exprs -> Maps]
  /\ \A e \in Exprs :
       TryExtractPartitionFilter[e] = ExtractPartitionFilter(e, TryExtractPartitionFilter)
<1>. DEFINE F == [e \in Exprs |-> [f \in [Exprs -> Maps] |-> ExtractPartitionFilter(e, f)]]
<1>0. Maps # {}
  <2>1. NoMap \in Maps
        BY MapIs DEF NoMap
  <2>. QED BY <2>1
<1>1. IsStep(F, Maps)
  <2>1. F \in [Exprs -> [[Exprs -> Maps] -> Maps]]
    <3>1. ASSUME NEW e \in Exprs, NEW f \in [Exprs -> Maps]
          PROVE  ExtractPartitionFilter(e, f) \in Maps
          BY ExtractType
    <3>. QED BY <3>1
  <2>2. \A e \in Exprs : \A f, g \in [Exprs -> Maps] :
          (\A d \in Exprs : Height[d] < Height[e] => f[d] = g[d]) => F[e][f] = F[e][g]
        BY ExtractDepends
  <2>. QED BY <2>1, <2>2 DEF IsStep
<1>2. \E f \in [Exprs -> Maps] : Solves(f, F)
  <2>. HIDE DEF F
  <2>. QED BY <1>0, <1>1, RecursionExists
<1>3. PICK f \in [Exprs -> Maps] : Solves(f, F)
      BY <1>2
<1>4. f = [e \in Exprs |-> ExtractPartitionFilter(e, f)]
      BY <1>3 DEF Solves
<1>5. TryExtractPartitionFilter
        = [e \in Exprs |-> ExtractPartitionFilter(e, TryExtractPartitionFilter)]
      BY <1>4 DEF TryExtractPartitionFilter
<1>. DEFINE S == {e \in Exprs : TryExtractPartitionFilter[e] \in Maps}
<1>6. ASSUME NEW e \in Exprs, \A d \in Exprs : Height[d] < Height[e] => d \in S
      PROVE  e \in S
  <2>1. ExtractPartitionFilter(e, TryExtractPartitionFilter) \in Maps
        BY <1>6, ExtractType
  <2>. QED BY <1>5, <2>1
<1>. HIDE DEF S
<1>7. Exprs \subseteq S
      BY <1>6, HeightInduction
<1>. QED BY <1>5, <1>7 DEF S

\* What the other expressions evaluate to.
LEMMA EvaluateLeaf ==
  ASSUME NEW e \in Exprs, NEW f, NEW r \in Rows
  PROVE  /\ e.class = "comparison" =>
              Evaluate(e, f)[r]
                = CompareTruth(ValueOf(e.left, r), e.type, ValueOf(e.right, r))
         /\ e.class = "between" => Evaluate(e, f)[r] = BetweenTruth(e, r)
         /\ e.class = "function" => Evaluate(e, f)[r] = FunctionTruth(e, r)
         /\ e.class = "operator" /\ ~IsNot(e) => Evaluate(e, f)[r] = OperatorTruth(e, r)
<1>1. ASSUME e.class = "comparison"
      PROVE  Evaluate(e, f)[r]
               = CompareTruth(ValueOf(e.left, r), e.type, ValueOf(e.right, r))
      BY <1>1 DEF Evaluate, IsNot
<1>2. ASSUME e.class = "between" PROVE Evaluate(e, f)[r] = BetweenTruth(e, r)
      BY <1>2 DEF Evaluate, IsNot
<1>3. ASSUME e.class = "function" PROVE Evaluate(e, f)[r] = FunctionTruth(e, r)
      BY <1>3 DEF Evaluate, IsNot
<1>4. ASSUME e.class = "operator", ~IsNot(e) PROVE Evaluate(e, f)[r] = OperatorTruth(e, r)
      BY <1>4 DEF Evaluate
<1>. QED BY <1>1, <1>2, <1>3, <1>4

\* The same for Eval.
LEMMA EvalLeaf ==
  ASSUME NEW e \in Exprs, NEW r \in Rows
  PROVE  /\ e.class = "comparison" =>
              Eval[e][r] = CompareTruth(ValueOf(e.left, r), e.type, ValueOf(e.right, r))
         /\ e.class = "between" => Eval[e][r] = BetweenTruth(e, r)
         /\ e.class = "function" => Eval[e][r] = FunctionTruth(e, r)
         /\ e.class = "operator" /\ ~IsNot(e) => Eval[e][r] = OperatorTruth(e, r)
<1>1. Eval[e] = Evaluate(e, Eval)
      BY EvalIs
<1>2. /\ e.class = "comparison" =>
           Evaluate(e, Eval)[r]
             = CompareTruth(ValueOf(e.left, r), e.type, ValueOf(e.right, r))
      /\ e.class = "between" => Evaluate(e, Eval)[r] = BetweenTruth(e, r)
      /\ e.class = "function" => Evaluate(e, Eval)[r] = FunctionTruth(e, r)
      /\ e.class = "operator" /\ ~IsNot(e) => Evaluate(e, Eval)[r] = OperatorTruth(e, r)
      BY EvaluateLeaf
<1>. QED BY <1>1, <1>2, Zenon

\* What the truth of a negation or a conjunction says of the children.
LEMMA EvalCompound ==
  ASSUME NEW e \in Exprs, IsCompound(e), NEW r \in Rows
  PROVE  LET t(i) == Eval[e.children[i]][r]
         IN  /\ IsNot(e) /\ Eval[e][r] = "T" => t(1) = "F"
             /\ IsNot(e) /\ Eval[e][r] = "F" => t(1) = "T"
             /\ ~IsNot(e) /\ e.type = "AND" /\ Eval[e][r] = "T" =>
                  \A i \in DOMAIN e.children : t(i) = "T"
             /\ ~IsNot(e) /\ e.type = "AND" /\ Eval[e][r] = "F" =>
                  \E i \in DOMAIN e.children : t(i) = "F"
             /\ ~IsNot(e) /\ e.type = "OR" /\ Eval[e][r] = "T" =>
                  \E i \in DOMAIN e.children : t(i) = "T"
             /\ ~IsNot(e) /\ e.type = "OR" /\ Eval[e][r] = "F" =>
                  \A i \in DOMAIN e.children : t(i) = "F"
<1>. DEFINE t(i) == Eval[e.children[i]][r]
            ts == {t(i) : i \in DOMAIN e.children}
<1>1. \A i \in DOMAIN e.children : t(i) \in Truths
      BY ChildrenAre, EvalIs
<1>2. CASE IsNot(e)
  <2>1. Eval[e][r] = NotTruth(t(1))
        BY <1>2, EvalIs DEF Evaluate, IsNot
  <2>. HIDE DEF t
  <2>2. /\ Eval[e][r] = "T" => t(1) = "F"
        /\ Eval[e][r] = "F" => t(1) = "T"
        BY <2>1 DEF NotTruth
  <2>. QED BY <1>2, <2>2 DEF t
<1>3. CASE e.class = "conjunction"
  <2>0. e.type \in {"AND", "OR"} /\ ~IsNot(e)
        BY <1>3, ExprIs DEF IsNot
  <2>1. Eval[e][r] = IF e.type = "AND" THEN AndTruth(ts) ELSE OrTruth(ts)
        BY <1>3, EvalIs DEF Evaluate, IsNot
  <2>2. /\ AndTruth(ts) = "T" => "F" \notin ts /\ "N" \notin ts
        /\ AndTruth(ts) = "F" => "F" \in ts
        /\ OrTruth(ts) = "T" => "T" \in ts
        /\ OrTruth(ts) = "F" => "T" \notin ts /\ "N" \notin ts
        BY DEF AndTruth, OrTruth
  <2>3. /\ "F" \notin ts /\ "N" \notin ts => \A i \in DOMAIN e.children : t(i) = "T"
        /\ "T" \notin ts /\ "N" \notin ts => \A i \in DOMAIN e.children : t(i) = "F"
        /\ "F" \in ts => \E i \in DOMAIN e.children : t(i) = "F"
        /\ "T" \in ts => \E i \in DOMAIN e.children : t(i) = "T"
        BY <1>1 DEF Truths
  <2>. HIDE DEF t, ts
  <2>4. /\ e.type = "AND" /\ Eval[e][r] = "T" => \A i \in DOMAIN e.children : t(i) = "T"
        /\ e.type = "AND" /\ Eval[e][r] = "F" => \E i \in DOMAIN e.children : t(i) = "F"
        /\ e.type = "OR" /\ Eval[e][r] = "T" => \E i \in DOMAIN e.children : t(i) = "T"
        /\ e.type = "OR" /\ Eval[e][r] = "F" => \A i \in DOMAIN e.children : t(i) = "F"
        BY <2>1, <2>2, <2>3
  <2>. QED BY <2>0, <2>4 DEF t
<1>. QED BY <1>2, <1>3 DEF IsCompound

\* Row r is in the partition that map m describes.
InPartition(m, r) == \A c \in DOMAIN m : m[c] = PartName(r, c)

\* A row for which an equality is true is in its partition.
LEMMA EqualityInPartition ==
  ASSUME NEW x, x.ref = "column", NEW k, k.ref = "constant", NEW r,
         CompareTruth(r[x.col], "EQUAL", k.value) = "T"
  PROVE  InPartition(EqualityFilter(x, k), r)
<1>1. r[x.col] # Null /\ r[x.col] = k.value
      BY EqualTruthIs DEF Truth
<1>2. PartName(r, x.col) = PartText(k.value)
      BY <1>1 DEF PartName
<1>3. CASE x.col \in PartKeys /\ k.value # Null
  <2>1. EqualityFilter(x, k) = [c \in {x.col} |-> PartText(k.value)]
        BY <1>3 DEF EqualityFilter
  <2>. QED BY <1>2, <2>1 DEF InPartition
<1>4. CASE ~(x.col \in PartKeys /\ k.value # Null)
  <2>1. EqualityFilter(x, k) = NoMap
        BY <1>4 DEF EqualityFilter
  <2>. QED BY <2>1 DEF InPartition, NoMap
<1>. QED BY <1>3, <1>4

\* A row for which an expression is true is in the partition that
\* TryExtractPartitionFilter finds for it.
LEMMA ExtractedIsNecessary ==
  \A e \in Exprs : \A r \in Rows :
    Eval[e][r] = "T" => InPartition(TryExtractPartitionFilter[e], r)
<1>. DEFINE M == TryExtractPartitionFilter
            S == {e \in Exprs : \A r \in Rows : Eval[e][r] = "T" => InPartition(M[e], r)}
<1>1. ASSUME NEW e \in Exprs, \A d \in Exprs : Height[d] < Height[e] => d \in S
      PROVE  e \in S
  <2>1. SUFFICES ASSUME NEW r \in Rows, Eval[e][r] = "T" PROVE InPartition(M[e], r)
        OBVIOUS
  <2>2. M[e] = ExtractPartitionFilter(e, M)
        BY TryExtractPartitionFilterIs
  <2>3. CASE e.class = "comparison" /\ e.type = "EQUAL"
    <3>1. Eval[e][r] = CompareTruth(ValueOf(e.left, r), "EQUAL", ValueOf(e.right, r))
          BY <2>3, EvalLeaf
    <3>2. M[e] = IF e.left.ref = "column" /\ e.right.ref = "constant"
                   THEN EqualityFilter(e.left, e.right)
                 ELSE IF e.left.ref = "constant" /\ e.right.ref = "column"
                   THEN EqualityFilter(e.right, e.left)
                 ELSE NoMap
          BY <2>2, <2>3 DEF ExtractPartitionFilter
    <3>3. CASE e.left.ref = "column" /\ e.right.ref = "constant"
      <4>1. CompareTruth(r[e.left.col], "EQUAL", e.right.value) = "T"
            BY <2>1, <3>1, <3>3 DEF ValueOf
      <4>2. M[e] = EqualityFilter(e.left, e.right)
            BY <3>2, <3>3
      <4>. QED BY <3>3, <4>1, <4>2, EqualityInPartition
    <3>4. CASE e.left.ref = "constant" /\ e.right.ref = "column"
      <4>1. CompareTruth(r[e.right.col], "EQUAL", e.left.value) = "T"
            BY <2>1, <3>1, <3>4, EqualTruthIs DEF ValueOf, Truth
      <4>2. M[e] = EqualityFilter(e.right, e.left)
            BY <3>2, <3>4
      <4>. QED BY <3>4, <4>1, <4>2, EqualityInPartition
    <3>. QED BY <3>2, <3>3, <3>4 DEF InPartition, NoMap
  <2>4. CASE e.class = "conjunction" /\ e.type = "AND"
    <3>. DEFINE ms == [i \in DOMAIN e.children |-> M[e.children[i]]]
    <3>1. M[e] = Overlay(ms)
          BY <2>2, <2>4 DEF ExtractPartitionFilter
    <3>2. \A i \in DOMAIN e.children :
            /\ e.children[i] \in Exprs /\ Height[e.children[i]] < Height[e]
            /\ Eval[e.children[i]][r] = "T"
          BY <2>1, <2>4, ChildrenAre, EvalCompound DEF IsCompound, IsNot
    <3>3. \A i \in DOMAIN e.children : InPartition(ms[i], r)
          BY <1>1, <3>2
    <3>4. ms \in [1..Len(e.children) -> Maps] /\ Len(e.children) \in Nat
          BY <2>4, ChildrenAre, TryExtractPartitionFilterIs DEF IsCompound
    <3>5. DOMAIN e.children = 1..Len(e.children)
          BY <2>4, ChildrenAre DEF IsCompound
    <3>. HIDE DEF ms
    <3>6. \A c \in DOMAIN Overlay(ms) : \E i \in 1..Len(e.children) :
            c \in DOMAIN ms[i] /\ Overlay(ms)[c] = ms[i][c]
          BY <3>4, OverlayIs
    <3>. QED BY <3>1, <3>3, <3>5, <3>6 DEF InPartition
  <2>5. CASE ~(e.class = "comparison" /\ e.type = "EQUAL")
             /\ ~(e.class = "conjunction" /\ e.type = "AND")
        BY <2>2, <2>5 DEF ExtractPartitionFilter, InPartition, NoMap
  <2>. QED BY <2>3, <2>4, <2>5
<1>. HIDE DEF S
<1>2. Exprs \subseteq S
      BY <1>1, HeightInduction
<1>. QED BY <1>2 DEF S

\* TryExtractPartitionFilters yields maps, one of which holds the row.
LEMMA DisjunctionIsNecessary ==
  ASSUME NEW e \in Exprs, TryExtractPartitionFilters(e) # {}
  PROVE  /\ TryExtractPartitionFilters(e) \subseteq Maps
         /\ \A r \in Rows : Eval[e][r] = "T" =>
              \E m \in TryExtractPartitionFilters(e) : InPartition(m, r)
<1>1. CASE e.class = "conjunction" /\ e.type = "OR"
  <2>1. \A i \in DOMAIN e.children : e.children[i] \in Exprs
        BY <1>1, ChildrenAre DEF IsCompound
  <2>2. TryExtractPartitionFilters(e)
          = {TryExtractPartitionFilter[e.children[i]] : i \in DOMAIN e.children}
        BY <1>1 DEF TryExtractPartitionFilters
  <2>3. ASSUME NEW r \in Rows, Eval[e][r] = "T"
        PROVE  \E i \in DOMAIN e.children : Eval[e.children[i]][r] = "T"
        BY <1>1, <2>3, EvalCompound DEF IsCompound, IsNot
  <2>. QED BY <2>1, <2>2, <2>3, ExtractedIsNecessary, TryExtractPartitionFilterIs
<1>2. CASE ~(e.class = "conjunction" /\ e.type = "OR")
  <2>1. TryExtractPartitionFilters(e) = {TryExtractPartitionFilter[e]}
        BY <1>2 DEF TryExtractPartitionFilters
  <2>. QED BY <2>1, ExtractedIsNecessary, TryExtractPartitionFilterIs
<1>. QED BY <1>1, <1>2

\* A row that satisfies the filters is in one of the partitions PartFilters
\* leaves: the choice of the maps that hold it is not contradictory.
LEMMA PartFiltersAreNecessary ==
  ASSUME NEW fs \in Seq(Exprs), PartFilters(fs) # {}, NEW r \in Rows, Satisfies(fs, r)
  PROVE  \E m \in PartFilters(fs) : InPartition(m, r)
<1>. DEFINE X(i) == TryExtractPartitionFilters(fs[i])
            used == {i \in DOMAIN fs : X(i) # {}}
            ds == [i \in used |-> X(i)]
            ch == [i \in used |-> CHOOSE m \in X(i) : InPartition(m, r)]
<1>1. \A i \in DOMAIN fs : fs[i] \in Exprs /\ Eval[fs[i]][r] = "T"
      BY DEF Satisfies
<1>2. \A i \in used : X(i) \subseteq Maps /\ \E m \in X(i) : InPartition(m, r)
      BY <1>1, DisjunctionIsNecessary
<1>3. PartFilters(fs) = MergePartFilters(ds)
  <2>1. PartFilters(fs) = IF used = {} THEN {} ELSE MergePartFilters(ds)
        BY Zenon DEF PartFilters
  <2>. QED BY <2>1
<1>4. \A i \in used : ch[i] \in X(i) /\ InPartition(ch[i], r)
      BY <1>2
<1>5. DOMAIN ds = used /\ \A i \in used : ds[i] = X(i)
      OBVIOUS
<1>6. used \in SUBSET (1..Len(fs)) /\ Len(fs) \in Nat
      OBVIOUS
<1>7. ch \in [used -> Maps]
      BY <1>2, <1>4
<1>8. ch \in [used -> UNION {ds[i] : i \in used}]
      BY <1>4, <1>5
<1>. HIDE DEF X, used, ds, ch
<1>9. \A i, j \in used : \A c \in DOMAIN ch[i] \cap DOMAIN ch[j] : ch[i][c] = ch[j][c]
      BY <1>4 DEF InPartition
<1>10. Overlay(ch) \in MergePartFilters(ds)
  <2>1. \A i \in DOMAIN ds : ch[i] \in ds[i]
        BY <1>4, <1>5
  <2>. QED BY <1>5, <1>8, <1>9, <2>1, Zenon DEF MergePartFilters
<1>11. InPartition(Overlay(ch), r)
  <2>1. \A c \in DOMAIN Overlay(ch) : \E i \in used :
          c \in DOMAIN ch[i] /\ Overlay(ch)[c] = ch[i][c]
        BY <1>6, <1>7, OverlayIs
  <2>. QED BY <1>4, <2>1 DEF InPartition
<1>. QED BY <1>3, <1>10, <1>11

-----------------------------------------------------------------------------
(***************************************************************************)
(* A predicate accepts the rows for which its expression is true, and, as  *)
(* far as nothing is left out, its negation those for which it is false.   *)
(***************************************************************************)
\* A leaf by its fields.
LEMMA LeafIs ==
  ASSUME NEW fn, NEW c, NEW ks, NEW r \in Rows
  PROVE  /\ r \in Leaf(fn, c, ks).accepts <=> Test(fn, r[c], ks)
         /\ r \in Leaf(fn, c, ks).rejects <=> Test(Negated(fn), r[c], ks)
         /\ Leaf(fn, c, ks).negatable = (Negated(fn) # "none")
<1>. DEFINE a == {x \in Rows : Test(fn, x[c], ks)}
            b == {x \in Rows : Test(Negated(fn), x[c], ks)}
            n == Negated(fn) # "none"
<1>1. Leaf(fn, c, ks) = Result("predicate", a, b, n)
      BY Zenon DEF Leaf
<1>2. (r \in a <=> Test(fn, r[c], ks)) /\ (r \in b <=> Test(Negated(fn), r[c], ks))
      OBVIOUS
<1>. HIDE DEF a, b, n
<1>3. Leaf(fn, c, ks).accepts = a /\ Leaf(fn, c, ks).rejects = b /\ Leaf(fn, c, ks).negatable = n
      BY <1>1, ResultIs
<1>. QED BY <1>2, <1>3 DEF n

\* A conjunction of predicates by its fields, and a disjunction.
LEMMA AndOrAre ==
  ASSUME NEW ps, NEW r \in Rows
  PROVE  /\ r \in And(ps).accepts <=> \A p \in ps : r \in p.accepts
         /\ r \in And(ps).rejects <=> \E p \in ps : r \in p.rejects
         /\ And(ps).negatable = (\A p \in ps : p.negatable)
         /\ r \in Or(ps).accepts <=> \E p \in ps : r \in p.accepts
         /\ r \in Or(ps).rejects <=> \A p \in ps : r \in p.rejects
         /\ Or(ps).negatable = (\A p \in ps : p.negatable)
<1>. DEFINE n  == \A p \in ps : p.negatable
            aa == {x \in Rows : \A p \in ps : x \in p.accepts}
            ar == {x \in Rows : \E p \in ps : x \in p.rejects}
            oa == {x \in Rows : \E p \in ps : x \in p.accepts}
            or == {x \in Rows : \A p \in ps : x \in p.rejects}
<1>1. And(ps) = Result("predicate", aa, ar, n) /\ Or(ps) = Result("predicate", oa, or, n)
      BY Zenon DEF And, Or
<1>2. /\ (r \in aa <=> \A p \in ps : r \in p.accepts)
      /\ (r \in ar <=> \E p \in ps : r \in p.rejects)
      /\ (r \in oa <=> \E p \in ps : r \in p.accepts)
      /\ (r \in or <=> \A p \in ps : r \in p.rejects)
      OBVIOUS
<1>. HIDE DEF n, aa, ar, oa, or
<1>3. /\ And(ps).accepts = aa /\ And(ps).rejects = ar /\ And(ps).negatable = n
      /\ Or(ps).accepts = oa /\ Or(ps).rejects = or /\ Or(ps).negatable = n
      BY <1>1, ResultIs
<1>. QED BY <1>2, <1>3, Zenon DEF n

Opposite(op) ==
  CASE op = "EQUAL" -> "NOTEQUAL"
    [] op = "NOTEQUAL" -> "EQUAL"
    [] op = "LESSTHAN" -> "GREATERTHANOREQUALTO"
    [] op = "LESSTHANOREQUALTO" -> "GREATERTHAN"
    [] op = "GREATERTHAN" -> "LESSTHANOREQUALTO"
    [] op = "GREATERTHANOREQUALTO" -> "LESSTHAN"

\* The functions of the comparisons, and their negations.
LEMMA ComparisonFns ==
  ASSUME NEW op \in Comparator
  PROVE  /\ ComparisonFn(op) \in {"Equal", "NotEqual", "LessThan", "LessOrEqual",
                                   "GreaterThan", "GreaterOrEqual"}
         /\ \A op2 \in Comparator : ComparisonFn(op2) = ComparisonFn(op) => op2 = op
         /\ Opposite(op) \in Comparator
         /\ Negated(ComparisonFn(op)) = ComparisonFn(Opposite(op))
         /\ FlipComparisonExpression(op) \in Comparator
<1>1. op \in {"EQUAL", "NOTEQUAL", "LESSTHAN", "LESSTHANOREQUALTO",
              "GREATERTHAN", "GREATERTHANOREQUALTO"}
      BY DEF Comparator
<1>2. /\ ComparisonFn("EQUAL") = "Equal" /\ ComparisonFn("NOTEQUAL") = "NotEqual"
      /\ ComparisonFn("LESSTHAN") = "LessThan"
      /\ ComparisonFn("LESSTHANOREQUALTO") = "LessOrEqual"
      /\ ComparisonFn("GREATERTHAN") = "GreaterThan"
      /\ ComparisonFn("GREATERTHANOREQUALTO") = "GreaterOrEqual"
      BY DEF ComparisonFn
<1>3. /\ Opposite("EQUAL") = "NOTEQUAL" /\ Opposite("NOTEQUAL") = "EQUAL"
      /\ Opposite("LESSTHAN") = "GREATERTHANOREQUALTO"
      /\ Opposite("LESSTHANOREQUALTO") = "GREATERTHAN"
      /\ Opposite("GREATERTHAN") = "LESSTHANOREQUALTO"
      /\ Opposite("GREATERTHANOREQUALTO") = "LESSTHAN"
      BY DEF Opposite
<1>4. /\ Negated("Equal") = "NotEqual" /\ Negated("NotEqual") = "Equal"
      /\ Negated("LessThan") = "GreaterOrEqual" /\ Negated("GreaterOrEqual") = "LessThan"
      /\ Negated("LessOrEqual") = "GreaterThan" /\ Negated("GreaterThan") = "LessOrEqual"
      BY DEF Negated
<1>5. FlipComparisonExpression(op) \in Comparator
      BY <1>1 DEF FlipComparisonExpression, Comparator
<1>6. \A op2 \in Comparator : ComparisonFn(op2) = ComparisonFn(op) => op2 = op
      BY <1>1, <1>2 DEF Comparator
<1>. QED BY <1>1, <1>2, <1>3, <1>4, <1>5, <1>6 DEF Comparator

\* Comparing two values.
LEMMA ComparesIs ==
  ASSUME NEW op \in Comparator, NEW v \in Int, NEW k \in Int
  PROVE  /\ Compares(v, Opposite(op), k) <=> ~Compares(v, op, k)
         /\ Compares(v, FlipComparisonExpression(op), k) <=> Compares(k, op, v)
<1>1. op \in {"EQUAL", "NOTEQUAL", "LESSTHAN", "LESSTHANOREQUALTO",
              "GREATERTHAN", "GREATERTHANOREQUALTO"}
      BY DEF Comparator
<1>2. ASSUME NEW a \in Int, NEW b \in Int
      PROVE  /\ Compares(a, "EQUAL", b) <=> a = b
             /\ Compares(a, "NOTEQUAL", b) <=> a # b
             /\ Compares(a, "LESSTHAN", b) <=> a < b
             /\ Compares(a, "LESSTHANOREQUALTO", b) <=> a <= b
             /\ Compares(a, "GREATERTHAN", b) <=> a > b
             /\ Compares(a, "GREATERTHANOREQUALTO", b) <=> a >= b
      BY DEF Compares
<1>3. Compares(v, Opposite(op), k) <=> ~Compares(v, op, k)
      BY <1>1, <1>2 DEF Opposite
<1>4. Compares(v, FlipComparisonExpression(op), k) <=> Compares(k, op, v)
      BY <1>1, <1>2 DEF FlipComparisonExpression
<1>. QED BY <1>3, <1>4

\* The test of a comparison.
LEMMA TestIs ==
  ASSUME NEW op \in Comparator, NEW v, NEW k
  PROVE  Test(ComparisonFn(op), v, {k}) <=> v # Null /\ Compares(v, op, k)
<1>. DEFINE fn == ComparisonFn(op)
<1>1. Test(fn, v, {k}) <=>
        v # Null /\ \A op2 \in Comparator, x \in {k} :
                      fn = ComparisonFn(op2) => Compares(v, op2, x)
  <2>1. fn \in {"Equal", "NotEqual", "LessThan", "LessOrEqual",
                "GreaterThan", "GreaterOrEqual"}
        BY ComparisonFns
  <2>. HIDE DEF fn
  <2>. QED BY <2>1 DEF Test
<1>2. \A op2 \in Comparator : fn = ComparisonFn(op2) => op2 = op
      BY ComparisonFns
<1>. QED BY <1>1, <1>2

\* The leaf of a comparison says what the comparison does.
LEMMA ComparisonLeaf ==
  ASSUME NEW op \in Comparator, NEW c \in Cols, NEW k \in Vals, NEW r \in Rows
  PROVE  /\ CompareTruth(r[c], op, k) = "T" => r \in Leaf(ComparisonFn(op), c, {k}).accepts
         /\ CompareTruth(r[c], op, k) = "F" => r \in Leaf(ComparisonFn(op), c, {k}).rejects
<1>1. r[c] \in Vals \cup {Null}
      BY DEF Rows, Values
<1>2. CASE r[c] = Null
      BY <1>2, CompareTruthIs
<1>3. CASE r[c] # Null
  <2>1. r[c] \in Int /\ k \in Int /\ k # Null
        BY <1>1, <1>3, ValsAssumption
  <2>2. /\ CompareTruth(r[c], op, k) = "T" => Compares(r[c], op, k)
        /\ CompareTruth(r[c], op, k) = "F" => ~Compares(r[c], op, k)
        BY <1>3, <2>1, CompareTruthIs DEF Truth
  <2>3. Compares(r[c], op, k) => Test(ComparisonFn(op), r[c], {k})
        BY <1>3, TestIs
  <2>4. ~Compares(r[c], op, k) => Test(Negated(ComparisonFn(op)), r[c], {k})
    <3>1. Opposite(op) \in Comparator /\ Negated(ComparisonFn(op)) = ComparisonFn(Opposite(op))
          BY ComparisonFns
    <3>2. Compares(r[c], Opposite(op), k) <=> ~Compares(r[c], op, k)
          BY <2>1, ComparesIs
    <3>3. Compares(r[c], Opposite(op), k) => Test(ComparisonFn(Opposite(op)), r[c], {k})
          BY <1>3, <3>1, TestIs
    <3>. QED BY <3>1, <3>2, <3>3
  <2>. QED BY <2>2, <2>3, <2>4, LeafIs
<1>. QED BY <1>2, <1>3

\* Predicate p of expression e is sound at the leaves.
SoundLeaf(e, p) ==
  IsPredicate(p) =>
    \A r \in Rows :
      /\ Eval[e][r] = "T" => r \in p.accepts
      /\ Eval[e][r] = "F" /\ p.negatable /\ ~Weakens(e) => r \in p.rejects

\* A column or a constant.
LEMMA OperandIs ==
  ASSUME NEW x \in Operand
  PROVE  /\ x.ref \in {"column", "constant"}
         /\ x.ref = "column" => x.col \in Cols /\ \A r : ValueOf(x, r) = r[x.col]
         /\ x.ref = "constant" => x.value \in Values /\ \A r : ValueOf(x, r) = x.value
BY DEF Operand, ValueOf

\* Comparisons, with the constant on either side.
LEMMA ComparisonSound ==
  ASSUME NEW e \in Exprs, e.class = "comparison"
  PROVE  SoundLeaf(e, TryConvertComparison(e))
<1>. DEFINE p == TryConvertComparison(e)
<1>1. SUFFICES ASSUME IsPredicate(p), NEW r \in Rows
               PROVE  /\ Eval[e][r] = "T" => r \in p.accepts
                      /\ Eval[e][r] = "F" => r \in p.rejects
      BY DEF SoundLeaf
<1>0. e.left \in Operand /\ e.right \in Operand /\ e.type \in Comparator
  <2>1. e.left \in Operand /\ e.right \in Operand
        BY ExprIs DEF Comparison
  <2>2. e.type \in Comparator
        BY <1>1, NoPredicateIs DEF TryConvertComparison
  <2>. QED BY <2>1, <2>2
<1>2. Eval[e][r] = CompareTruth(ValueOf(e.left, r), e.type, ValueOf(e.right, r))
      BY EvalLeaf
<1>3. CASE e.left.ref = "column" /\ e.right.ref = "constant"
  <2>. DEFINE c == e.left.col
              k == e.right.value
              L == Leaf(ComparisonFn(e.type), c, {k})
  <2>1. p = WithLiterals({k}, c, L)
        BY <1>0, <1>3 DEF TryConvertComparison
  <2>2. L \in Results /\ IsPredicate(L)
        BY PredicateTypes
  <2>3. c \in Cols /\ k \in Values /\ Eval[e][r] = CompareTruth(r[c], e.type, k)
        BY <1>0, <1>2, <1>3, OperandIs
  <2>. HIDE DEF L, c, k
  <2>4. p = L /\ k # Null
        BY <1>1, <2>1, <2>2, WithLiteralsIs
  <2>5. k \in Vals
        BY <2>3, <2>4 DEF Values
  <2>. QED BY <1>0, <2>3, <2>4, <2>5, ComparisonLeaf DEF L
<1>4. CASE e.left.ref = "constant" /\ e.right.ref = "column"
  <2>. DEFINE c == e.right.col
              k == e.left.value
              op == FlipComparisonExpression(e.type)
              L == Leaf(ComparisonFn(op), c, {k})
  <2>1. p = WithLiterals({k}, c, L)
        BY <1>0, <1>4 DEF TryConvertComparison
  <2>2. L \in Results /\ IsPredicate(L)
        BY PredicateTypes
  <2>3. c \in Cols /\ k \in Values /\ Eval[e][r] = CompareTruth(k, e.type, r[c])
        BY <1>0, <1>2, <1>4, OperandIs
  <2>. HIDE DEF L, c, k
  <2>4. p = L /\ k # Null
        BY <1>1, <2>1, <2>2, WithLiteralsIs
  <2>5. k \in Vals /\ op \in Comparator
        BY <1>0, <2>3, <2>4, ComparisonFns DEF Values
  <2>6. CompareTruth(k, e.type, r[c]) = CompareTruth(r[c], op, k)
    <3>1. CASE r[c] = Null
          BY <1>0, <2>5, <3>1, CompareTruthIs
    <3>2. CASE r[c] # Null
      <4>1. r[c] \in Int /\ k \in Int
            BY <2>3, <2>5, <3>2, ValsAssumption DEF Rows, Values
      <4>2. Compares(r[c], op, k) <=> Compares(k, e.type, r[c])
            BY <1>0, <4>1, ComparesIs
      <4>. QED BY <1>0, <2>5, <4>2, CompareTruthIs DEF Truth
    <3>. QED BY <3>1, <3>2
  <2>. HIDE DEF op
  <2>. QED BY <2>3, <2>4, <2>5, <2>6, ComparisonLeaf DEF L
<1>. QED BY <1>1, <1>3, <1>4, NoPredicateIs DEF TryConvertComparison

\* BETWEEN is the conjunction of two comparisons.
LEMMA BetweenSound ==
  ASSUME NEW e \in Exprs, e.class = "between"
  PROVE  SoundLeaf(e, TryConvertBetween(e))
<1>0. e.input \in Operand /\ e.lower \in Operand /\ e.upper \in Operand
      BY ExprIs DEF Between
<1>. DEFINE p == TryConvertBetween(e)
<1>1. SUFFICES ASSUME IsPredicate(p), NEW r \in Rows
               PROVE  /\ Eval[e][r] = "T" => r \in p.accepts
                      /\ Eval[e][r] = "F" => r \in p.rejects
      BY DEF SoundLeaf
<1>2. e.input.ref = "column" /\ e.lower.ref = "constant" /\ e.upper.ref = "constant"
      BY <1>1, NoPredicateIs DEF TryConvertBetween
<1>. DEFINE c == e.input.col
            lo == e.lower.value
            up == e.upper.value
            lop == IF e.lower_inclusive THEN "GREATERTHANOREQUALTO" ELSE "GREATERTHAN"
            uop == IF e.upper_inclusive THEN "LESSTHANOREQUALTO" ELSE "LESSTHAN"
            L == Leaf(ComparisonFn(lop), c, {lo})
            U == Leaf(ComparisonFn(uop), c, {up})
            lt == CompareTruth(r[c], lop, lo)
            ut == CompareTruth(r[c], uop, up)
<1>3. /\ ComparisonFn(lop) = IF e.lower_inclusive THEN "GreaterOrEqual" ELSE "GreaterThan"
      /\ ComparisonFn(uop) = IF e.upper_inclusive THEN "LessOrEqual" ELSE "LessThan"
      BY DEF ComparisonFn
<1>4. p = WithLiterals({lo, up}, c, And({L, U}))
      BY <1>2, <1>3 DEF TryConvertBetween
<1>5. And({L, U}) \in Results /\ IsPredicate(And({L, U}))
      BY PredicateTypes
<1>6. c \in Cols /\ lo \in Values /\ up \in Values
      BY <1>0, <1>2, OperandIs
<1>7. Eval[e][r] = AndTruth({lt, ut})
  <2>1. ValueOf(e.input, r) = r[c] /\ ValueOf(e.lower, r) = lo /\ ValueOf(e.upper, r) = up
        BY <1>0, <1>2, OperandIs
  <2>2. Eval[e][r] = BetweenTruth(e, r)
        BY EvalLeaf
  <2>. QED BY <2>1, <2>2 DEF BetweenTruth
<1>8. lt \in Truths /\ ut \in Truths
      BY TruthTypes
<1>9. lop \in Comparator /\ uop \in Comparator
      BY DEF Comparator
<1>. HIDE DEF c, lo, up, lop, uop, L, U
<1>10. p = And({L, U}) /\ lo # Null /\ up # Null
      BY <1>1, <1>4, <1>5, WithLiteralsIs
<1>11. lo \in Vals /\ up \in Vals
      BY <1>6, <1>10 DEF Values
<1>12. /\ lt = "T" => r \in L.accepts
       /\ lt = "F" => r \in L.rejects
      BY <1>6, <1>9, <1>11, ComparisonLeaf DEF L
<1>13. /\ ut = "T" => r \in U.accepts
       /\ ut = "F" => r \in U.rejects
      BY <1>6, <1>9, <1>11, ComparisonLeaf DEF U
<1>. HIDE DEF lt, ut
<1>14. /\ Eval[e][r] = "T" => lt = "T" /\ ut = "T"
       /\ Eval[e][r] = "F" => lt = "F" \/ ut = "F"
      BY <1>7, <1>8 DEF AndTruth, Truths
<1>15. /\ (\A q \in {L, U} : r \in q.accepts) => r \in And({L, U}).accepts
       /\ (\E q \in {L, U} : r \in q.rejects) => r \in And({L, U}).rejects
      BY AndOrAre
<1>. QED BY <1>10, <1>12, <1>13, <1>14, <1>15

\* A pattern has no negation, and accepts what it matches.
LEMMA FunctionSound ==
  ASSUME NEW e \in Exprs, e.class = "function"
  PROVE  SoundLeaf(e, TryConvertFunction(e))
<1>. DEFINE p == TryConvertFunction(e)
            x == e.children[1]
            y == e.children[2]
<1>0. x \in Operand /\ y \in Operand
      BY ExprIs DEF Function
<1>1. SUFFICES ASSUME IsPredicate(p), NEW r \in Rows
               PROVE  /\ Eval[e][r] = "T" => r \in p.accepts
                      /\ ~p.negatable
      BY DEF SoundLeaf
<1>2. x.ref = "column" /\ y.ref = "constant"
      BY <1>1, NoPredicateIs DEF TryConvertFunction
<1>. DEFINE L == Leaf("Like", x.col, {y.value})
<1>3. p = WithLiterals({y.value}, x.col, L)
      BY <1>1, <1>2, NoPredicateIs DEF TryConvertFunction
<1>4. L \in Results /\ IsPredicate(L)
      BY PredicateTypes
<1>5. Eval[e][r] = FunctionTruth(e, r) /\ ValueOf(x, r) = r[x.col] /\ ValueOf(y, r) = y.value
      BY <1>0, <1>2, EvalLeaf, OperandIs
<1>6. Eval[e][r] = "T" => Test("Like", r[x.col], {y.value})
      BY <1>5 DEF FunctionTruth, Truth, Test
<1>7. ~L.negatable
  <2>1. Negated("Like") = "none"
        BY DEF Negated
  <2>. QED BY <2>1, LeafIs
<1>8. Test("Like", r[x.col], {y.value}) => r \in L.accepts
      BY LeafIs
<1>. HIDE DEF L
<1>9. p = L
      BY <1>1, <1>3, <1>4, WithLiteralsIs
<1>. QED BY <1>6, <1>7, <1>8, <1>9

\* The null tests.
LEMMA NullTestSound ==
  ASSUME NEW e \in Exprs, e \in NullTest, NEW f
  PROVE  SoundLeaf(e, TryConvertOperator(e, f))
<1>. DEFINE p == TryConvertOperator(e, f)
            x == e.children[1]
<1>0. x \in Operand /\ e.class = "operator" /\ e.type \in {"IS_NULL", "IS_NOT_NULL"} /\ ~IsNot(e)
      BY DEF NullTest, IsNot
<1>1. SUFFICES ASSUME IsPredicate(p), NEW r \in Rows
               PROVE  /\ Eval[e][r] = "T" => r \in p.accepts
                      /\ Eval[e][r] = "F" => r \in p.rejects
      BY DEF SoundLeaf
<1>2. x.ref = "column"
      BY <1>0, <1>1, NoPredicateIs DEF TryConvertOperator
<1>3. Eval[e][r] = OperatorTruth(e, r) /\ ValueOf(x, r) = r[x.col]
      BY <1>0, <1>2, EvalLeaf, OperandIs
<1>4. /\ Negated("IsNull") = "IsNotNull" /\ Negated("IsNotNull") = "IsNull"
      /\ Test("IsNull", r[x.col], {}) <=> r[x.col] = Null
      /\ Test("IsNotNull", r[x.col], {}) <=> r[x.col] # Null
      BY DEF Negated, Test
<1>5. CASE e.type = "IS_NULL"
  <2>1. p = Leaf("IsNull", x.col, {})
        BY <1>2, <1>5 DEF TryConvertOperator
  <2>2. Eval[e][r] = Truth(r[x.col] = Null)
        BY <1>3, <1>5 DEF OperatorTruth
  <2>. QED BY <1>4, <2>1, <2>2, LeafIs DEF Truth
<1>6. CASE e.type = "IS_NOT_NULL"
  <2>1. p = Leaf("IsNotNull", x.col, {})
        BY <1>2, <1>6 DEF TryConvertOperator
  <2>2. Eval[e][r] = Truth(r[x.col] # Null)
        BY <1>3, <1>6 DEF OperatorTruth
  <2>. QED BY <1>4, <2>1, <2>2, LeafIs DEF Truth
<1>. QED BY <1>0, <1>5, <1>6

\* What the truth of a list says of its elements.
LEMMA InTruthIs ==
  ASSUME NEW e \in InList, NEW r
  PROVE  LET t(i) == CompareTruth(ValueOf(e.children[1], r), "EQUAL", ValueOf(e.children[i], r))
         IN  /\ InTruth(e, r) \in Truths
             /\ InTruth(e, r) = "T" => \E i \in 2..Len(e.children) : t(i) = "T"
             /\ InTruth(e, r) = "F" => \A i \in 2..Len(e.children) : t(i) = "F"
<1>. DEFINE t(i) == CompareTruth(ValueOf(e.children[1], r), "EQUAL", ValueOf(e.children[i], r))
            ts == {t(i) : i \in 2..Len(e.children)}
<1>1. InTruth(e, r) = OrTruth(ts)
      BY Zenon DEF InTruth
<1>2. \A i \in 2..Len(e.children) : t(i) \in Truths /\ t(i) \in ts
      BY TruthTypes
<1>3. \A u \in ts : \E i \in 2..Len(e.children) : t(i) = u
      OBVIOUS
<1>. HIDE DEF t, ts
<1>4. /\ InTruth(e, r) \in Truths
      /\ InTruth(e, r) = "T" => \E i \in 2..Len(e.children) : t(i) = "T"
      /\ InTruth(e, r) = "F" => \A i \in 2..Len(e.children) : t(i) = "F"
      BY <1>1, <1>2, <1>3 DEF OrTruth, Truths
<1>. QED BY <1>4 DEF t

\* The literals of a list, by the truth of IN.
LEMMA InLiterals ==
  ASSUME NEW e \in InList, e.children[1].ref = "column", NEW r \in Rows
  PROVE  LET v == r[e.children[1].col]
             good == {e.children[i].value : i \in 2..Len(e.children) \ BadElements(e)}
         IN  /\ InTruth(e, r) = "F" => v # Null /\ v \notin good
             /\ InTruth(e, r) = "T" /\ BadElements(e) = {} => v # Null /\ v \in good
<1>. DEFINE v == r[e.children[1].col]
            I == 2..Len(e.children)
            good == {e.children[i].value : i \in I \ BadElements(e)}
            t(i) == CompareTruth(ValueOf(e.children[1], r), "EQUAL", ValueOf(e.children[i], r))
<1>1. e.children \in Seq(Operand) /\ Len(e.children) >= 2
      BY DEF InList
<1>2. 2 \in I /\ e.children[1] \in Operand /\ \A i \in I : e.children[i] \in Operand
      BY <1>1
<1>3. ValueOf(e.children[1], r) = v
      BY <1>2, OperandIs
<1>4. \A i \in I \ BadElements(e) : e.children[i].ref = "constant"
      BY DEF BadElements
<1>5. \A i \in I \ BadElements(e) : ValueOf(e.children[i], r) = e.children[i].value
      BY <1>2, <1>4, OperandIs
<1>6. \A i \in I : /\ t(i) = "F" => v # Null /\ v # ValueOf(e.children[i], r)
                   /\ t(i) = "T" => v # Null /\ v = ValueOf(e.children[i], r)
      BY <1>3, EqualTruthIs DEF Truth
<1>7. /\ InTruth(e, r) = "T" => \E i \in I : t(i) = "T"
      /\ InTruth(e, r) = "F" => \A i \in I : t(i) = "F"
      BY InTruthIs
<1>. HIDE DEF t, v, I
<1>8. InTruth(e, r) = "F" => v # Null /\ v \notin good
      BY <1>2, <1>5, <1>6, <1>7
<1>9. InTruth(e, r) = "T" /\ BadElements(e) = {} => v # Null /\ v \in good
      BY <1>5, <1>6, <1>7
<1>. QED BY <1>8, <1>9 DEF v, I

\* IN and NOT IN.
LEMMA InListSound ==
  ASSUME NEW e \in Exprs, e \in InList, NEW f
  PROVE  SoundLeaf(e, TryConvertOperator(e, f))
<1>. DEFINE p == TryConvertOperator(e, f)
            x == e.children[1]
            v(r) == r[x.col]
            good == {e.children[i].value : i \in 2..Len(e.children) \ BadElements(e)}
<1>0. e.class = "operator" /\ e.type \in {"IN", "NOT_IN"} /\ ~IsNot(e)
      BY DEF InList, IsNot
<1>1. SUFFICES ASSUME IsPredicate(p), NEW r \in Rows
               PROVE  /\ Eval[e][r] = "T" => r \in p.accepts
                      /\ Eval[e][r] = "F" /\ ~Weakens(e) => r \in p.rejects
      BY DEF SoundLeaf
<1>2. x.ref = "column"
      BY <1>0, <1>1, NoPredicateIs DEF TryConvertOperator
<1>3. p = ConvertIn(e)
      BY <1>0, <1>2 DEF TryConvertOperator
<1>4. Eval[e][r] = IF e.type = "IN" THEN InTruth(e, r) ELSE NotTruth(InTruth(e, r))
      BY <1>0, EvalLeaf DEF OperatorTruth
<1>5. /\ InTruth(e, r) = "F" => v(r) # Null /\ v(r) \notin good
      /\ InTruth(e, r) = "T" /\ BadElements(e) = {} => v(r) # Null /\ v(r) \in good
      BY <1>2, InLiterals
<1>6. /\ Negated("In") = "NotIn" /\ Negated("NotIn") = "In"
      /\ Test("In", v(r), good) <=> v(r) # Null /\ v(r) \in good
      /\ Test("NotIn", v(r), good) <=> v(r) # Null /\ v(r) \notin good
  <2>. HIDE DEF good
  <2>. QED BY DEF Negated, Test
<1>7. p = IF e.type = "IN"
            THEN IF BadElements(e) = {} THEN Leaf("In", x.col, good)
                 ELSE IF Min(BadElements(e)) \in Nulls(e) THEN Thrown ELSE NoPredicate
            ELSE IF Nulls(e) # {} THEN Thrown
                 ELSE IF good = {} THEN NoPredicate ELSE Leaf("NotIn", x.col, good)
      BY <1>3, Zenon DEF ConvertIn
<1>. HIDE DEF good
<1>8. CASE e.type = "IN"
  <2>1. p = Leaf("In", x.col, good) /\ BadElements(e) = {}
        BY <1>1, <1>7, <1>8, NoPredicateIs
  <2>. QED BY <1>4, <1>5, <1>6, <1>8, <2>1, LeafIs
<1>9. CASE e.type = "NOT_IN"
  <2>1. p = Leaf("NotIn", x.col, good)
        BY <1>1, <1>7, <1>9, NoPredicateIs
  <2>2. /\ Eval[e][r] = "T" => InTruth(e, r) = "F"
        /\ Eval[e][r] = "F" => InTruth(e, r) = "T"
        BY <1>4, <1>9 DEF NotTruth
  <2>3. ~Weakens(e) => BadElements(e) = {}
        BY <1>0, <1>9 DEF Weakens
  <2>. QED BY <1>5, <1>6, <2>1, <2>2, <2>3, LeafIs
<1>. QED BY <1>0, <1>8, <1>9

\* What is harmless, for a predicate and its children.
LEMMA HarmlessMeans ==
  ASSUME NEW e \in Exprs, IsPredicate(TryConvertExpression[e])
  PROVE  /\ Harmless[e][TRUE] => ~Weakens(e)
         /\ IsNot(e) /\ Harmless[e][FALSE] => Harmless[e.children[1]][TRUE]
         /\ IsNot(e) /\ Harmless[e][TRUE] => Harmless[e.children[1]][FALSE]
         /\ e.class = "conjunction" /\ Harmless[e][FALSE] =>
              \A i \in DOMAIN e.children : Harmless[e.children[i]][FALSE]
         /\ e.class = "conjunction" /\ Harmless[e][TRUE] =>
              \A i \in DOMAIN e.children : Harmless[e.children[i]][TRUE]
<1>1. Harmless[e] = KeepsMatches(e, Harmless)
      BY HarmlessIs
<1>2. ASSUME NEW neg \in BOOLEAN
      PROVE  Harmless[e][neg] <=>
               /\ neg => ~Weakens(e)
               /\ IsCompound(e) => \A i \in DOMAIN e.children :
                    Harmless[e.children[i]][IF IsNot(e) THEN ~neg ELSE neg]
      BY <1>1, Zenon DEF KeepsMatches
<1>3. Harmless[e][TRUE] <=>
        /\ ~Weakens(e)
        /\ IsCompound(e) => \A i \in DOMAIN e.children :
             Harmless[e.children[i]][IF IsNot(e) THEN FALSE ELSE TRUE]
  <2>1. ~TRUE = FALSE
        OBVIOUS
  <2>. QED BY <1>2, <2>1, Zenon
<1>4. Harmless[e][FALSE] <=>
        (IsCompound(e) => \A i \in DOMAIN e.children :
           Harmless[e.children[i]][IF IsNot(e) THEN TRUE ELSE FALSE])
  <2>1. ~FALSE = TRUE
        OBVIOUS
  <2>. QED BY <1>2, <2>1, Zenon
<1>5. CASE IsNot(e)
  <2>1. 1 \in DOMAIN e.children /\ IsCompound(e) /\ e.class # "conjunction"
        BY <1>5, ChildrenAre DEF IsCompound, IsNot
  <2>. QED BY <1>3, <1>4, <1>5, <2>1, Zenon
<1>6. CASE ~IsNot(e)
      BY <1>3, <1>4, <1>6, Zenon DEF IsCompound
<1>. QED BY <1>5, <1>6

\* Below an even number of negations a predicate accepts what is true, below
\* an odd number its negation accepts what is false.
Sound(e, r) ==
  LET p == TryConvertExpression[e]
  IN  IsPredicate(p) =>
        /\ Harmless[e][FALSE] /\ Eval[e][r] = "T" => r \in p.accepts
        /\ Harmless[e][TRUE] /\ p.negatable /\ Eval[e][r] = "F" => r \in p.rejects

\* Expressions without children.
LEMMA LeafSound ==
  ASSUME NEW e \in Exprs, ~IsCompound(e), NEW r \in Rows
  PROVE  Sound(e, r)
<1>. DEFINE p == TryConvertExpression[e]
<1>0. p = TryConvert(e, TryConvertExpression)
      BY TryConvertExpressionIs
<1>1. SoundLeaf(e, p)
  <2>1. CASE e.class = "comparison"
    <3>1. p = TryConvertComparison(e)
          BY <1>0, <2>1 DEF TryConvert
    <3>. QED BY <2>1, <3>1, ComparisonSound
  <2>2. CASE e.class = "between"
    <3>1. p = TryConvertBetween(e)
          BY <1>0, <2>2 DEF TryConvert
    <3>. QED BY <2>2, <3>1, BetweenSound
  <2>3. CASE e.class = "function"
    <3>1. p = TryConvertFunction(e)
          BY <1>0, <2>3 DEF TryConvert
    <3>. QED BY <2>3, <3>1, FunctionSound
  <2>4. CASE e.class = "operator"
    <3>1. p = TryConvertOperator(e, TryConvertExpression)
          BY <1>0, <2>4 DEF TryConvert
    <3>2. e \in NullTest \/ e \in InList
          BY <2>4, ExprIs DEF IsCompound, IsNot
    <3>. QED BY <3>1, <3>2, NullTestSound, InListSound
  <2>. QED BY <2>1, <2>2, <2>3, <2>4, ExprIs DEF IsCompound
<1>2. IsPredicate(p) /\ Harmless[e][TRUE] => ~Weakens(e)
      BY HarmlessMeans
<1>. HIDE DEF p
<1>. QED BY <1>1, <1>2, Zenon DEF Sound, SoundLeaf, p

\* A negation swaps the two.
LEMMA NegationSound ==
  ASSUME NEW e \in Exprs, IsNot(e), NEW r \in Rows, Sound(e.children[1], r)
  PROVE  Sound(e, r)
<1>. DEFINE d == e.children[1]
            p == TryConvertExpression[e]
            q == TryConvertExpression[d]
<1>1. SUFFICES ASSUME IsPredicate(p)
               PROVE  /\ Harmless[e][FALSE] /\ Eval[e][r] = "T" => r \in p.accepts
                      /\ Harmless[e][TRUE] /\ Eval[e][r] = "F" => r \in p.rejects
      BY Zenon DEF Sound
<1>2. p = IF IsPredicate(q) THEN Not(q) ELSE q
      BY TryConvertExpressionIs, ConvertCompound
<1>3. IsPredicate(q) /\ p = Not(q)
      BY <1>1, <1>2
<1>4. q.negatable /\ p = Result("predicate", q.rejects, q.accepts, TRUE)
      BY <1>1, <1>3, NoPredicateIs DEF Not
<1>5. p.accepts = q.rejects /\ p.rejects = q.accepts
      BY <1>4 DEF Result
<1>6. /\ Eval[e][r] = "T" => Eval[d][r] = "F"
      /\ Eval[e][r] = "F" => Eval[d][r] = "T"
      BY EvalCompound DEF IsCompound
<1>7. /\ Harmless[e][FALSE] => Harmless[d][TRUE]
      /\ Harmless[e][TRUE] => Harmless[d][FALSE]
      BY <1>1, HarmlessMeans
<1>8. /\ Harmless[d][FALSE] /\ Eval[d][r] = "T" => r \in q.accepts
      /\ Harmless[d][TRUE] /\ Eval[d][r] = "F" => r \in q.rejects
      BY <1>3, <1>4, Zenon DEF Sound
<1>. QED BY <1>5, <1>6, <1>7, <1>8, Zenon

\* A conjunction has the predicates of its children.
LEMMA ConjunctionSound ==
  ASSUME NEW e \in Exprs, e.class = "conjunction", NEW r \in Rows,
         \A i \in DOMAIN e.children : Sound(e.children[i], r)
  PROVE  Sound(e, r)
<1>. DEFINE I == DOMAIN e.children
            n == Len(e.children)
            p == TryConvertExpression[e]
            q(i) == TryConvertExpression[e.children[i]]
            ps == [i \in I |-> q(i)]
            good == {i \in 1..n : IsPredicate(ps[i])}
            conv == {ps[i] : i \in good}
            t(i) == Eval[e.children[i]][r]
<1>0. I = 1..n /\ n \in Nat /\ \A i \in I : e.children[i] \in Exprs
      BY ChildrenAre DEF IsCompound
<1>1. SUFFICES ASSUME IsPredicate(p)
               PROVE  /\ Harmless[e][FALSE] /\ Eval[e][r] = "T" => r \in p.accepts
                      /\ Harmless[e][TRUE] /\ p.negatable /\ Eval[e][r] = "F" => r \in p.rejects
      BY Zenon DEF Sound
<1>2. p = Combine(e.type, ps)
      BY TryConvertExpressionIs, ConvertCompound
<1>3. ps \in [1..n -> Results]
      BY <1>0, TryConvertExpressionIs
<1>4. e.type \in {"AND", "OR"} /\ ~IsNot(e)
      BY ExprIs DEF IsNot
<1>5. IsPredicate(Combine(e.type, ps)) =>
        \/ e.type = "AND" /\ Combine(e.type, ps) = And(conv)
        \/ e.type = "OR" /\ Combine(e.type, ps) = Or(conv) /\ good = 1..n
  <2>. HIDE DEF ps
  <2>. QED BY <1>0, <1>3, <1>4, CombineIs
<1>6. \A i \in I : ps[i] = q(i)
      OBVIOUS
<1>7. /\ Harmless[e][FALSE] => \A i \in I : Harmless[e.children[i]][FALSE]
      /\ Harmless[e][TRUE] => \A i \in I : Harmless[e.children[i]][TRUE]
      /\ Harmless[e][TRUE] => ~Weakens(e)
      BY <1>1, HarmlessMeans
<1>8. \A i \in I : IsPredicate(q(i)) =>
        /\ Harmless[e.children[i]][FALSE] /\ t(i) = "T" => r \in q(i).accepts
        /\ Harmless[e.children[i]][TRUE] /\ q(i).negatable /\ t(i) = "F" => r \in q(i).rejects
      BY Zenon DEF Sound
<1>9. /\ good \subseteq I
      /\ \A i \in good : ps[i] \in conv /\ IsPredicate(q(i)) /\ ps[i] = q(i)
      /\ \A x \in conv : \E i \in good : x = q(i)
      BY <1>0
<1>10. CASE e.type = "AND"
  <2>1. p = And(conv)
        BY <1>1, <1>2, <1>4, <1>5, <1>10
  <2>2. /\ Eval[e][r] = "T" => \A i \in I : t(i) = "T"
        /\ Eval[e][r] = "F" => \E i \in I : t(i) = "F"
        BY <1>4, <1>10, EvalCompound DEF IsCompound
  <2>3. ~Weakens(e) => \A i \in I : IsPredicate(q(i)) /\ i \in good
        BY <1>0, <1>10 DEF Weakens
  <2>4. /\ r \in And(conv).accepts <=> \A x \in conv : r \in x.accepts
        /\ r \in And(conv).rejects <=> \E x \in conv : r \in x.rejects
        /\ And(conv).negatable = (\A x \in conv : x.negatable)
    <3>. HIDE DEF conv
    <3>. QED BY AndOrAre
  <2>. HIDE DEF conv, good, ps, q, t, I
  <2>5. ASSUME Harmless[e][FALSE], Eval[e][r] = "T" PROVE r \in p.accepts
    <3>1. \A i \in good : r \in q(i).accepts
          BY <1>7, <1>8, <1>9, <2>2, <2>5, Zenon
    <3>. QED BY <1>9, <2>1, <2>4, <3>1, Zenon
  <2>6. ASSUME Harmless[e][TRUE], p.negatable, Eval[e][r] = "F" PROVE r \in p.rejects
    <3>1. \A x \in conv : x.negatable
          BY <2>1, <2>4, <2>6, Zenon
    <3>2. PICK i \in I : t(i) = "F"
          BY <2>2, <2>6
    <3>3. i \in good /\ IsPredicate(q(i))
          BY <1>7, <2>3, <2>6, Zenon
    <3>4. q(i) \in conv /\ q(i).negatable
          BY <1>9, <3>1, <3>3, Zenon
    <3>5. r \in q(i).rejects
          BY <1>7, <1>8, <2>6, <3>2, <3>3, <3>4, Zenon
    <3>. QED BY <2>1, <2>4, <3>4, <3>5, Zenon
  <2>. QED BY <2>5, <2>6
<1>11. CASE e.type = "OR"
  <2>1. p = Or(conv) /\ good = I
        BY <1>0, <1>1, <1>2, <1>4, <1>5, <1>11
  <2>2. /\ Eval[e][r] = "T" => \E i \in I : t(i) = "T"
        /\ Eval[e][r] = "F" => \A i \in I : t(i) = "F"
        BY <1>4, <1>11, EvalCompound DEF IsCompound
  <2>4. /\ r \in Or(conv).accepts <=> \E x \in conv : r \in x.accepts
        /\ r \in Or(conv).rejects <=> \A x \in conv : r \in x.rejects
        /\ Or(conv).negatable = (\A x \in conv : x.negatable)
    <3>. HIDE DEF conv
    <3>. QED BY AndOrAre
  <2>. HIDE DEF conv, good, ps, q, t, I
  <2>5. ASSUME Harmless[e][FALSE], Eval[e][r] = "T" PROVE r \in p.accepts
    <3>1. PICK i \in I : t(i) = "T"
          BY <2>2, <2>5
    <3>2. IsPredicate(q(i)) /\ q(i) \in conv
          BY <1>9, <2>1, Zenon
    <3>3. r \in q(i).accepts
          BY <1>7, <1>8, <2>5, <3>1, <3>2, Zenon
    <3>. QED BY <2>1, <2>4, <3>2, <3>3, Zenon
  <2>6. ASSUME Harmless[e][TRUE], p.negatable, Eval[e][r] = "F" PROVE r \in p.rejects
    <3>1. \A x \in conv : x.negatable
          BY <2>1, <2>4, <2>6, Zenon
    <3>2. \A i \in good : r \in q(i).rejects
      <4>1. SUFFICES ASSUME NEW i \in good PROVE r \in q(i).rejects
            OBVIOUS
      <4>2. i \in I /\ IsPredicate(q(i)) /\ q(i) \in conv
            BY <1>9, Zenon
      <4>. QED BY <1>7, <1>8, <2>2, <2>6, <3>1, <4>2, Zenon
    <3>. QED BY <1>9, <2>1, <2>4, <3>2, Zenon
  <2>. QED BY <2>5, <2>6
<1>. QED BY <1>4, <1>10, <1>11

\* So the conversion is sound for every expression.
LEMMA ConversionSound ==
  \A e \in Exprs : \A r \in Rows : Sound(e, r)
<1>. DEFINE S == {e \in Exprs : \A r \in Rows : Sound(e, r)}
<1>1. ASSUME NEW e \in Exprs, \A d \in Exprs : Height[d] < Height[e] => d \in S
      PROVE  e \in S
  <2>1. SUFFICES ASSUME NEW r \in Rows PROVE Sound(e, r)
        OBVIOUS
  <2>2. IsCompound(e) => /\ 1 \in DOMAIN e.children
                         /\ \A i \in DOMAIN e.children : Sound(e.children[i], r)
        BY <1>1, ChildrenAre
  <2>3. CASE IsNot(e)
        BY <2>2, <2>3, NegationSound DEF IsCompound
  <2>4. CASE e.class = "conjunction"
        BY <2>2, <2>4, ConjunctionSound DEF IsCompound
  <2>. QED BY <2>3, <2>4, LeafSound DEF IsCompound
<1>. HIDE DEF S
<1>2. Exprs \subseteq S
      BY <1>1, HeightInduction
<1>. QED BY <1>2 DEF S

\* A row that satisfies harmless filters is accepted by their predicate.
LEMMA PredicateOfSound ==
  ASSUME NEW fs \in Seq(Exprs), NegationsHarmless(fs), NEW r \in Rows, Satisfies(fs, r),
         IsPredicate(PredicateOf(fs))
  PROVE  r \in PredicateOf(fs).accepts
<1>. DEFINE n == Len(fs)
            ps == [i \in DOMAIN fs |-> TryConvertExpression[fs[i]]]
            good == {i \in 1..n : IsPredicate(ps[i])}
            conv == {ps[i] : i \in good}
<1>0. n \in Nat /\ DOMAIN fs = 1..n /\ \A i \in 1..n : fs[i] \in Exprs
      OBVIOUS
<1>1. ps \in [1..n -> Results] /\ \A i \in 1..n : ps[i] = TryConvertExpression[fs[i]]
      BY <1>0, TryConvertExpressionIs
<1>2. PredicateOf(fs) = Combine("AND", ps)
      BY Zenon DEF PredicateOf
<1>3. Combine("AND", ps) = And(conv)
  <2>. HIDE DEF ps
  <2>. QED BY <1>0, <1>1, <1>2, CombineIs
<1>4. \A i \in good : r \in ps[i].accepts
  <2>1. SUFFICES ASSUME NEW i \in 1..n, IsPredicate(ps[i]) PROVE r \in ps[i].accepts
        OBVIOUS
  <2>2. Harmless[fs[i]][FALSE] /\ Eval[fs[i]][r] = "T"
        BY <1>0, Zenon DEF NegationsHarmless, Satisfies
  <2>3. Sound(fs[i], r)
        BY <1>0, ConversionSound
  <2>. QED BY <1>1, <2>1, <2>2, <2>3, Zenon DEF Sound
<1>5. \A p \in conv : r \in p.accepts
      BY <1>4
<1>. HIDE DEF conv
<1>. QED BY <1>2, <1>3, <1>5, AndOrAre

-----------------------------------------------------------------------------
(***************************************************************************)
(* A conversion throws only for a NULL constant.                           *)
(***************************************************************************)
\* A leaf expression whose conversion throws has a NULL operand.
LEMMA LeafThrows ==
  ASSUME NEW e \in Exprs, ~IsCompound(e), NEW f, TryConvert(e, f) = Thrown
  PROVE  \E x \in Operands(e) : x.ref = "constant" /\ x.value = Null
<1>0. \A fn, c, ks : Leaf(fn, c, ks) # Thrown
      BY PredicateTypes, NoPredicateIs
<1>1. CASE e.class = "comparison"
  <2>1. TryConvertComparison(e) = Thrown
        BY <1>1 DEF TryConvert
  <2>2. Operands(e) = {e.left, e.right}
        BY <1>1 DEF Operands, IsCompound, IsNot
  <2>3. \/ e.right.ref = "constant" /\ e.right.value = Null
        \/ e.left.ref = "constant" /\ e.left.value = Null
        BY <2>1, WithLiteralsIs, PredicateTypes, NoPredicateIs DEF TryConvertComparison
  <2>. QED BY <2>2, <2>3
<1>2. CASE e.class = "between"
  <2>1. TryConvertBetween(e) = Thrown
        BY <1>2 DEF TryConvert
  <2>2. Operands(e) = {e.input, e.lower, e.upper}
        BY <1>2 DEF Operands, IsCompound, IsNot
  <2>3. /\ e.lower.ref = "constant" /\ e.upper.ref = "constant"
        /\ e.lower.value = Null \/ e.upper.value = Null
        BY <2>1, WithLiteralsIs, PredicateTypes, NoPredicateIs DEF TryConvertBetween
  <2>. QED BY <2>2, <2>3
<1>3. CASE e.class = "function"
  <2>1. TryConvertFunction(e) = Thrown
        BY <1>3 DEF TryConvert
  <2>2. Operands(e) = {e.children[i] : i \in DOMAIN e.children} /\ 2 \in DOMAIN e.children
        BY <1>3, ExprIs DEF Operands, IsCompound, IsNot, Function
  <2>3. e.children[2].ref = "constant" /\ e.children[2].value = Null
        BY <2>1, WithLiteralsIs, PredicateTypes, NoPredicateIs DEF TryConvertFunction
  <2>. QED BY <2>2, <2>3
<1>4. CASE e.class = "operator"
  <2>1. TryConvertOperator(e, f) = Thrown /\ e.type # "NOT"
        BY <1>4 DEF TryConvert, IsCompound, IsNot
  <2>2. Operands(e) = {e.children[i] : i \in DOMAIN e.children}
        BY <1>4 DEF Operands
  <2>3. e \in InList /\ ConvertIn(e) = Thrown
        BY <1>0, <1>4, <2>1, ExprIs, NoPredicateIs DEF TryConvertOperator
  <2>4. 2..Len(e.children) \subseteq DOMAIN e.children
        BY <2>3 DEF InList
  <2>5. Nulls(e) # {}
        BY <1>0, <2>3, NoPredicateIs DEF ConvertIn
  <2>. QED BY <2>2, <2>4, <2>5 DEF Nulls
<1>. QED BY <1>1, <1>2, <1>3, <1>4, ExprIs DEF IsCompound

\* So a conversion that throws has a NULL somewhere below it.
LEMMA ThrowsOnlyOnNull ==
  \A e \in Exprs : TryConvertExpression[e] = Thrown => ~NullFree[e]
<1>. DEFINE S == {e \in Exprs : TryConvertExpression[e] = Thrown => ~NullFree[e]}
<1>1. ASSUME NEW e \in Exprs, \A d \in Exprs : Height[d] < Height[e] => d \in S
      PROVE  e \in S
  <2>1. SUFFICES ASSUME TryConvertExpression[e] = Thrown PROVE ~NullFree[e]
        OBVIOUS
  <2>2. TryConvert(e, TryConvertExpression) = Thrown
        BY <2>1, TryConvertExpressionIs
  <2>3. NullFree[e] = WithoutNull(e, NullFree)
        BY NullFreeIs
  <2>4. CASE ~IsCompound(e)
    <3>1. \E x \in Operands(e) : x.ref = "constant" /\ x.value = Null
          BY <2>2, <2>4, LeafThrows
    <3>. QED BY <2>3, <3>1, Zenon DEF WithoutNull
  <2>5. CASE IsCompound(e)
    <3>1. \E i \in DOMAIN e.children : TryConvertExpression[e.children[i]] = Thrown
      <4>1. CASE IsNot(e)
        <5>1. 1 \in DOMAIN e.children /\ e.children[1] \in Exprs
              BY <2>5, ChildrenAre
        <5>2. TryConvertExpression[e.children[1]] \in Results
              BY <5>1, TryConvertExpressionIs
        <5>3. TryConvertExpression[e.children[1]] = Thrown
              BY <2>2, <4>1, <5>2, ConvertCompound, PredicateTypes
        <5>. QED BY <5>1, <5>3
      <4>2. CASE e.class = "conjunction"
        <5>. DEFINE ps == [i \in DOMAIN e.children |-> TryConvertExpression[e.children[i]]]
                    n == Len(e.children)
        <5>1. Combine(e.type, ps) = Thrown
              BY <2>2, <4>2, ConvertCompound
        <5>2. n \in Nat /\ DOMAIN e.children = 1..n /\ ps \in [1..n -> Results]
              BY <2>5, ChildrenAre, TryConvertExpressionIs
        <5>3. e.type \in {"AND", "OR"}
              BY <4>2, ExprIs
        <5>4. \A i \in 1..n : ps[i] = TryConvertExpression[e.children[i]]
              BY <5>2
        <5>. HIDE DEF ps, n
        <5>5. \E i \in 1..n : ps[i] = Thrown
              BY <5>1, <5>2, <5>3, CombineIs
        <5>. QED BY <5>2, <5>4, <5>5
      <4>. QED BY <2>5, <4>1, <4>2 DEF IsCompound
    <3>2. PICK i \in DOMAIN e.children : TryConvertExpression[e.children[i]] = Thrown
          BY <3>1
    <3>3. ~NullFree[e.children[i]]
          BY <1>1, <2>5, <3>2, ChildrenAre
    <3>. QED BY <2>3, <2>5, <3>3, Zenon DEF WithoutNull
  <2>. QED BY <2>4, <2>5
<1>. HIDE DEF S
<1>2. Exprs \subseteq S
      BY <1>1, HeightInduction
<1>. QED BY <1>2 DEF S

-----------------------------------------------------------------------------
(***************************************************************************)
(* The scan.                                                               *)
(***************************************************************************)
\* The inductive invariant: bind data and filters are of the same pass, and a
\* row that satisfies harmless filters is read.
Agreement ==
  /\ filters \in Seq(Exprs)
  /\ phase \in {"optimize", "planned", "done", "error"}
  /\ phase # "error" => predicates = PredicateOf(filters) /\ part_filters = PartFilters(filters)
  /\ phase = "error" => PredicateOf(filters) = Thrown

Delivery ==
  /\ phase \in {"planned", "done"} =>
       row \in Rows /\ (NegationsHarmless(filters) /\ Satisfies(filters, row) => read)
  /\ phase = "done" => (result <=> (read /\ Satisfies(filters, row)))

\* Before the first pass nothing is pushed down, as for no filters at all.
LEMMA NothingPushedDown ==
  /\ <<>> \in Seq(Exprs) /\ PredicateOf(<<>>) = NoPredicate /\ PartFilters(<<>>) = {}
<1>1. DOMAIN <<>> = {}
      OBVIOUS
<1>. DEFINE ps == [i \in DOMAIN <<>> |-> TryConvertExpression[<<>>[i]]]
<1>2. DOMAIN ps = {}
      BY <1>1
<1>. HIDE DEF ps
<1>3. Combine("AND", ps) = NoPredicate
      BY <1>2 DEF Combine
<1>4. PredicateOf(<<>>) = NoPredicate
      BY <1>3, Zenon DEF PredicateOf, ps
<1>5. PartFilters(<<>>) = {}
      BY <1>1, Zenon DEF PartFilters
<1>. QED BY <1>4, <1>5

\* A row that satisfies harmless filters is not excluded.
LEMMA NotExcluded ==
  ASSUME Agreement, phase # "error", NEW r \in Rows,
         NegationsHarmless(filters), Satisfies(filters, r)
  PROVE  ~Excluded(r)
<1>1. IsPredicate(predicates) => r \in predicates.accepts
      BY PredicateOfSound DEF Agreement
<1>2. part_filters # {} => \E m \in part_filters : InPartition(m, r)
      BY PartFiltersAreNecessary DEF Agreement
<1>. QED BY <1>1, <1>2, Zenon DEF Excluded, InPartition

\* Every step keeps the invariant.
LEMMA Inductive ==
  Agreement /\ Delivery /\ [Next]_vars => Agreement' /\ Delivery'
<1>. SUFFICES ASSUME Agreement, Delivery, [Next]_vars PROVE Agreement' /\ Delivery'
     OBVIOUS
<1>1. ASSUME NEW fs \in FilterLists, PaimonPushdownFilter(fs)
      PROVE  Agreement' /\ Delivery'
  <2>1. fs \in Seq(Exprs)
        BY ExprsAssumption
  <2>2. /\ filters' = fs
        /\ phase' = IF PredicateOf(fs) = Thrown THEN "error" ELSE "optimize"
        /\ predicates' = IF PredicateOf(fs) = Thrown THEN predicates ELSE PredicateOf(fs)
        /\ part_filters' = IF PredicateOf(fs) = Thrown THEN part_filters ELSE PartFilters(fs)
        BY <1>1, Zenon DEF PaimonPushdownFilter
  <2>3. Agreement'
        BY <2>1, <2>2 DEF Agreement
  <2>4. Delivery'
        BY <2>2 DEF Delivery
  <2>. QED BY <2>3, <2>4
<1>2. ASSUME NEW r \in Rows, CreatePaimonScanSplits(r)
      PROVE  Agreement' /\ Delivery'
  <2>1. /\ phase = "optimize" /\ phase' = "planned" /\ row' = r
        /\ ~Excluded(r) => read' = TRUE
        /\ filters' = filters /\ predicates' = predicates /\ part_filters' = part_filters
        BY <1>2 DEF CreatePaimonScanSplits
  <2>2. NegationsHarmless(filters) /\ Satisfies(filters, r) => ~Excluded(r)
        BY <2>1, NotExcluded
  <2>3. Agreement'
        BY <2>1 DEF Agreement
  <2>4. NegationsHarmless(filters') /\ Satisfies(filters', row') => read'
        BY <2>1, <2>2, Zenon
  <2>5. Delivery'
    <3>1. phase' # "done" /\ row' \in Rows
          BY <2>1
    <3>. QED BY <2>4, <3>1, Zenon DEF Delivery, NegationsHarmless, Satisfies
  <2>. QED BY <2>3, <2>5
<1>3. ASSUME FilterRows PROVE Agreement' /\ Delivery'
  <2>1. /\ phase = "planned" /\ phase' = "done"
        /\ result' = (read /\ Satisfies(filters, row))
        /\ filters' = filters /\ predicates' = predicates /\ part_filters' = part_filters
        /\ row' = row /\ read' = read
        BY <1>3, Zenon DEF FilterRows
  <2>2. Agreement'
        BY <2>1 DEF Agreement
  <2>3. row \in Rows /\ (NegationsHarmless(filters) /\ Satisfies(filters, row) => read)
        BY <2>1 DEF Delivery
  <2>4. Delivery'
        BY <2>1, <2>3, Zenon DEF Delivery, NegationsHarmless, Satisfies
  <2>. QED BY <2>2, <2>4
<1>4. ASSUME UNCHANGED vars PROVE Agreement' /\ Delivery'
  <2>1. Agreement'
        BY <1>4 DEF vars, Agreement
  <2>2. Delivery'
        BY <1>4, Zenon DEF vars, Delivery, NegationsHarmless, Satisfies
  <2>. QED BY <2>1, <2>2
<1>. QED BY <1>1, <1>2, <1>3, <1>4 DEF Next

\* The invariant holds throughout: what PaimonPushdownFilter leaves in the bind
\* data is of the filters that DuckDB evaluates, and CreatePaimonScanSplits
\* plans every file with a row that satisfies them.
THEOREM PushdownInvariant == Spec => [](Agreement /\ Delivery)
<1>1. Init => Agreement /\ Delivery
      BY NothingPushedDown DEF Init, Agreement, Delivery
<1>. QED BY <1>1, Inductive, PTL DEF Spec

\* Whatever the table, however deep the filters and however often they are
\* pushed down: a query returns exactly the rows that satisfy its filters, as
\* long as no NOT stands above a conversion that leaves something out
\* (TryConvertExpression, TryExtractPartitionFilters, PaimonPushdownFilter).
THEOREM Exactness == Spec => []ScanIsExact
<1>1. Agreement /\ Delivery => ScanIsExact
      BY Zenon DEF Delivery, ScanIsExact
<1>. QED BY <1>1, PushdownInvariant, PTL

\* Pushdown fails a query only for a NULL constant somewhere in its filters
\* (ConvertLiteral, TryConvertExpression).
THEOREM FailsOnlyForNull == Spec => []FailsOnlyOnNull
<1>1. Agreement => FailsOnlyOnNull
  <2>1. SUFFICES ASSUME filters \in Seq(Exprs), PredicateOf(filters) = Thrown
                 PROVE  \E i \in DOMAIN filters : ~NullFree[filters[i]]
        BY DEF Agreement, FailsOnlyOnNull
  <2>. DEFINE n == Len(filters)
              ps == [i \in DOMAIN filters |-> TryConvertExpression[filters[i]]]
  <2>2. n \in Nat /\ DOMAIN filters = 1..n /\ \A i \in 1..n : filters[i] \in Exprs
        BY <2>1
  <2>3. ps \in [1..n -> Results] /\ \A i \in 1..n : ps[i] = TryConvertExpression[filters[i]]
        BY <2>2, TryConvertExpressionIs
  <2>4. Combine("AND", ps) = Thrown
        BY <2>1, Zenon DEF PredicateOf
  <2>. HIDE DEF ps, n
  <2>5. \E i \in 1..n : ps[i] = Thrown
        BY <2>2, <2>3, <2>4, CombineIs
  <2>. QED BY <2>2, <2>3, <2>5, ThrowsOnlyOnNull
<1>. QED BY <1>1, PushdownInvariant, PTL
=============================================================================
