--------------------------- MODULE FilterPushdown ---------------------------
(***************************************************************************)
(* Filters of a paimon_scan (paimon_scan.cpp): the conversion of DuckDB's  *)
(* filter expressions into a Paimon predicate (TryConvertExpression and    *)
(* its helpers), the extraction of partition filters, and what the two do  *)
(* to a scan: Paimon may skip a data file the predicate or the partition   *)
(* filters exclude, and DuckDB evaluates the filters it kept on the rest.  *)
(*                                                                         *)
(* The data file of the model has one row.  Paimon skips a file only if    *)
(* every row of it is excluded, so a row that is lost in some file is also *)
(* lost in a file of its own.                                              *)
(*                                                                         *)
(* What is computed along an expression is a function on Exprs that is     *)
(* given by its values for the children.                                   *)
(***************************************************************************)
EXTENDS Integers, Sequences, FiniteSets, FiniteSetsExt

CONSTANTS
  Cols,         \* columns of the table
  PartKeys,     \* its partition keys
  StringCols,   \* columns of a STRING type
  OpaqueCols,   \* columns whose type ConvertLiteral does not support
  Vals,         \* values of a column, integers standing for any ordered type
  Null,         \* SQL NULL
  Likes,        \* the pairs of a value and a pattern that matches it
  Exprs,        \* expressions and their subexpressions
  Height,       \* height of an expression
  FilterLists,  \* filter lists DuckDB may push down, sequences of expressions
  MaxPushdowns  \* bound: optimizer passes that push filters down

ASSUME ColsAssumption ==
  PartKeys \subseteq Cols /\ StringCols \subseteq Cols /\ OpaqueCols \subseteq Cols

ASSUME ValsAssumption ==
  Vals \subseteq Int /\ Null \notin Vals /\ Likes \subseteq Vals \X Vals

VARIABLES
  filters,       \* the filters of the query's plan above the scan
  predicates,    \* bind.predicates
  part_filters,  \* bind.part_filters
  passes,        \* calls of PaimonPushdownFilter so far
  phase,         \* "optimize", "planned", "done", "error"
  row,           \* the row of the data file under consideration
  read,          \* the scan delivers it
  result         \* the query returns it

vars == <<filters, predicates, part_filters, passes, phase, row, read, result>>

Values == Vals \cup {Null}
Rows   == [Cols -> Values]

-----------------------------------------------------------------------------
(***************************************************************************)
(* DuckDB's bound expressions, by class.                                   *)
(***************************************************************************)
Operand == [ref : {"column"}, col : Cols] \cup [ref : {"constant"}, value : Values]

Comparator == {"EQUAL", "NOTEQUAL", "LESSTHAN", "LESSTHANOREQUALTO",
               "GREATERTHAN", "GREATERTHANOREQUALTO"}
NullSafe   == {"DISTINCT_FROM", "NOT_DISTINCT_FROM"}

Comparison ==
  [class : {"comparison"}, type : Comparator \cup NullSafe, left : Operand, right : Operand]
Between ==
  [class : {"between"}, input : Operand, lower : Operand, upper : Operand,
   lower_inclusive : BOOLEAN, upper_inclusive : BOOLEAN]
Function == [class : {"function"}, name : STRING, children : Operand \X Operand]
NullTest ==
  {e \in [class : {"operator"}, type : {"IS_NULL", "IS_NOT_NULL"}, children : Seq(Operand)] :
     Len(e.children) = 1}
InList ==
  {e \in [class : {"operator"}, type : {"IN", "NOT_IN"}, children : Seq(Operand)] :
     Len(e.children) >= 2}
Negation ==
  {e \in [class : {"operator"}, type : {"NOT"}, children : Seq(Exprs)] : Len(e.children) = 1}
Conjunction ==
  {e \in [class : {"conjunction"}, type : {"AND", "OR"}, children : Seq(Exprs)] :
     Len(e.children) >= 1}

IsNot(e)      == e.class = "operator" /\ e.type = "NOT"
IsCompound(e) == e.class = "conjunction" \/ IsNot(e)

ASSUME ExprsAssumption ==
  /\ Exprs \subseteq Comparison \cup Between \cup Function \cup NullTest \cup InList
                       \cup Negation \cup Conjunction
  /\ Height \in [Exprs -> Nat]
  /\ \A e \in Exprs : IsCompound(e) =>
       \A i \in DOMAIN e.children : Height[e.children[i]] < Height[e]
  /\ FilterLists \subseteq Seq(Exprs)

-----------------------------------------------------------------------------
(***************************************************************************)
(* What they mean: an expression is true ("T"), false ("F") or unknown     *)
(* ("N") for a row, and a filter keeps the rows for which it is true.      *)
(***************************************************************************)
ValueOf(operand, r) == IF operand.ref = "column" THEN r[operand.col]
                                                 ELSE operand.value

Truth(b) == IF b THEN "T" ELSE "F"

Compares(a, op, b) ==
  CASE op = "EQUAL" -> a = b
    [] op = "NOTEQUAL" -> a # b
    [] op = "LESSTHAN" -> a < b
    [] op = "LESSTHANOREQUALTO" -> a <= b
    [] op = "GREATERTHAN" -> a > b
    [] op = "GREATERTHANOREQUALTO" -> a >= b

CompareTruth(a, op, b) ==
  IF op \in NullSafe THEN Truth((a = b) = (op = "NOT_DISTINCT_FROM"))
  ELSE IF a = Null \/ b = Null THEN "N" ELSE Truth(Compares(a, op, b))

AndTruth(ts) == IF "F" \in ts THEN "F" ELSE IF "N" \in ts THEN "N" ELSE "T"
OrTruth(ts)  == IF "T" \in ts THEN "T" ELSE IF "N" \in ts THEN "N" ELSE "F"
NotTruth(t)  == IF t = "T" THEN "F" ELSE IF t = "F" THEN "T" ELSE "N"

LikeMatches(v, pattern) == <<v, pattern>> \in Likes

BetweenTruth(e, r) ==
  LET v == ValueOf(e.input, r)
  IN  AndTruth({CompareTruth(v, IF e.lower_inclusive THEN "GREATERTHANOREQUALTO"
                                                     ELSE "GREATERTHAN",
                             ValueOf(e.lower, r)),
                CompareTruth(v, IF e.upper_inclusive THEN "LESSTHANOREQUALTO"
                                                     ELSE "LESSTHAN",
                             ValueOf(e.upper, r))})

FunctionTruth(e, r) ==
  LET v == ValueOf(e.children[1], r)
      k == ValueOf(e.children[2], r)
  IN  IF v = Null \/ k = Null THEN "N" ELSE Truth(LikeMatches(v, k))

InTruth(e, r) ==
  OrTruth({CompareTruth(ValueOf(e.children[1], r), "EQUAL", ValueOf(e.children[i], r)) :
             i \in 2..Len(e.children)})

OperatorTruth(e, r) ==
  CASE e.type = "IS_NULL" -> Truth(ValueOf(e.children[1], r) = Null)
    [] e.type = "IS_NOT_NULL" -> Truth(ValueOf(e.children[1], r) # Null)
    [] e.type = "IN" -> InTruth(e, r)
    [] e.type = "NOT_IN" -> NotTruth(InTruth(e, r))

\* The truth of e, where f has that of its children.
Evaluate(e, f) ==
  [r \in Rows |->
     CASE e.class = "comparison" ->
            CompareTruth(ValueOf(e.left, r), e.type, ValueOf(e.right, r))
       [] e.class = "between" -> BetweenTruth(e, r)
       [] e.class = "function" -> FunctionTruth(e, r)
       [] e.class = "operator" /\ ~IsNot(e) -> OperatorTruth(e, r)
       [] IsNot(e) -> NotTruth(f[e.children[1]][r])
       [] e.class = "conjunction" ->
            LET ts == {f[e.children[i]][r] : i \in DOMAIN e.children}
            IN  IF e.type = "AND" THEN AndTruth(ts) ELSE OrTruth(ts)]

Eval[e \in Exprs] == Evaluate(e, Eval)

Satisfies(fs, r) == \A i \in DOMAIN fs : Eval[fs[i]][r] = "T"

-----------------------------------------------------------------------------
(***************************************************************************)
(* Paimon's predicates, by what they say of rows: those a predicate        *)
(* accepts and those its negation accepts.  A leaf accepts no NULL, except *)
(* for the null tests; a negation is pushed down to the leaves and fails   *)
(* where a leaf has none.                                                  *)
(***************************************************************************)
Result(st, accepts, rejects, negatable) ==
  [st |-> st, accepts |-> accepts, rejects |-> rejects, negatable |-> negatable]

NoPredicate == Result("nullptr", {}, {}, FALSE)
Thrown      == Result("IOException", {}, {}, FALSE)
IsPredicate(p) == p.st = "predicate"

ComparisonFn(op) ==
  CASE op = "EQUAL" -> "Equal"
    [] op = "NOTEQUAL" -> "NotEqual"
    [] op = "LESSTHAN" -> "LessThan"
    [] op = "LESSTHANOREQUALTO" -> "LessOrEqual"
    [] op = "GREATERTHAN" -> "GreaterThan"
    [] op = "GREATERTHANOREQUALTO" -> "GreaterOrEqual"

Negated(fn) ==
  CASE fn = "Equal" -> "NotEqual"          [] fn = "NotEqual" -> "Equal"
    [] fn = "LessThan" -> "GreaterOrEqual" [] fn = "GreaterOrEqual" -> "LessThan"
    [] fn = "LessOrEqual" -> "GreaterThan" [] fn = "GreaterThan" -> "LessOrEqual"
    [] fn = "In" -> "NotIn"                [] fn = "NotIn" -> "In"
    [] fn = "IsNull" -> "IsNotNull"        [] fn = "IsNotNull" -> "IsNull"
    [] fn = "Like" -> "none"               [] fn = "none" -> "none"

\* What a leaf on a field with value v says, given its literals.
Test(fn, v, ks) ==
  CASE fn = "none" -> FALSE
    [] fn = "IsNull" -> v = Null
    [] fn = "IsNotNull" -> v # Null
    [] fn = "In" -> v # Null /\ v \in ks
    [] fn = "NotIn" -> v # Null /\ v \notin ks
    [] fn = "Like" -> v # Null /\ \A k \in ks : LikeMatches(v, k)
    [] OTHER -> v # Null /\ \A op \in Comparator, k \in ks :
                              fn = ComparisonFn(op) => Compares(v, op, k)

Leaf(fn, c, ks) ==
  Result("predicate", {r \in Rows : Test(fn, r[c], ks)},
         {r \in Rows : Test(Negated(fn), r[c], ks)}, Negated(fn) # "none")

And(ps) ==
  Result("predicate", {r \in Rows : \A p \in ps : r \in p.accepts},
         {r \in Rows : \E p \in ps : r \in p.rejects}, \A p \in ps : p.negatable)
Or(ps) ==
  Result("predicate", {r \in Rows : \E p \in ps : r \in p.accepts},
         {r \in Rows : \A p \in ps : r \in p.rejects}, \A p \in ps : p.negatable)
Not(p) ==
  IF p.negatable THEN Result("predicate", p.rejects, p.accepts, TRUE) ELSE NoPredicate

-----------------------------------------------------------------------------
(***************************************************************************)
(* The conversion.  ConvertLiteral throws for NULL, whatever the type, and *)
(* finds no literal for a type it does not know.                           *)
(***************************************************************************)
\* Mutant: a type without literals throws as well.
ConvertLiteral_TypeThrows(k, c) ==
  IF k = Null \/ c \in OpaqueCols THEN "throws" ELSE "ok"

ConvertLiteral(k, c) ==
  IF k = Null THEN "throws" ELSE IF c \in OpaqueCols THEN "none" ELSE "ok"

\* The predicate p, if all the constants ks of column c convert.
WithLiterals(ks, c, p) ==
  IF \E k \in ks : ConvertLiteral(k, c) = "throws" THEN Thrown
  ELSE IF \E k \in ks : ConvertLiteral(k, c) = "none" THEN NoPredicate
  ELSE p

FlipComparisonExpression(op) ==
  CASE op = "LESSTHAN" -> "GREATERTHAN"
    [] op = "LESSTHANOREQUALTO" -> "GREATERTHANOREQUALTO"
    [] op = "GREATERTHAN" -> "LESSTHAN"
    [] op = "GREATERTHANOREQUALTO" -> "LESSTHANOREQUALTO"
    [] OTHER -> op

TryConvertComparison(e) ==
  CASE e.type \in Comparator /\ e.left.ref = "column" /\ e.right.ref = "constant" ->
         WithLiterals({e.right.value}, e.left.col,
           Leaf(ComparisonFn(e.type), e.left.col, {e.right.value}))
    [] e.type \in Comparator /\ e.left.ref = "constant" /\ e.right.ref = "column" ->
         WithLiterals({e.left.value}, e.right.col,
           Leaf(ComparisonFn(FlipComparisonExpression(e.type)), e.right.col,
                {e.left.value}))
    [] OTHER -> NoPredicate

TryConvertBetween(e) ==
  IF e.input.ref # "column" \/ e.lower.ref # "constant" \/ e.upper.ref # "constant"
    THEN NoPredicate
    ELSE WithLiterals({e.lower.value, e.upper.value}, e.input.col,
           And({Leaf(IF e.lower_inclusive THEN "GreaterOrEqual" ELSE "GreaterThan",
                     e.input.col, {e.lower.value}),
                Leaf(IF e.upper_inclusive THEN "LessOrEqual" ELSE "LessThan",
                     e.input.col, {e.upper.value})}))

\* prefix, suffix, contains and ~~ become one function here.
TryConvertFunction(e) ==
  IF \/ e.name # "like"
     \/ e.children[1].ref # "column"
     \/ e.children[1].col \notin StringCols
     \/ e.children[2].ref # "constant"
    THEN NoPredicate
    ELSE WithLiterals({e.children[2].value}, e.children[1].col,
           Leaf("Like", e.children[1].col, {e.children[2].value}))

\* The elements of a list that are no constants or have no literal, and those
\* that are NULL.
BadElements(e) ==
  {i \in 2..Len(e.children) :
     \/ e.children[i].ref # "constant"
     \/ ConvertLiteral(e.children[i].value, e.children[1].col) # "ok"}
Nulls(e) ==
  {i \in 2..Len(e.children) : e.children[i].ref = "constant" /\ e.children[i].value = Null}

\* IN needs all of its elements.  NOT IN takes the elements that convert, in
\* the order of the list, and a NULL in it throws.
ConvertIn(e) ==
  LET c    == e.children[1].col
      bad  == BadElements(e)
      good == {e.children[i].value : i \in 2..Len(e.children) \ bad}
  IN  IF e.type = "IN"
        THEN IF bad = {} THEN Leaf("In", c, good)
             ELSE IF Min(bad) \in Nulls(e) THEN Thrown ELSE NoPredicate
        ELSE IF Nulls(e) # {} THEN Thrown
             ELSE IF good = {} THEN NoPredicate ELSE Leaf("NotIn", c, good)

\* Mutant: an OR keeps the children it can convert, as an AND may.
Combine_OrKeepsSome(type, ps) ==
  LET good == {i \in DOMAIN ps : IsPredicate(ps[i])}
      converted == {ps[i] : i \in good}
  IN  CASE \E i \in DOMAIN ps : ps[i] = Thrown -> Thrown
        [] (\A i \in DOMAIN ps : ps[i] # Thrown) /\ good = {} -> NoPredicate
        [] OTHER -> IF type = "AND" THEN And(converted) ELSE Or(converted)

\* TryConvertConjunction, given the conversions of the children: an OR gives
\* up at the first child that does not convert, an AND leaves it to DuckDB.
Combine(type, ps) ==
  LET good == {i \in DOMAIN ps : IsPredicate(ps[i])}
      bad  == DOMAIN ps \ good
      converted == {ps[i] : i \in good}
  IN  IF type = "OR" /\ bad # {} THEN ps[Min(bad)]
      ELSE IF \E i \in bad : ps[i] = Thrown THEN Thrown
      ELSE IF good = {} THEN NoPredicate
      ELSE IF type = "AND" THEN And(converted) ELSE Or(converted)

\* f has the conversions of the children.
TryConvertOperator(e, f) ==
  IF e.type = "NOT"
    THEN LET p == f[e.children[1]]
         IN  IF IsPredicate(p) THEN Not(p) ELSE p
    ELSE IF e.children[1].ref # "column" THEN NoPredicate
    ELSE CASE e.type = "IS_NULL" -> Leaf("IsNull", e.children[1].col, {})
           [] e.type = "IS_NOT_NULL" -> Leaf("IsNotNull", e.children[1].col, {})
           [] OTHER -> ConvertIn(e)

TryConvert(e, f) ==
  CASE e.class = "comparison" -> TryConvertComparison(e)
    [] e.class = "between" -> TryConvertBetween(e)
    [] e.class = "function" -> TryConvertFunction(e)
    [] e.class = "operator" -> TryConvertOperator(e, f)
    [] e.class = "conjunction" ->
         Combine(e.type, [i \in DOMAIN e.children |-> f[e.children[i]]])

TryConvertExpression[e \in Exprs] == TryConvert(e, TryConvertExpression)

-----------------------------------------------------------------------------
(***************************************************************************)
(* Partition filters: maps from partition keys to partition values, of     *)
(* which a partition has to match one.  A value is the text of a constant; *)
(* the partition of the NULL values has a name of its own.                 *)
(***************************************************************************)
PartText(k)    == [text |-> k]
DefaultName    == [text |-> Null]
PartName(r, c) == IF r[c] = Null THEN DefaultName ELSE PartText(r[c])

NoMap == [c \in {} |-> DefaultName]

\* All constraints of the maps, of two on one key the later one.
Overlay(maps) ==
  [c \in UNION {DOMAIN maps[i] : i \in DOMAIN maps} |->
     maps[Max({i \in DOMAIN maps : c \in DOMAIN maps[i]})][c]]

\* The constraint of an equality; NoMap if it is not about a partition key.
EqualityFilter(column, constant) ==
  IF column.col \in PartKeys /\ constant.value # Null
    THEN [c \in {column.col} |-> PartText(constant.value)] ELSE NoMap

\* The constraints on partition keys in an equality or a conjunction, where m
\* has those of the children.
ExtractPartitionFilter(e, m) ==
  CASE e.class = "comparison" /\ e.type = "EQUAL" ->
         IF e.left.ref = "column" /\ e.right.ref = "constant"
           THEN EqualityFilter(e.left, e.right)
         ELSE IF e.left.ref = "constant" /\ e.right.ref = "column"
           THEN EqualityFilter(e.right, e.left)
         ELSE NoMap
    [] e.class = "conjunction" /\ e.type = "AND" ->
         Overlay([i \in DOMAIN e.children |-> m[e.children[i]]])
    [] OTHER -> NoMap

TryExtractPartitionFilter[e \in Exprs] ==
  ExtractPartitionFilter(e, TryExtractPartitionFilter)

\* One map for an equality or an AND, one for each child of an OR, none if
\* there is a child without a partition constraint.
TryExtractPartitionFilters(e) ==
  LET maps == IF e.class = "conjunction" /\ e.type = "OR"
                THEN {TryExtractPartitionFilter[e.children[i]] : i \in DOMAIN e.children}
                ELSE {TryExtractPartitionFilter[e]}
  IN  IF NoMap \in maps THEN {} ELSE maps

\* The product of the disjunctions ds: every choice of one map from each, but
\* for the contradictory choices.
MergePartFilters(ds) ==
  LET Agree(m, n) == \A c \in DOMAIN m \cap DOMAIN n : m[c] = n[c]
      choices == {ch \in [DOMAIN ds -> UNION {ds[i] : i \in DOMAIN ds}] :
                    \A i \in DOMAIN ds : ch[i] \in ds[i]}
  IN  {Overlay(ch) : ch \in {x \in choices : \A i, j \in DOMAIN ds : Agree(x[i], x[j])}}

\* The filters without a partition constraint do not take part.
PartFilters(fs) ==
  LET used == {i \in DOMAIN fs : TryExtractPartitionFilters(fs[i]) # {}}
  IN  IF used = {} THEN {}
      ELSE MergePartFilters([i \in used |-> TryExtractPartitionFilters(fs[i])])

-----------------------------------------------------------------------------
NoRow == [c \in Cols |-> Null]

Init ==
  /\ filters = <<>> /\ predicates = NoPredicate /\ part_filters = {}
  /\ passes = 0 /\ phase = "optimize"
  /\ row = NoRow /\ read = FALSE /\ result = FALSE

\* The predicate of a list of filters, all of which have to hold.
PredicateOf(fs) == Combine("AND", [i \in DOMAIN fs |-> TryConvertExpression[fs[i]]])

\* The optimizer hands the filters above the scan to PaimonPushdownFilter, which
\* replaces what an earlier pass has left in the bind data.  The filters stay in
\* the plan.  An exception from a conversion fails the query.
PaimonPushdownFilter(fs) ==
  LET p == PredicateOf(fs) IN
  /\ phase = "optimize" /\ passes < MaxPushdowns
  /\ passes' = passes + 1
  /\ filters' = fs
  /\ phase' = IF p = Thrown THEN "error" ELSE "optimize"
  /\ predicates' = IF p = Thrown THEN predicates ELSE p
  /\ part_filters' = IF p = Thrown THEN part_filters ELSE PartFilters(fs)
  /\ UNCHANGED <<row, read, result>>

Excluded(r) ==
  \/ IsPredicate(predicates) /\ r \notin predicates.accepts
  \/ /\ part_filters # {}
     /\ \A m \in part_filters : \E c \in DOMAIN m : m[c] # PartName(r, c)

\* Paimon plans the splits with what was pushed down: a file it could exclude
\* may be in the plan or not.
CreatePaimonScanSplits(r) ==
  /\ phase = "optimize"
  /\ phase' = "planned"
  /\ row' = r
  /\ read' \in IF Excluded(r) THEN BOOLEAN ELSE {TRUE}
  /\ UNCHANGED <<filters, predicates, part_filters, passes, result>>

\* DuckDB evaluates the filters of its plan on what the scan delivers.
FilterRows ==
  /\ phase = "planned"
  /\ phase' = "done"
  /\ result' = (read /\ Satisfies(filters, row))
  /\ UNCHANGED <<filters, predicates, part_filters, passes, row, read>>

Next ==
  \/ \E fs \in FilterLists : PaimonPushdownFilter(fs)
  \/ \E r \in Rows : CreatePaimonScanSplits(r)
  \/ FilterRows

Spec == Init /\ [][Next]_vars

-----------------------------------------------------------------------------
(***************************************************************************)
(* Which negations are harmless.  The conversion of an AND and of a NOT IN *)
(* may say less than the expression; a NOT above then says more, and a     *)
(* second NOT less again.                                                  *)
(***************************************************************************)
\* Parts of e are left to DuckDB.
Weakens(e) ==
  \/ /\ e.class = "operator" /\ e.type = "NOT_IN"
     /\ BadElements(e) # {}
  \/ /\ e.class = "conjunction" /\ e.type = "AND"
     /\ \E i \in DOMAIN e.children : ~IsPredicate(TryConvertExpression[e.children[i]])

\* For an expression below an odd (neg) or even number of negations, where f
\* tells it of the children.
KeepsMatches(e, f) ==
  [neg \in BOOLEAN |->
     IsPredicate(TryConvertExpression[e]) =>
       /\ neg => ~Weakens(e)
       /\ IsCompound(e) => \A i \in DOMAIN e.children :
            f[e.children[i]][IF IsNot(e) THEN ~neg ELSE neg]]

Harmless[e \in Exprs] == KeepsMatches(e, Harmless)

NegationsHarmless(fs) == \A i \in DOMAIN fs : Harmless[fs[i]][FALSE]

\* No constant in e is NULL, where f tells it of the children.
Operands(e) ==
  CASE e.class = "comparison" -> {e.left, e.right}
    [] e.class = "between" -> {e.input, e.lower, e.upper}
    [] IsCompound(e) -> {}
    [] OTHER -> {e.children[i] : i \in DOMAIN e.children}

WithoutNull(e, f) ==
  /\ \A x \in Operands(e) : x.ref = "constant" => x.value # Null
  /\ IsCompound(e) => \A i \in DOMAIN e.children : f[e.children[i]]

NullFree[e \in Exprs] == WithoutNull(e, NullFree)

-----------------------------------------------------------------------------
\* A query returns exactly the rows that satisfy the filters of its last
\* plan, whatever files Paimon leaves out, however the filters are nested
\* and whatever an earlier pass of the optimizer has pushed down
\* (PaimonPushdownFilter, CreatePaimonScanSplits), as long as no NOT stands
\* above a conversion that leaves something out.
ScanIsExact ==
  phase = "done" /\ NegationsHarmless(filters) => (result <=> Satisfies(filters, row))

\* Pushdown fails a query only because of a NULL constant in a filter; columns
\* of unsupported types and expressions without a Paimon form are left to
\* DuckDB, wherever they stand (TryConvertExpression, ConvertLiteral).
FailsOnlyOnNull ==
  phase = "error" => \E i \in DOMAIN filters : ~NullFree[filters[i]]

\* The comment in PaimonPushdownFilter: what is pushed down may make the scan
\* return more rows than the filters allow, so never fewer.
PushdownKeepsMatches ==
  phase \in {"planned", "done"} /\ Satisfies(filters, row) => read

\* Pushdown is best effort (TryConvertOperator): a filter that has no Paimon
\* form is left to DuckDB and never fails the query.
PushdownNeverThrows == phase # "error"

=============================================================================
