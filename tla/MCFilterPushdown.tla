-------------------------- MODULE MCFilterPushdown --------------------------
(***************************************************************************)
(* Instances of FilterPushdown: a table with the string column data, which *)
(* is partitioned by part, of a type with literals, and opaque, of a type  *)
(* without.                                                                *)
(***************************************************************************)
EXTENDS FilterPushdown

CONSTANTS part, opaque, data

MCCols       == {part, opaque, data}
MCPartKeys   == {part, opaque}
MCStringCols == {data}
MCOpaqueCols == {opaque}
MCVals       == {1, 2}

\* Every pattern matches itself and what is larger.
MCLikes == {p \in MCVals \X MCVals : p[1] >= p[2]}

Col(c)   == [ref |-> "column", col |-> c]
Const(k) == [ref |-> "constant", value |-> k]
Compare(left, op, right) ==
  [class |-> "comparison", type |-> op, left |-> left, right |-> right]
IsBetween(input, lower, upper, lower_inclusive, upper_inclusive) ==
  [class |-> "between", input |-> input, lower |-> lower, upper |-> upper,
   lower_inclusive |-> lower_inclusive, upper_inclusive |-> upper_inclusive]
Operator(type, children) == [class |-> "operator", type |-> type, children |-> children]
Call(name, children) == [class |-> "function", name |-> name, children |-> children]
Conjoin(type, children) ==
  [class |-> "conjunction", type |-> type, children |-> children]

Eq(c, k) == Compare(Col(c), "EQUAL", Const(k))

\* Leaves whose conversion has the meaning of the leaf.
Exact ==
  {Eq(part, 1), Eq(part, 2),
   Compare(Const(2), "EQUAL", Col(part)),
   Compare(Col(data), "LESSTHAN", Const(2)),
   Compare(Const(1), "LESSTHAN", Col(data)),
   Compare(Const(2), "GREATERTHANOREQUALTO", Col(data)),
   Compare(Col(data), "NOTEQUAL", Const(1)),
   IsBetween(Col(data), Const(1), Const(2), TRUE, FALSE),
   IsBetween(Col(data), Const(1), Const(2), FALSE, TRUE),
   Operator("IN", <<Col(data), Const(1)>>),
   Operator("NOT_IN", <<Col(data), Const(1)>>),
   Operator("IS_NULL", <<Col(part)>>),
   Operator("IS_NOT_NULL", <<Col(data)>>),
   Call("like", <<Col(data), Const(2)>>)}

\* Leaves that are converted in part or not at all.
Inexact ==
  {Eq(opaque, 1), Eq(opaque, 2),
   Compare(Col(part), "EQUAL", Col(data)),
   Compare(Col(data), "DISTINCT_FROM", Const(1)),
   Compare(Const(Null), "NOT_DISTINCT_FROM", Col(part)),
   IsBetween(Col(part), Const(1), Col(data), TRUE, TRUE),
   Operator("IN", <<Col(data), Const(1), Col(part)>>),
   Operator("NOT_IN", <<Col(data), Const(1), Col(part)>>),
   Call("like", <<Col(part), Const(2)>>),
   Call("regexp", <<Col(data), Const(2)>>)}

Leaves == Exact \cup Inexact

\* For the second level and for lists of two filters.
Few == {Eq(part, 1), Eq(part, 2), Eq(opaque, 1), Compare(Col(data), "LESSTHAN", Const(2)),
        Compare(Col(part), "EQUAL", Col(data))}
FewExact == Few \cap Exact

Pairs(type, es, fs) == {Conjoin(type, <<a, b>>) : a \in es, b \in fs}
AnyPairs(es, fs)    == Pairs("AND", es, fs) \cup Pairs("OR", es, fs)

MCExactLists ==
  LET Negs   == {Operator("NOT", <<e>>) : e \in Exact \cup Pairs("OR", Few, Few)
                                            \cup Pairs("AND", FewExact, FewExact)}
      Nested == AnyPairs(AnyPairs({Eq(part, 1), Eq(opaque, 1)}, Few),
                         {Eq(part, 2), Compare(Col(part), "EQUAL", Col(data))})
      One    == Leaves \cup AnyPairs(Leaves, Few) \cup Negs \cup Nested
      Two    == Few \cup Pairs("OR", {Eq(part, 1), Eq(opaque, 1)},
                                     {Eq(part, 2), Eq(opaque, 2)})
  IN  {<<e>> : e \in One} \cup (Two \X Two)

\* Negations of conjunctions of which a part may not convert.
MCNegatedLists == {<<Operator("NOT", <<e>>)>> : e \in Pairs("AND", Few, Few)}

\* Lists of constants with a NULL.
MCNullLists ==
  {<<Operator(type, <<Col(data), Const(1), Const(Null)>>)>> : type \in {"IN", "NOT_IN"}}

\* A NULL that is or is not reached, and negations of negations.
MCFilterLists ==
  LET Twice(e) == Operator("NOT", <<Operator("NOT", <<e>>)>>)
      NullOr   == {Conjoin("OR", <<e, Eq(data, Null)>>) : e \in Few}
      NullList == {<<IsBetween(Col(c), Const(1), Const(Null), TRUE, TRUE)>> : c \in MCCols}
  IN  MCExactLists \cup MCNegatedLists \cup MCNullLists \cup NullList
        \cup {<<e>> : e \in NullOr}
        \cup {<<Twice(e)>> : e \in Pairs("AND", Few, Few) \cup Inexact}

\* The expressions of the lists, and their heights.
RECURSIVE HeightOf(_), Subexpressions(_)
ChildrenOf(e) == IF IsCompound(e) THEN {e.children[i] : i \in DOMAIN e.children} ELSE {}
HeightOf(e) ==
  IF ChildrenOf(e) = {} THEN 0 ELSE 1 + Max({HeightOf(x) : x \in ChildrenOf(e)})
Subexpressions(e) == {e} \cup UNION {Subexpressions(x) : x \in ChildrenOf(e)}

MCExprs  == UNION {UNION {Subexpressions(fs[i]) : i \in DOMAIN fs} : fs \in MCFilterLists}
MCHeight == [e \in MCExprs |-> HeightOf(e)]

\* What is computed along the expressions is defined for all of them.
ASSUME MCTypes ==
  /\ Eval \in [MCExprs -> [Rows -> {"T", "F", "N"}]]
  /\ TryConvertExpression \in
       [MCExprs -> [st : {"predicate", "nullptr", "IOException"}, accepts : SUBSET Rows,
                    rejects : SUBSET Rows, negatable : BOOLEAN]]
  /\ TryExtractPartitionFilter \in
       [MCExprs -> UNION {[S -> [text : Values]] : S \in SUBSET PartKeys}]
  /\ Harmless \in [MCExprs -> [BOOLEAN -> BOOLEAN]]
  /\ NullFree \in [MCExprs -> BOOLEAN]

=============================================================================
