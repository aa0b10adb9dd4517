---------------------------- MODULE QueryCompile ----------------------------
(***************************************************************************)
(* CompileQuery (src/mc/query/compile.go): the SQL of a query.  The tables *)
(* and columns are names, the WHERE clause is the sequence of its tokens,  *)
(* for SQLite reads it again with its own precedence.                      *)
(***************************************************************************)
EXTENDS Naturals, Sequences, FiniteSets, TLC

\* The namespace of every statement.
Wild == <<"*">>

-----------------------------------------------------------------------------
(***************************************************************************)
(* Which tables: Statement alone, Envelope alone or both, and Refs.        *)
(***************************************************************************)
statementSelectorp == {"*", "body", "id"}
envelopeSelectorp  == {"id", "publisher", "namespace", "source", "timestamp", "counter"}

selectorp(sel, tbl, funp) ==
    CASE sel.type = "simple"   -> sel.sel \in tbl
      [] sel.type = "compound" -> \A i \in DOMAIN sel.sels : sel.sels[i] \in tbl
      [] sel.type = "function" -> funp

isStatementSelector(sel) == selectorp(sel, statementSelectorp, FALSE)
isEnvelopeSelector(sel)  == selectorp(sel, envelopeSelectorp, TRUE)

RECURSIVE isStatementCriteria(_)
isStatementCriteria(c) ==
    CASE c.type = "value"    -> c.sel = "id"
      [] c.type = "compound" -> isStatementCriteria(c.left) /\ isStatementCriteria(c.right)
      [] c.type = "negated"  -> isStatementCriteria(c.e)
      [] OTHER -> FALSE

RECURSIVE isIndexCriteria(_)
isIndexCriteria(c) ==
    CASE c.type = "index"    -> TRUE
      [] c.type = "compound" -> isIndexCriteria(c.left) \/ isIndexCriteria(c.right)
      [] c.type = "negated"  -> isIndexCriteria(c.e)
      [] OTHER -> FALSE

isStatementQuery(q) ==
    /\ q.namespace = Wild
    /\ isStatementSelector(q.selector)
    /\ q.criteria.type = "none" \/ isStatementCriteria(q.criteria)
    /\ q.order = <<>>

isEnvelopeQuery(q) == isEnvelopeSelector(q.selector)

indexCriteriaTableNames == "wki" :> "Refs"

\* indexCriteriaTables: the tables of the index criteria anywhere in c.
RECURSIVE collectIndexCriteriaTables(_)
collectIndexCriteriaTables(c) ==
    CASE c.type = "index"    -> {indexCriteriaTableNames[c.sel]}
      [] c.type = "compound" -> collectIndexCriteriaTables(c.left)
                                \cup collectIndexCriteriaTables(c.right)
      [] c.type = "negated"  -> collectIndexCriteriaTables(c.e)
      [] OTHER -> {}

FromTables(q) ==
    CASE isStatementQuery(q) -> {"Statement"}
      [] isEnvelopeQuery(q)  -> {"Envelope"}
      [] OTHER -> {"Statement", "Envelope"}

Joins(q) == Cardinality(FromTables(q)) = 2 \/ isIndexCriteria(q.criteria)

-----------------------------------------------------------------------------
(***************************************************************************)
(* Columns.  table is "" where the name is not qualified.                  *)
(***************************************************************************)
Column(table, name) == [table |-> table, name |-> name]

\* Slip: id is never qualified.
BareSelector(col, join) == Column("", col)

disambigSelector(col, join) ==
    IF join /\ col = "id" THEN Column("Envelope", "id") ELSE Column("", col)

\* selectorColumnSimple, selectorColumnCompound and selectorColumnFun.
Constant1 == [table |-> "", name |-> "1"]
distinctSelectors == {"namespace", "publisher", "source"}
selectorColumn(sel, join) == disambigSelector(IF sel \in {"*", "body"} THEN "data" ELSE sel, join)

functionAllowedSelectors ==
    [COUNT |-> statementSelectorp \cup envelopeSelectorp,
     MIN |-> {"timestamp", "counter"}, MAX |-> {"timestamp", "counter"}]
checkFunctionSelector(sel) == sel.sel \in functionAllowedSelectors[sel.op]

\* cols, whether they are DISTINCT, and the function applied to them.
compileQueryColumns(q, join) ==
    LET sel == q.selector
        Only(s) == [fun |-> "", distinct |-> s \in distinctSelectors,
                    cols |-> <<selectorColumn(s, join)>>]
    IN CASE sel.type = "simple" -> Only(sel.sel)
         [] sel.type = "compound" ->
              IF Len(sel.sels) = 1 THEN Only(sel.sels[1])
              ELSE [fun |-> "", distinct |-> FALSE,
                    cols |-> [i \in DOMAIN sel.sels |-> selectorColumn(sel.sels[i], join)]]
         [] sel.type = "function" ->
              [fun |-> sel.op, distinct |-> sel.sel \in distinctSelectors,
               cols |-> IF sel.sel \in {"*", "body"} THEN <<Constant1>>
                        ELSE <<selectorColumn(sel.sel, join)>>]

-----------------------------------------------------------------------------
(***************************************************************************)
(* The WHERE clause.                                                       *)
(***************************************************************************)
Word(k) == [k |-> k]
Cmp(col, op, val) == [k |-> "cmp", col |-> col, op |-> op, val |-> val]

\* A namespace that ends in .* selects by the prefix before the dot.
IsPrefix(ns) == Len(ns) > 1 /\ ns[Len(ns)] = "*"
Prefix(ns) == SubSeq(ns, 1, Len(ns) - 2)

compileNamespaceCriteria(ns) ==
    IF ns = Wild THEN <<>>
    ELSE IF IsPrefix(ns) THEN <<Cmp(Column("", "namespace"), "LIKE", Prefix(ns))>>
    ELSE <<Cmp(Column("", "namespace"), "=", ns)>>

\* Slip: a compound criterion is written without parentheses.
RECURSIVE BareSelectorCriteria(_, _)
BareSelectorCriteria(c, join) ==
    CASE c.type = "compound" ->
            BareSelectorCriteria(c.left, join) \o <<Word(c.op)>> \o BareSelectorCriteria(c.right, join)
      [] c.type = "negated" -> <<Word("NOT")>> \o BareSelectorCriteria(c.e, join)
      [] c.type = "value" -> <<Cmp(disambigSelector(c.sel, join), c.op, c.val)>>
      [] OTHER -> <<Cmp(Column("", c.sel), IF c.type = "index" THEN "=" ELSE c.op, c.val)>>

RECURSIVE compileSelectorCriteria(_, _)
compileSelectorCriteria(c, join) ==
    CASE c.type = "value" -> <<Cmp(disambigSelector(c.sel, join), c.op, c.val)>>
      [] c.type = "range" -> <<Cmp(Column("", c.sel), c.op, c.val)>>
      [] c.type = "index" -> <<Cmp(Column("", c.sel), "=", c.val)>>
      [] c.type = "compound" ->
            <<Word("(")>> \o compileSelectorCriteria(c.left, join) \o <<Word(c.op)>>
              \o compileSelectorCriteria(c.right, join) \o <<Word(")")>>
      [] c.type = "negated" -> <<Word("NOT")>> \o compileSelectorCriteria(c.e, join)

\* Slip: the namespace only counts where there are no other criteria.
EitherCriteria(q, join) ==
    IF q.criteria.type = "none" THEN compileNamespaceCriteria(q.namespace)
    ELSE compileSelectorCriteria(q.criteria, join)

compileQueryCriteria(q, join) ==
    LET nscrit == compileNamespaceCriteria(q.namespace) IN
    IF q.criteria.type = "none" THEN nscrit
    ELSE LET scrit == compileSelectorCriteria(q.criteria, join) IN
         IF nscrit # <<>> THEN nscrit \o <<Word("AND")>> \o scrit ELSE scrit

compileQueryOrder(q, join) ==
    [i \in DOMAIN q.order |-> [col |-> disambigSelector(q.order[i].sel, join), dir |-> q.order[i].dir]]

-----------------------------------------------------------------------------
(***************************************************************************)
(* The variables that a row is scanned into.                               *)
(***************************************************************************)
makeSimpleRowSelector ==
    [s \in statementSelectorp \cup envelopeSelectorp |->
        CASE s = "*" -> "statement" [] s = "body" -> "body"
          [] s \in {"timestamp", "counter"} -> "int64" [] OTHER -> "string"]
makeFunRowSelector == [COUNT |-> "int", MIN |-> "nullint64", MAX |-> "nullint64"]

compileQueryRowSelector(q) ==
    CASE q.selector.type = "simple"   -> <<makeSimpleRowSelector[q.selector.sel]>>
      [] q.selector.type = "compound" ->
            [i \in DOMAIN q.selector.sels |-> makeSimpleRowSelector[q.selector.sels[i]]]
      [] q.selector.type = "function" -> <<makeFunRowSelector[q.selector.op]>>

\* A compile error: an illegal function selector.
Illegal(q) == q.selector.type = "function" /\ ~checkFunctionSelector(q.selector)

CompileQuery(q) ==
    LET join == Joins(q) IN
    [from |-> FromTables(q) \cup collectIndexCriteriaTables(q.criteria),
     indices |-> collectIndexCriteriaTables(q.criteria),
     cols |-> compileQueryColumns(q, join),
     where |-> compileQueryCriteria(q, join),
     order |-> compileQueryOrder(q, join),
     limit |-> q.limit,
     rsel |-> compileQueryRowSelector(q)]
=============================================================================
