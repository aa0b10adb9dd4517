----------------------------- MODULE QueryEval -----------------------------
(***************************************************************************)
(* EvalQuery (src/mc/query/eval.go), which answers a query over statements *)
(* in memory, and what a statement is to a query (stmt.go).                *)
(*                                                                         *)
(* A statement has an id, a namespace, a publisher, a timestamp and a      *)
(* body: [kind |-> "simple", refs], [kind |-> "compound", parts], a        *)
(* sequence of sets of refs, or [kind |-> "envelope", stmts], a sequence   *)
(* of statements.  "*" and body select pointers into the statement: its id *)
(* stands for them.                                                        *)
(***************************************************************************)
EXTENDS QueryCompile, Integers

CONSTANT HasPrefix   \* the pairs <<p, ns>> where p begins ns

-----------------------------------------------------------------------------
RECURSIVE StatementRefs(_)
StatementRefs(stmt) ==
    LET body == stmt.body IN
    CASE body.kind = "simple"   -> body.refs
      [] body.kind = "compound" -> UNION {body.parts[i] : i \in DOMAIN body.parts}
      [] body.kind = "envelope" -> UNION {StatementRefs(body.stmts[i]) : i \in DOMAIN body.stmts}

RECURSIVE StatementSource(_)
StatementSource(stmt) ==
    IF stmt.body.kind = "envelope" /\ stmt.body.stmts # <<>>
    THEN StatementSource(stmt.body.stmts[1])
    ELSE stmt.publisher

-----------------------------------------------------------------------------
(***************************************************************************)
(* The filters.  counter is "undefined in eval": 0.  The source of a       *)
(* criterion is the publisher.                                             *)
(***************************************************************************)
namespaceFilter(ns, stmt) ==
    \/ ns = Wild
    \/ IsPrefix(ns) /\ <<Prefix(ns), stmt.namespace>> \in HasPrefix
    \/ ns = stmt.namespace

valueCriteriaFilterSelect(sel, stmt) == IF sel = "id" THEN stmt.id ELSE stmt.publisher
rangeCriteriaFilterSelect(sel, stmt) == IF sel = "timestamp" THEN stmt.timestamp ELSE 0

rangeCriteriaFilterCompare(op, a, b) ==
    CASE op = "<=" -> a <= b [] op = "<" -> a < b [] op = "=" -> a = b
      [] op = "!=" -> a # b  [] op = ">=" -> a >= b [] op = ">" -> a > b

RECURSIVE criteriaFilter(_, _)
criteriaFilter(c, stmt) ==
    CASE c.type = "none"  -> TRUE
      [] c.type = "value" -> (valueCriteriaFilterSelect(c.sel, stmt) = c.val) <=> (c.op = "=")
      [] c.type = "range" ->
            rangeCriteriaFilterCompare(c.op, rangeCriteriaFilterSelect(c.sel, stmt), c.val)
      [] c.type = "index" -> c.val \in StatementRefs(stmt)
      [] c.type = "compound" ->
            IF c.op = "AND" THEN criteriaFilter(c.left, stmt) /\ criteriaFilter(c.right, stmt)
            ELSE criteriaFilter(c.left, stmt) \/ criteriaFilter(c.right, stmt)
      [] c.type = "negated" -> ~criteriaFilter(c.e, stmt)

-----------------------------------------------------------------------------
(***************************************************************************)
(* The result sets.  A bag of results is a function from results to how    *)
(* often they occur.                                                       *)
(***************************************************************************)
simpleSelectors(sel, stmt) ==
    CASE sel \in {"*", "body", "id"} -> stmt.id
      [] sel = "publisher" -> stmt.publisher
      [] sel = "namespace" -> stmt.namespace
      [] sel = "source"    -> StatementSource(stmt)
      [] sel = "timestamp" -> stmt.timestamp
      [] sel = "counter"   -> 0

Once(S) == [x \in S |-> 1]
Times(n, f) ==
    LET results == {f[i] : i \in 1 .. n} IN
    [x \in results |-> Cardinality({i \in 1 .. n : f[i] = x})]

\* SimpleResultSet: while the set holds fewer than limit results.
RECURSIVE SimpleResultSet(_, _, _)
SimpleResultSet(stmts, sel, limit) ==
    IF stmts = <<>> THEN {}
    ELSE LET n == Len(stmts)
             rset == SimpleResultSet(SubSeq(stmts, 1, n - 1), sel, limit)
         IN IF limit = 0 \/ Cardinality(rset) < limit
            THEN rset \cup {simpleSelectors(sel, stmts[n])} ELSE rset

\* CompoundResultSet: one object for each statement, whatever the limit.
CompoundResultSet(stmts, sels) ==
    Times(Len(stmts),
          [i \in DOMAIN stmts |->
              [s \in {sels[j] : j \in DOMAIN sels} |-> simpleSelectors(s, stmts[i])]])

LeastOf(S) == CHOOSE x \in S : \A y \in S : x <= y
GreatestOf(S) == CHOOSE x \in S : \A y \in S : x >= y

\* FunctionResultSet: 0 is the MIN and the MAX of nothing.
functionSelectors(op, S) ==
    CASE op = "COUNT" -> Cardinality(S)
      [] op = "MIN" -> IF S = {} THEN 0 ELSE LeastOf(S)
      [] op = "MAX" -> IF S = {} THEN 0 ELSE GreatestOf(S)

\* The statements rs.add is called with.
Selected(q, stmts) ==
    SelectSeq(stmts, LAMBDA stmt : /\ namespaceFilter(q.namespace, stmt)
                                   /\ criteriaFilter(q.criteria, stmt))

\* MIN and MAX assert that the results are int64; a timestamp is, and the
\* counter, "undefined for eval", is the int 0.
EvalPanics(q, stmts) ==
    /\ q.selector.type = "function" /\ q.selector.op \in {"MIN", "MAX"}
    /\ q.selector.sel = "counter" /\ Selected(q, stmts) # <<>>

EvalQuery(q, stmts) ==
    LET sel == q.selector
        found == Selected(q, stmts)
    IN CASE sel.type = "simple"   -> Once(SimpleResultSet(found, sel.sel, q.limit))
         [] sel.type = "compound" -> CompoundResultSet(found, sel.sels)
         [] sel.type = "function" ->
              Once({functionSelectors(sel.op, SimpleResultSet(found, sel.sel, q.limit))})
=============================================================================
