---------------------------- MODULE QueryEngine ----------------------------
(***************************************************************************)
(* A query from its text to its answers: ParseQuery (parse.go), then the   *)
(* compiled SQL run by SQLite on the tables of the statement database, as  *)
(* SQLDB.Query does (src/mcnode/db.go), and EvalQuery on the same          *)
(* statements.                                                             *)
(***************************************************************************)
EXTENDS ParseState, QueryEval

LOCAL F == INSTANCE Functions

CONSTANTS Like,       \* the pairs <<p, ns>> where ns LIKE 'p%'
          Queries,    \* queries that are written out as texts
          Strays,     \* other texts, most of them no queries
          Databases   \* sequences of statements

ASSUME LikeAssumption == HasPrefix \subseteq Like   \* LIKE ignores the case

VARIABLES meant,   \* the query the text was written from, EmptyQuery if none
          text,
          pc,
          tree,    \* the tokens of the parse that are not yet executed
          ps,      \* the parse state
          stmts,   \* the statements that are asked
          rows,    \* the rows of the compiled query
          found    \* the result of EvalQuery

vars == <<meant, text, pc, tree, ps, stmts, rows, found>>

-----------------------------------------------------------------------------
(***************************************************************************)
(* SQLite.  NOT binds stronger than AND, and AND stronger than OR.         *)
(***************************************************************************)
SqlGrammar ==
    [Or  |-> Sequ(<<Rule("And"), Star(Sequ(<<Lit({"OR"}), Rule("And"), Act("or")>>))>>),
     And |-> Sequ(<<Rule("Not"), Star(Sequ(<<Lit({"AND"}), Rule("Not"), Act("and")>>))>>),
     Not |-> Alt(<<Sequ(<<Lit({"NOT"}), Rule("Not"), Act("not")>>),
                   Sequ(<<Lit({"("}), Rule("Or"), Lit({")"})>>),
                   Sequ(<<Lit({"cmp"}), Act("cmp")>>)>>)]

SqlParse(where) == Match(SqlGrammar, Rule("Or"), [i \in DOMAIN where |-> where[i].k], 1)

TableColumns ==
    [Statement |-> {"id", "data"}, Refs |-> {"id", "wki"},
     Envelope |-> {"counter", "id", "namespace", "publisher", "source", "timestamp"}]

\* The tables of FROM that a column may belong to: an error unless it is one.
Owners(from, col) == {t \in from : col.table \in {"", t} /\ col.name \in TableColumns[t]}

\* One row for each statement, or for each of its refs where Refs is joined.
TableRows(from, db) ==
    UNION {{[i |-> i, wki |-> w] : w \in IF "Refs" \in from THEN StatementRefs(db[i]) ELSE {""}} :
              i \in DOMAIN db}

Value(db, r, name) ==
    CASE name \in {"id", "data"} -> db[r.i].id
      [] name = "namespace" -> db[r.i].namespace
      [] name = "publisher" -> db[r.i].publisher
      [] name = "source"    -> StatementSource(db[r.i])
      [] name = "timestamp" -> db[r.i].timestamp
      [] name = "counter"   -> r.i
      [] name = "wki"       -> r.wki

SqlCompare(op, a, b) ==
    CASE op = "LIKE" -> <<b, a>> \in Like
      [] op = "=" -> a = b
      [] op = "!=" -> a # b
      [] OTHER -> rangeCriteriaFilterCompare(op, a, b)

\* The operands of WHERE that are not yet combined after n tokens of its parse.
Operands(parse, where, db, r) ==
    LET stack[n \in 0 .. Len(parse)] ==
          IF n = 0 THEN <<>>
          ELSE LET s == stack[n - 1]
                   t == parse[n]
               IN CASE t.rule = "cmp" ->
                         LET c == where[t.begin - 1] IN
                         <<SqlCompare(c.op, Value(db, r, c.col.name), c.val)>> \o s
                    [] t.rule = "not" -> <<~s[1]>> \o Tail(s)
                    [] t.rule = "and" -> <<s[2] /\ s[1]>> \o SubSeq(s, 3, Len(s))
                    [] t.rule = "or"  -> <<s[2] \/ s[1]>> \o SubSeq(s, 3, Len(s))
    IN stack[Len(parse)]

SqlSelect(sql, db) ==
    LET parse == SqlParse(sql.where).tree IN
    {r \in TableRows(sql.from, db) :
        sql.where = <<>> \/ Operands(parse, sql.where, db, r)[1]}

\* The rows of the answer as a bag, before LIMIT.  A row of several columns
\* is scanned into an object with a field for each selector.
SqlAnswer(q, sql, db) ==
    LET R == SqlSelect(sql, db)
        c == sql.cols
        Scan(r) == IF q.selector.type = "compound"
                   THEN [s \in {q.selector.sels[i] : i \in DOMAIN q.selector.sels} |->
                           Value(db, r, selectorColumn(s, FALSE).name)]
                   ELSE Value(db, r, c.cols[1].name)
    IN CASE c.fun = "COUNT" ->
              Once({IF c.distinct THEN Cardinality({Scan(r) : r \in R}) ELSE Cardinality(R)})
         [] c.fun \in {"MIN", "MAX"} -> Once({functionSelectors(c.fun, {Scan(r) : r \in R})})
         [] OTHER -> [x \in {Scan(r) : r \in R} |->
                        IF c.distinct THEN 1 ELSE Cardinality({r \in R : Scan(r) = x})]

-----------------------------------------------------------------------------
(***************************************************************************)
(* A query written out, with no more parentheses than it needs.            *)
(***************************************************************************)
SpellingOf(op) == CASE op = "<=" -> <<"<", "=">> [] op = ">=" -> <<">", "=">>
                    [] op = "!=" -> <<"!", "=">> [] OTHER -> <<op>>
NumeralOf(n) == CHOOSE d \in DOMAIN UInts : UInts[d] = n

RECURSIVE CriteriaText(_)
OperandText(c) == IF c.type = "compound" THEN <<"(">> \o CriteriaText(c) \o <<")">>
                  ELSE CriteriaText(c)
CriteriaText(c) ==
    CASE c.type = "value" -> <<c.sel, " ">> \o SpellingOf(c.op) \o <<" ", c.val>>
      [] c.type = "range" -> <<c.sel>> \o SpellingOf(c.op) \o <<NumeralOf(c.val)>>
      [] c.type = "index" -> <<c.sel, " ", "=", " ", c.val>>
      [] c.type = "negated" -> <<"NOT", " ">> \o OperandText(c.e)
      [] c.type = "compound" -> CriteriaText(c.left) \o <<" ", c.op, " ">> \o OperandText(c.right)

ListText(s, Text(_)) ==
    LET list[i \in 1 .. Len(s)] == IF i = 1 THEN Text(s[1])
                                   ELSE list[i - 1] \o <<",", " ">> \o Text(s[i])
    IN list[Len(s)]

SelectorText(sel) ==
    CASE sel.type = "simple"   -> <<sel.sel>>
      [] sel.type = "compound" -> <<"(">> \o ListText(sel.sels, LAMBDA s : <<s>>) \o <<")">>
      [] sel.type = "function" -> <<sel.op, "(", sel.sel, ")">>

OrderText(o) == IF o.dir = "" THEN <<o.sel>> ELSE <<o.sel, " ", o.dir>>

QueryText(q) ==
    (IF q.Op = "select" THEN <<"SELECT", " ">> \o SelectorText(q.selector) ELSE <<"DELETE">>)
    \o <<" ", "FROM", " ">> \o q.namespace
    \o (IF q.criteria.type = "none" THEN <<>> ELSE <<" ", "WHERE", " ">> \o CriteriaText(q.criteria))
    \o (IF q.order = <<>> THEN <<>>
        ELSE <<" ", "OR", "DER", " ", "BY", " ">> \o ListText(q.order, OrderText))
    \o (IF q.limit = 0 THEN <<>> ELSE <<" ", "LIMIT", " ", NumeralOf(q.limit)>>)

-----------------------------------------------------------------------------
(***************************************************************************)
(* The actions.                                                            *)
(***************************************************************************)
Unanswered == stmts = <<>> /\ rows = <<>> /\ found = <<>>

Init ==
    /\ \/ \E q \in Queries : meant = q /\ text = QueryText(q)
       \/ \E t \in Strays : meant = EmptyQuery /\ text = t
    /\ pc = "parse" /\ tree = <<>> /\ ps = EmptyState
    /\ Unanswered

\* p.Parse().
ParseText ==
    /\ pc = "parse"
    /\ LET m == Parse(text) IN
       /\ tree' = m.tree
       /\ pc' = IF m.ok THEN "execute" ELSE "refused"
    /\ UNCHANGED <<meant, text, ps, stmts, rows, found>>

\* p.Execute(), one token.
ExecuteToken ==
    /\ pc = "execute" /\ tree # <<>> /\ ~ps.panic
    /\ ps' = Execute(ps, Head(tree), text)
    /\ tree' = Tail(tree)
    /\ UNCHANGED <<meant, text, pc, stmts, rows, found>>

\* What ParseQuery returns.
ParseDone ==
    /\ pc = "execute" /\ tree = <<>> /\ ~ps.panic
    /\ pc' = IF ps.err THEN "refused" ELSE "parsed"
    /\ UNCHANGED <<meant, text, tree, ps, stmts, rows, found>>

\* SQLDB.Query and EvalQuery, which both refuse an illegal function selector;
\* EvalQuery may panic where SQLite has an answer.
Answer(db) ==
    /\ pc = "parsed"
    /\ IF Illegal(ps.query)
       THEN pc' = "illegal" /\ UNCHANGED <<stmts, rows, found>>
       ELSE /\ stmts' = db
            /\ rows' = SqlAnswer(ps.query, CompileQuery(ps.query), db)
            /\ IF EvalPanics(ps.query, db)
               THEN pc' = "panicked" /\ UNCHANGED found
               ELSE pc' = "answered" /\ found' = EvalQuery(ps.query, db)
    /\ UNCHANGED <<meant, text, tree, ps>>

Next == ParseText \/ ExecuteToken \/ ParseDone \/ \E db \in Databases : Answer(db)

Spec == Init /\ [][Next]_vars

-----------------------------------------------------------------------------
(***************************************************************************)
(* The actions of the grammar run on one stack that two of them            *)
(* (setCompoundSelector, setOrder) empty to its bottom: whatever text the  *)
(* parser accepts, no action pops an empty stack or finds a value of       *)
(* another type than it asserts, and nothing is left on the stack.         *)
(***************************************************************************)
StackBalanced ==
    /\ ~ps.panic
    /\ pc \in {"parsed", "answered"} => ps.stack = <<>>

(***************************************************************************)
(* A query that is written out is parsed, and to the same query: AND and   *)
(* OR group to the left without precedence, NOT takes the next criterion   *)
(* only, tokens of an alternative that was given up leave no trace.        *)
(***************************************************************************)
ParsesBack ==
    meant.Op # "none" =>
        /\ pc # "refused"
        /\ pc \in {"parsed", "answered"} => ps.query = meant

(***************************************************************************)
(* CompileQuery picks the tables from the selector, the criteria and the   *)
(* order in different functions.  Whatever it picks, every column of the   *)
(* SQL belongs to exactly one of the tables, Refs is joined to an Envelope *)
(* that is there, and the row selector has a variable of a fitting type    *)
(* for every column.                                                       *)
(***************************************************************************)
TypeFits(col, var) ==
    CASE col.name = "data" -> var \in {"statement", "body"}
      [] col.name \in {"timestamp", "counter"} -> var \in {"int64", "nullint64"}
      [] OTHER -> var = "string"

Resolves ==
    pc \in {"parsed", "answered"} /\ ~Illegal(ps.query) =>
        LET sql == CompileQuery(ps.query)
            used == {sql.cols.cols[i] : i \in DOMAIN sql.cols.cols}
                    \cup {sql.order[i].col : i \in DOMAIN sql.order}
                    \cup {sql.where[i].col : i \in {j \in DOMAIN sql.where : sql.where[j].k = "cmp"}}
        IN /\ \A c \in used \ {Constant1} : Cardinality(Owners(sql.from, c)) = 1
           /\ sql.indices # {} => "Envelope" \in sql.from
           /\ Len(sql.rsel) = Len(sql.cols.cols)
           /\ \A i \in DOMAIN sql.rsel :
                 sql.rsel[i] = "int" \/ TypeFits(sql.cols.cols[i], sql.rsel[i])

-----------------------------------------------------------------------------
(***************************************************************************)
(* Where the compiled query and the evaluator are two implementations of   *)
(* the same thing.                                                         *)
(***************************************************************************)
RECURSIVE Atoms(_)
Atoms(c) == CASE c.type = "compound" -> Atoms(c.left) \cup Atoms(c.right)
              [] c.type = "negated" -> Atoms(c.e)
              [] c.type = "none" -> {}
              [] OTHER -> {c}

\* c holds of no row without the wki it asks for.
RECURSIVE RequiresWki(_)
RequiresWki(c) ==
    CASE c.type = "index" -> TRUE
      [] c.type = "compound" -> IF c.op = "AND" THEN RequiresWki(c.left) \/ RequiresWki(c.right)
                                ELSE RequiresWki(c.left) /\ RequiresWki(c.right)
      [] OTHER -> FALSE

\* One wki, asked for whatever else is: a join row is a statement.
OneWki(c) ==
    LET wkis == {a.val : a \in {b \in Atoms(c) : b.type = "index"}} IN
    wkis = {} \/ (Cardinality(wkis) = 1 /\ RequiresWki(c))

Sourced(c) == \E a \in Atoms(c) : a.type = "value" /\ a.sel = "source"
Counted(c) == \E a \in Atoms(c) : a.type = "range" /\ a.sel = "counter"

SameFilters(q, db) ==
    /\ OneWki(q.criteria) /\ ~Counted(q.criteria)
    /\ Sourced(q.criteria) => \A i \in DOMAIN db : StatementSource(db[i]) = db[i].publisher
    /\ IsPrefix(q.namespace) =>
          \A i \in DOMAIN db : <<Prefix(q.namespace), db[i].namespace>> \in HasPrefix
                               <=> <<Prefix(q.namespace), db[i].namespace>> \in Like

\* Not these: columns that SQL returns with repetitions, the one column of a
\* compound selector that it does not, limits that the evaluator ignores or
\* applies before the function, and the counter.
SameResults(q) ==
    CASE q.selector.type = "simple" -> q.selector.sel \notin {"timestamp", "counter"}
      [] q.selector.type = "compound" ->
           /\ q.limit = 0
           /\ Len(q.selector.sels) = 1 => q.selector.sels[1] \notin distinctSelectors
           /\ \A i \in DOMAIN q.selector.sels : q.selector.sels[i] # "counter"
      [] q.selector.type = "function" ->
           /\ q.limit = 0 /\ q.selector.sel # "counter"
           /\ q.selector.op = "COUNT" => q.selector.sel # "timestamp"

Size(bag) == F!FoldFunction(LAMBDA m, n : m + n, 0, bag)
Limited(n, limit) == IF limit > 0 /\ n > limit THEN limit ELSE n

(***************************************************************************)
(* For those queries the rows SQLite returns and the result of EvalQuery   *)
(* are the same, as often as they are there; under a LIMIT there are as    *)
(* many.  The criteria are read by SQLite as they were parsed.             *)
(***************************************************************************)
AnswersAgree ==
    pc = "answered" /\ SameFilters(ps.query, stmts) /\ SameResults(ps.query) =>
        IF ps.query.limit = 0 THEN rows = found
        ELSE Limited(Size(rows), ps.query.limit) = Size(found)

(***************************************************************************)
(* With criteria on any wkis, as long as none is negated, the join with    *)
(* Refs may repeat a statement or miss one, but it returns no statement    *)
(* that EvalQuery does not: what DELETE removes it was asked to remove.    *)
(***************************************************************************)
RECURSIVE NegatesWki(_)
NegatesWki(c) == CASE c.type = "negated" -> isIndexCriteria(c.e) \/ NegatesWki(c.e)
                   [] c.type = "compound" -> NegatesWki(c.left) \/ NegatesWki(c.right)
                   [] OTHER -> FALSE

IndexSound ==
    /\ pc = "answered" /\ ps.query.limit = 0
    /\ ps.query.selector.type = "simple" /\ ps.query.selector.sel = "id"
    /\ isIndexCriteria(ps.query.criteria) /\ ~NegatesWki(ps.query.criteria)
    /\ SameFilters([ps.query EXCEPT !.criteria = NoCriteria], stmts)
    /\ ~Counted(ps.query.criteria) /\ ~Sourced(ps.query.criteria)
    => DOMAIN rows \subseteq DOMAIN found
=============================================================================
