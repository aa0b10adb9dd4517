----------------------------- MODULE ParseState -----------------------------
(***************************************************************************)
(* The actions of the MCQL grammar on the parse state (parse.go): a stack  *)
(* of strings, criteria and order specs, and the Query under construction  *)
(* (query.go).  Popping an empty stack and asserting the wrong type for    *)
(* what is popped are run-time panics: panic is then TRUE.                 *)
(***************************************************************************)
EXTENDS QueryParser

NoCriteria == [type |-> "none"]

EmptyQuery == [Op |-> "none", namespace |-> <<>>, selector |-> [type |-> "none"],
               criteria |-> NoCriteria, order |-> <<>>, limit |-> 0]

EmptyState == [query |-> EmptyQuery, stack |-> <<>>, text |-> <<>>, err |-> FALSE, panic |-> FALSE]

-----------------------------------------------------------------------------
\* The top of the stack comes first, each entry with its Go type.
Push(ps, kind, v) == [ps EXCEPT !.stack = <<[kind |-> kind, v |-> v]>> \o ps.stack]
Drop(ps, n) == [ps EXCEPT !.stack = SubSeq(ps.stack, n + 1, Len(ps.stack))]
Item(ps, i) == ps.stack[i].v

\* kinds[i] is what the i-th pop asserts.
Holds(ps, kinds) ==
    /\ Len(kinds) <= Len(ps.stack)
    /\ \A i \in DOMAIN kinds : ps.stack[i].kind = kinds[i]

Panic(ps) == [ps EXCEPT !.panic = TRUE]

\* The string a sequence of lexemes spells, where a string is looked at.
Spelled(s) == IF Len(s) = 1 THEN s[1]
              ELSE CASE s = <<"<", "=">> -> "<="
                     [] s = <<">", "=">> -> ">="
                     [] s = <<"!", "=">> -> "!="

-----------------------------------------------------------------------------
push(ps) == Push(ps, "string", Spelled(ps.text))

SetQuery(ps, query) == [ps EXCEPT !.query = query]

setSelectOp(ps) == SetQuery(ps, [ps.query EXCEPT !.Op = "select"])

setDeleteOp(ps) ==
    SetQuery(ps, [ps.query EXCEPT !.Op = "delete", !.selector = [type |-> "simple", sel |-> "id"]])

\* Slip: the selector is read from the top of the stack and stays there.
PeekSimpleSelector(ps) ==
    SetQuery(ps, [ps.query EXCEPT !.selector = [type |-> "simple", sel |-> Item(ps, 1)]])

setSimpleSelector(ps) ==
    IF ~Holds(ps, <<"string">>) THEN Panic(ps)
    ELSE SetQuery(Drop(ps, 1),
                  [ps.query EXCEPT !.selector = [type |-> "simple", sel |-> Item(ps, 1)]])

\* The whole stack, bottom first.
All(ps) == [i \in 1 .. Len(ps.stack) |-> Item(ps, Len(ps.stack) - i + 1)]
AllOf(kind, ps) == Holds(ps, [i \in 1 .. Len(ps.stack) |-> kind])

setCompoundSelector(ps) ==
    IF ~AllOf("string", ps) THEN Panic(ps)
    ELSE SetQuery([ps EXCEPT !.stack = <<>>],
                  [ps.query EXCEPT !.selector = [type |-> "compound", sels |-> All(ps)]])

setFunctionSelector(ps) ==
    IF ~Holds(ps, <<"string", "string">>) THEN Panic(ps)
    ELSE SetQuery(Drop(ps, 2),
                  [ps.query EXCEPT
                     !.selector = [type |-> "function", op |-> Item(ps, 2), sel |-> Item(ps, 1)]])

setNamespace(ps) == SetQuery(ps, [ps.query EXCEPT !.namespace = ps.text])

setCriteria(ps) ==
    IF ~Holds(ps, <<"criteria">>) THEN Panic(ps)
    ELSE SetQuery(Drop(ps, 1), [ps.query EXCEPT !.criteria = Item(ps, 1)])

addValueCriteria(ps) ==
    IF ~Holds(ps, <<"string", "string", "string">>) THEN Panic(ps)
    ELSE Push(Drop(ps, 3), "criteria",
              [type |-> "value", op |-> Item(ps, 2), sel |-> Item(ps, 3), val |-> Item(ps, 1)])

\* strconv.Atoi: 0 and an error where the digits do not fit.
Atoi(s) == IF s \in DOMAIN UInts THEN UInts[s] ELSE 0
Failing(ps, s) == [ps EXCEPT !.err = ps.err \/ s \notin DOMAIN UInts]

addRangeCriteria(ps) ==
    IF ~Holds(ps, <<"string", "string", "string">>) THEN Panic(ps)
    ELSE Push(Failing(Drop(ps, 3), Item(ps, 1)), "criteria",
              [type |-> "range", op |-> Item(ps, 2), sel |-> Item(ps, 3), val |-> Atoi(Item(ps, 1))])

addIndexCriteria(ps) ==
    IF ~Holds(ps, <<"string", "string">>) THEN Panic(ps)
    ELSE Push(Drop(ps, 2), "criteria",
              [type |-> "index", sel |-> Item(ps, 2), val |-> Item(ps, 1)])

addCompoundCriteria(ps) ==
    IF ~Holds(ps, <<"criteria", "string", "criteria">>) THEN Panic(ps)
    ELSE Push(Drop(ps, 3), "criteria",
              [type |-> "compound", op |-> Item(ps, 2), left |-> Item(ps, 3), right |-> Item(ps, 1)])

addNegatedCriteria(ps) ==
    IF ~Holds(ps, <<"criteria">>) THEN Panic(ps)
    ELSE Push(Drop(ps, 1), "criteria", [type |-> "negated", e |-> Item(ps, 1)])

setOrder(ps) ==
    IF ~AllOf("order", ps) THEN Panic(ps)
    ELSE SetQuery([ps EXCEPT !.stack = <<>>], [ps.query EXCEPT !.order = All(ps)])

addOrderSelector(ps) ==
    IF ~Holds(ps, <<"string">>) THEN Panic(ps)
    ELSE Push(Drop(ps, 1), "order", [sel |-> Item(ps, 1), dir |-> ""])

setOrderDir(ps) ==
    IF ~Holds(ps, <<"string", "order">>) THEN Panic(ps)
    ELSE [Drop(ps, 1) EXCEPT !.stack[1].v.dir = Item(ps, 1)]

setLimit(ps) ==
    Failing(SetQuery(ps, [ps.query EXCEPT !.limit = Atoi(Spelled(ps.text))]), Spelled(ps.text))

-----------------------------------------------------------------------------
(***************************************************************************)
(* Execute (query.peg.go): one token of the parse.                         *)
(***************************************************************************)
Execute(ps, token, text) ==
    CASE token.rule = "PegText" -> [ps EXCEPT !.text = SubSeq(text, token.begin, token.end - 1)]
      [] token.rule = "push" -> push(ps)
      [] token.rule = "setSelectOp" -> setSelectOp(ps)
      [] token.rule = "setDeleteOp" -> setDeleteOp(ps)
      [] token.rule = "setSimpleSelector" -> setSimpleSelector(ps)
      [] token.rule = "setCompoundSelector" -> setCompoundSelector(ps)
      [] token.rule = "setFunctionSelector" -> setFunctionSelector(ps)
      [] token.rule = "setNamespace" -> setNamespace(ps)
      [] token.rule = "setCriteria" -> setCriteria(ps)
      [] token.rule = "addCompoundCriteria" -> addCompoundCriteria(ps)
      [] token.rule = "addNegatedCriteria" -> addNegatedCriteria(ps)
      [] token.rule = "addValueCriteria" -> addValueCriteria(ps)
      [] token.rule = "addRangeCriteria" -> addRangeCriteria(ps)
      [] token.rule = "addIndexCriteria" -> addIndexCriteria(ps)
      [] token.rule = "setOrder" -> setOrder(ps)
      [] token.rule = "addOrderSelector" -> addOrderSelector(ps)
      [] token.rule = "setOrderDir" -> setOrderDir(ps)
      [] token.rule = "setLimit" -> setLimit(ps)
=============================================================================
