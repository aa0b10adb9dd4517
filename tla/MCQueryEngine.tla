--------------------------- MODULE MCQueryEngine ---------------------------
(***************************************************************************)
(* Instance: every selector form with every table choice, order and limit; *)
(* criteria three operators deep over three atoms; criteria on well known  *)
(* identifiers; and every text that one lexeme more or less makes of some  *)
(* of them.                                                                *)
(***************************************************************************)
EXTENDS QueryEngine, FiniteSetsExt

MCUInts == ("0" :> 0) @@ ("1" :> 1) @@ ("2" :> 2)
MCNames == {"a", "b", "p", "q", "w", "FOO", "foo", "foobar"}

MCHasPrefix == {<<<<"foo">>, <<"foo">>>>, <<<<"foo">>, <<"foo", ".", "b">>>>,
                <<<<"foo">>, <<"foobar">>>>}
MCLike == MCHasPrefix \cup {<<<<"foo">>, <<"FOO">>>>}

V(sel, op, val) == [type |-> "value", op |-> op, sel |-> sel, val |-> val]
R(sel, op, val) == [type |-> "range", op |-> op, sel |-> sel, val |-> val]
W(val) == [type |-> "index", sel |-> "wki", val |-> val]
N(c) == [type |-> "negated", e |-> c]
B(op, c, d) == [type |-> "compound", op |-> op, left |-> c, right |-> d]

Combined(C, D) == {B(op, c, d) : op \in {"AND", "OR"}, c \in C, d \in D}
Closed(C) == C \cup {N(c) : c \in C} \cup Combined(C, C)

Simple(s) == [type |-> "simple", sel |-> s]
Compound(s) == [type |-> "compound", sels |-> s]
Function(f, s) == [type |-> "function", op |-> f, sel |-> s]

Selectors == {Simple(s) : s \in SimpleSelectorOp}
             \cup {Compound(s) : s \in {<<"namespace">>, <<"timestamp">>, <<"id", "source">>,
                                        <<"*", "publisher">>, <<"id", "body", "id">>}}
             \cup {Function("COUNT", s) : s \in SimpleSelectorOp}
             \cup {Function(f, s) : f \in {"MIN", "MAX"}, s \in {"timestamp", "counter", "id"}}

Orders == {<<>>, <<[sel |-> "id", dir |-> ""]>>,
           <<[sel |-> "namespace", dir |-> "DESC"], [sel |-> "counter", dir |-> ""]>>}

Select_(sel, ns, c, o, l) ==
    [Op |-> "select", namespace |-> ns, selector |-> sel, criteria |-> c, order |-> o, limit |-> l]
Delete_(ns, c, l) ==
    [Op |-> "delete", namespace |-> ns, selector |-> Simple("id"), criteria |-> c,
     order |-> <<>>, limit |-> l]

Foo == <<"foo">>
Atoms1 == {V("id", "!=", "a"), V("source", "=", "p"), R("timestamp", "<=", 1),
           R("counter", ">", 1), W("w")}
Deep == LET C == {V("id", "=", "a"), V("publisher", "=", "p"), R("timestamp", "<", 2)}
            D == Closed(C)
        IN Combined(D, D) \cup {N(d) : d \in D} \cup {N(N(c)) : c \in C}
Wkis == LET C == {W("w"), W("x:y"), V("publisher", "=", "p")}
        IN Closed(C) \cup Combined(Closed(C), C)

MCQueries ==
    {Select_(sel, ns, c, o, l) : sel \in Selectors, ns \in {Wild, Foo, <<"foo", ".", "*">>},
                                 c \in Atoms1 \cup {NoCriteria}, o \in Orders, l \in {0, 1}}
    \cup {Select_(Simple(s), Wild, c, <<>>, 0) : s \in {"id"}, c \in Deep}
    \cup {Delete_(ns, c, l) : ns \in {Wild, <<"foo", ".", "*">>}, c \in Wkis, l \in {0, 2}}

Without(s, i) == SubSeq(s, 1, i - 1) \o SubSeq(s, i + 1, Len(s))
With(s, i, x) == SubSeq(s, 1, i) \o <<x>> \o SubSeq(s, i + 1, Len(s))
Lexemes == {" ", "(", ")", ",", "*", "NOT", "AND", "id", "=", "99"}

MCStrays ==
    LET T == {QueryText(q) :
                q \in {Select_(Function("MAX", "counter"), Foo, B("AND", N(Atom), W("w")), <<>>, 2) :
                         Atom \in Atoms1}
                      \cup {Select_(Compound(<<"id", "*">>), Wild, B("OR", V("id", "=", "a"), N(W("w"))), o, 1) :
                             o \in Orders}
                      \cup {Delete_(Foo, B("OR", W("w"), R("counter", ">=", 1)), 1)}}
    IN UNION {{Without(t, i) : i \in DOMAIN t} \cup {With(t, i, x) : i \in DOMAIN t, x \in Lexemes} :
                t \in T}

S(i, ns, p, ts, body) == [id |-> i, namespace |-> ns, publisher |-> p, timestamp |-> ts, body |-> body]
SimpleBody(refs) == [kind |-> "simple", refs |-> refs]
CompoundBody(parts) == [kind |-> "compound", parts |-> parts]
EnvelopeBody(ss) == [kind |-> "envelope", stmts |-> ss]

MCDatabases ==
    {<<>>,
     <<S("a", Foo, "p", 1, SimpleBody({"w"})), S("b", <<"foobar">>, "q", 1, SimpleBody({}))>>,
     <<S("b", <<"foo", ".", "b">>, "p", 2, CompoundBody(<<{"w"}, {"x:y"}>>)),
       S("a", <<"FOO">>, "q", 1, SimpleBody({"x:y"})),
       S("q", Foo, "p", 2, EnvelopeBody(<<S("w", Foo, "q", 0, SimpleBody({"w", "x:y"}))>>))>>}
=============================================================================
