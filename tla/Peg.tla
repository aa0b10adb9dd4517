-------------------------------- MODULE Peg --------------------------------
(***************************************************************************)
(* Parsing expressions and their matching, as the functions of the         *)
(* generated parser (src/mc/query/query.peg.go) carry it out: every        *)
(* function saves position and tokenIndex, tries its alternatives in order *)
(* and restores both before the next one, so that the tokens a failed      *)
(* alternative added are dropped with it.                                  *)
(*                                                                         *)
(* A text is a sequence of lexemes.  A literal or a character class of the *)
(* grammar matches one lexeme: the grammar lets no two of its lexemes made *)
(* of letters touch, so matching character by character tells nothing more *)
(* apart.  A maximal run of white space is one lexeme.                     *)
(***************************************************************************)
EXTENDS Naturals, Sequences

\* One lexeme out of a set: a literal, a switch over literals or a class.
Lit(S) == [peg |-> "lit", of |-> S]

\* The expressions es one after the other.
Sequ(es) == [peg |-> "seq", es |-> es]

\* The first of the expressions es that matches.
Alt(es) == [peg |-> "alt", es |-> es]

\* e as often as it matches, e at most once.
Star(e) == [peg |-> "star", e |-> e]

Opt(e) == Alt(<<e, Sequ(<<>>)>>)

\* < e > : the lexemes e matches become the text of the next action.
Capture(e) == [peg |-> "capture", e |-> e]

\* { p.name(...) } : an action of the parse state.
Act(name) == [peg |-> "act", name |-> name]

\* A rule of the grammar by its name, needed where rules are recursive.
Rule(name) == [peg |-> "rule", name |-> name]

\* !. : the end of the text.
EndOfText == [peg |-> "eof"]

-----------------------------------------------------------------------------
\* add(rule, begin): a token of the parse, for the lexemes begin .. end - 1.
Token(rule, begin, end) == [rule |-> rule, begin |-> begin, end |-> end]

Matched(pos, tree) == [ok |-> TRUE, pos |-> pos, tree |-> tree]
Failed == [ok |-> FALSE, pos |-> 0, tree |-> <<>>]

(***************************************************************************)
(* Match(G, e, text, pos): how e matches text from pos on, where G is the  *)
(* grammar, a function from rule names to expressions.  MatchSeq and       *)
(* MatchAlt do so for the expressions es from the i-th one.                *)
(***************************************************************************)
RECURSIVE Match(_, _, _, _)
RECURSIVE MatchSeq(_, _, _, _, _)
RECURSIVE MatchAlt(_, _, _, _, _)

MatchSeq(G, es, i, text, pos) ==
    IF i > Len(es) THEN Matched(pos, <<>>)
    ELSE LET m == Match(G, es[i], text, pos) IN
         IF ~m.ok THEN Failed
         ELSE LET n == MatchSeq(G, es, i + 1, text, m.pos) IN
              IF n.ok THEN Matched(n.pos, m.tree \o n.tree) ELSE Failed

\* The restore of position and tokenIndex: an alternative starts at pos, with
\* no token of the alternatives before it.
MatchAlt(G, es, i, text, pos) ==
    IF i > Len(es) THEN Failed
    ELSE LET m == Match(G, es[i], text, pos) IN
         IF m.ok THEN m ELSE MatchAlt(G, es, i + 1, text, pos)

Match(G, e, text, pos) ==
    CASE e.peg = "lit" -> IF pos <= Len(text) /\ text[pos] \in e.of
                          THEN Matched(pos + 1, <<>>) ELSE Failed
      [] e.peg = "seq" -> MatchSeq(G, e.es, 1, text, pos)
      [] e.peg = "alt" -> MatchAlt(G, e.es, 1, text, pos)
      [] e.peg = "star" ->
            LET m == Match(G, e.e, text, pos) IN
            IF ~m.ok \/ m.pos = pos THEN Matched(pos, <<>>)
            ELSE LET n == Match(G, e, text, m.pos) IN Matched(n.pos, m.tree \o n.tree)
      [] e.peg = "capture" ->
            LET m == Match(G, e.e, text, pos) IN
            IF m.ok THEN Matched(m.pos, Append(m.tree, Token("PegText", pos, m.pos)))
            ELSE Failed
      [] e.peg = "act" -> Matched(pos, <<Token(e.name, pos, pos)>>)
      [] e.peg = "rule" -> Match(G, G[e.name], text, pos)
      [] e.peg = "eof" -> IF pos > Len(text) THEN Matched(pos, <<>>) ELSE Failed
=============================================================================
