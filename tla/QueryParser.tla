---------------------------- MODULE QueryParser ----------------------------
(***************************************************************************)
(* MCQL texts and the queries they stand for: the grammar as the generated *)
(* parser implements it (src/mc/query/query.peg.go), the actions of the    *)
(* grammar on the parse state (parse.go) and the Query they build          *)
(* (query.go).                                                             *)
(*                                                                         *)
(* A keyword or an operator that begins with another one is written as two *)
(* lexemes, <<"OR", "DER">> and <<"<", "=">>: the parser may match the     *)
(* first of them and has to take it back.                                  *)
(***************************************************************************)
EXTENDS Naturals, Sequences, TLC, Peg

CONSTANTS Names,     \* lexemes of letters and digits that are no keyword
          WkiNames,  \* well known identifiers with other characters in them
          UInts,     \* the value of every digit lexeme that fits an int
          Overflows  \* digit lexemes that do not

ASSUME LexemesAssumption ==
    /\ DOMAIN UInts \cap Overflows = {} /\ DOMAIN UInts \cap Names = {}
    /\ Names \cap WkiNames = {} /\ \A d \in DOMAIN UInts : UInts[d] \in Nat

Keywords == {"SELECT", "DELETE", "FROM", "WHERE", "OR", "DER", "BY", "LIMIT", "AND", "NOT",
             "COUNT", "MIN", "MAX", "ASC", "DESC", "body", "id", "publisher", "namespace",
             "source", "timestamp", "counter", "wki"}

Digits == DOMAIN UInts \cup Overflows
Words == Names \cup Keywords \cup Digits

-----------------------------------------------------------------------------
(***************************************************************************)
(* The rules of the grammar.                                               *)
(***************************************************************************)
WS  == Lit({" "})
WSX == Star(WS)

UInt        == Capture(Lit(Digits))
StatementId == Capture(Lit(Words))
PublisherId == Capture(Lit(Words))
WKI         == Capture(Lit(Words \cup WkiNames))

\* SimpleSelector <- < SimpleSelectorOp > { p.push(text) }
SimpleSelectorOp == {"*", "body", "id", "publisher", "namespace", "source", "timestamp", "counter"}
SimpleSelector   == Sequ(<<Capture(Lit(SimpleSelectorOp)), Act("push")>>)

CompoundSelector ==
    Sequ(<<Lit({"("}), SimpleSelector, Star(Sequ(<<Lit({","}), WSX, SimpleSelector>>)), Lit({")"})>>)

FunctionOp       == {"COUNT", "MIN", "MAX"}
FunctionSelector ==
    Sequ(<<Capture(Lit(FunctionOp)), Act("push"), Lit({"("}), SimpleSelector, Lit({")"})>>)

Selector == Alt(<<Sequ(<<SimpleSelector, Act("setSimpleSelector")>>),
                  Sequ(<<CompoundSelector, Act("setCompoundSelector")>>),
                  Sequ(<<FunctionSelector, Act("setFunctionSelector")>>)>>)

NamespacePart == Lit(Words)
Wildcard      == Lit({"*"})
Namespace     ==
    Alt(<<Capture(Sequ(<<NamespacePart, Star(Sequ(<<Lit({"."}), NamespacePart>>)),
                         Opt(Sequ(<<Lit({"."}), Wildcard>>))>>)),
          Capture(Wildcard)>>)

Source == Sequ(<<Lit({"FROM"}), WS, Namespace, Act("setNamespace")>>)

ValueCompareOp == Alt(<<Lit({"="}), Sequ(<<Lit({"!"}), Lit({"="})>>)>>)
ValueCompare   == Sequ(<<Capture(ValueCompareOp), Act("push")>>)

ValueCriterion(sel, value) ==
    Sequ(<<Capture(Lit({sel})), Act("push"), WSX, ValueCompare, WSX, value, Act("push")>>)
IdCriteria        == ValueCriterion("id", StatementId)
PublisherCriteria == ValueCriterion("publisher", PublisherId)
SourceCriteria    == ValueCriterion("source", PublisherId)
ValueCriteria     == Alt(<<IdCriteria, PublisherCriteria, SourceCriteria>>)

\* Comparison <- < '<=' / '<' / '=' / '!=' / '>=' / '>' > { p.push(text) }
Comparison ==
    Sequ(<<Capture(Alt(<<Sequ(<<Lit({"<", ">", "!"}), Lit({"="})>>), Lit({"<", ">", "="})>>)),
           Act("push")>>)

RangeSelector == Sequ(<<Capture(Lit({"timestamp", "counter"})), Act("push")>>)
RangeCriteria == Sequ(<<RangeSelector, WSX, Comparison, WSX, UInt, Act("push")>>)

WKICriteria ==
    Sequ(<<Capture(Lit({"wki"})), Act("push"), WSX, Lit({"="}), WSX, WKI, Act("push")>>)

SimpleCriteria == Alt(<<Sequ(<<ValueCriteria, Act("addValueCriteria")>>),
                        Sequ(<<RangeCriteria, Act("addRangeCriteria")>>),
                        Sequ(<<WKICriteria, Act("addIndexCriteria")>>)>>)

CompoundCriteria ==
    Alt(<<SimpleCriteria,
          Sequ(<<Lit({"("}), Rule("MultiCriteria"), Lit({")"})>>),
          Sequ(<<Lit({"NOT"}), WS, Rule("CompoundCriteria"), Act("addNegatedCriteria")>>)>>)

Boolean == Sequ(<<Capture(Lit({"AND", "OR"})), Act("push")>>)

\* Slip: the repetition is written as recursion, so criteria group to the right.
RightMultiCriteria ==
    Sequ(<<Rule("CompoundCriteria"),
           Opt(Sequ(<<WS, Boolean, WS, Rule("MultiCriteria"), Act("addCompoundCriteria")>>))>>)

MultiCriteria ==
    Sequ(<<Rule("CompoundCriteria"),
           Star(Sequ(<<WS, Boolean, WS, Rule("CompoundCriteria"), Act("addCompoundCriteria")>>))>>)

Criteria == Sequ(<<Lit({"WHERE"}), WS, Rule("MultiCriteria"), Act("setCriteria")>>)

OrderSelectorOp == {"id", "namespace", "publisher", "source", "timestamp", "counter"}
OrderSelector   == Sequ(<<Capture(Lit(OrderSelectorOp)), Act("push")>>)
OrderDir        == Sequ(<<Capture(Lit({"ASC", "DESC"})), Act("push")>>)

OrderSelectorSpec == Sequ(<<OrderSelector, Act("addOrderSelector"),
                            Opt(Sequ(<<WS, OrderDir, Act("setOrderDir")>>))>>)

OrderSpec == Sequ(<<OrderSelectorSpec, Star(Sequ(<<Lit({","}), WSX, OrderSelectorSpec>>))>>)

Order == Sequ(<<Lit({"OR"}), Lit({"DER"}), WS, Lit({"BY"}), WS, OrderSpec, Act("setOrder")>>)

Limit == Sequ(<<Lit({"LIMIT"}), WS, UInt, Act("setLimit")>>)

Select == Sequ(<<Lit({"SELECT"}), WS, Selector, WS, Source, Opt(Sequ(<<WS, Criteria>>)),
                 Opt(Sequ(<<WS, Order>>)), Opt(Sequ(<<WS, Limit>>))>>)

Delete == Sequ(<<Lit({"DELETE"}), WS, Source, Opt(Sequ(<<WS, Criteria>>)),
                 Opt(Sequ(<<WS, Limit>>))>>)

Grammar == Alt(<<Sequ(<<Select, WSX, EndOfText, Act("setSelectOp")>>),
                 Sequ(<<Delete, WSX, EndOfText, Act("setDeleteOp")>>)>>)

Rules == [MultiCriteria |-> MultiCriteria, CompoundCriteria |-> CompoundCriteria]

\* p.Parse(): the tokens of the text, or a failure.
Parse(text) == Match(Rules, Grammar, text, 1)
=============================================================================
