---------------------------- MODULE MCClassScan ----------------------------
(***************************************************************************)
(* Three classes: c1 and c2 type the property "a" as INTEGER, c3 as TEXT;  *)
(* only c2 has "b".  c1 holds the sentinel key among its records and a     *)
(* record without "a"; c3 is empty.  The requests resolve to one class,    *)
(* to a class and its subclass, to classes that disagree on "a", or to a  *)
(* class that lacks the property.                                          *)
(***************************************************************************)
EXTENDS ClassScan

MCMaxRecNum == 9

Rec(a, b) == [p \in Props |-> IF p = "a" THEN a ELSE b]

MCStore ==
  [c \in {"c1", "c2", "c3"} |->
     CASE c = "c1" -> <<[key |-> 0, rec |-> Rec(<<1>>, Empty)],
                        [key |-> 1, rec |-> Rec(Empty, Empty)],
                        [key |-> 9, rec |-> Rec(<<2>>, Empty)],
                        [key |-> 2, rec |-> Rec(<<2>>, Empty)]>>
       [] c = "c2" -> <<[key |-> 0, rec |-> Rec(<<0>>, <<1>>)],
                        [key |-> 1, rec |-> Rec(<<2>>, <<0>>)]>>
       [] c = "c3" -> <<>>]

MCSchema ==
  [c \in {"c1", "c2", "c3"} |->
     CASE c = "c1" -> [p \in {"a"} |-> "INTEGER"]
       [] c = "c2" -> [p \in {"a", "b"} |-> "INTEGER"]
       [] c = "c3" -> [p \in {"a"} |-> "TEXT"]]

MCClassLists == {<<"c1">>, <<"c1", "c2">>, <<"c2", "c1">>, <<"c1", "c3">>, <<"c3">>}

\* The conditions on "a" and "b" the builders make from small operands.
Base == {Condition("a"), Condition("b")}
Built ==
  Base \cup
  {WithComp(c, op, v) : c \in Base, op \in {"EQUAL", "GREATER", "LESS_EQUAL", "CONTAIN"},
                        v \in {<<1>>}} \cup
  {between(c, <<1>>, <<2>>, l, u) : c \in Base, l, u \in BOOLEAN} \cup
  {in(c, <<<<0>>, <<2>>>>) : c \in Base} \cup
  {null(c) : c \in Base}
MCConds == Built \cup {Not(c) : c \in Built}

\* A membership test on "a" and its negation.
MCInConds == {CondPred(in(Condition("a"), <<<<0>>, <<2>>>>)),
              CondPred(Not(in(Condition("a"), <<<<0>>, <<2>>>>)))}

\* The null test on "a" and its negation.
MCNullConds == {CondPred(null(Condition("a"))), CondPred(Not(null(Condition("a"))))}

\* Both negated pairs: whichever TLC reaches first shows NegationComplements
\* failing; set Preds to one of the two to see the other.
MCNegationConds == MCInConds \cup MCNullConds

\* The caller's function accepts the records whose "a" is 2.
MCFuncAccepts(f, rec) == rec["a"] = <<2>>

\* Trees over "a" and "b": a = 2 OR b not null, and its negation; a > 0
\* AND (a = 2 OR b not null), a condition joined to a tree.
EqA2 == WithComp(Condition("a"), "EQUAL", <<2>>)
Or1 == Compose("OR", EqA2, Condition("b"))
MCMultis == {Or1, NotTree(Or1), Compose("AND", WithComp(Condition("a"), "GREATER", <<0>>), Or1)}

\* Expressions over "a", "b" and the function: a = 2 || b, its negation,
\* and f && !a.
ExpOr == E!Internal("OR", E!NewFromCmp("a", "EQUAL", <<2>>), E!NewFromName("b"))
MCExps == {ExpOr, E!Negate(ExpOr),
           E!Internal("AND", E!NewFromFunc("f"), E!Negate(E!NewFromName("a")))}

MCPreds ==
  {CondPred(c) : c \in MCConds} \cup {MultiPred(m) : m \in MCMultis} \cup
  {ExpPred(e) : e \in MCExps} \cup {FnPred("f")}
=============================================================================
