---------------------------- MODULE MCEdgeScan ----------------------------
(***************************************************************************)
(* Three edge classes with different catalogs: e1 stores "a" under         *)
(* property id 1, e2 stores "b" under id 1 and "a" under id 2, e3 types    *)
(* "a" as TEXT.  Parsing an e2 edge with e1's catalog and dbi reads        *)
(* another record.  v1 exists and its edges alternate between e1 and e2;  *)
(* v4 exists, has an e3 and an e1 edge, and its adjacency lookup may      *)
(* fail; v2 is confirmed absent, v3 absent from the snapshot only.  The   *)
(* filters name nothing, one class, two classes, two classes that         *)
(* disagree on "a", and a name that resolves to no edge class.            *)
(***************************************************************************)
EXTENDS EdgeScan

Prop(n, t) == [name |-> n, type |-> t]

MCCatalog ==
  [c \in {"e1", "e2", "e3"} |->
     CASE c = "e1" -> [i \in {1} |-> Prop("a", "INTEGER")]
       [] c = "e2" -> [i \in {1, 2} |-> IF i = 1 THEN Prop("b", "INTEGER")
                                        ELSE Prop("a", "INTEGER")]
       [] c = "e3" -> [i \in {1} |-> Prop("a", "TEXT")]]

MCStore ==
  [c \in {"e1", "e2", "e3"} |->
     CASE c = "e1" -> [k \in {1, 2} |-> [i \in {1} |-> <<k>>]]
       [] c = "e2" -> [k \in {1} |-> [i \in {1, 2} |-> IF i = 1 THEN <<1>> ELSE <<2>>]]
       [] c = "e3" -> [k \in {1} |-> [i \in {1} |-> <<2>>]]]

MCVertexStatus ==
  [x \in {"v1", "v2", "v3", "v4"} |->
     CASE x \in {"v1", "v4"} -> "EXIST"
       [] x = "v2"           -> "NOT_EXIST"
       [] x = "v3"           -> "NOT_EXIST_IN_MEMORY"]

MCAdjAll ==
  [x \in {"v1", "v2", "v3", "v4"} |->
     CASE x = "v1" -> <<<<"e1", 1>>, <<"e2", 1>>, <<"e1", 2>>>>
       [] x = "v4" -> <<<<"e3", 1>>, <<"e1", 1>>>>
       [] OTHER    -> <<>>]

MCAdjFails == {"v4"}

MCClassesOf ==
  [n \in {"E1", "E2", "E3", "V"} |->
     CASE n = "E1" -> {"e1"}
       [] n = "E2" -> {"e2"}
       [] n = "E3" -> {"e3"}
       [] n = "V"  -> {}]

MCFilters == {{}, {"E1"}, {"E1", "E2"}, {"E2", "E3"}, {"V"}}

\* An equality on "a", its negation, and the not-null test on "b".
EqA == WithComp(Condition("a"), "EQUAL", <<2>>)
MCConds == {EqA, Not(EqA), Condition("b")}

\* The caller's function accepts the records whose "a" is 2.
MCFuncAccepts(f, rec) == rec["a"] = <<2>>

\* The tree a = 2 OR b not null and its negation.
MCMultis == LET or1 == Compose("OR", EqA, Condition("b")) IN {or1, NotTree(or1)}

\* The expression a = 2 || b, and one made of a function alone, which
\* names no property.
MCExps == {E!Internal("OR", E!NewFromCmp("a", "EQUAL", <<2>>), E!NewFromName("b")),
           E!NewFromFunc("f")}

MCPreds ==
  {CondPred(c) : c \in MCConds} \cup {MultiPred(m) : m \in MCMultis} \cup
  {ExpPred(e) : e \in MCExps} \cup {FnPred("f")}

MCRequests == [v : DOMAIN MCVertexStatus, filter : MCFilters, pred : MCPreds]
=============================================================================
