----------------------------- MODULE Expression -----------------------------
(***************************************************************************)
(* The Expression tree of libnogdb (src/src/expression.cpp,                *)
(* src/include/nogdb/nogdb_expression.h).                                  *)
(*                                                                         *)
(* A client builds one Expression: it constructs a leaf, refines it in     *)
(* place with the builder methods, negates it and combines it with && and  *)
(* || with another expression it built.  The children of an internal node *)
(* are private copies, so only the root is ever mutated again; the state   *)
(* is that root, each method one action.  A node is a record with the      *)
(* fields of the C++ object: op, the leaf (type, name, cmp, value,         *)
(* ignoreCase, func), the two children and negative.                       *)
(* Evaluation (execute) and property discovery (collectAllPropertyName)    *)
(* are operators over nodes.                                               *)
(*                                                                         *)
(* Each node also carries two ghost fields of what the client asked for:   *)
(* gFlipped, whether it applied ! an odd number of times, and gNull,       *)
(* whether the last comparator it chose was null().  The code never reads  *)
(* them.                                                                   *)
(***************************************************************************)
EXTENDS Compare, FiniteSets

CONSTANTS
  Props,        \* property names (model values)
  Funcs,        \* condition functions (model values)
  FuncAccepts(_, _), \* FuncAccepts(f, record): what function f returns
  Values,       \* operands the builders receive (Bytes)
  RecordValues, \* values a record's property may hold (Bytes)
  Cmps,         \* the single-operand comparators the client uses
  PropType,     \* the type each property name resolves to
  MaxNodes      \* most nodes of one expression tree

VARIABLES
  exp,          \* the Expression the client is building
  lastErr       \* the error the last method threw, or "NONE"

vars == <<exp, lastErr>>

\* Expression::Operator and Condition::Type.
Ops == {"NONE", "AND", "OR"}
LeafTypes == {"PROP", "FUNC"}

NoFunc == "nofunc"
NoNode == <<>>

\* Condition(prop, cmp, value) and Condition(func) (header 100-105) inside a
\* node with op NONE, no children and negative false (header 133-137).
PropLeaf(name, cmp, value) ==
  [op |-> "NONE", type |-> "PROP", name |-> name, cmp |-> cmp, value |-> value,
   ignoreCase |-> FALSE, func |-> NoFunc, nodeL |-> NoNode, nodeR |-> NoNode,
   negative |-> FALSE, gFlipped |-> FALSE, gNull |-> FALSE]
FuncLeaf(f) ==
  [op |-> "NONE", type |-> "FUNC", name |-> "", cmp |-> "NOT_NULL", value |-> Empty,
   ignoreCase |-> FALSE, func |-> f, nodeL |-> NoNode, nodeR |-> NoNode,
   negative |-> FALSE, gFlipped |-> FALSE, gNull |-> FALSE]

\* Expression(op, nodeL, nodeR) (header 124-125), built by && and ||.
Internal(op, l, r) ==
  [op |-> op, type |-> "PROP", name |-> "", cmp |-> "NOT_NULL", value |-> Empty,
   ignoreCase |-> FALSE, func |-> NoFunc, nodeL |-> l, nodeR |-> r,
   negative |-> FALSE, gFlipped |-> FALSE, gNull |-> FALSE]

\* Mutant: validate checks the condition type but not the operator.
IsPropLeafNoOpCheck(e) == e.type = "PROP"

\* validate(Operator::NONE, Condition::Type::PROP) (header 117-120).
IsPropLeaf(e) == e.op = "NONE" /\ e.type = "PROP"

-----------------------------------------------------------------------------
\* Mutant: && and || evaluate both children before combining them.
RECURSIVE executeEager(_, _, _)
executeEager(e, record, pmt) ==
  CASE e.op = "NONE" /\ e.type = "PROP" ->
         IF e.name \notin DOMAIN pmt THEN Err("INVALID_PROPTYPE")
         ELSE XorOutcome(compare(record[e.name], e.value, e.cmp, pmt[e.name],
                                 e.ignoreCase), e.negative)
    [] e.op = "NONE" /\ e.type = "FUNC" -> Ok(FuncAccepts(e.func, record))
    [] OTHER ->
         LET l == executeEager(e.nodeL, record, pmt)
             r == executeEager(e.nodeR, record, pmt)
         IN IF ~l.ok THEN l
            ELSE IF ~r.ok THEN r
            ELSE Ok((IF e.op = "AND" THEN l.val /\ r.val ELSE l.val \/ r.val) # e.negative)

\* Mutant: an exception of the right child is swallowed and taken as false.
RECURSIVE executeRightAsFalse(_, _, _)
executeRightAsFalse(e, record, pmt) ==
  CASE e.op = "NONE" /\ e.type = "PROP" ->
         IF e.name \notin DOMAIN pmt THEN Err("INVALID_PROPTYPE")
         ELSE XorOutcome(compare(record[e.name], e.value, e.cmp, pmt[e.name],
                                 e.ignoreCase), e.negative)
    [] e.op = "NONE" /\ e.type = "FUNC" -> Ok(FuncAccepts(e.func, record))
    [] OTHER ->
         LET l == executeRightAsFalse(e.nodeL, record, pmt)
             r == executeRightAsFalse(e.nodeR, record, pmt)
             decided == IF e.op = "AND" THEN ~l.val ELSE l.val
         IN IF ~l.ok THEN l
            ELSE IF decided THEN Ok(l.val # e.negative)
            ELSE IF ~r.ok THEN Ok(e.negative)
            ELSE Ok(r.val # e.negative)

(* Expression::execute (expression.cpp 192-218).  pmt is the property type *)
(* map, a function from the resolved names to their types.  Exceptions of  *)
(* Compare::compare propagate; && and || of the code short-circuit, so the *)
(* right child runs only when the left one does not decide.                *)
RECURSIVE execute(_, _, _)
execute(e, record, pmt) ==
  CASE e.op = "NONE" /\ e.type = "PROP" ->
         IF e.name \notin DOMAIN pmt THEN Err("INVALID_PROPTYPE")
         ELSE XorOutcome(compare(record[e.name], e.value, e.cmp, pmt[e.name],
                                 e.ignoreCase), e.negative)
    [] e.op = "NONE" /\ e.type = "FUNC" -> Ok(FuncAccepts(e.func, record))
    [] OTHER ->
         LET l == execute(e.nodeL, record, pmt)
             decided == IF e.op = "AND" THEN ~l.val ELSE l.val
         IN IF ~l.ok THEN l
            ELSE IF decided THEN Ok(l.val # e.negative)
            ELSE XorOutcome(execute(e.nodeR, record, pmt), e.negative)

\* Mutant: the walk descends into the left child only.
RECURSIVE collectLeftOnly(_)
collectLeftOnly(e) ==
  IF e.op # "NONE" THEN collectLeftOnly(e.nodeL)
  ELSE IF e.type = "PROP" THEN {e.name}
  ELSE {}

\* Expression::collectAllPropertyName (220-235): the names of every
\* property leaf of the tree.
RECURSIVE collectAllPropertyName(_)
collectAllPropertyName(e) ==
  IF e.op # "NONE" THEN collectAllPropertyName(e.nodeL) \cup collectAllPropertyName(e.nodeR)
  ELSE IF e.type = "PROP" THEN {e.name}
  ELSE {}

-----------------------------------------------------------------------------
\* Expression(propName) (35-36): a not-null leaf with no operand.
NewFromName(name) == PropLeaf(name, "NOT_NULL", Empty)

\* Expression(propName, cmp, value) (41-44) for a single operand.
NewFromCmp(name, cmp, value) == PropLeaf(name, cmp, value)

\* Expression(func) (38-39).
NewFromFunc(f) == FuncLeaf(f)

\* Every leaf the three constructors make from the model's inputs.
NewLeaves ==
  {NewFromName(p) : p \in Props} \cup
  {NewFromCmp(p, c, v) : p \in Props, c \in Cmps, v \in Values} \cup
  {NewFromFunc(f) : f \in Funcs}

\* The client starts a new expression with one of the constructors.
Construct(e) ==
  /\ exp' = e
  /\ lastErr' = "NONE"

\* A builder on a node that is not a property leaf throws
\* INVALID_EXPRESSION (validate, 237-247) and leaves the node as it was.
Reject ==
  /\ ~IsPropLeaf(exp)
  /\ lastErr' = "INVALID_EXPRESSION"
  /\ UNCHANGED exp

Build(e2) ==
  /\ IsPropLeaf(exp)
  /\ exp' = e2
  /\ lastErr' = "NONE"

\* eq, gt, lt, ge, le, contain, beginWith, endWith, like, regex (51-119):
\* set the comparator and the single operand.
SetCmp(cmp, value) ==
  \/ Reject
  \/ Build([exp EXCEPT !.cmp = cmp, !.value = value, !.gNull = FALSE])

\* between (121-134): the bound flags choose the comparator, the operand
\* is the encoded pair.
Between(lower, upper, incLower, incUpper) ==
  LET cmp == CASE ~incLower /\ ~incUpper -> "BETWEEN_NO_BOUND"
               [] ~incLower /\ incUpper  -> "BETWEEN_NO_LOWER"
               [] incLower /\ ~incUpper  -> "BETWEEN_NO_UPPER"
               [] OTHER                  -> "BETWEEN"
  IN SetCmp(cmp, <<lower, upper>>)

\* in (136-148): the operand is the encoded list.
In(values) == SetCmp("IN", values)

\* null (150-155): NOT_NULL with negative SET to true, the operand kept.
null ==
  \/ Reject
  \/ Build([exp EXCEPT !.cmp = "NOT_NULL", !.negative = TRUE, !.gNull = TRUE])

\* ignoreCase (157-161).
ignoreCase(b) ==
  \/ Reject
  \/ Build([exp EXCEPT !.ignoreCase = b])

\* operator! (163-166): flips negative on any node.
Negate(e) == [e EXCEPT !.negative = ~@, !.gFlipped = ~@]
Not ==
  /\ exp' = Negate(exp)
  /\ lastErr' = "NONE"

RECURSIVE NodeCount(_)
NodeCount(e) == IF e.op = "NONE" THEN 1 ELSE 1 + NodeCount(e.nodeL) + NodeCount(e.nodeR)

\* operator&& and operator|| (168-190): a new internal node over copies
\* of both operands, negative false.  The other operand is a fresh leaf,
\* negated or not, on either side.
Combine(op, other, otherFirst) ==
  /\ NodeCount(exp) < MaxNodes - 1
  /\ exp' = IF otherFirst THEN Internal(op, other, exp) ELSE Internal(op, exp, other)
  /\ lastErr' = "NONE"

Init ==
  /\ exp \in NewLeaves
  /\ lastErr = "NONE"

Next ==
  \/ \E e \in NewLeaves : Construct(e)
  \/ \E c \in Cmps, v \in Values : SetCmp(c, v)
  \/ \E lo, hi \in Values, a, b \in BOOLEAN : Between(lo, hi, a, b)
  \/ \E v, w \in Values : In(<<v, w>>)
  \/ null
  \/ \E b \in BOOLEAN : ignoreCase(b)
  \/ Not
  \/ \E op \in {"AND", "OR"}, o \in NewLeaves, neg, first \in BOOLEAN :
       Combine(op, IF neg THEN Negate(o) ELSE o, first)

Spec == Init /\ [][Next]_vars

-----------------------------------------------------------------------------
Records == [Props -> RecordValues \cup {Empty}]

\* The type map compareExpression builds (compare.cpp 1220): the type of
\* every name collectAllPropertyName returns.
TypesOf(names) == [p \in names |-> PropType[p]]

TypeOK ==
  /\ exp.op \in Ops
  /\ exp.type \in LeafTypes
  /\ NodeCount(exp) <= MaxNodes
  /\ exp.op # "NONE" => exp.cmp = "NOT_NULL" /\ exp.value = Empty /\ ~exp.ignoreCase
  /\ lastErr \in {"NONE", "INVALID_EXPRESSION"}

\* execute never misses a type when the map holds the types of the names
\* collectAllPropertyName gathered, as compareExpression and
\* compareEdgeExpression build it: discovery reaches every property leaf
\* that evaluation can reach, through any nesting of && and ||.
ResolvedTypesSuffice ==
  \A r \in Records :
    execute(exp, r, TypesOf(collectAllPropertyName(exp))) # Err("INVALID_PROPTYPE")

\* && and || short-circuit (spec 4.2, 4.3): when the left child decides,
\* the right child is not evaluated, so a right child whose property has
\* no type in the map raises nothing and the result is the left value
\* XOR the node's negative.
ShortCircuit ==
  \A r \in Records :
    LET m == TypesOf(collectAllPropertyName(exp.nodeL))
    IN exp.op # "NONE" /\ execute(exp.nodeL, r, m) = Ok(exp.op = "OR") =>
         execute(exp, r, m) = Ok((exp.op = "OR") # exp.negative)

\* The other half of short-circuit evaluation: when the left child of &&
\* or || does not decide, the right child runs, and the exception it
\* throws (here INVALID_PROPTYPE for a name the map lacks) reaches the
\* caller of execute instead of being taken as an answer.
ErrorSurfaces ==
  \A r \in Records :
    LET m == TypesOf(collectAllPropertyName(exp.nodeL))
        l == execute(exp.nodeL, r, m)
        rr == execute(exp.nodeR, r, m)
    IN /\ exp.op # "NONE"
       /\ l = Ok(exp.op = "AND")
       /\ ~rr.ok
       => execute(exp, r, m) = rr

\* ! negates what an expression evaluates to (spec 4.3: a function leaf
\* is invoked and XORed with negation like a property leaf).
NegationFlipsResult ==
  \A r \in Records :
    LET m == TypesOf(Props)
        a == execute(exp, r, m)
        b == execute(Negate(exp), r, m)
    IN a.ok /\ b.ok => a.val # b.val

\* A property leaf evaluates its last chosen comparator, negated exactly
\* when the client chose null() (is-null) or applied ! an odd number of
\* times, but not both: null() and the other builders keep the client's
\* own negation.
BuilderKeepsNegation ==
  \A r \in Records :
    IsPropLeaf(exp) =>
      execute(exp, r, TypesOf(Props)) =
        XorOutcome(compare(r[exp.name], exp.value, exp.cmp, PropType[exp.name],
                           exp.ignoreCase), exp.gNull # exp.gFlipped)

=============================================================================
