----------------------------- MODULE Predicate -----------------------------
(***************************************************************************)
(* The four predicates a scan accepts (spec.md 4.4): a Condition, a        *)
(* Multi-Condition tree, an Expression tree, or a caller's function.  For *)
(* each, the property names the scan must type before it reads a record, *)
(* and the test one parsed record goes through with the resolved type    *)
(* map.  A predicate is a record tagged by its kind.                      *)
(***************************************************************************)
EXTENDS MultiCondition, FiniteSets

CONSTANTS
  Props,             \* property names
  FuncAccepts(_, _)  \* FuncAccepts(f, record): what the caller's function f returns

\* The Expression operators; its builder state is not used here.
E == INSTANCE Expression WITH
  exp <- <<>>, lastErr <- "NONE", Funcs <- {}, Values <- {}, RecordValues <- {},
  Cmps <- {}, PropType <- <<>>, MaxNodes <- 0

CondPred(c)  == [kind |-> "cond", cond |-> c]
MultiPred(m) == [kind |-> "multi", multi |-> m]
ExpPred(e)   == [kind |-> "exp", exp |-> e]
FnPred(f)    == [kind |-> "fn", func |-> f]

\* The names a scan resolves before it reads: the condition's property,
\* the properties of the tree's `conditions` list (compareMultiCondition
\* 1164-1171), collectAllPropertyName (compareExpression 1219), none for
\* a function.
PredNames(p) ==
  CASE p.kind = "cond"  -> {p.cond.propName}
    [] p.kind = "multi" -> {c.propName : c \in ToSet(p.multi.conditions)}
    [] p.kind = "exp"   -> E!collectAllPropertyName(p.exp)
    [] p.kind = "fn"    -> {}

\* The test of one record: the Condition branches of getRecordCondition
\* (recordMatches), MultiCondition::execute, Expression::execute, or the
\* function.  `types` maps every name of PredNames(p) to its type.
PredTest(p, rec, types) ==
  CASE p.kind = "cond"  -> recordMatches(rec[p.cond.propName], types[p.cond.propName], p.cond)
    [] p.kind = "multi" -> executeMulti(p.multi, rec, types)
    [] p.kind = "exp"   -> {E!execute(p.exp, rec, types)}
    [] p.kind = "fn"    -> {Ok(FuncAccepts(p.func, rec))}

=============================================================================
