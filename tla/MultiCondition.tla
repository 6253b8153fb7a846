--------------------------- MODULE MultiCondition ---------------------------
(***************************************************************************)
(* The Multi-Condition tree (src/include/nogdb/nogdb_compare.h 229-235,    *)
(* 248-339).  The header declares its shape: a shared root of composite   *)
(* and condition nodes, and `conditions`, the list of the condition nodes *)
(* that compareMultiCondition walks to collect the property names.  The   *)
(* methods are defined outside src/ and are written from spec.md 4.2: AND  *)
(* and OR make a new composite with negation false, ! flips the root's     *)
(* negation, and execute short-circuits and XORs each node's negation.    *)
(*                                                                         *)
(* A tree is a value [root, conditions]; && and || on a tree return it     *)
(* changed, so they are operators too.                                    *)
(***************************************************************************)
EXTENDS Condition

\* ConditionNode (header 308-322) and CompositeNode (324-338).
CondNode(c) == [isCondition |-> TRUE, cond |-> c]
Composite(l, r, opt) ==
  [isCondition |-> FALSE, left |-> l, right |-> r, opt |-> opt, isNegative |-> FALSE]

IsTree(x) == "root" \in DOMAIN x

\* The root and the condition list a Condition or a tree contributes.
RootOf(x) == IF IsTree(x) THEN x.root ELSE CondNode(x)
CondsOf(x) == IF IsTree(x) THEN x.conditions ELSE <<x>>

\* Condition && / || Condition (229-235, 282), Condition && / || tree
\* (284), tree && / || Condition and tree && / || tree (266-272): a new
\* composite over both roots, the condition lists joined in order.
Compose(opt, x, y) ==
  [root |-> Composite(RootOf(x), RootOf(y), opt),
   conditions |-> CondsOf(x) \o CondsOf(y)]

\* operator! (274): the root composite's negation flipped.
NotTree(m) == [m EXCEPT !.root.isNegative = ~@]

\* ConditionNode::check: the type from the map (absent: an internal
\* error), the null checks read emptiness, any other comparator is false
\* on an absent value; the result XORed with the condition's negation.
CheckCondition(c, rec, types) ==
  LET value == rec[c.propName]
  IN CASE c.propName \notin DOMAIN types -> {Err("INTERNAL")}
       [] c.comp = "IS_NULL"  -> {Ok((value = Empty) # c.isNegative)}
       [] c.comp = "NOT_NULL" -> {Ok((value # Empty) # c.isNegative)}
       [] value = Empty       -> {Ok(c.isNegative)}
       [] OTHER               -> compareBytesValue(value, types[c.propName], c)

\* CompositeNode::check: the right child runs only when the left one does
\* not decide; an error ends the evaluation.  Sets of outcomes, as the
\* Condition-path dispatcher.
RECURSIVE Check(_, _, _)
Check(n, rec, types) ==
  IF n.isCondition THEN CheckCondition(n.cond, rec, types)
  ELSE UNION {IF ~l.ok THEN {l}
              ELSE IF (n.opt = "AND" /\ ~l.val) \/ (n.opt = "OR" /\ l.val)
                   THEN {Ok(l.val # n.isNegative)}
                   ELSE {XorOutcome(r, n.isNegative) : r \in Check(n.right, rec, types)}
              : l \in Check(n.left, rec, types)}

\* MultiCondition::execute.
executeMulti(m, rec, types) == Check(m.root, rec, types)

=============================================================================
