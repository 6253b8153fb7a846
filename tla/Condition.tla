------------------------------ MODULE Condition ------------------------------
(***************************************************************************)
(* The Condition value of libnogdb (src/include/nogdb/nogdb_compare.h) and *)
(* how one record is tested against it (src/src/compare.cpp 808-870).      *)
(*                                                                         *)
(* A Condition is immutable: every builder is a const method returning a   *)
(* changed copy, so the builders are operators, not actions.  The fields   *)
(* are those of the class (header 239-245).  The constructor and operator! *)
(* are declared in the header but defined outside src/; they are written   *)
(* from spec.md 3: the constructor makes a not-null test, ! flips the      *)
(* negation flag.                                                          *)
(***************************************************************************)
EXTENDS Compare

NoSet == <<>>

\* Condition(propName) (header 66), spec.md 3.
Condition(propName) ==
  [propName |-> propName, valueBytes |-> Empty, valueSet |-> NoSet,
   comp |-> "NOT_NULL", isIgnoreCase |-> FALSE, isNegative |-> FALSE]

\* eq, gt, lt, ge, le, contain, beginWith, endWith, like, regex
\* (header 70-148): copy, set valueBytes and comp.
WithComp(c, comp, value) == [c EXCEPT !.valueBytes = value, !.comp = comp]

\* ignoreCase (150-154).
ignoreCase(c) == [c EXCEPT !.isIgnoreCase = TRUE]

\* null (156-161): an is-null test with no operand.
null(c) == [c EXCEPT !.valueBytes = Empty, !.comp = "IS_NULL"]

\* between (163-177): both bounds in valueSet, the flags choose comp.
between(c, lower, upper, incLower, incUpper) ==
  [c EXCEPT !.valueSet = <<lower, upper>>,
            !.comp = CASE ~incLower /\ ~incUpper -> "BETWEEN_NO_BOUND"
                       [] ~incLower /\ incUpper  -> "BETWEEN_NO_LOWER"
                       [] incLower /\ ~incUpper  -> "BETWEEN_NO_UPPER"
                       [] OTHER                  -> "BETWEEN"]

\* in (179-227): every candidate, in order, in valueSet.
in(c, values) == [c EXCEPT !.valueSet = values, !.comp = "IN"]

\* operator! (header 237), spec.md 3: flips the negation flag.
Not(c) == [c EXCEPT !.isNegative = ~@]

-----------------------------------------------------------------------------
\* The loop of compareBytesValue for IN (810-816): the first candidate whose
\* equality XOR isNegative is true answers true; an exception of
\* genericCompareFunc ends the loop.  Sets of outcomes, as genericCompareFunc.
RECURSIVE InLoop(_, _, _, _)
InLoop(value, type, cands, c) ==
  IF cands = <<>> THEN {Ok(FALSE)}
  ELSE UNION {IF ~o.ok THEN {o}
              ELSE IF o.val # c.isNegative THEN {Ok(TRUE)}
              ELSE InLoop(value, type, Tail(cands), c)
              : o \in genericCompareFunc(value, type, Head(cands), Empty, "EQUAL",
                                         c.isIgnoreCase)}

\* Compare::compareBytesValue (808-825).
compareBytesValue(value, type, c) ==
  CASE c.comp = "IN" -> InLoop(value, type, c.valueSet, c)
    [] c.comp \in BetweenCmps ->
         {XorOutcome(o, c.isNegative) :
            o \in genericCompareFunc(value, type, c.valueSet[1], c.valueSet[2],
                                     c.comp, c.isIgnoreCase)}
    [] OTHER ->
         {XorOutcome(o, c.isNegative) :
            o \in genericCompareFunc(value, type, c.valueBytes, Empty,
                                     c.comp, c.isIgnoreCase)}

\* The test getRecordCondition applies to one parsed record whose value
\* of the property is `value` (849-870): outside the null checks a record
\* without the property is skipped; the null checks read only emptiness.
recordMatches(value, type, c) ==
  CASE c.comp \notin {"IS_NULL", "NOT_NULL"} ->
         IF value = Empty THEN {Ok(FALSE)} ELSE compareBytesValue(value, type, c)
    [] c.comp = "IS_NULL"  -> {Ok(value = Empty)}
    [] c.comp = "NOT_NULL" -> {Ok(value # Empty)}

=============================================================================
