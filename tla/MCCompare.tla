------------------------------ MODULE MCCompare ------------------------------
(***************************************************************************)
(* Checks both comparator dispatchers of Compare against the comparison    *)
(* algebra the specification states (spec.md 4.1, 6, 8), over every input *)
(* built from small sets of numbers and short texts.  Each step is one     *)
(* call of both dispatchers on a fresh input; the state holds the input    *)
(* and the two results.                                                    *)
(***************************************************************************)
EXTENDS Compare

CONSTANTS
  Types,      \* the property types the calls use
  Nums,       \* the numbers a numeric Bytes may hold
  Alphabet,   \* byte codes of text characters
  MaxLen      \* longest text value or scalar operand

VARIABLES call, exprOut, condOut
vars == <<call, exprOut, condOut>>

Texts(n) == UNION {[1..k -> Alphabet] : k \in 0..n}
Vals(t, n) == IF t \in NumericTypes THEN {<<v>> : v \in Nums} ELSE Texts(n)

\* The operand shapes the builders produce: a pair for between, a list of
\* one or two values for in, no operand for the null check.
Operands(cmp, t) ==
  CASE cmp \in BetweenCmps -> Vals(t, 1) \X Vals(t, 1)
    [] cmp = "IN"          -> {<<x>> : x \in Vals(t, 1)} \cup (Vals(t, 1) \X Vals(t, 1))
    [] cmp = "NOT_NULL"    -> {Empty}
    [] OTHER               -> Vals(t, MaxLen)

Inputs ==
  UNION {{[lhs |-> l, rhs |-> r, cmp |-> c, type |-> t, ic |-> i] :
            l \in Vals(t, MaxLen) \cup {Empty}, r \in Operands(c, t), i \in BOOLEAN}
         : c \in Comparators \ {"IS_NULL"}, t \in Types}

\* What each dispatcher returns on an input; genericCompareFunc takes the
\* two bounds of a between as cmpValue1 and cmpValue2, else the operand,
\* and is called by the scans on present values only.
ExprResult(in) == compare(in.lhs, in.rhs, in.cmp, in.type, in.ic)
CondResult(in) ==
  CASE in.lhs = Empty -> {}
    [] in.cmp \in BetweenCmps ->
         genericCompareFunc(in.lhs, in.type, in.rhs[1], in.rhs[2], in.cmp, in.ic)
    [] in.cmp \in ScalarCmps ->
         genericCompareFunc(in.lhs, in.type, in.rhs, Empty, in.cmp, in.ic)
    [] OTHER -> {}

\* One call of each dispatcher on the same input; the calls return and
\* nothing follows, so the final states have no successor.
NoCall == [lhs |-> Empty, rhs |-> Empty, cmp |-> "NONE", type |-> "NONE", ic |-> FALSE]

Call(in) ==
  /\ call = NoCall
  /\ call' = in
  /\ exprOut' = ExprResult(in)
  /\ condOut' = CondResult(in)

Init ==
  /\ call = NoCall
  /\ exprOut = Ok(FALSE)
  /\ condOut = {}

Next == \E in \in Inputs : Call(in)

Spec == Init /\ [][Next]_vars

-----------------------------------------------------------------------------
(* Reference semantics, written from spec.md and independent of the code. *)

TextLess(a, b) ==
  \/ IsStrictPrefix(a, b)
  \/ \E k \in 1..Len(a) :
       /\ k <= Len(b)
       /\ SubSeq(a, 1, k - 1) = SubSeq(b, 1, k - 1)
       /\ a[k] < b[k]

\* Natural order of numbers, lexical order of (optionally folded) texts.
SpecLess(x, y, t, ic) ==
  IF t \in NumericTypes THEN x[1] < y[1] ELSE TextLess(Fold(x, ic), Fold(y, ic))
SpecEq(x, y, t, ic) ==
  IF t = "TEXT" THEN Fold(x, ic) = Fold(y, ic) ELSE x = y

\* Glob syntax of spec.md 6: '%' any run, '_' one character, else literal.
RECURSIVE Glob(_, _)
Glob(p, s) ==
  IF p = <<>> THEN s = <<>>
  ELSE IF Head(p) = PCT THEN Glob(Tail(p), s) \/ (s # <<>> /\ Glob(p, Tail(s)))
  ELSE s # <<>> /\ (Head(p) = UND \/ Head(p) = Head(s)) /\ Glob(Tail(p), Tail(s))

SpecBetween(cmp, v, lo, hi, t, ic) ==
  LET lowOk == IF cmp \in {"BETWEEN", "BETWEEN_NO_UPPER"}
               THEN ~SpecLess(v, lo, t, ic) ELSE SpecLess(lo, v, t, ic)
      highOk == IF cmp \in {"BETWEEN", "BETWEEN_NO_LOWER"}
                THEN ~SpecLess(hi, v, t, ic) ELSE SpecLess(v, hi, t, ic)
  IN lowOk /\ highOk

SpecCompare(in) ==
  LET l == in.lhs  r == in.rhs  t == in.type  ic == in.ic  c == in.cmp
      numOrText == t \in NumericTypes \cup {"TEXT"}
  IN CASE c = "NOT_NULL" -> Ok(l # Empty)
       [] l = Empty      -> Ok(FALSE)
       [] c = "EQUAL"    -> Ok(SpecEq(l, r, t, ic))
       [] c = "IN"       -> Ok(\E i \in DOMAIN r : SpecEq(l, r[i], t, ic))
       [] ~numOrText     -> Err("INVALID_COMPARATOR")
       [] c = "GREATER"       -> Ok(SpecLess(r, l, t, ic))
       [] c = "LESS"          -> Ok(SpecLess(l, r, t, ic))
       [] c = "GREATER_EQUAL" -> Ok(~SpecLess(l, r, t, ic))
       [] c = "LESS_EQUAL"    -> Ok(~SpecLess(r, l, t, ic))
       [] c \in BetweenCmps   -> Ok(SpecBetween(c, l, r[1], r[2], t, ic))
       [] t # "TEXT"          -> Err("INVALID_COMPARATOR")
       [] c = "CONTAIN"    -> Ok(\E i \in 1..Len(l) + 1 : \E j \in i - 1..Len(l) :
                                    SubSeq(Fold(l, ic), i, j) = Fold(r, ic))
       [] c = "BEGIN_WITH" -> Ok(IsPrefix(Fold(r, ic), Fold(l, ic)))
       [] c = "END_WITH"   -> Ok(\E i \in 1..Len(l) + 1 :
                                    SubSeq(Fold(l, ic), i, Len(l)) = Fold(r, ic))
       [] c = "LIKE"       -> Ok(Glob(Fold(r, ic), Fold(l, ic)))
       [] c = "REGEX"      -> RegexOutcome(Fold(l, ic), Fold(r, ic), FALSE)

-----------------------------------------------------------------------------
\* Every comparator of both dispatchers computes what spec.md 4.1 states:
\* Compare::compare on any value, genericCompareFunc (the Condition path,
\* which the scans call only on present values) on present values.
DispatchMatchesSpec ==
  call # NoCall =>
  /\ exprOut = SpecCompare(call)
  /\ call.cmp \in ScalarCmps \cup BetweenCmps /\ call.lhs # Empty
       => condOut = {SpecCompare(call)}

\* A LIKE pattern is the glob of spec.md 6 in both dispatchers: only '%'
\* and '_' are special, every other character matches itself.
LikeIsGlob ==
  call # NoCall /\ call.cmp = "LIKE" /\ call.lhs # Empty =>
     /\ exprOut = Ok(Glob(Fold(call.rhs, call.ic), Fold(call.lhs, call.ic)))
     /\ condOut = {Ok(Glob(Fold(call.rhs, call.ic), Fold(call.lhs, call.ic)))}

\* Blob equality is byte-for-byte (spec.md 4.1) in both dispatchers.
BlobEqualityIsExact ==
  call # NoCall /\ call.type = "BLOB" /\ call.cmp = "EQUAL" /\ call.lhs # Empty =>
     /\ exprOut = Ok(call.lhs = call.rhs)
     /\ condOut = {Ok(call.lhs = call.rhs)}

=============================================================================
