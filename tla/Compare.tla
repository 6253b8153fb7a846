------------------------------ MODULE Compare ------------------------------
(***************************************************************************)
(* Comparator Dispatch of libnogdb (src/src/compare.cpp, utils.cpp).       *)
(*                                                                         *)
(* Two dispatchers live side by side in the code:                          *)
(*   - Compare::compare and the compare* functions (lines 48-516), used    *)
(*     by Expression leaves;                                               *)
(*   - Compare::genericCompareFunc (lines 518-806), used by Condition.     *)
(* Both are pure.  A Bytes buffer is a sequence of units: a text or blob   *)
(* is its sequence of byte codes, a number is the one-unit sequence <<n>>  *)
(* (every numeric width reinterprets its bytes as a number of that width;  *)
(* the model keeps the value, not the width).  The empty sequence is the   *)
(* empty Bytes of an absent property.                                      *)
(*                                                                         *)
(* An evaluation ends in an Outcome: Ok(b) or Err(code), the code being    *)
(* the NOGDB_CTX_* error the function throws.                              *)
(***************************************************************************)
EXTENDS Integers, Sequences, SequencesExt, FiniteSetsExt

NumericTypes == {"TINYINT", "UNSIGNED_TINYINT", "SMALLINT", "UNSIGNED_SMALLINT",
                 "INTEGER", "UNSIGNED_INTEGER", "BIGINT", "UNSIGNED_BIGINT", "REAL"}
PropertyTypes == NumericTypes \cup {"TEXT", "BLOB", "UNDEFINED"}

\* Expression::Comparator (nogdb_expression.h 40-57) and
\* Condition::Comparator (nogdb_compare.h 46-64), one name set for both:
\* IS_IN of Expression is IN of Condition, IS_NULL exists only in Condition.
BetweenCmps == {"BETWEEN", "BETWEEN_NO_UPPER", "BETWEEN_NO_LOWER", "BETWEEN_NO_BOUND"}
ScalarCmps  == {"EQUAL", "GREATER", "LESS", "GREATER_EQUAL", "LESS_EQUAL",
                "CONTAIN", "BEGIN_WITH", "END_WITH", "LIKE", "REGEX"}
Comparators == {"IS_NULL", "NOT_NULL", "IN"} \cup ScalarCmps \cup BetweenCmps

Ok(b)  == [ok |-> TRUE, val |-> b, err |-> "NONE"]
Err(e) == [ok |-> FALSE, val |-> FALSE, err |-> e]

\* b ^ negative, applied only when the evaluation returned.
XorOutcome(o, neg) == IF o.ok THEN Ok(o.val # neg) ELSE o

Empty == <<>>

-----------------------------------------------------------------------------
(* Byte codes of the characters the model's texts use.                     *)
PCT == 37   \* '%'
LPAR == 40  \* '('
RPAR == 41  \* ')'
STAR == 42  \* '*'
DOT == 46   \* '.'
UND == 95   \* '_'

\* ::tolower on one byte (compare.hpp 41-45 applies it to each character;
\* strcasecmp and strncasecmp fold the same way).
ToLowerChar(c) == IF c \in 65..90 THEN c + 32 ELSE c
Fold(s, ignoreCase) == IF ignoreCase THEN [i \in DOMAIN s |-> ToLowerChar(s[i])] ELSE s

\* Lexical three-way comparison of byte strings (std::string::compare,
\* strcmp and strcasecmp after folding).
RECURSIVE LexCmp(_, _)
LexCmp(a, b) ==
  CASE a = <<>> /\ b = <<>> -> 0
    [] a = <<>>             -> -1
    [] b = <<>>             -> 1
    [] Head(a) < Head(b)    -> -1
    [] Head(a) > Head(b)    -> 1
    [] OTHER                -> LexCmp(Tail(a), Tail(b))

\* The three-way order a comparator of type t uses on two present values:
\* the native order of the reinterpreted number, or lexical text order.
Cmp3(x, y, t, ignoreCase) ==
  IF t \in NumericTypes
  THEN IF x[1] < y[1] THEN -1 ELSE IF x[1] > y[1] THEN 1 ELSE 0
  ELSE LexCmp(Fold(x, ignoreCase), Fold(y, ignoreCase))

\* The relation an ordering or between comparator tests, on three-way results.
Rel(op, c) ==
  CASE op = "GREATER" -> c > 0  [] op = "GREATER_EQUAL" -> c >= 0
    [] op = "LESS"    -> c < 0  [] op = "LESS_EQUAL"    -> c <= 0
    [] op = "EQUAL"   -> c = 0

\* Mutant: betweenNoUpper also excludes its lower bound.
InRangeLowerExclusive(cmp, cl, cu) ==
  CASE cmp = "BETWEEN"          -> cl >= 0 /\ cu <= 0
    [] cmp = "BETWEEN_NO_UPPER" -> cl > 0  /\ cu < 0
    [] cmp = "BETWEEN_NO_LOWER" -> cl > 0  /\ cu <= 0
    [] cmp = "BETWEEN_NO_BOUND" -> cl > 0  /\ cu < 0

\* between / betweenNoUpper / betweenNoLower / betweenNoBound templates:
\* cl compares the value with the lower bound, cu with the upper bound.
InRange(cmp, cl, cu) ==
  CASE cmp = "BETWEEN"          -> cl >= 0 /\ cu <= 0
    [] cmp = "BETWEEN_NO_UPPER" -> cl >= 0 /\ cu < 0
    [] cmp = "BETWEEN_NO_LOWER" -> cl > 0  /\ cu <= 0
    [] cmp = "BETWEEN_NO_BOUND" -> cl > 0  /\ cu < 0

IsSubstring(n, h) == n \in SubSeqs(h)

-----------------------------------------------------------------------------
(* replaceAll (utils.cpp 57-65): replace every occurrence of `from`,       *)
(* resuming the search after the inserted text.                            *)
FirstAt(s, from, start) ==
  LET P == {i \in start..(Len(s) - Len(from) + 1) :
              SubSeq(s, i, i + Len(from) - 1) = from}
  IN IF P = {} THEN 0 ELSE Min(P)

RECURSIVE ReplaceFrom(_, _, _, _)
ReplaceFrom(s, from, to, start) ==
  LET p == FirstAt(s, from, start)
  IN IF p = 0 THEN s
     ELSE ReplaceFrom(SubSeq(s, 1, p - 1) \o to \o SubSeq(s, p + Len(from), Len(s)),
                      from, to, p + Len(to))

replaceAll(s, from, to) == IF from = <<>> THEN s ELSE ReplaceFrom(s, from, to, 1)

\* std::regex_match over the subset of ECMAScript the model's patterns use:
\* literal bytes, '.', the two groups LIKE inserts (any run, any one byte)
\* and a postfix star.  A pattern is parsed into atoms [any, c, star];
\* matching is anchored.
Atom(any, c, star) == [any |-> any, c |-> c, star |-> star]

RECURSIVE Atoms(_)
Atoms(r) ==
  IF r = <<>> THEN <<>>
  ELSE IF IsPrefix(<<LPAR, DOT, STAR, RPAR>>, r)
       THEN <<Atom(TRUE, 0, TRUE)>> \o Atoms(SubSeq(r, 5, Len(r)))
  ELSE IF IsPrefix(<<LPAR, DOT, RPAR>>, r)
       THEN <<Atom(TRUE, 0, FALSE)>> \o Atoms(SubSeq(r, 4, Len(r)))
  ELSE LET starred == Len(r) >= 2 /\ r[2] = STAR
           a == Atom(r[1] = DOT, r[1], starred)
       IN <<a>> \o Atoms(SubSeq(r, IF starred THEN 3 ELSE 2, Len(r)))

AtomAccepts(a, ch, icase) ==
  \/ a.any
  \/ a.c = ch
  \/ icase /\ ToLowerChar(a.c) = ToLowerChar(ch)

RECURSIVE AtomsMatch(_, _, _)
AtomsMatch(as, s, icase) ==
  IF as = <<>> THEN s = <<>>
  ELSE IF Head(as).star
       THEN \/ AtomsMatch(Tail(as), s, icase)
            \/ s # <<>> /\ AtomAccepts(Head(as), Head(s), icase)
                        /\ AtomsMatch(as, Tail(s), icase)
       ELSE s # <<>> /\ AtomAccepts(Head(as), Head(s), icase)
                     /\ AtomsMatch(Tail(as), Tail(s), icase)

RegexMatch(s, pattern, icase) == AtomsMatch(Atoms(pattern), s, icase)

\* Every '(' is closed by a later ')' and every ')' closes an open '('.
RECURSIVE GroupsBalanced(_, _)
GroupsBalanced(r, depth) ==
  IF r = <<>> THEN depth = 0
  ELSE CASE Head(r) = LPAR -> GroupsBalanced(Tail(r), depth + 1)
         [] Head(r) = RPAR -> depth > 0 /\ GroupsBalanced(Tail(r), depth - 1)
         [] OTHER          -> GroupsBalanced(Tail(r), depth)

\* The std::regex constructor accepts the pattern: its groups balance and
\* every '*' follows something it can repeat.  Otherwise it throws
\* std::regex_error (error_paren, error_badrepeat).
RegexParses(r) ==
  /\ GroupsBalanced(r, 0)
  /\ \A i \in DOMAIN r : r[i] = STAR => i > 1 /\ r[i - 1] \notin {LPAR, STAR}

\* std::regex_match(s, std::regex(pattern)): the match, or the
\* std::regex_error the construction throws, which is no NOGDB error.
RegexOutcome(s, pattern, icase) ==
  IF RegexParses(pattern) THEN Ok(RegexMatch(s, pattern, icase))
  ELSE Err("REGEX_ERROR")

\* The regular expression a LIKE pattern is rewritten to (compare.cpp
\* 271-273 and 778-779): '%' becomes the group "(.*" ")", then '_'
\* becomes "(.)".
LikeRegex(p) == replaceAll(replaceAll(p, <<PCT>>, <<LPAR, DOT, STAR, RPAR>>),
                           <<UND>>, <<LPAR, DOT, RPAR>>)

-----------------------------------------------------------------------------
(* Expression dispatcher: Compare::compare and its compare* table.         *)

\* Mutant: the text comparison ignores the case flag.
compareEqualCaseBlind(lhs, rhs, t, ic) ==
  IF t = "TEXT" THEN lhs = rhs
  ELSE Len(lhs) >= Len(rhs) /\ SubSeq(lhs, 1, Len(rhs)) = rhs

\* compareEqual (55-71): text by strcmp/strcasecmp, anything else by
\* comparing the first rhs.size() bytes of lhs with rhs.
compareEqual(lhs, rhs, t, ic) ==
  IF t = "TEXT" THEN Fold(lhs, ic) = Fold(rhs, ic)
  ELSE Len(lhs) >= Len(rhs) /\ SubSeq(lhs, 1, Len(rhs)) = rhs

\* compareGreater, compareLess, compareGreaterEqual, compareLessEqual (73-213).
compareOrder(op, lhs, rhs, t, ic) ==
  CASE t \in NumericTypes \cup {"TEXT"} -> Ok(Rel(op, Cmp3(lhs, rhs, t, ic)))
    [] t = "BLOB"                        -> Err("INVALID_COMPARATOR")
    [] OTHER                             -> Err("INVALID_PROPTYPE")

\* compareContain, compareBeginWith, compareEndWith, compareLike,
\* compareRegex (215-296): text only, otherwise INVALID_COMPARATOR.
compareText(cmp, lhs, rhs, ic) ==
  LET l == Fold(lhs, ic)
      r == Fold(rhs, ic)
  IN CASE cmp = "CONTAIN"    -> Ok(Len(lhs) >= Len(rhs) /\ IsSubstring(r, l))
       [] cmp = "BEGIN_WITH" -> Ok(Len(lhs) >= Len(rhs) /\ IsPrefix(r, l))
       [] cmp = "END_WITH"   -> Ok(Len(lhs) >= Len(rhs) /\ IsSuffix(r, l))
       [] cmp = "LIKE"       -> RegexOutcome(lhs, LikeRegex(rhs), ic)
       [] cmp = "REGEX"      -> RegexOutcome(lhs, rhs, ic)

\* compareIn (298-308): rhs is the encoded list of candidates.
compareIn(lhs, rhs, t, ic) == \E i \in DOMAIN rhs : compareEqual(lhs, rhs[i], t, ic)

\* compareBetween ... compareBetweenNoBound (330-477): rhs is the pair.
compareBetween(cmp, lhs, rhs, t, ic) ==
  CASE t \in NumericTypes \cup {"TEXT"} ->
         Ok(InRange(cmp, Cmp3(lhs, rhs[1], t, ic), Cmp3(lhs, rhs[2], t, ic)))
    [] t = "BLOB" -> Err("INVALID_COMPARATOR")
    [] OTHER      -> Err("INVALID_PROPTYPE")

\* Compare::compare (479-516): an empty lhs is FALSE for every comparator
\* but NOT_NULL, then the comparator's function is applied.
compare(lhs, rhs, cmp, t, ic) ==
  IF lhs = Empty /\ cmp # "NOT_NULL" THEN Ok(FALSE)
  ELSE CASE cmp = "NOT_NULL" -> Ok(lhs # Empty)
         [] cmp = "EQUAL"    -> Ok(compareEqual(lhs, rhs, t, ic))
         [] cmp \in {"GREATER", "LESS", "GREATER_EQUAL", "LESS_EQUAL"} ->
                compareOrder(cmp, lhs, rhs, t, ic)
         [] cmp \in {"CONTAIN", "BEGIN_WITH", "END_WITH", "LIKE", "REGEX"} ->
                IF t = "TEXT" THEN compareText(cmp, lhs, rhs, ic)
                ELSE Err("INVALID_COMPARATOR")
         [] cmp = "IN"       -> Ok(compareIn(lhs, rhs, t, ic))
         [] cmp \in BetweenCmps -> compareBetween(cmp, lhs, rhs, t, ic)

-----------------------------------------------------------------------------
(* Condition dispatcher: Compare::genericCompareFunc (518-806).  It        *)
(* returns the SET of outcomes the build can produce: blob equality reads  *)
(* value.size() bytes of cmpValue1, past its end when cmpValue1 is         *)
(* shorter, so those bytes are arbitrary.                                  *)
BlobEqualOutcomes(value, cmp1) ==
  IF Len(value) <= Len(cmp1)
  THEN {Ok(SubSeq(cmp1, 1, Len(value)) = value)}
  ELSE IF SubSeq(value, 1, Len(cmp1)) = cmp1 THEN {Ok(TRUE), Ok(FALSE)}
  ELSE {Ok(FALSE)}

\* TEXT case (753-795): both sides lowered when ignoring case; CONTAIN is
\* find() < strlen(), BEGIN_WITH is find() == 0, END_WITH is find() == 0 on
\* the reversed strings.
genericText(cmp, v, c1, c2) ==
  CASE cmp \in {"EQUAL", "GREATER", "LESS", "GREATER_EQUAL", "LESS_EQUAL"} ->
         Ok(Rel(cmp, LexCmp(v, c1)))
    [] cmp = "CONTAIN"    -> Ok(IsSubstring(c1, v) /\ (c1 # <<>> \/ v # <<>>))
    [] cmp = "BEGIN_WITH" -> Ok(IsPrefix(c1, v))
    [] cmp = "END_WITH"   -> Ok(IsSuffix(c1, v))
    [] cmp = "LIKE"       -> RegexOutcome(v, LikeRegex(c1), FALSE)
    [] cmp = "REGEX"      -> RegexOutcome(v, c1, FALSE)
    [] cmp \in BetweenCmps -> Ok(InRange(cmp, LexCmp(v, c1), LexCmp(v, c2)))
    [] OTHER              -> Err("INVALID_COMPARATOR")

genericCompareFunc(value, t, cmpValue1, cmpValue2, cmp, isIgnoreCase) ==
  CASE t \in NumericTypes ->
         CASE cmp \in {"EQUAL", "GREATER", "LESS", "GREATER_EQUAL", "LESS_EQUAL"} ->
                {Ok(Rel(cmp, Cmp3(value, cmpValue1, t, FALSE)))}
           [] cmp \in BetweenCmps ->
                {Ok(InRange(cmp, Cmp3(value, cmpValue1, t, FALSE),
                                 Cmp3(value, cmpValue2, t, FALSE)))}
           [] OTHER -> {Err("INVALID_COMPARATOR")}
    [] t = "TEXT" ->
         {genericText(cmp, Fold(value, isIgnoreCase), Fold(cmpValue1, isIgnoreCase),
                      Fold(cmpValue2, isIgnoreCase))}
    [] t = "BLOB" ->
         IF cmp = "EQUAL" THEN BlobEqualOutcomes(value, cmpValue1)
         ELSE {Err("INVALID_COMPARATOR")}
    [] OTHER -> {Err("INVALID_PROPTYPE")}

=============================================================================
