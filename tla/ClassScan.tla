------------------------------ MODULE ClassScan ------------------------------
(***************************************************************************)
(* The class scans: Compare::compareCondition, compareMultiCondition,      *)
(* compareExpression and compareCondition with a function, followed by     *)
(* getRecordCondition, getRecordMultiCondition and getRecordExpression     *)
(* (src/src/compare.cpp 831-923, 1118-1237, 1382-1416).                    *)
(*                                                                         *)
(* The call first resolves the types of the predicate's properties over    *)
(* the class infos of the request, then opens a cursor on each class in    *)
(* turn and tests one stored entry per step.  The storage and schema       *)
(* collaborators are constants: Store gives each class's entries in cursor *)
(* order, Schema each class's property types.  The request (the class      *)
(* infos getMultipleClassInfo returned and the predicate) is chosen in     *)
(* Init and fixed for the call.                                            *)
(***************************************************************************)
EXTENDS Predicate

CONSTANTS
  MaxRecNum,   \* EM_MAXRECNUM, the reserved key of every class's store
  Store,       \* class id -> sequence of [key, rec], rec : Props -> Bytes
  Schema,      \* class id -> [its property names -> type]
  ClassLists,  \* the class-info sequences a request may resolve to
  Preds        \* the predicates a caller may pass

VARIABLES
  infos,   \* classInfos of the call
  pred,    \* the predicate
  pc,      \* "resolve", "scan", "done" or "error"
  ci,      \* index into infos of the class being resolved or scanned
  pos,     \* cursor position in that class's entries
  types,   \* propertyType / conditionPropertyTypes / condPropTypes so far
  result,  \* the result set, a sequence of record ids <<class, key>>
  err      \* the error raised, or "NONE"

vars == <<infos, pred, pc, ci, pos, types, result, err>>

Init ==
  /\ infos \in ClassLists
  /\ pred \in Preds
  /\ pc = "resolve"
  /\ ci = 1
  /\ pos = 1
  /\ types = [n \in PredNames(pred) |-> "UNDEFINED"]
  /\ result = <<>>
  /\ err = "NONE"

Raise(e) ==
  /\ pc' = "error"
  /\ err' = e

-----------------------------------------------------------------------------
(* Type resolution.                                                        *)

\* The names among `names` one class's catalog types differently from the
\* type already resolved.
Conflicts(desc, names) ==
  {n \in names \cap DOMAIN desc : types[n] \notin {"UNDEFINED", desc[n]}}

\* One class's catalog applied to the type map: a conflict throws, else
\* every name the class has takes its type.
ResolveStep(desc, names) ==
  \/ /\ Conflicts(desc, names) = {}
     /\ types' = [n \in DOMAIN types |-> IF n \in names \cap DOMAIN desc THEN desc[n] ELSE types[n]]
     /\ ci' = ci + 1
     /\ UNCHANGED <<pc, err>>
  \/ /\ Conflicts(desc, names) # {}
     /\ Raise("CONFLICT_PROPTYPE")
     /\ UNCHANGED <<ci, types>>

\* After the loop over the classes: a name no class types fails, else the
\* scan starts.
ResolveEnd ==
  \/ /\ \E n \in DOMAIN types : types[n] = "UNDEFINED"
     /\ Raise("NOEXST_PROPERTY")
     /\ UNCHANGED <<ci, pos>>
  \/ /\ \A n \in DOMAIN types : types[n] # "UNDEFINED"
     /\ pc' = "scan"
     /\ ci' = 1
     /\ pos' = 1
     /\ UNCHANGED err

\* compareCondition: one iteration of the loop over classInfos (1126-1137).
ResolveClass ==
  /\ pc = "resolve"
  /\ pred.kind = "cond"
  /\ ci <= Len(infos)
  /\ ResolveStep(Schema[infos[ci]], {pred.cond.propName})
  /\ UNCHANGED <<infos, pred, pos, result>>

\* compareCondition after the loop (1138-1156).
ResolveDone ==
  /\ pc = "resolve"
  /\ pred.kind = "cond"
  /\ ci > Len(infos)
  /\ ResolveEnd
  /\ UNCHANGED <<infos, pred, types, result>>

\* compareMultiCondition: one class, every property of the map (1172-1189).
ResolveClassMulti ==
  /\ pc = "resolve"
  /\ pred.kind = "multi"
  /\ ci <= Len(infos)
  /\ ResolveStep(Schema[infos[ci]], DOMAIN types)
  /\ UNCHANGED <<infos, pred, pos, result>>

\* compareMultiCondition after the loop: numOfUndefPropertyType != 0 fails
\* (1190-1208).
ResolveDoneMulti ==
  /\ pc = "resolve"
  /\ pred.kind = "multi"
  /\ ci > Len(infos)
  /\ ResolveEnd
  /\ UNCHANGED <<infos, pred, types, result>>

\* The types the classes of the request give a property.
TypesIn(cls, name) == {Schema[c][name] : c \in ToSet(cls) \cap
                                             {d \in DOMAIN Schema : name \in DOMAIN Schema[d]}}

\* compareExpression (1211-1236): getPropertyMapType types the collected
\* names over the class infos in one call of the schema collaborator,
\* which resolves as the other scans do (spec.md 4.4).
ResolveMap ==
  /\ pc = "resolve"
  /\ pred.kind = "exp"
  /\ LET names == DOMAIN types
     IN \/ /\ \E n \in names : Cardinality(TypesIn(infos, n)) > 1
           /\ Raise("CONFLICT_PROPTYPE")
           /\ UNCHANGED types
        \/ /\ \A n \in names : Cardinality(TypesIn(infos, n)) <= 1
           /\ \E n \in names : TypesIn(infos, n) = {}
           /\ Raise("NOEXST_PROPERTY")
           /\ UNCHANGED types
        \/ /\ \A n \in names : Cardinality(TypesIn(infos, n)) = 1
           /\ types' = [n \in names |-> CHOOSE t \in TypesIn(infos, n) : TRUE]
           /\ pc' = "scan"
           /\ UNCHANGED err
  /\ UNCHANGED <<infos, pred, ci, pos, result>>

\* compareCondition with a function (1408-1416): no property to resolve.
StartFn ==
  /\ pc = "resolve"
  /\ pred.kind = "fn"
  /\ pc' = "scan"
  /\ UNCHANGED <<infos, pred, ci, pos, types, result, err>>

-----------------------------------------------------------------------------
(* getRecordCondition (831-875, function 1382-1405), getRecordMultiCondition *)
(* (877-898), getRecordExpression (900-923): one cursor per class.         *)

\* Mutant: the sentinel key is parsed and tested like a record.
ScanEntryNoSentinel ==
  /\ pc = "scan"
  /\ ci <= Len(infos)
  /\ pos <= Len(Store[infos[ci]])
  /\ LET entry == Store[infos[ci]][pos]
     IN \E o \in PredTest(pred, entry.rec, types) :
          \/ /\ o.ok
             /\ result' = IF o.val THEN Append(result, <<infos[ci], entry.key>>) ELSE result
             /\ pos' = pos + 1
             /\ UNCHANGED <<pc, err>>
          \/ /\ ~o.ok
             /\ Raise(o.err)
             /\ UNCHANGED <<pos, result>>
  /\ UNCHANGED <<infos, pred, ci, types>>

\* One iteration of the cursor loop (840-871): the sentinel key is
\* skipped, any other entry is parsed and tested; an exception of the
\* comparison ends the call.
ScanEntry ==
  /\ pc = "scan"
  /\ ci <= Len(infos)
  /\ pos <= Len(Store[infos[ci]])
  /\ LET entry == Store[infos[ci]][pos]
     IN \/ /\ entry.key = MaxRecNum
           /\ pos' = pos + 1
           /\ UNCHANGED <<pc, result, err>>
        \/ /\ entry.key # MaxRecNum
           /\ \E o \in PredTest(pred, entry.rec, types) :
                \/ /\ o.ok
                   /\ result' = IF o.val THEN Append(result, <<infos[ci], entry.key>>)
                                ELSE result
                   /\ pos' = pos + 1
                   /\ UNCHANGED <<pc, err>>
                \/ /\ ~o.ok
                   /\ Raise(o.err)
                   /\ UNCHANGED <<pos, result>>
  /\ UNCHANGED <<infos, pred, ci, types>>

\* The cursor loops of getRecordCondition (840-872), getRecordMultiCondition
\* (877-898), getRecordExpression (900-923) and getRecordCondition with a
\* function (1382-1405) are copies that differ only in the record test.
ScanRecordCond  == pred.kind = "cond" /\ ScanEntry
ScanRecordMulti == pred.kind = "multi" /\ ScanEntry
ScanRecordExp   == pred.kind = "exp" /\ ScanEntry
ScanRecordFn    == pred.kind = "fn" /\ ScanEntry

\* Mutant: the position is carried over to the next class's cursor.
NextClassKeepPos ==
  /\ pc = "scan"
  /\ ci <= Len(infos)
  /\ pos > Len(Store[infos[ci]])
  /\ ci' = ci + 1
  /\ UNCHANGED <<infos, pred, pc, pos, types, result, err>>

\* The cursor is drained (getNext returned empty): next class (837-838).
NextClass ==
  /\ pc = "scan"
  /\ ci <= Len(infos)
  /\ pos > Len(Store[infos[ci]])
  /\ ci' = ci + 1
  /\ pos' = 1
  /\ UNCHANGED <<infos, pred, pc, types, result, err>>

\* Every class scanned: the result set is returned (874).
ScanDone ==
  /\ pc = "scan"
  /\ ci > Len(infos)
  /\ pc' = "done"
  /\ UNCHANGED <<infos, pred, ci, pos, types, result, err>>

Next ==
  \/ ResolveClass \/ ResolveDone \/ ResolveClassMulti \/ ResolveDoneMulti
  \/ ResolveMap \/ StartFn
  \/ ScanRecordCond \/ ScanRecordMulti \/ ScanRecordExp \/ ScanRecordFn
  \/ NextClass \/ ScanDone

\* The scan is one synchronous loop on the calling thread: every enabled
\* step is taken.
Spec == Init /\ [][Next]_vars /\ WF_vars(Next)

-----------------------------------------------------------------------------
(* What the call promises, from spec.md 4.4 and 7.                         *)

Done(seq) == [ok |-> TRUE, out |-> seq, err |-> "NONE"]
Fail(e)   == [ok |-> FALSE, out |-> <<>>, err |-> e]

\* Every stored record of every class, class by class in the order of the
\* request and in key order within a class, the sentinel left out.
Entries(cls) ==
  LET kept(c) == SelectSeq(Store[c], LAMBDA x : x.key # MaxRecNum)
      tagged(c) == [i \in DOMAIN kept(c) |-> [cls |-> c, key |-> kept(c)[i].key, rec |-> kept(c)[i].rec]]
  IN FoldLeft(LAMBDA acc, c : acc \o tagged(c), <<>>, cls)

\* A single pass over the records: each record's test may answer (and
\* the record is kept when it holds) or raise, which fails the whole call.
RECURSIVE RunEnds(_, _, _)
RunEnds(es, t, p) ==
  IF es = <<>> THEN {Done(<<>>)}
  ELSE UNION {IF ~o.ok THEN {Fail(o.err)}
              ELSE {IF r.ok /\ o.val THEN Done(<<<<Head(es).cls, Head(es).key>>>> \o r.out)
                    ELSE r : r \in RunEnds(Tail(es), t, p)}
              : o \in PredTest(p, Head(es).rec, t)}

\* A property typed differently by two classes fails before any record is
\* read, one typed by no class fails as nonexistent, else the pass runs
\* with the type map the classes give.
ScanEnds(cls, p) ==
  LET names == PredNames(p)
  IN CASE \E n \in names : Cardinality(TypesIn(cls, n)) > 1 -> {Fail("CONFLICT_PROPTYPE")}
       [] \E n \in names : TypesIn(cls, n) = {}            -> {Fail("NOEXST_PROPERTY")}
       [] OTHER -> RunEnds(Entries(cls), [n \in names |-> CHOOSE t \in TypesIn(cls, n) : TRUE], p)

Abstract == INSTANCE ScanSpec WITH
  allowed <- ScanEnds(infos, pred),
  status <- CASE pc \in {"resolve", "scan"} -> "running"
              [] pc = "done"                -> "done"
              [] OTHER                      -> err,
  out <- IF pc = "done" THEN result ELSE <<>>

-----------------------------------------------------------------------------
TypeOK ==
  /\ pc \in {"resolve", "scan", "done", "error"}
  /\ ci \in 1..Len(infos) + 1
  /\ pc = "scan" /\ ci <= Len(infos) => pos \in 1..Len(Store[infos[ci]]) + 1
  /\ \A n \in DOMAIN types : types[n] \in PropertyTypes
  /\ \A i \in DOMAIN result : result[i] \in (DOMAIN Store) \X Nat
  /\ (pc = "error") = (err # "NONE")

\* The class scans, with each kind of predicate, implement the scan
\* spec.md 4.4 states: the call ends, with the records of the classes that
\* satisfy the predicate in class and key order and never the sentinel
\* key, or with the conflict or missing-property error of the type
\* resolution, or with the first error a record's test raises.
Refinement == Abstract!Spec

\* The records whose value the condition c takes into account: all of
\* them for a null check, else those that have the property.
Considered(cls, c) ==
  {<<e.cls, e.key>> : e \in {es \in ToSet(Entries(cls)) :
                                c.comp \in {"IS_NULL", "NOT_NULL"} \/ es.rec[c.propName] # Empty}}

\* A scan with !c returns exactly the considered records a scan with c
\* leaves out (spec.md 8: negation flips the membership test; double
\* negation is the identity, so ! is the complement).
NegationComplements ==
  pc = "done" /\ pred.kind = "cond" =>
    \A e \in ScanEnds(infos, CondPred(Not(pred.cond))) :
      e.ok => ToSet(e.out) = Considered(infos, pred.cond) \ ToSet(result)

\* A between scan returns the records that the scans with its two bound
\* tests both return (spec.md 8, round trip): valueSet[1] is the lower
\* bound, valueSet[2] the upper, and each flag includes its bound.
BetweenIsBothBounds ==
  pc = "done" /\ pred.kind = "cond" /\ pred.cond.comp \in BetweenCmps /\ ~pred.cond.isNegative =>
    LET cond == pred.cond
        incLower == cond.comp \in {"BETWEEN", "BETWEEN_NO_UPPER"}
        incUpper == cond.comp \in {"BETWEEN", "BETWEEN_NO_LOWER"}
        lo == WithComp(cond, IF incLower THEN "GREATER_EQUAL" ELSE "GREATER", cond.valueSet[1])
        hi == WithComp(cond, IF incUpper THEN "LESS_EQUAL" ELSE "LESS", cond.valueSet[2])
    IN \A a \in ScanEnds(infos, CondPred(lo)), b \in ScanEnds(infos, CondPred(hi)) :
         a.ok /\ b.ok => ToSet(result) = ToSet(a.out) \cap ToSet(b.out)

=============================================================================
