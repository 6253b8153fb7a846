------------------------------ MODULE EdgeScan ------------------------------
(***************************************************************************)
(* The traversal scan with each of the four predicates: compareEdge-     *)
(* Condition, compareEdgeMultiCondition, compareEdgeExpression and the   *)
(* function variant, with getEdgeCondition, getEdgeMultiCondition and    *)
(* getEdgeExpression (src/src/compare.cpp 925-1116, 1239-1376, 1418-1497).*)
(*                                                                         *)
(* The call resolves the candidate edge classes (from the ClassFilter, or  *)
(* from the classes of the edges incident to the start vertex), resolves   *)
(* the properties' types over them, checks that the start vertex exists, *)
(* then fetches the adjacent edges class by class and tests each edge's   *)
(* record.  `retrieve` caches the catalog and store handle of the last    *)
(* edge's class: `cached` is that memo cell.  The collaborators are        *)
(* constants: the adjacency store (AdjAll), the schema (Catalog,          *)
(* ClassesOf) and the edge stores (Store).                                *)
(***************************************************************************)
EXTENDS Predicate, FiniteSets

CONSTANTS
  VertexStatus,   \* vertex -> checkIfRecordExist's answer
  AdjAll,         \* vertex -> its adjacent edges <<class, key>>, func(rid, 0)
  AdjFails,       \* vertices whose adjacency lookup raises NOEXST_VERTEX
  Catalog,        \* edge class -> [property id -> [name, type]]
  Store,          \* edge class -> [key -> [property id -> Bytes]]
  ClassesOf,      \* class name -> edge classes getMultipleClassDescriptor(EDGE) gives
  Requests,       \* the calls: [v, filter (class names), pred]
  AnyClass,       \* the class id 0 that asks func for every adjacent edge
  NoClass         \* classDescriptor == nullptr: nothing cached yet

VARIABLES
  v, filter, pred,  \* the request
  pc,      \* "classes", "validate", "check", "fetch", "retrieve", "done", "error"
  infos,   \* edgeClassInfos, in the order the descriptor set yields them
  ci,      \* index into infos (validate) or into the class lists (fetch)
  ids,     \* edgeClassIds
  types,   \* propertyType / conditionPropertyTypes / condPropTypes
  edges,   \* the adjacent edges of the class being scanned
  pos,     \* position in edges
  cached,  \* the class whose descriptor, catalog, dbi and name retrieve holds
  result,  \* the result set, a sequence of edge ids
  err      \* the error raised, or "NONE"

vars == <<v, filter, pred, pc, infos, ci, ids, types, edges, pos, cached, result, err>>

-----------------------------------------------------------------------------
(* The collaborators.                                                      *)

FilterClasses(f) == UNION {ClassesOf[n] : n \in f}

\* func2(rid): the classes of the edges incident to x.
IncidentClasses(x) == {AdjAll[x][i][1] : i \in DOMAIN AdjAll[x]}

\* func(rid, classId): the adjacent edges of one class, or all of them.
Adjacent(x, c) ==
  IF c = AnyClass THEN AdjAll[x] ELSE SelectSeq(AdjAll[x], LAMBDA e : e[1] = c)

HasProp(c, n) == \E i \in DOMAIN Catalog[c] : Catalog[c][i].name = n
TypeOf(c, n) == Catalog[c][CHOOSE i \in DOMAIN Catalog[c] : Catalog[c][i].name = n].type

\* classDBHandler.get(key): the raw record, empty when the dbi has no such key.
Raw(c, k) == IF k \in DOMAIN Store[c] THEN Store[c][k] ELSE [i \in {} |-> Empty]

\* parseRawDataWithBasicInfo: the catalog names the raw value's property ids.
Parse(cat, raw) ==
  [p \in Props |-> LET is == {i \in DOMAIN raw \cap DOMAIN cat : cat[i].name = p}
                   IN IF is = {} THEN Empty ELSE raw[CHOOSE i \in is : TRUE]]

-----------------------------------------------------------------------------
Init ==
  /\ \E r \in Requests : v = r.v /\ filter = r.filter /\ pred = r.pred
  /\ pc = "classes"
  /\ infos = <<>>
  /\ ci = 1
  /\ ids = <<>>
  /\ types = [n \in PredNames(pred) |-> "UNDEFINED"]
  /\ edges = <<>>
  /\ pos = 1
  /\ cached = NoClass
  /\ result = <<>>
  /\ err = "NONE"

Raise(e) ==
  /\ pc' = "error"
  /\ err' = e

\* The edge classes the filter names or, when it names none, those of the
\* incident edges, in any order: the descriptor set is ordered by pointer.
SelectInfos ==
  LET named == FilterClasses(filter)
  IN \E order \in SetToSeqs(IF named # {} THEN named ELSE IncidentClasses(v)) :
       infos' = order

\* compareEdgeCondition (1268-1282): the classes to validate.
SelectClasses ==
  /\ pc = "classes"
  /\ pred.kind = "cond"
  /\ SelectInfos
  /\ pc' = "validate"
  /\ UNCHANGED <<v, filter, pred, ci, ids, types, edges, pos, cached, result, err>>

\* compareEdgeMultiCondition (1329-1343): the same choice of classes.
SelectClassesMulti ==
  /\ pc = "classes"
  /\ pred.kind = "multi"
  /\ SelectInfos
  /\ pc' = "validate"
  /\ UNCHANGED <<v, filter, pred, ci, ids, types, edges, pos, cached, result, err>>

\* compareEdgeCondition with a function (1481-1494): the filter's class ids
\* are pushed; in the incident branch a local edgeClassIds (1489) shadows
\* the one passed on, which stays empty.  No property is resolved.
SelectClassesFn ==
  /\ pc = "classes"
  /\ pred.kind = "fn"
  /\ LET named == FilterClasses(filter)
     IN \/ /\ named # {}
           /\ \E order \in SetToSeqs(named) : ids' = order
        \/ /\ named = {}
           /\ UNCHANGED ids
  /\ pc' = "check"
  /\ UNCHANGED <<v, filter, pred, infos, ci, types, edges, pos, cached, result, err>>

\* The types the classes cls give the property n.
TypesOver(cls, n) == {TypeOf(c, n) : c \in {c \in cls : HasProp(c, n)}}

\* compareEdgeExpression (1355-1375): on an empty ClassFilter the incident
\* classes, else the classes the filter names, whose ids are passed on
\* even when there are none; getPropertyMapType then types the collected
\* names over those classes as the class scan does (spec.md 4.4).
SelectClassesExp ==
  /\ pc = "classes"
  /\ pred.kind = "exp"
  /\ \E order \in SetToSeqs(IF filter = {} THEN IncidentClasses(v) ELSE FilterClasses(filter)) :
       LET names == DOMAIN types
           cls == ToSet(order)
       IN /\ infos' = order
          /\ ids' = order
          /\ \/ /\ \E n \in names : Cardinality(TypesOver(cls, n)) > 1
                /\ Raise("CONFLICT_PROPTYPE")
                /\ UNCHANGED types
             \/ /\ \A n \in names : Cardinality(TypesOver(cls, n)) <= 1
                /\ \E n \in names : TypesOver(cls, n) = {}
                /\ Raise("NOEXST_PROPERTY")
                /\ UNCHANGED types
             \/ /\ \A n \in names : Cardinality(TypesOver(cls, n)) = 1
                /\ types' = [n \in names |-> CHOOSE t \in TypesOver(cls, n) : TRUE]
                /\ pc' = "check"
                /\ UNCHANGED err
  /\ UNCHANGED <<v, filter, pred, ci, edges, pos, cached, result>>

\* The names among `names` class c types differently from the type
\* already resolved.
Conflicts(c, names) ==
  {n \in names : HasProp(c, n) /\ types[n] \notin {"UNDEFINED", TypeOf(c, n)}}

\* One class of the validation loop: its id is pushed, a conflict throws,
\* else every name the class has takes its type.
ValidateStep(names) ==
  LET c == infos[ci]
  IN /\ ids' = Append(ids, c)
     /\ \/ /\ Conflicts(c, names) = {}
           /\ types' = [n \in DOMAIN types |->
                          IF n \in names /\ HasProp(c, n) THEN TypeOf(c, n) ELSE types[n]]
           /\ ci' = ci + 1
           /\ UNCHANGED <<pc, err>>
        \/ /\ Conflicts(c, names) # {}
           /\ Raise("CONFLICT_PROPTYPE")
           /\ UNCHANGED <<ci, types>>

\* One iteration of validateProperty (1252-1265).
ValidateClass ==
  /\ pc = "validate"
  /\ pred.kind = "cond"
  /\ ci <= Len(infos)
  /\ ValidateStep({pred.cond.propName})
  /\ UNCHANGED <<v, filter, pred, infos, edges, pos, cached, result>>

\* One class of validateAndResolveProperties (1310-1324): every name of
\* conditionPropertyTypes.
ValidateClassMulti ==
  /\ pc = "validate"
  /\ pred.kind = "multi"
  /\ ci <= Len(infos)
  /\ ValidateStep(DOMAIN types)
  /\ UNCHANGED <<v, filter, pred, infos, edges, pos, cached, result>>

\* After the loop: a name still UNDEFINED fails, else the scan goes on.
ValidateEnd ==
  /\ \/ /\ \E n \in DOMAIN types : types[n] = "UNDEFINED"
        /\ Raise("NOEXST_PROPERTY")
     \/ /\ \A n \in DOMAIN types : types[n] # "UNDEFINED"
        /\ pc' = "check"
        /\ UNCHANGED err
  /\ UNCHANGED <<v, filter, pred, infos, ci, ids, types, edges, pos, cached, result>>

\* validateProperty returns isFoundProperty, which is set exactly when
\* propertyType leaves UNDEFINED (1266, 1273-1282).
ValidateDone ==
  /\ pc = "validate"
  /\ pred.kind = "cond"
  /\ ci > Len(infos)
  /\ ValidateEnd

\* validateAndResolveProperties returns numOfUndefPropertyType == 0
\* (1325-1326, 1333-1341).
ValidateDoneMulti ==
  /\ pc = "validate"
  /\ pred.kind = "multi"
  /\ ci > Len(infos)
  /\ ValidateEnd

\* getEdgeCondition's checkIfRecordExist (933-938).
CheckExist ==
  /\ pc = "check"
  /\ \/ /\ VertexStatus[v] = "NOT_EXIST"
        /\ Raise("NOEXST_VERTEX")
        /\ UNCHANGED ci
     \/ /\ VertexStatus[v] = "NOT_EXIST_IN_MEMORY"
        /\ pc' = "done"
        /\ UNCHANGED <<ci, err>>
     \/ /\ VertexStatus[v] = "EXIST"
        /\ pc' = "fetch"
        /\ ci' = 1
        /\ UNCHANGED err
  /\ UNCHANGED <<v, filter, pred, infos, ids, types, edges, pos, cached, result>>

\* The class ids the loops of 986-995 ask func for: 0 when none resolved.
Lists == IF ids = <<>> THEN <<AnyClass>> ELSE ids

\* Mutant: the position of the previous list is kept.
FetchEdgesKeepPos ==
  /\ pc = "fetch"
  /\ ci <= Len(Lists)
  /\ \/ /\ edges' = Adjacent(v, Lists[ci])
        /\ pc' = "retrieve"
        /\ UNCHANGED <<err, pos>>
     \/ /\ v \in AdjFails
        /\ Raise("UNKNOWN_ERR")
        /\ UNCHANGED <<edges, pos>>
  /\ UNCHANGED <<v, filter, pred, infos, ci, ids, types, cached, result>>

\* func(rid, classId) for the next list; a NOEXST_VERTEX it raises is
\* caught and rethrown as UNKNOWN_ERR (997-1001).
FetchEdges ==
  /\ pc = "fetch"
  /\ ci <= Len(Lists)
  /\ \/ /\ edges' = Adjacent(v, Lists[ci])
        /\ pos' = 1
        /\ pc' = "retrieve"
        /\ UNCHANGED err
     \/ /\ v \in AdjFails
        /\ Raise("UNKNOWN_ERR")
        /\ UNCHANGED <<edges, pos>>
  /\ UNCHANGED <<v, filter, pred, infos, ci, ids, types, cached, result>>

\* Mutant: the memo cell is filled once and never refreshed.
CacheOnceOnly(edge) == IF cached = NoClass THEN edge[1] ELSE cached

\* The class whose catalog and dbi retrieve uses: refreshed when nothing
\* is cached or the edge's class differs (974-979).
CacheFor(edge) ==
  IF cached = NoClass \/ cached # edge[1] THEN edge[1] ELSE cached

\* One call of retrieve (973-985): refresh the memo cell, read the edge's
\* record through the cached dbi, parse it with the cached catalog, test
\* it with the predicate: the `filter` lambda of getEdgeCondition
\* (945-969), conditions.execute (1037), exp.execute (1092) or the
\* caller's function (1446).  An error of the test is rethrown unchanged
\* (1002-1003).
Retrieve ==
  /\ pc = "retrieve"
  /\ pos <= Len(edges)
  /\ LET edge == edges[pos]
         c == CacheFor(edge)
         rec == Parse(Catalog[c], Raw(c, edge[2]))
     IN /\ cached' = c
        /\ \E o \in PredTest(pred, rec, types) :
             \/ /\ o.ok
                /\ result' = IF o.val THEN Append(result, edge) ELSE result
                /\ pos' = pos + 1
                /\ UNCHANGED <<pc, err>>
             \/ /\ ~o.ok
                /\ Raise(o.err)
                /\ UNCHANGED <<pos, result>>
  /\ UNCHANGED <<v, filter, pred, infos, ci, ids, types, edges>>

\* The retrieve lambdas of getEdgeCondition (973-985), getEdgeMultiCondition
\* (1028-1040), getEdgeExpression (1083-1095) and getEdgeCondition with a
\* function (1437-1449) are copies that differ only in the record test.
RetrieveCond  == pred.kind = "cond" /\ Retrieve
RetrieveMulti == pred.kind = "multi" /\ Retrieve
RetrieveExp   == pred.kind = "exp" /\ Retrieve
RetrieveFn    == pred.kind = "fn" /\ Retrieve

\* The adjacency list is drained: the next class id (989-993).
NextList ==
  /\ pc = "retrieve"
  /\ pos > Len(edges)
  /\ pc' = "fetch"
  /\ ci' = ci + 1
  /\ UNCHANGED <<v, filter, pred, infos, ids, types, edges, pos, cached, result, err>>

\* Every list scanned: the result set is returned (1005).
ScanDone ==
  /\ pc = "fetch"
  /\ ci > Len(Lists)
  /\ pc' = "done"
  /\ UNCHANGED <<v, filter, pred, infos, ci, ids, types, edges, pos, cached, result, err>>

Next ==
  \/ SelectClasses \/ SelectClassesMulti \/ SelectClassesFn \/ SelectClassesExp
  \/ ValidateClass \/ ValidateClassMulti \/ ValidateDone \/ ValidateDoneMulti
  \/ CheckExist \/ FetchEdges
  \/ RetrieveCond \/ RetrieveMulti \/ RetrieveExp \/ RetrieveFn
  \/ NextList \/ ScanDone

\* One synchronous call on the calling thread: every enabled step is taken.
Spec == Init /\ [][Next]_vars /\ WF_vars(Next)

-----------------------------------------------------------------------------
(* What the call does, stated without the loops and the memo cell: the     *)
(* ends it may reach for a request.                                        *)

Done(seq) == [ok |-> TRUE, out |-> seq, err |-> "NONE"]
Fail(e)   == [ok |-> FALSE, out |-> <<>>, err |-> e]

\* An edge's record, parsed with its own class's catalog from its own store.
EdgeRecord(e) == Parse(Catalog[e[1]], Raw(e[1], e[2]))

\* One pass over the edges: each test answers (the edge is kept when it
\* holds) or raises, which ends the call.
RECURSIVE PassEnds(_, _, _)
PassEnds(es, t, p) ==
  IF es = <<>> THEN {Done(<<>>)}
  ELSE UNION {IF ~o.ok THEN {Fail(o.err)}
              ELSE {IF r.ok /\ o.val THEN Done(<<Head(es)>> \o r.out) ELSE r
                    : r \in PassEnds(Tail(es), t, p)}
              : o \in PredTest(p, EdgeRecord(Head(es)), t)}

\* The ends of a request: the type resolution over the candidate classes,
\* then the existence check, then one pass over the adjacent edges of the
\* classes in some order, or of all adjacent edges when no class id was
\* kept; an adjacency failure ends the call with UNKNOWN_ERR.  The
\* candidates: the filter's classes or else the incident ones for a
\* Condition or a tree; for an expression the incident ones only on an
\* empty filter; for a function the filter's classes only.
EdgeEnds(x, f, p) ==
  LET named == FilterClasses(f)
      cls == CASE p.kind = "fn"  -> named
               [] p.kind = "exp" -> IF f = {} THEN IncidentClasses(x) ELSE named
               [] OTHER          -> IF named # {} THEN named ELSE IncidentClasses(x)
      names == PredNames(p)
      t == [n \in names |-> CHOOSE s \in TypesOver(cls, n) : TRUE]
      orders == IF cls = {} THEN {<<AnyClass>>} ELSE SetToSeqs(cls)
      pass(o) == PassEnds(FoldLeft(LAMBDA acc, d : acc \o Adjacent(x, d), <<>>, o), t, p)
      fault == IF x \in AdjFails THEN {Fail("UNKNOWN_ERR")} ELSE {}
  IN CASE \E n \in names : Cardinality(TypesOver(cls, n)) > 1 -> {Fail("CONFLICT_PROPTYPE")}
       [] \E n \in names : TypesOver(cls, n) = {}            -> {Fail("NOEXST_PROPERTY")}
       [] VertexStatus[x] = "NOT_EXIST"      -> {Fail("NOEXST_VERTEX")}
       [] VertexStatus[x] = "NOT_EXIST_IN_MEMORY" -> {Done(<<>>)}
       [] OTHER -> fault \cup UNION {pass(o) : o \in orders}

Abstract == INSTANCE ScanSpec WITH
  allowed <- EdgeEnds(v, filter, pred),
  status <- CASE pc = "done"  -> "done"
              [] pc = "error" -> err
              [] OTHER        -> "running",
  out <- IF pc = "done" THEN result ELSE <<>>

-----------------------------------------------------------------------------
TypeOK ==
  /\ pc \in {"classes", "validate", "check", "fetch", "retrieve", "done", "error"}
  /\ cached \in DOMAIN Catalog \cup {NoClass}
  /\ pc = "retrieve" => pos \in 1..Len(edges) + 1
  /\ pc = "fetch" => ci \in 1..Len(Lists) + 1
  /\ \A n \in DOMAIN types : types[n] \in PropertyTypes
  /\ (pc = "error") = (err # "NONE")

\* compareEdgeCondition and getEdgeCondition, loops, memo cell and error
\* remapping included, end as EdgeEnds says: every edge is parsed with its
\* own class's catalog however the classes of consecutive edges alternate,
\* an adjacency failure after the existence check surfaces as UNKNOWN_ERR,
\* and an error of a test fails the whole call with no partial result.
Refinement == Abstract!Spec

\* spec.md 4.4 and 8: the existence check comes first.  A call from a
\* confirmed-absent vertex fails with NOEXST_VERTEX, one from a vertex
\* absent from the snapshot only returns an empty result and no error.
ExistenceFirst ==
  /\ pc \in {"done", "error"} /\ VertexStatus[v] = "NOT_EXIST" => err = "NOEXST_VERTEX"
  /\ pc \in {"done", "error"} /\ VertexStatus[v] = "NOT_EXIST_IN_MEMORY" =>
       pc = "done" /\ result = <<>>

\* spec.md 4.4: the candidate edge classes come from the ClassFilter when
\* it is non-empty, so every edge returned is of a class the filter names.
FilterRespected ==
  pc = "done" /\ filter # {} => \A i \in DOMAIN result : result[i][1] \in FilterClasses(filter)

=============================================================================
