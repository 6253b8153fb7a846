# Model-checking libnogdb's predicate core

These are TLA+ models of the predicate-evaluation core of libnogdb
(`src/src/compare.cpp`, `src/src/expression.cpp`, `src/src/utils.cpp` and the
headers `nogdb_compare.h` and `nogdb_expression.h`), with the TLC
configurations that check them. The core decides whether a stored record
satisfies a filter, and it drives the class scans and graph traversals that
collect the matching records.

## 1. The system

### Parts

| Part | Code | What it does |
|---|---|---|
| Comparator dispatch, Expression path | `Compare::compare` and `compare*`, compare.cpp 48-516 | Compares a stored value with an operand for one comparator and one property type. An empty stored value is `false` except for `NOT_NULL`. |
| Comparator dispatch, Condition path | `Compare::genericCompareFunc`, 518-806 | The same comparison algebra, as a second and independent implementation that `Condition` uses. |
| Condition | `nogdb_compare.h` 40-246, `compareBytesValue` 808-825 | An immutable single-property predicate. Every builder returns a changed copy. Negation is a flag. |
| Multi-Condition tree | `nogdb_compare.h` 248-339 | An AND/OR tree of Conditions, with negation on composite nodes. It is implemented outside `src/`. |
| Expression tree | expression.cpp | A mutable builder tree whose leaves are property tests or opaque functions. Every node carries its own negation. `execute` short-circuits. `collectAllPropertyName` gathers the names to resolve. |
| Class scan | `compareCondition`, `compareMultiCondition`, `compareExpression`, `getRecord*`; 831-923, 1118-1237, 1382-1416 | Resolves property types over the classes of the request, then runs one cursor per class, skips the sentinel key `EM_MAXRECNUM`, parses each record and tests it. |
| Traversal scan | `compareEdge*`, `getEdge*`; 925-1116, 1239-1376, 1418-1497 | Checks that the start vertex exists, resolves edge classes from the ClassFilter or the incident edges, and scans the adjacent edges. It caches the last edge class's catalog. |
| Utilities | utils.cpp | `replaceAll` is used by LIKE. `openLockFile` and `unlockFile` guard a database against a second process with an exclusive, non-blocking `flock` on a lock file. The rest are I/O helpers. |

### How the parts interact

A caller builds one of three things:
- a `Condition`;
- a `MultiCondition`;
- an `Expression`.

It then calls an entry point with a class name, or with a start vertex and a
ClassFilter. The entry point does three things in order:
1. It resolves property types through the schema collaborator.
2. It walks the storage cursors or the adjacency lists.
3. For each record, it calls the predicate. The predicate reaches one of the
   two comparator dispatchers.

Everything runs synchronously on the calling thread, inside a snapshot the
caller supplies. Nothing in the core persists or is shared. Because nothing
runs concurrently, the hard behaviours are sequential ones:
- long builder call sequences;
- negation and short-circuit rules;
- type resolution done before a scan and relied on during it;
- errors raised midway through a scan;
- boundary values of the comparators.

### What makes each part correct

- **Dispatch.** Each comparator/type pair computes the relation spec.md 4.1
  states, and the two dispatchers agree with each other. Invalid pairs raise
  the stated error.
- **Condition.** `!C` selects exactly the records that C rejects (spec.md 8:
  "negation flips both"). Between equals the conjunction of its two bound
  tests.
- **Expression.** The builders only touch property leaves. Negation flips
  every kind of node. The collected names type every leaf that `execute` can
  reach. A decided left child shields the right child.
- **Multi-Condition tree.** A composite node XORs its negation into its
  answer on the short-circuit path as on the full one, so `!tree` selects
  exactly the records `tree` rejects.
- **Class scan.** The scan ends without partial results. The records come in
  class order, then cursor order, and the sentinel key is never among them.
  A type conflict or missing property fails the scan before any record is
  read, and the first comparison error fails the whole call.

## 2. Modules

| Module | Models | State and actions |
|---|---|---|
| `Compare` | Both dispatchers, `replaceAll`, `toLower`, and the regex subset that LIKE and REGEX patterns use | Pure operators: `compare`, `compareEqual`, `compareOrder`, `compareText`, `compareIn`, `compareBetween`, `genericCompareFunc`, `genericText`, `BlobEqualOutcomes`, and `RegexOutcome`: the match, or the `std::regex_error` the `std::regex` constructor throws when the pattern's groups do not balance or a `*` repeats nothing (`RegexParses`). Bytes are sequences of units: a text or blob is its byte codes, and a number is `<<n>>`. An evaluation returns `Ok(b)` or `Err(code)`. `genericCompareFunc` returns the set of outcomes the build can produce, because blob equality reads past a short operand. |
| `MCCompare` | A harness for `Compare` | One `Call(in)` step applies both dispatchers to an input drawn from small domains. `SpecCompare` is the reference semantics, written from spec.md independently of the code. |
| `Condition` | The Condition value and the per-record test | Builders are operators, because they are `const` methods that return copies: `WithComp`, `between`, `in`, `null`, `ignoreCase`, `Not`. Also `compareBytesValue` with its IN loop `InLoop`, and `recordMatches`, the branch structure of getRecordCondition 845-869. The constructor and `operator!` are outside `src/` and are written from spec.md 3. |
| `Expression` | The Expression tree | Variable `exp` is the expression being built, with the fields of the C++ object. `lastErr` holds the last exception. There is one action per constructor, builder, `!`, `&&` and `\|\|`, and a `Reject` disjunct for `validate`'s `INVALID_EXPRESSION`. `execute` and `collectAllPropertyName` are RECURSIVE operators. The ghost fields `gFlipped` and `gNull` record what the client asked for; the code never reads them. |
| `ScanSpec` | The abstract promise of one scan call | `Complete` moves from `running` to `done`, with a result taken from the allowed ends, or to an error code. Weak fairness on `Complete` makes the call end. |
| `MultiCondition` | The Multi-Condition tree | A tree is a value `[root, conditions]`: `CondNode` and `Composite` are the header's node classes, `conditions` the list of condition nodes. `Compose` is `&&`/`\|\|` (a new composite, negation false, lists joined), `NotTree` is `!`. `Check` is the nodes' `check` (short-circuit, negation XORed), `executeMulti` is `execute`. The methods are outside `src/` and are written from spec.md 4.2. |
| `Predicate` | The four predicates a scan takes | A predicate is a record tagged `cond`, `multi`, `exp` or `fn`. `PredNames` is the set of names the scan types before reading (the `conditions` loop of `compareMultiCondition`, `collectAllPropertyName`); `PredTest` is the test of one parsed record. `Expression` is instantiated for its operators. |
| `ClassScan` | `compareCondition`, `compareMultiCondition`, `compareExpression` and the function overload, followed by `getRecordCondition`, `getRecordMultiCondition`, `getRecordExpression` | There is one step per iteration of each loop: `ResolveClass` / `ResolveClassMulti` (one class info), `ResolveDone` / `ResolveDoneMulti`, `ResolveMap` (`getPropertyMapType` in one call), `StartFn` (no resolution), then the cursor loop: `ScanEntry` is one entry, taken by `ScanRecordCond`, `ScanRecordMulti`, `ScanRecordExp` and `ScanRecordFn`, one for each of the four `getRecord*` loops, which differ only in the record test; then `NextClass` and `ScanDone`. `Store` and `Schema` are constants that stand for the storage and schema collaborators. `ScanEnds` gives the ends spec.md 4.4 allows: a single pass over the records, or a resolution error. The refinement mapping onto `ScanSpec` maps `resolve` and `scan` to `running`. |
| `EdgeScan` | `compareEdgeCondition`, `compareEdgeMultiCondition`, `compareEdgeExpression` and the function variant, followed by `getEdgeCondition`, `getEdgeMultiCondition`, `getEdgeExpression` | `SelectClasses` / `SelectClassesMulti` pick the candidate edge classes from the ClassFilter, or from the incident edges when the filter resolves to none; `SelectClassesFn` keeps the filter's ids only; `SelectClassesExp` takes the incident classes only on an empty ClassFilter and types the names with `getPropertyMapType`. The classes come in any order, because the schema returns a set ordered by pointer. `ValidateClass` / `ValidateDone` are `validateProperty`, `ValidateClassMulti` / `ValidateDoneMulti` are `validateAndResolveProperties`. `CheckExist` is the three-valued existence check. `FetchEdges` is one call of the adjacency function, for a class id or for the wildcard 0, with the `NOEXST_VERTEX` to `UNKNOWN_ERR` remapping. `Retrieve` is one call of `retrieve`, taken by `RetrieveCond`, `RetrieveMulti`, `RetrieveExp` and `RetrieveFn`, one for each copy of the lambda in the `getEdge*` functions, which differ only in the record test. The variable `cached` is its memo cell: the class whose catalog and dbi it holds. A record is read through the cached dbi and parsed with the cached catalog. `EdgeEnds` states the ends of a call without loops or cache. The refinement mapping onto `ScanSpec` is the same as for `ClassScan`. |
| `MCEdgeScan` | Data for `EdgeScan` | There are three edge classes with different catalogs: `e2` stores `a` under another property id than `e1`, so an `e2` edge read with `e1`'s catalog and dbi gives another value, and `e3` types `a` as TEXT. `v1` exists and its edges alternate `e1`, `e2`, `e1`. `v4` exists and its adjacency lookup may fail. `v2` is confirmed absent and `v3` is absent from the snapshot only. The filters are empty, one class, two classes, two conflicting classes, and the vertex class name `V`, which resolves to no edge class. The predicates are `a = 2`, its negation, `b` not null, the tree `a = 2 OR b` and its negation, the expression `a = 2 \|\| b`, an expression of a function alone, and a function. |
| `MCClassScan` | Data for `ClassScan` | There are three classes. Two type the property `a` as INTEGER and one as TEXT, and only `c2` has `b`. `c1` holds the sentinel key in the middle of its records and also a record without `a`; `c3` is empty. The class lists cover one class, a class and its subclass in both orders, a type conflict, and a missing property. The conditions are every builder shape on `a` and `b`, each with and without `!`; the trees are `a = 2 OR b`, its negation and `a > 0 AND (a = 2 OR b)`; the expressions `a = 2 \|\| b`, its negation and `f && !a`; and a function. |
| `LockFile` | `openLockFile` and `unlockFile` of the POSIX build (utils.cpp 90-104) | `fds[p]` is the lock-file descriptors process `p` has open, each `<<p, n>>` for the lowest free slot `n`, as `open(2)` allocates; `flockBy` is the descriptor holding the flock; `handle[p]` is what the caller kept; `held[p]` says it was told it holds the lock. `OpenLockFile` has the three outcomes of the code: lock taken, lock refused with the opened descriptor left open, and `EMFILE` (open and flock both fail). `UnlockFile` drops the flock and leaves the descriptor open. The callers are not in this repository, so `Close` (the caller's `close`) and `Exit` (the process ends or crashes and the kernel closes its descriptors) are the environment. |
| `MCLockFile` | Data for `LockFile` | Three processes with three descriptor slots each. |

The modules compose through EXTENDS and INSTANCE:
- `Expression` and `Condition` extend `Compare`.
- `MultiCondition` extends `Condition`; `Predicate` extends `MultiCondition` and instantiates `Expression`.
- `ClassScan` and `EdgeScan` extend `Predicate` and instantiate `ScanSpec`.
- `LockFile` stands alone: the lock file shares no state with the predicate core.

## 3. Runs

| Run | Checks | Result |
|---|---|---|
| `compare_dispatch` (`MCCompare.cfg`) | `DispatchMatchesSpec`: both dispatchers equal `SpecCompare` for every comparator. This covers INTEGER values 0..2 and TEXT up to two characters over {A, a, %, _}, with and without ignoreCase. | pass, 14,955 states, about 30 s |
| `compare_like` | `LikeIsGlob`, with '.' and '(' in the alphabet | violation: the pattern `.` matches `a`, and the pattern `(` makes `std::regex` throw `std::regex_error` instead of matching `(`, an exception outside spec.md 7's errors (compare.cpp 272-277, 778-780) |
| `compare_blob` | `BlobEqualityIsExact` on BLOB | violation: `<<1>>` equals `<<>>` on the Expression path (68-69). The Condition path may answer either way (799). |
| `expression` (`MCExpression.cfg`) | `TypeOK`, which says internal nodes never carry leaf fields. `ResolvedTypesSuffice`. `ShortCircuit`: a decided left child keeps an erroring right child from running. `ErrorSurfaces`: when the left child does not decide, the right child's exception reaches the caller. | pass, 36,684 states |
| `expression_func_negation` | `NegationFlipsResult` | violation in an initial state: `!Expression(f)` equals `Expression(f)` (expression.cpp 206) |
| `expression_null_builder` | `BuilderKeepsNegation` | violation: `contain(1).null().eq(1)` evaluates as `!eq(1)` (expression.cpp 153) |
| `class_scan` (`MCClassScan.cfg`) | `TypeOK`, `BetweenIsBothBounds`, `Refinement` (`ScanSpec`, including termination), for all four predicate kinds | pass, 1,914 states |
| `class_scan_negated` | `NegationComplements`, for `in(0,2)`, `null()` and their negations (`MCNegationConds`) | violation: `!in(0,2)` returns the record whose value is 2 (compare.cpp 811), and `!null()` returns the null records (compare.cpp 856); TLC reports the first it reaches, and `Preds <- MCInConds` or `MCNullConds` shows each alone |
| `edge_scan` (`MCEdgeScan.cfg`) | `TypeOK`, `Refinement` (`ScanSpec` with `EdgeEnds`, including termination), for all four predicate kinds | pass, 1,550 states |
| `edge_existence_first` | `ExistenceFirst` (spec.md 4.4, 8) | violation: from the absent vertex `v2` with an empty filter, the call fails with `NOEXST_PROPERTY`, because types are resolved before the existence check (compare.cpp 1271, 933) |
| `edge_filter` | `FilterRespected` (spec.md 4.4) | violation: the filter `{V}` resolves to no edge class, and the call falls back to every incident edge class (compare.cpp 1271, 1483); with an expression of a function alone, no class id is passed on and every adjacent edge is returned (1361-1370) |
| `lock_file` (`MCLockFile.cfg`) | `MutualExclusion` (never two processes told they hold the lock), `NoOrphanLock` (the flock is only ever on the descriptor of a process told it holds it), under any order of opens, unlocks, closes and exits | pass, 783 states |

Each property of a passing run has a mutant in `PROJECT.json`. A mutant is a
plausible bug, and TLC finds it:

| Mutant | Property it breaks |
|---|---|
| Case-blind text equality | `DispatchMatchesSpec` |
| `validate` without the operator check | `TypeOK` |
| A name walk that descends only to the left | `ResolvedTypesSuffice` |
| Eager `&&` | `ShortCircuit` |
| A cursor position not reset per class | `TypeOK` |
| betweenNoUpper that excludes its lower bound | `BetweenIsBothBounds` |
| A scan that does not skip the sentinel | `Refinement` |
| A fetch that keeps the previous list's position | `TypeOK` (EdgeScan) |
| A memo cell filled once and never refreshed | `Refinement` (EdgeScan) |
| A right child whose exception is swallowed and taken as false | `ErrorSurfaces` |
| `openLockFile` returning the descriptor whatever `flock` answered | `MutualExclusion` |
| `openLockFile` with the test of `flock`'s result inverted | `NoOrphanLock` |

### Bounds and why they are enough

- **Comparisons.**
  - Two-character texts are enough for every prefix, suffix, substring and
    lexical-order case, including the empty operand.
  - The alphabet has both cases of one letter, so ignoreCase matters, and
    both glob metacharacters.
  - Numbers 0..2 give each ordering relation both answers at each bound.
- **Expressions.** The trees have up to three nodes: a root and two leaves,
  with the other operand on either side, negated or not. This reaches every
  short-circuit case and every left/right discovery case. Deeper trees
  repeat the same step, because `execute` and `collectAllPropertyName`
  recurse identically at each node.
- **Scans.**
  - Three classes and six records contain the sentinel key both inside and
    outside a run of records, an absent property, an empty class,
    multi-class order, and a conflict.
  - Records hold 0, 1 and 2, so the between bounds 1..2 are met at, below and
    above each bound.
  - The trees and expressions join a test on `a` with one on `b`, which only
    `c2` has: each is decided by its left child on some records and not on
    others, and the class lists with no `b` make its resolution fail.
- **Traversals.** Four vertices cover each existence answer and an
  adjacency failure. Edges of alternating classes with different catalogs
  are what a stale memo cell misreads. Two classes in a filter give both
  class orders. The filters cover every branch of the class selection,
  and a filter that resolves to nothing.
- **Lock file.** Three processes let one hold the lock while two others
  are refused, and let a holder exit while another is waiting to retry.
  Three slots let a process hold its lock descriptor next to refused ones,
  leak two and fill the table, so the `EMFILE` branch is reached.

### Fairness

`ClassScan` and `EdgeScan` assume `WF_vars(Next)`. The scan is one loop on the calling thread
with no waits or cancellation (spec.md 5), so an enabled step is always taken.
`LockFile` assumes no fairness: the callers decide when to open, unlock,
close or exit, and no property says any of them must happen.
The other modules check safety only.

## 4. Not modelled yet, and the plan

The following are planned next:
1. **Byte-level numbers.** These would show that Expression-path equality is
   a prefix test across widths.
2. **The vertex-class check.** Every traversal first asks the schema for the
   start record's class as a VERTEX class; the model takes that call as
   succeeding.
3. **The descriptor leak of `openLockFile`.** When `flock` refuses the lock,
   the function returns -1 and leaves the descriptor it opened open
   (utils.cpp 95-97). `MCLockFile` reaches the consequence: after three
   refusals a process's table is full, and `open` fails with `EMFILE` even
   when nobody holds the lock any more. It is listed as a hazard in
   `PROJECT.json`; a run stating that a refused open leaves no descriptor
   open would fail on it.

The following are left out:
- `currentTimestamp`, `fileExists` and `mkdir`: single system calls with
  no state the library keeps.
- `split`: nothing in this repository calls it.
- The MinGW build of the lock file (unlink, then `O_EXCL` create, and
  `close` to unlock): a different build with different system semantics.
- Storage, schema, parser and graph collaborators. These enter only as
  constants.
- The index shortcut, which is commented out in the code.
- The copies of the scan loops beyond their record test. The four
  `getRecord*` loops and the `getEdge*` functions are line-for-line copies,
  so each step is modelled once, with `PredTest` for the test.
- The `require` on the weak pointers of a tree's `conditions` list: the
  root owns every node, so the locks cannot fail while the tree lives.
- Regular expressions beyond the subset LIKE produces: groups the user
  writes are only checked for balance, and the passing runs' alphabet
  has no `(`, `)` or `*`.
- Text with embedded 0 bytes, and whether a text buffer is terminated:
  `compareContain` and `compareEqual` use C-string functions on it, but the
  representation belongs to the `Bytes` collaborator (spec.md 9 leaves it
  open).
