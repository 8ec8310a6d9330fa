# Gatekeeper: a TLA+ model of the enforcement extension

Gatekeeper is a DuckDB extension that decides whether a statement may run. A host sets one policy for a database
instance; `gatekeeper_validate` answers whether a text would be allowed, and `gatekeeper_enforce` latches a
connection so that every statement on it is checked inside the engine's own hooks. This directory models the parts of
`src/` that carry state or an argument, checks them with TLC on small instances, and proves the main results with
TLAPS for every value of the constants. Paths below are relative to the repository.

## 1. Inventory

| Component | State it keeps | Operations | Interacts with | Correct when |
| --- | --- | --- | --- | --- |
| Enforcement hooks (`src/enforcement.cpp`) | `EnforcementState` of each latched connection: statement id, policy snapshot, mode, result in progress, eight flags | `QueryBegin`, `CanRequestRebind`, `OnPlanningError`, `OnFinalizePrepare`, `OnExecutePrepared`/`ForceRebind`, `PostBind`, `QueryEnd`, `Enforce` | called by the engine in an order that differs between DuckDB 1.5 and 2.0; reads both settings; writes the log | a plan that runs was checked under one snapshot and recorded once; log-only refuses nothing and loses no record |
| Replacement gate (`src/check.cpp` 387-571) | thread-local `active_scope`; marks in `EnforcementState` | `GatekeeperReplacementScan`, `MarkGateDecided` | called back by the binder, calls the host's own callbacks | each lookup is decided by the scope or the connection it belongs to |
| Policy setting (`src/policy_setting.cpp`, `src/options.cpp`) | `gatekeeper_policy`, `gatekeeper_log_only` in `DBConfig` | `gatekeeper_configure`, SET, RESET, `GlobalPolicy` | every connection reads it; the log records changes first | what is in force is canonical, recorded and frozen by the lock |
| Audit log (`src/audit.cpp`) | records in the host's log storage, which may refuse one | `Decide`, `LogSettingChange` | called from hooks, gate, `gatekeeper_validate`, both SET callbacks | one truthful record a statement; hashes can be traced |
| Policy rules (`src/validator.cpp` 25-330, `function_policy.hpp`) | none | matching of table and function rules, text screen, authorization | called from the walker, the lookup callback and the plan walk | screen and authorization agree; wildcards never reach internal objects |
| Plan check (`src/check.cpp` 219-353) | scan counts in `Provenance` | `CheckPlan` for the private, the engine's and a pre-screened plan | `AuthorizeStatement` and `PostBind` | the engine's plan does no more than the validated one |
| Validation (`src/check.cpp`, `src/gatekeeper_extension.cpp`) | the call's result; the scope stack | `gatekeeper_validate`, `Check`, `Authorize` | nests through host callbacks | the row says what the engine would meet first |
| PIVOT shapes (`src/check.cpp` 909-1027) | none | `SubstitutePivotEnums` | `Authorize` binds a unit once for each shape | the shapes bound cover those the engine can plan |
| Lookup attribution (`src/check.cpp` 572-813) | name and identity sets in `Provenance`; `trusted`/`armed` of each callback copy | `LookupCallback`, `MacroBodyNames` | called back by every binder of a private bind | caller and trusted definitions are told apart |
| Function authorization (`src/authorization.cpp`) | none | `AuthorizeFunction`, `AuthorizePlan` | plan walk and lookups | every function a plan binds for the caller is allowed |
| Grammar walker (`src/validator.cpp` 335-877) | the walk's own | `Validate` | the text boundary | only reviewed syntax is admitted |
| Shims, formatting, registration, inventories | none | | | |

Behaviours that are hard to test, each listed under `hazards` in `PROJECT.json` at the line where it bites: host
changes between two hooks; hooks of a 2.0 batch that find the previous statement's state; several hooks that could
each record a statement; a log storage that throws in the middle of a hook; the check of the lock and the publication
of a setting as two steps; validation nested in a bind; exceptions the engine swallows; one unit bound and planned
several times against one record; integer boundaries of the PIVOT shapes; two different pieces of code that must agree
on a rule; lookups whose owner depends on the lookups before them; implementations the binder substitutes after they were
authorized; a tree walk that stops half way; text cut at a byte limit.

## 2. Modules

| Module | Models | Role |
| --- | --- | --- |
| `Enforcement` | `enforcement.cpp`, the gate's mode and record in `check.cpp` | the core |
| `StatementDecision` | the header comment of `enforcement.cpp` | abstract specification; `Enforcement` implements it (`KeepsPromise`) |
| `EnforcementProofs` | | theorems about `Enforcement` |
| `PolicySetting`, `PolicySettingProofs` | `policy_setting.cpp`, `options.cpp`, `SetLogOnly`, the change records | settings |
| `PolicyRules`, `PolicyRulesProofs` | rule matching in `validator.cpp`, `function_policy.hpp` | pure definitions and the two steps that use them |
| `PlanCheck`, `PlanCheckProofs` | `CheckPlan` and its callers | scan accounting |
| `Validation`, `ValidationProofs` | `gatekeeper_validate`, `Check`, `AuthorizeStatement`, `ScopeGuard` | call stack on one thread |
| `PivotShapes`, `PivotShapesProofs` | `SubstitutePivotEnums`, the loop of `Authorize` | arithmetic with wrapping integers |
| `Authorization` | `AuthorizeFunction`, `AuthorizeObject`, identity recovery of `AuthorizePlan`, the queries of `Provenance` | pure definitions |
| `Attribution`, `AttributionProofs` | `LookupCallback`, `MacroBodyNames`, the gate under a scope, `AuthorizePlan` | one private bind, lookup by lookup |
| `TextBoundary`, `TextBoundaryProofs` | `CheckStatementText`, `Walker`, `Validate`, `StatementText`, `Decide` | one statement's text up to its record |
| `MC*` | | instances for TLC |

The `map` of `PROJECT.json` names the source lines of each definition. Operators whose comment starts with the name of
another and the word *variant* (`QueryEndUnrecorded`, `CheckPlanKeepsRecord`, ...) are deliberately wrong versions of
it; nothing uses them, and each shows that a property fails when the code is wrong in that way.

### Enforcement

`st` is the `EnforcementState`, field by field; the verdicts of the checks are choices of the environment, because
what matters here is which checks run, in which order, under which snapshot, and what each outcome does. Each hook is
an action with its early returns as disjuncts. `Decide` has three outcomes: the record is written and the hook goes
on; it is written and the denial is thrown; the storage refuses it and that exception is thrown. `log` keeps the records
of the engine's current statement as they are with logging enabled at DEBUG. `Record` marks the state before `Decide`
may throw, as the code does.

DuckDB is not in the repository: `phase`, `request`, `activeQuery` and `error` model the order in which the code and
its comments rely on the hooks being called. 1.5 plans a `Prepare()` outside any query; 2.0 plans the wrapped statement
and then a wrapper inside one, advances a batch without `QueryBegin`, and has routing statements. The host's actions
(`HostSetPolicy`, `HostSetLogOnly`, ...) are enabled between any two hooks. `MissedHooks` lets the engine plan a
statement of a batch without asking any hook, the case `PostBind` guards against; `MCEnforcementSafety` puts such a 2.0
engine beside a 1.5 one that misses none. A 2.0 PREPARE for which the engine
plans only the wrapper is not modelled.

`admission`, `log` and `passed` are history variables: what the statement's admission read, what was recorded, and
which checks passed under which policy. The properties compare the two sides.

### PolicySetting

A connection's `task` follows one statement through its steps: bind, lock check, callback with its record,
publication. `gatekeeper_configure` and SET share them. Values are modelled by what decoding tells apart: NULL, the
empty string, a name in either case (`Fold` is `Lower`), an unsupported kind; `schema_path` and the leaf of a rule are one
`object`, since they are decoded and folded alike; a NULL list and a list that holds NULL are refused alike and both
written `{Null}`. A JSON document is the options it decodes to, or rejected. A hash is the canonical value itself:
collisions are left out. `untracked` remembers values that could leave no record, because logging was off or because
native code wrote them; `changes` starts with the defaults, which need no record; `native` names the settings whose value
native code wrote last. All three are history.

### PolicyRules

The definitions are those of the code with rules as sets of records. `Screen` is the test the text walk makes on a
name; `Authorize` is the decision on an identity the binder resolved it to, in any spelling. The control-plane
functions, which are refused before any policy is asked, are not part of it.

### PlanCheck

A plan is the sequence of operators in visiting order, a source the table or table function a scan reads. The two maps
of the record have disjoint keys and are one function. A unit may be bound privately and planned by the engine several
times (`MaxPasses`); what the private bind retrieved, and for whom, is a choice (`Retrievals`), as is the outcome of the
function walk.

### Validation

`frames` is the stack of calls on a thread. `active_scope` names the connection whose `ValidationScope` the thread-local
pointer designates. A text is the list of verdicts of its statements; a bind may meet lookups, refusals whose exception the
engine swallows, replacements that never met the gate, and may end with any error. Whether a record of the decision can
be written is left to `PolicySetting`.

### PivotShapes

`idx_t` has `Width` bits and products wrap. `Total` and `Shape` state how the engine chooses between its two plans.

### Authorization and Attribution

`Authorization` holds the decisions on one entry and on one function of a plan as operators over a policy layer, the
text's binding `b` and the provenance `p`. Rules are reduced to the keys they grant and block, since how rules match is
`PolicyRules`; a namespace is `"system"`, `""` (a descriptor without one), or a host's. `Recovered` is the sequence of
steps by which the plan walk finds out what a descriptor is: the retained definition of 2.0, the origin the evidence
sets know, the aggregates observed, the collations of 1.5. `Callers` and `GrantNeeded` are the two flags the `function`
lambda ends with.

`Attribution` runs a private bind. A text is the sequence of what its binders do; `work` is what is left, with the true
owner of every item beside it, which the code cannot see: the caller, a default macro, a metadata view or what it opens, or
a host's definition. `binders` is the stack of binders, each with the `trusted` and
`armed` flags of its callback. `Open` is the copy constructor. `LookupObject` and `LookupFunction` are the two halves of
`operator()`, with every early refusal, and then what the engine does with the entry (`Unfold`, `Bound`, `Selected`, marked
external in the map): a view's or table macro's body in a new binder, a scalar macro's body in the caller's own binder
with the arguments in their places, an aggregate that may lose its namespace, an implementation that may be replaced.
`ReplacementScan` is the gate under a scope; the reader it admits is looked up next like any table function.
`AuthorizePlan` holds the collected functions to both layers. `retrieved`, `culprit` and the `truth` and `owner` of an
occurrence are history, for the properties only. What the grammar and the engine give is stated as assumptions, which TLC
evaluates on the instance: texts and bodies close what they open, arguments and scalar macros' bodies are expressions, which
read tables in subqueries only (`GrammarAssumption`); a path has no namespace, no default macro names one, and its reader is a
table function or macro (`PathAssumption`); a table function that replaces itself with a query is a never-bind one
(`ReplacedAssumption`).

### TextBoundary

A JSON value is a record tagged with its kind; the grammar (`Rules`, `Dispatch`, `Elements`, `ExpressionTypes`) is
constant, as it is generated data in the code. `CheckNode` is one turn of `Check`'s loop: it counts, tests the limits,
finds the rule, pushes the children in the code's order and applies `References`. `LiteralWalk` is `BindLiteral`'s own loop
with its own limit. `Screen` lists what `CheckStatementText` answers before the walk. `StatementText` works on bytes of four
kinds: a NUL, an ASCII byte, the lead and a continuation of a longer character. `Tree` is the reference for the walk: the
set of nodes the grammar makes of a text, each with its path, grown level by level and knowing nothing of the stack.
`MCTextBoundary` has the part of the grammar the instance uses and a second reference (`Within`), which is recursive
over the values and knows nothing of the grammar either.

## 3. Runs

| Run | Instance | States | Shows |
| --- | --- | --- | --- |
| `enforcement_safety` | 2 policies and an unreadable one, 3 switch values, 3 statements, on 1.5; the same on a 2.0 that may miss hooks, switch off | 84 k | the safety properties one by one, `EnforcedExecution` without the rebind hook, and that log-only statements are recorded |
| `enforcement_2_0` | the same on 2.0, storage may refuse any record | 239 k | the inductive invariant (types included), route, refinement (proved for both engines), recording |
| `policy_setting` | 2 connections, accepted and rejected requests, raw values by SET or native writes, a storage that may refuse, one exempt setting | 403 k | canonical, recorded, traceable, frozen; the invariant of the proofs; the lock takes effect |
| `policy_rules` | 6 function and 4 table rules, up to 2 grants with 2 blocks | 16 k | the rule properties below |
| `plan_check` | 2 tables, 2 readers, 22 plans, 5 attributions, 4 passes | 14 k | accounting and authorization of scans |
| `validation` | 2 connections, every text verdict, batches of up to 3 | 933 k | the row, the scopes |
| `pivot_shapes` | 3-bit integers, every threshold and limit, 2 PIVOTs of up to 2 columns | 339 k | the shapes |
| `attribution` | both engines; pairs of 26 pieces of text (host views, macros, metadata views, default macros, dispatchers, collations, paths), and such pairs with a path between them and the second in a subquery, under 9 pairs of layers | 234 k | who a lookup and a function of the plan belong to |
| `text_boundary` | trees up to the limits of 41 nodes and depth 13, texts up to 12 bytes, log limit 7 bytes | 39 k | the walk, bind-time evaluation, the logged text |
| `sink_leftover`, `reader_scope`, `body_reader` | smallest that shows it | | three findings, see section 6 |

Why the bounds are enough. Three statements let a batch leave stale state, meet it and end; two policies make any mix-up
of snapshots visible, and more would be symmetric. Two connections give every race between a change and another change, a
read or the lock; nothing in the code compares three. A nested call needs two frames to show a wrong restore, and a second
connection to show a foreign lookup. Four passes allow a re-bind after an engine plan and an engine plan after that. With
three-bit integers and limits over the whole range, saturation, wrap-around, zero and the last value below a limit all
occur; wider integers, longer PIVOTs and all limits are covered by the theorems. In `attribution` every pair of pieces, in
either order, puts each kind of definition before and after each kind of caller text, inside one text and one search
order. Two pieces are two owners of one name, and the sets of `Provenance` only tell two apart; a third matters where what
two of them share arms a callback and the third opens the next binder, so every pair is also taken with a path between
the two and the second one in a subquery. Texts of any length are covered by the theorems `CallersAreHeld` and
`TrustLeavesByReadersOnly`. The layers include defaults on and off, a
ceiling wider and narrower than the request, and blocks of a substituted implementation, a dispatched aggregate and a
shared name. In `text_boundary` the limits are set so that some trees of the instance have exactly as many nodes and
levels as allowed and some one more; a log limit of 7 bytes falls before, inside and after characters of one to four bytes
and leaves one, two or three bytes for the replacement of a NUL. `CHECK_DEADLOCK FALSE` is set where the instance really
ends: `PlanCheck` after `MaxPasses`, `PivotShapes` after both shapes, `Attribution` when the bind is decided,
`TextBoundary` when the decision is recorded. In `policy_setting` each refused value (a session scope, a field that is
NULL) meets every state of the log and the lock; what else decoding refuses changes nothing and is left to the theorems.

The properties, by hazard:

* Enforced execution: `EnforcedExecution`, `SnapshotGoverns`, `RecordedOnce`, `StaysLocal`, `NothingOutlives`, and the
  refinement `KeepsPromise`.
* Log-only: `LogOnlyNeverRefuses`, `LogOnlyTrail`, `LogOnlyRecorded`.
* Settings: `SettingCanonical` (what is stored reads back as itself), `ChangesRecorded` (the log is never behind),
  `HashTraceable` (a decision's hash has its record), `Frozen`, `LockSettles`.
* Rules: `ScreenSound`, `InternalNeedsExact`, `IndexAgrees`.
* Plans: `HeldToRecord`, `DivergenceIsReal`, `AdmittedReads`.
* Validation: `FirstFailureDecides`, `CodesMatchViolations`, `ScopeIsInnermost`, `LookupsMeetTheirScope`.
* PIVOT: `ShapesCover`, `LargeIsLegal`.
* Attribution: `BodiesTrusted` (within the body of a host's view or table macro every callback is trusted),
  `TrustIsScope` (a trusted callback lies within the body of a view or table macro, or a subquery of a macro's), which
  fails, and `TrustIsScopeButReaders`, which holds: it does so until one bind has resolved a path to a reader and learned
  that reader's name from a host's macro; `NamedHeld` (what the text names is held to both layers, an object in every
  binder, a function in every one that is not trusted), `CallersHeld` (what was retrieved for the caller was allowed,
  whether or not the bind ends well, and what default macros and metadata views make of its text is the system's and not
  blocked; functions in untrusted binders), `PlanHeld` (so is what the plan runs for the caller, substitutions included),
  `BodiesOpaque` (nothing a host's definition introduces is refused for the caller's lack of a grant), which fails, and
  `BodiesOpaqueButReaders`, which holds: nothing but the reader of a path in a scalar macro's body is.
* Text: `WalkAgrees` (the walk's answer is that of the tree), `NamesCaught`, `BindTimeInert`, `LoggedTextSound`.

Fairness. `LogOnlyRecorded` assumes `WF_vars(EngineStep)`: the engine, once it has a statement, goes on to its next hook or
ends it, which is what a single-threaded call into DuckDB does. Nothing is assumed of the host. `LockSettles` assumes that
a statement being executed is finished: `FairSpec` states it as every connection being idle again and again, which is
`WF_vars(Proceed(c))` for each of them, since `Proceed(c)` is enabled exactly when `c` is not idle and a statement has at
most three steps left, and is quicker to check.

## 4. Proofs

| Theorem | From | Argument |
| --- | --- | --- |
| `EnforcementProofs!TypeCorrect` | the named assumptions | one step for each action |
| `EnforcementProofs!Invariant` | `~MissedHooks` | `IInv` below |
| `ExecutionIsEnforced`, `OneRecord`, `RecordsCarryTheSnapshot`, `LogOnlyHarmless`, `LogOnlyLeavesATrail`, `FlagsOrdered` | `~MissedHooks` | from `IInv` |
| `ConnectionStaysLocal` | `~MissedHooks` | `IInv` and the guard of `Execute` |
| `HooksKeepPromise` (the refinement) | `~MissedHooks` | `IInv`, `Definite` and `Steady` below; one lemma for each hook |
| `NothingIsLeft` | `~MissedHooks`, `~SinkMayFail` | `Clean`: between statements the state is that of `Reset`, but for marks of a `Prepare()` under way |
| `PolicySettingProofs!RoundTrip` | | decoding a canonical value: an open field, a folded name and a kind come back as they were, and `restrict_tables` is put back |
| `Invariant`, `LogNeverBehind`, `DecisionsTraceable`, `LockedStaysFrozen` | | `IInv` of `PolicySetting` |
| `SettingsCanonical` | | `IInv` and `RoundTrip` |
| `PolicyRulesProofs!AllowedIsEligible` | | a block that covers a grant blocks every identity the grant matches |
| `ScreenIsSound` | | from it, by case-insensitivity of eligibility |
| `InternalIsNamed` | | an internal match needs a rule without wildcards; of a sequence, the whole path |
| `IndexIsAShortcut` | | a rule the index finds is an exact one the scan meets too, and the reverse |
| `PlanCheckProofs!Invariant`, `EngineHeldToRecord`, `NoFalseDivergence` | | counting scans of a prefix of the plan |
| `AdmittedOnlyReads` | | `WalkPassed`: every operator visited so far passed |
| `ValidationProofs!Invariant`, `RowsFollowEngineOrder`, `CodesTellDecisionsFromErrors`, `LookupsAreDecidedByTheirOwn`, `GuardsRestoreTheScope` | | `IInv` of the call stack |
| `AttributionProofs!NamesAreHeld` | | each retrieval as its own lookup was decided |
| `BodiesBindTrusted` | | `Scoped` below |
| `CallersAreHeld` | `GrammarAssumption`, `PathAssumption`, `ReplacedAssumption` | `Certified` below |
| `TrustLeavesByReadersOnly` | the same | `InScope` below |
| `PivotShapesProofs!Invariant`, `ShapesAreCovered`, `LargeShapeIsLegal` | `WidthAssumption` | the saturated product and the least passing count, below |
| `TextBoundaryProofs!LoggedTextIsSound` | `TextsAssumption` | where the pass stands after each byte, below |
| `WalkIsComplete` | `TextsAssumption`, `LimitsAssumption`, `JsonAssumption` | the nodes checked and those on the stack make up the tree, below |

*Enforcement.* `EnforcedExecution` speaks of the moment a plan runs; by then the hooks that justified it are past.
`IInv` carries the justification along: `PhaseOK` (which phases lie inside a numbered query), `AdmissionOK` (from its
admission on the state describes the engine's current statement; before that a stale state is one whose statement was
decided), `ChecksOK` (what each flag vouches for), `RecordOK` (decided exactly when recorded, or refused by the
storage), `PlanOK` and `DecidedOK` (what holds before and after `PostBind`). `SinkMayFail` is left open, so the theorems
cover a log storage that refuses records.

*PolicySetting.* A reader that holds a policy must still be able to trace it when it records its decision, so `IInv`
says of every task in flight what `ChangesRecorded` says of the settings, and that a value whose record is written is
canonical.

*PlanCheck.* `Accounted` is the strengthening: after `n` operators a private walk has recorded exactly the scans among
them, an engine walk has consumed exactly those, and between walks the record is that of the validated plan.

*Refinement.* `StatementDecision` has a stage, a mode and a verdict; the mapping reads them off `phase`, `activeQuery`,
`request`, `admission` and `log`. `Definite` (every record carries a result) is what makes the mapped verdict one, and `IInv`
gives that a second record, or one before the mode is fixed, cannot come. Most hooks neither start, run nor end a
statement: `Steady` is what they have in common, it is shown once to be a step or a stutter, and each such hook is shown to be
steady.

*NothingOutlives.* `Clean` adds to it what holds during a 1.5 `Prepare()`, when the state is the reset one but for its mark.

*Validation.* `IInv` says of the stack that every call but the top one is binding, that each guard holds the connection
of the call outside it and `active_scope` that of the innermost bind (`Nested`), and of each call that its progress agrees
with its text (`FrameOK`): it holds what the text check found, has bound no more than that, and carries no violation from
one bind into the next. That a batch has a first refused statement uses the least element of a set of numbers.

*Attribution.* `BodiesTrusted` is not inductive: arming happens at one lookup and copying at the next binder. `Scoped` adds
what lies between: of the items left to bind, only the first can open a host's body, and if it does the innermost
binder is trusted or armed. For it the types of `work` and `binders` are needed, and that a host's name on an item comes
from a definition (`WorkItems`, `PassedItems`). These two theorems assume only the shape of the catalog and of the texts
(`CatalogAssumption`, `TextAssumption`).

`CallersHeld` needs to know where an item still to be bound will be bound, and what will have been learned by then. Bodies
are unfolded and arguments spliced in, so this is not read off the item: `Certified` says that the items left have a
*certificate*, a stack of binders before and after each of them, of which the owners are known beforehand and, for the
binders open already, whether they are trusted. Along it every item *fits* the stack it is given (`Fits`): one of the
caller's is written in the text or is the reader of a path written there, a name of a default macro's is among
`caller_expansions` or lies under a trusted binder, and what a host's or metadata definition reads, it reads inside what it
opened. A region of items composes with the next one and may be replaced by another that starts and ends at the same
stacks; learning more or trusting more breaks no certificate (`Above`, `Knows`). So an unfolded body, placed at the stack of
its call, and arguments, placed where the body has them, leave the whole certified: this is the step for `LookupFunction`, where
`GrammarAssumption` is used. `Whole` is the inductive invariant: `Certified` with `Fixed`, `Scoped`, the name screen's result
(`Eligible`) and the fields of `p`. Then what was retrieved is as `HeldFor` says when its lookup was admitted, and since the
sets of `Provenance` only grow (`Grown`), it stays so.

`TrustLeavesByReadersOnly` is the converse of `BodiesBindTrusted`. `InScope` adds to `TrustIsScope` that an armed callback
is within a definition's binder, or that the next item opens one. Only a view, a table macro or a table function arms; a
view or table macro opens its body next; a table function that is not attributable is, by the certificate, one that a
definition reads inside what it opened, unless its name was learned from a macro while the caller wrote it or a path to
it. The text's own names are attributable whatever was learned, which leaves the reader of a path: its name is in
`replacement_functions` when its lookup comes, and in `trusted_names` if a macro introduced it, and the two sets only grow.
So the invariant is that the two share a name or `InScope` holds. `reader_scope` shows that the first case is real.

*PivotShapes.* The state is easily invariant; the work is in the arithmetic, for every width. The total of a binding is
the product over the columns that are not dynamic times that over the dynamic ones (`TotalOfProducts`), the `multiply`
lambda computes the former saturated at the limit without ever wrapping (`FixedIsSaturated`), and the large count is the
least that carries it past the threshold, taken when the total stays under the limit (`LargeCountIsLeast`). If the
engine's total is at most the threshold, so is the small shape's; if it lies between threshold and limit, one value may
already do, and otherwise the large count exists. The provers cannot instantiate the library's induction
theorems, so induction over the columns is the lemma `UpTo`: the set of indices at which a statement fails has no
least element. They know nothing of powers either, hence the conjunct `2 ^ Width \in Nat \ {0}` of `WidthAssumption`, which
every natural `Width` satisfies.

*TextBoundary.* `Position` says of the pass over the bytes, after each of them, that it stands behind `k` whole characters,
shown as they should be, and `j` bytes of the next one, and if it has stopped, that this character is one too many. `Turn`
shows that a byte keeps it so, `Ended` that the whole pass ends there, and `Trimmed` that the repair of the cut removes exactly
the `j` bytes. `TextsAssumption` says that texts are made of UTF-8 characters, which the repair relies on. The induction is
that of `PivotShapes`.

`WalkAgrees` compares a loop over a stack with a set. `WalkInv` names the paths behind both: `V`, the nodes checked so
far, and `q`, the paths of the work items on the stack, from bottom to top (`Explored`). The root is in one of them, so is
every child of a checked node, no path is in both or twice on the stack, and both hold nodes of the tree only. So when the
stack is empty, `V` is closed under `Offspring` and holds the root: it is the tree (`ExploredAll`), and `count`, `rules`,
`names` and `binding`, which the invariant says are those of `V`, are those of the tree. When the walk stops earlier, the
item it stopped at is a node of the tree that is too deep or outside the grammar, or the tree has more than `MaxNodes`
nodes, as the paths counted are distinct. The tree is cut one level below the depth limit, since deeper nodes cannot be
reached and change no answer; that makes it finite (`TreeIs`). `JsonAssumption` says that a part of a JSON value is one,
so that `Get` and `Items` stay in `Json`.

Only model-checked:

* liveness (`LogOnlyRecorded`, `LockSettles`), which is outside the prover's reach;
* `NamesCaught` and `BindTimeInert`, which look into values whatever the grammar says of them (`Within`, recursive): they
  hold of the part of the grammar the instance has, and induction over data is outside the prover's reach. What
  `WalkIsComplete` leaves to them is that this grammar has a child for every value that names something;
* `PlanHeld` and `BodiesOpaqueButReaders`, which do not hold for every catalog. `PlanHeld` needs that what binding may
  substitute for an entry (`becomes`) is among the reviewed edges, and that evidence shared by two entries of a name does
  not let one of them be taken for the other; `BodiesOpaqueButReaders`, that the engine's own views and a host's macros
  share no name in other ways than the property excepts. These are facts about DuckDB's catalog, of which the instance is
  a sample.

`FlagInvariant` is proved (`FlagsOrdered`) and is part of the `IInv` that `enforcement_2_0` checks; the type invariants of
`PolicySetting` and `PlanCheck` are parts of theirs.

## 5. Not modelled

* Of the plan walk: window functions and their spellings, the intrinsic `unnest`, lambda bodies, and how
  `ListAggregateImplementation` reads an aggregate out of serialized bind data (it is taken to find it). Each adds
  occurrences to the plan that meet the same `function` lambda.
* Of the walker: positions, messages and occurrence counts, which only describe a denial; the parts of the grammar the
  instance has no tree for, which are data of the same form.
* `CheckParameterFallbacks`: one guard over session variables, without state.
* `ResolveHostReplacement`'s order among the host's callbacks. `PrependReplacementScan` rebuilds the engine's list while
  the extension is loaded; concurrent loads are the engine's to exclude.
* Result formatting; digests and layout of records; registration and the engine build check; engine shims;
  inventories; fuzz entry points: no state, or run once.
* `PlanCheck` takes what a private bind retrieved as a choice (`Retrievals`) and is not composed with `Attribution`: the
  product of the two state spaces is too large for TLC, and `AdmittedReads` holds for every choice.

## 6. Observations

Three runs end in a violation and are listed as findings.

* `sink_leftover`: `QueryEnd` records a failed log-only statement before it resets the state, and a storage that throws
  skips the reset. The state stays until the next `QueryBegin`; a 1.5 `Prepare()` in between is treated as inside the old
  statement.
* `reader_scope`: the gate keeps the readers of the caller's paths in `replacement_functions`, and the lookup of such a
  reader holds it to the caller's grants, but `CallerCanName` (`validator.cpp` 280-285) does not ask that set. If a host
  scalar macro of the same text names the same reader, the lookup is taken for the macro's and arms the callback of the
  caller's own binder (`check.cpp` 675-676, 773-775); no body follows, and the next subquery of the caller's is bound by a
  trusted copy, where `check.cpp` 609-610 says that "lookups a trusted copy makes are that definition's own". The functions
  of that subquery are then outside function policy; what the text names as an object is held to table policy in any
  binder, and the reader itself was granted (`NamesAreHeld`, `CallersAreHeld`). `TrustLeavesByReadersOnly` proves that
  there is no other way.
* `body_reader`: `docs/security.md` 852-859 counts a file path in a host macro's body among what is the macro's, and
  1132-1134 puts its reader outside function policy. The gate does so, but a scalar macro's reader is then looked up in the
  caller's binder, and its name is not among those learned from the body, so it is refused unless the caller's policy
  grants it (`check.cpp` 671-684). `BodiesOpaqueButReaders` shows on the instance that nothing else is.

Seen while modelling, without a run of their own:

* Outside a statement the gate reads the switch at every replacement scan, so one 1.5 `Prepare()` can be recorded in
  log-only mode and then, if the host turns the switch off while it binds, refused and recorded again (`enforcement.cpp`
  337-338; `enforcement.hpp` 21-22 speaks of one decision).
* The guard of `PostBind` against a plan whose hooks were missed decides in the preceding statement's mode, so after a
  log-only statement of the batch it records and does not refuse (`enforcement.cpp` 140-145, 409-411).
* A subquery that the caller passes as an argument into a host scalar macro, after a table function of the macro's body
  has armed the callback without opening a binder, binds as trusted. Its functions are then outside function policy
  (`docs/qualified-functions.md` 108 and `docs/security.md` 917-918 differ on whose such an argument is); objects are not
  affected, since the text names them. `CallersHeld` and `PlanHeld` speak of functions an untrusted callback saw.
* A name that a host scalar macro's body shares with the body of an engine's metadata view the caller names is taken as
  the macro's.

Others, which no document contradicts:

* The lock is checked before and the setting published after the change record is written, so a change already past the
  check may land after `SET lock_configuration = true` returned on another connection (`README.md:684` says the lock
  freezes the policy). `Frozen` and `LockSettles` state what does hold.
* The policy and the log-only switch are read one after the other; a host that changes both may be seen half way.
* A log-only BEGIN followed by turning the switch off leaves a transaction the connection itself cannot end.
* Two concurrent configures may be logged in the opposite order to that in which they are published.
* A batch whose later part fails to parse again is reported as that error before its earlier parts are bound.
* `TableMatches` finds an exact rule with an empty catalog for an object with an empty catalog; the scan after it would
  not. Resolved objects have catalogs, which `IndexAgrees` assumes.
* A dynamic PIVOT column that turns out to have no value at all yields a total of zero; `ShapesCover` is about columns with
  at least one.

## 7. Plan

Done: Enforcement and its abstract specification, PolicySetting, PolicyRules, PlanCheck, Validation, PivotShapes,
Authorization and Attribution, TextBoundary, and the proofs above. Next, in this order:

1. Windows and lambda bodies in `Attribution`'s plan.
2. `PlanHeld` from assumptions on the reviewed edges and on the names the catalog's entries share.
