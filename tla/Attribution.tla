---------------------------- MODULE Attribution ----------------------------
(***************************************************************************)
(* One private bind, lookup by lookup (LookupCallback and the replacement  *)
(* gate under a ValidationScope, check.cpp), and the walk over the         *)
(* functions of the plan it ends in (AuthorizePlan, authorization.cpp).    *)
(*                                                                         *)
(* A text, and the body of a view or macro, is the sequence of what its    *)
(* binder does, in order: use an entry, open or close the binder of a      *)
(* subquery, or bind a macro's argument.  DuckDB is not in the repository; *)
(* what is used of it is that a child binder copies its parent's callback, *)
(* that the binder of a view or table macro body is the next one created   *)
(* after the entry is retrieved, and that a scalar macro's body, with the  *)
(* arguments in their places, binds in the binder of its call.             *)
(*                                                                         *)
(* The owner of an item is what the callback has to find out: "caller" for *)
(* the text and the arguments it passes, "default" for what an engine's    *)
(* own scalar macro makes of it, "metadata" for the body of an engine's    *)
(* own view or table macro and what macros make of that, "host" for        *)
(* everything a host's view or macro introduces.                           *)
(***************************************************************************)
EXTENDS Authorization, Integers, Functions, SequencesExt

CONSTANTS
  Entries,     \* the catalog: entry ids to EntryRecord
  Texts,       \* statements: [items, shadowed]; shadowed aggregates resolve to a host's on the search path
  LayerPairs,  \* the ceiling and the request's policy
  Dependency,  \* the aggregate that min and max resolve when they are collated, by name
  None         \* no entry

EntryTypes == FunctionTypes \union {"relation", "view", "path", "collation"}

\* callback: what a native bind callback may replace ("bind": the descriptor, "expression": the node), or for a path
\* that the host's callback answers with something no policy can authorize ("subquery").  body: what the engine
\* binds for it, for a path its reader.  becomes: the functions a plan may hold in its place, by engine.
EntryRecord(e) ==
  /\ e.type \in EntryTypes /\ e.internal \in BOOLEAN
  /\ e.callback \in {"none", "bind", "expression", "subquery"}
  /\ DOMAIN e.becomes = {1, 2}

Structure == {"open", "close", "argument"}
Forms == {"written", "qualified", "implied", "literal"} \union Structure

\* An item names its entry; args are a macro's arguments, which have none of their own; detail is a dispatcher's
\* aggregate, "computed" where an aggregate's or dispatcher's argument is no literal, "runtime" for a table function
\* over columns.
Ids == DOMAIN Entries \union {None}
Details == Ids \union {"computed", "runtime"}
Named(item) == item.form \in Structure \/ item.entry \in DOMAIN Entries
Arguments == {item \in [form : Forms, entry : Ids, detail : Details, args : {<<>>}] : Named(item)}
ItemRecords == {item \in [form : Forms, entry : Ids, detail : Details, args : Seq(Arguments)] : Named(item)}

ASSUME CatalogAssumption ==
  \A id \in DOMAIN Entries : EntryRecord(Entries[id]) /\ Entries[id].body \in Seq(ItemRecords)
ASSUME TextAssumption ==
  \A text \in Texts : text.items \in Seq(ItemRecords) /\ \A i \in DOMAIN text.items : text.items[i].form # "argument"
ASSUME NoneAssumption == None \notin DOMAIN Entries
-----------------------------------------------------------------------------
(***************************************************************************)
(* What the text walk records of a text, and MacroBodyNames of a body.     *)
(***************************************************************************)
\* The uses among the items, the arguments' included.
Uses(items) ==
  {item \in Range(items) \union UNION {Range(items[i].args) : i \in DOMAIN items} : item.form \notin Structure}
UsesOf(items, types, forms) == {item \in Uses(items) : Entries[item.entry].type \in types /\ item.form \in forms}
NamesOf(items, types, forms) == {Entries[item.entry].name : item \in UsesOf(items, types, forms)}

TableNames(items) ==
  {IF item.form = "qualified" THEN <<Entries[item.entry].ns, Entries[item.entry].name>> ELSE <<Entries[item.entry].name>>
     : item \in UsesOf(items, {"relation", "view", "path"}, Forms)}

Detailed(items, details) == {item \in UsesOf(items, FunctionTypes, Forms) : item.detail \in details}
DetailNames(items, details) == {Entries[item.entry].name : item \in Detailed(items, details)}
Targets(items, dispatchers) ==
  {item.detail : item \in {i \in Detailed(items, DOMAIN Entries) : Entries[i.entry].name \in dispatchers}}

\* BindingPolicy of a text the binding boundary admitted.
Binding(items) ==
  [functions |-> NamesOf(items, FunctionTypes, {"written", "qualified"}),
   synthesized |-> NamesOf(items, FunctionTypes, {"implied"}),
   literals |-> NamesOf(items, FunctionTypes, {"literal"}),
   tables |-> TableNames(items),
   runtime |-> DetailNames(items, {"runtime"}),
   unsupported |-> DetailNames(items, {"computed"}),
   collations |-> NamesOf(items, {"collation"}, Forms)]

MacroBodyNames(body) == NamesOf(body, FunctionTypes, {"written", "qualified", "implied", "literal"})
-----------------------------------------------------------------------------
(***************************************************************************)
(* What the grammar and the engine give.                                   *)
(***************************************************************************)
\* The binders opened and not closed by the first n items.
Depth(items, n) ==
  Cardinality({i \in 1 .. n : items[i].form = "open"}) - Cardinality({i \in 1 .. n : items[i].form = "close"})
Balanced(items) == Depth(items, Len(items)) = 0 /\ \A n \in DOMAIN items : Depth(items, n) >= 0

\* An expression: it reads from tables in subqueries only.
FromTypes == {"relation", "view", "path", "table", "table_macro"}
Expression(items) ==
  /\ Balanced(items)
  /\ \A n \in DOMAIN items :
       items[n].form \notin Structure /\ Entries[items[n].entry].type \in FromTypes => Depth(items, n) > 0

\* Texts and bodies close what they open; arguments and the bodies of scalar macros are expressions.
ASSUME GrammarAssumption ==
  /\ \A text \in Texts : Balanced(text.items) /\ \A n \in DOMAIN text.items : Expression(text.items[n].args)
  /\ \A id \in DOMAIN Entries :
       LET body == Entries[id].body
       IN  /\ Balanced(body) /\ \A n \in DOMAIN body : Expression(body[n].args)
           /\ Entries[id].type = "macro" => Expression(body)

\* A path has no namespace, the engine's own macros name none, and what the host's callback makes of one is a table
\* function (check.cpp:417-427; anything else is its "subquery").
ASSUME PathAssumption ==
  /\ \A text \in Texts : UsesOf(text.items, {"path"}, Forms \ {"written"}) = {}
  /\ \A id \in DOMAIN Entries :
       LET e == Entries[id]
       IN  /\ e.type = "macro" /\ e.internal => UsesOf(e.body, {"path"}, Forms) = {}
           /\ e.type = "path" /\ e.body # <<>> =>
                \E reader \in DOMAIN Entries :
                  /\ Entries[reader].type \in {"table", "table_macro"}
                  /\ e.body = <<[form |-> "written", entry |-> reader, detail |-> None, args |-> <<>>]>>

\* A table function that replaces itself with a query is one no policy admits (check.cpp:769-772).
ASSUME ReplacedAssumption ==
  \A id \in DOMAIN Entries : Entries[id].type = "table" /\ Entries[id].body # <<>> => Entries[id].name \in NeverBindNames
-----------------------------------------------------------------------------
VARIABLES
  major,     \* the engine, 1 for 1.5 and 2 for 2.0
  text,      \* the statement
  catalog,   \* Entries: nothing is created or dropped under one bind
  binding,   \* the unit's BindingPolicy, recorded when its text was walked
  layers,    \* the two policies it is held to
  work,      \* what is left to bind: items with their owners
  binders,   \* the binders under way, each with its callback and who opened it
  p,         \* Provenance
  plan,      \* the functions of the plan so far
  outcome,   \* "binding", "admitted", "refused", or "failed" with an engine error
  retrieved, \* history: the entries retrieved, for whom, and whether a trusted callback saw them
  culprit    \* history: what a refusal was about

vars == <<major, text, catalog, binding, layers, work, binders, p, plan, outcome, retrieved, culprit>>

Owned(items, owner) ==
  [i \in DOMAIN items |->
     [form |-> items[i].form, entry |-> items[i].entry, detail |-> items[i].detail, owner |-> owner,
      args |-> [j \in DOMAIN items[i].args |->
                  [form |-> items[i].args[j].form, entry |-> items[i].args[j].entry,
                   detail |-> items[i].args[j].detail, owner |-> owner, args |-> <<>>]]]]

NewProvenance(collations) ==
  [function_entries |-> {[ns |-> "system", name |-> n, type |-> "scalar", internal |-> "yes"] : n \in collations},
   collation_functions |-> collations,
   caller_implementations |-> {}, trusted_implementations |-> {}, caller_objects |-> {}, trusted_objects |-> {},
   trusted_tables |-> {}, trusted_names |-> {}, caller_expansions |-> {}, expansion_targets |-> {},
   caller_lookups |-> {}, replacement_functions |-> {}, authorized_dispatchers |-> {}]

\* AuthorizeStatement before the bind: a text the name screen admitted, and the scalars of its collations.
Init ==
  /\ major \in {1, 2} /\ text \in Texts /\ catalog = Entries /\ binding = Binding(text.items) /\ layers \in LayerPairs
  /\ \A name \in binding.functions, i \in 1 .. 2 : FunctionEligible(layers[i], name)
  /\ work = Owned(text.items, "caller")
  /\ binders = <<[trusted |-> FALSE, armed |-> FALSE, owner |-> "caller"]>>
  /\ p = NewProvenance(binding.collations)
  /\ plan = {} /\ outcome = "binding" /\ retrieved = {} /\ culprit = None

Item == work[1]
Entry == catalog[Item.entry]
Top == Last(binders)
Identity(e) == [ns |-> e.ns, name |-> e.name, type |-> e.type, internal |-> IF e.internal THEN "yes" ELSE "no"]

Busy(types) == outcome = "binding" /\ work # <<>> /\ Item.form \notin Structure /\ Entry.type \in types

\* What a refusal is about.
About(identity, via, owner) == [name |-> identity.name, ns |-> identity.ns, type |-> identity.type, via |-> via, owner |-> owner]

Refuse(entry) ==
  /\ outcome' = "refused" /\ culprit' = About(entry, "", Item.owner)
  /\ UNCHANGED <<major, text, catalog, binding, layers, work, binders, p, plan, retrieved>>

\* The binder goes on with these items in the place of the one it has just bound.
Continue(items) ==
  /\ work' = items \o Tail(work)
  /\ retrieved' = retrieved \union {[entry |-> Item.entry, owner |-> Item.owner, trusted |-> Top.trusted]}
  /\ UNCHANGED <<major, text, catalog, binding, layers, outcome, culprit>>

Arm(armed) == binders' = [binders EXCEPT ![Len(binders)].armed = @ \/ armed]

BinderItem(form, owner) == [form |-> form, entry |-> None, detail |-> None, owner |-> owner, args |-> <<>>]
InBinder(items, owner) == <<BinderItem("open", owner)>> \o items \o <<BinderItem("close", owner)>>

\* Who opens the binder of a view's or table macro's body: the definition itself when it is a host's.
Opener(owner) == IF Entry.internal THEN owner ELSE "body"

\* A macro's body with the arguments of the call in their places.
Expand(body, args) ==
  [i \in DOMAIN body |-> IF body[i].form = "argument" THEN [body[i] EXCEPT !.args = args] ELSE body[i]]
-----------------------------------------------------------------------------
\* The copy constructor of LookupCallback, variant: the copied callback stays armed.
OpenStaysArmed ==
  /\ outcome = "binding" /\ work # <<>> /\ Item.form = "open"
  /\ binders' = Append(binders, [trusted |-> Top.trusted \/ Top.armed, armed |-> FALSE, owner |-> Item.owner])
  /\ work' = Tail(work)
  /\ UNCHANGED <<major, text, catalog, binding, layers, p, plan, outcome, retrieved, culprit>>

\* The copy constructor variant: the copy takes the parent's trust only, not what armed it.
OpenIgnoresArmed ==
  /\ outcome = "binding" /\ work # <<>> /\ Item.form = "open"
  /\ binders' = Append([binders EXCEPT ![Len(binders)].armed = FALSE],
                       [trusted |-> Top.trusted, armed |-> FALSE, owner |-> Item.owner])
  /\ work' = Tail(work)
  /\ UNCHANGED <<major, text, catalog, binding, layers, p, plan, outcome, retrieved, culprit>>

\* A child binder: its callback is a copy, which an armed parent makes trusted and disarms itself.
Open ==
  /\ outcome = "binding" /\ work # <<>> /\ Item.form = "open"
  /\ binders' = Append([binders EXCEPT ![Len(binders)].armed = FALSE],
                       [trusted |-> Top.trusted \/ Top.armed, armed |-> FALSE, owner |-> Item.owner])
  /\ work' = Tail(work)
  /\ UNCHANGED <<major, text, catalog, binding, layers, p, plan, outcome, retrieved, culprit>>

\* A child binder is done; the statement's own stays.
Close ==
  /\ outcome = "binding" /\ work # <<>> /\ Item.form = "close" /\ Len(binders) > 1
  /\ binders' = Front(binders)
  /\ work' = Tail(work)
  /\ UNCHANGED <<major, text, catalog, binding, layers, p, plan, outcome, retrieved, culprit>>

\* The binder reaches a macro's argument: what the call passed binds here.
Argument ==
  /\ outcome = "binding" /\ work # <<>> /\ Item.form = "argument"
  /\ work' = Item.args \o Tail(work)
  /\ UNCHANGED <<major, text, catalog, binding, layers, binders, p, plan, outcome, retrieved, culprit>>

\* LookupCallback variant: what a trusted binder retrieves is never the caller's.
ObjectAttributableByBinder == ~Top.trusted /\ ~NamesObject(p.trusted_tables, Entry)

\* An object the text names is the caller's in whatever binder; else it is when an untrusted binder retrieved it
\* and no host scalar-macro body names it.
ObjectAttributable ==
  NamesObject(binding.tables, Entry) \/ (~Top.trusted /\ ~NamesObject(p.trusted_tables, Entry))

\* LookupCallback, for a table or view.
LookupObject ==
  /\ Busy({"relation", "view"})
  /\ IF \E i \in 1 .. 2 : ObjectRefused(layers[i], major, Entry, ObjectAttributable)
     THEN Refuse(Entry)
     ELSE /\ p' = IF ObjectAttributable THEN [p EXCEPT !.caller_objects = @ \union {Item.entry}]
                  ELSE [p EXCEPT !.trusted_objects = @ \union {Item.entry}]
          /\ Arm(~Top.trusted /\ Entry.type = "view" /\ (~Entry.internal \/ ~ObjectAttributable))
          /\ LET owner == IF ~Entry.internal \/ Item.owner = "host" THEN "host" ELSE "metadata"
             IN  Continue(IF Entry.type = "view" THEN InBinder(Owned(Entry.body, owner), Opener(owner)) ELSE <<>>)
          /\ UNCHANGED plan
-----------------------------------------------------------------------------
(***************************************************************************)
(* LookupCallback, for a function.                                         *)
(***************************************************************************)
\* A name a host scalar-macro body introduced is the body's, unless the caller can produce it too.
FunctionAttributable ==
  ~Top.trusted /\ ~(Entry.name \in p.trusted_names /\ ~CallerCanName(binding, p, Entry.name))

\* LookupRefused variant: the text's own binding is used for every lookup.
LookupRefusedPlain == \E i \in 1 .. 2 : FunctionEntryRefused(layers[i], binding, {}, Identity(Entry), FunctionAttributable)

\* Names a default macro introduced must not select a host's function, and a path's reader counts as written.
LookupRefused ==
  LET special == Entry.name \in p.caller_expansions \union p.replacement_functions
      system == IF special THEN p.caller_expansions ELSE {}
      b == IF Entry.name \in p.replacement_functions THEN [binding EXCEPT !.functions = @ \union {Entry.name}] ELSE binding
  IN  \E i \in 1 .. 2 : FunctionEntryRefused(layers[i], b, system, Identity(Entry), FunctionAttributable)

\* A native callback that can replace what it binds beyond what the plan still tells of it.
MutableImplementation ==
  /\ FunctionAttributable /\ ~SystemIdentity(Identity(Entry))
  /\ \/ Entry.type = "scalar" /\ (Entry.callback = "expression" \/ (Entry.callback = "bind" /\ major < 2))
     \/ Entry.type = "aggregate" /\ Entry.callback = "bind" /\ major < 2

SystemAggregate(name) == [ns |-> "system", name |-> name, type |-> "aggregate", internal |-> "yes"]

\* CheckAggregateDependency refuses a shadow of what min or max may resolve, and keeps the entry as evidence.
DependencyRefused(name) == name \in DOMAIN Dependency /\ Dependency[name] \in text.shadowed
DependencyEntries(names) == {SystemAggregate(Dependency[n]) : n \in names \intersect DOMAIN Dependency}

Dispatching ==
  /\ FunctionAttributable /\ Entry.type = "scalar" /\ SystemIdentity(Identity(Entry))
  /\ Entry.name \in Dispatchers \intersect binding.functions
DispatchTargets == {catalog[t].name : t \in Targets(text.items, {Entry.name})}
DispatchRefused ==
  /\ Dispatching
  /\ \/ Entry.name \in binding.unsupported
     \/ \E name \in DispatchTargets :
          DependencyRefused(name) \/ \E i \in 1 .. 2 : ~FunctionAllowed(layers[i], SystemAggregate(name))

\* A default macro the caller reached is the caller's, and so are the aggregates its body selects by name.
DefaultMacro == Entry.type = "macro" /\ ~Top.trusted /\ Entry.internal /\ FunctionAttributable
HostMacro == Entry.type = "macro" /\ ~Top.trusted /\ ~DefaultMacro
ExpansionTargets == {catalog[t].name : t \in Targets(Entry.body, Dispatchers)}
ExpansionRefused ==
  /\ DefaultMacro
  /\ \E name \in ExpansionTargets :
       \/ DependencyRefused(name)
       \/ \E i \in 1 .. 2 :
            LET target == SystemAggregate(name)
            IN  Key(target) \in layers[i].blocked \/ ~(layers[i].defaults \/ FunctionAllowed(layers[i], target))

FunctionLookupRefused ==
  \/ LookupRefused \/ MutableImplementation \/ DispatchRefused \/ ExpansionRefused
  \/ /\ FunctionAttributable /\ Entry.type = "aggregate" /\ SystemIdentity(Identity(Entry))
     /\ Entry.name \in binding.unsupported \/ DependencyRefused(Entry.name)

\* What an admitted lookup leaves in the provenance.
Learned ==
  LET attributed == FunctionAttributable
      targets == (IF Dispatching THEN DispatchTargets ELSE {}) \union (IF DefaultMacro THEN ExpansionTargets ELSE {})
      looked == IF attributed /\ Entry.type = "aggregate" /\ SystemIdentity(Identity(Entry)) THEN {Entry.name} ELSE {}
      retrieved_ == RecordFunction(p, {Identity(Entry)}, attributed, major)
      recorded == RecordFunction(retrieved_, {SystemAggregate(name) : name \in targets}, TRUE, major)
  IN  [recorded EXCEPT
         !.function_entries = @ \union DependencyEntries(targets \union looked),
         !.authorized_dispatchers = @ \union (IF Dispatching THEN {Entry.name} ELSE {}),
         !.caller_lookups = @ \union (IF attributed THEN {Entry.name} ELSE {}),
         !.trusted_names = @ \union (IF HostMacro THEN MacroBodyNames(Entry.body) ELSE {}),
         !.trusted_tables = @ \union (IF HostMacro THEN TableNames(Entry.body) ELSE {}),
         !.caller_expansions = @ \union (IF DefaultMacro THEN MacroBodyNames(Entry.body) ELSE {}),
         !.expansion_targets = @ \union (IF DefaultMacro THEN ExpansionTargets ELSE {})]

\* The retrieval arms the callback: a host's table macro, or a table function a trusted definition named.
ArmsFunction ==
  /\ ~Top.trusted
  /\ \/ Entry.type = "table_macro" /\ (~Entry.internal \/ ~FunctionAttributable)
     \/ Entry.type = "table" /\ ~FunctionAttributable

BodyOwner ==
  IF ~Entry.internal \/ Item.owner = "host" THEN "host"
  ELSE IF Entry.type = "macro" /\ Item.owner # "metadata" THEN "default" ELSE "metadata"

\* What the engine binds in turn: a macro's body, or what a table function replaces itself with.
Unfold ==
  CASE Entry.type = "macro" -> Expand(Owned(Entry.body, BodyOwner), Item.args)
    [] Entry.type = "table_macro" -> InBinder(Expand(Owned(Entry.body, BodyOwner), Item.args), Opener(BodyOwner))
    [] Entry.type = "table" /\ Entry.body # <<>> -> InBinder(Owned(Entry.body, Item.owner), Item.owner)
    [] OTHER -> <<>>

\* A function of the plan.  Descriptors carry no origin; 2.0 retains a scalar's or aggregate's definition.
Occurrence(identity, definition, via) ==
  [identity |-> [identity EXCEPT !.internal = "unknown"],
   definition |-> IF major >= 2 /\ definition.type \in {"scalar", "aggregate"}
                  THEN [definition EXCEPT !.internal = "unknown"] ELSE NoIdentity,
   via |-> via, truth |-> identity, owner |-> Item.owner, trusted |-> Top.trusted]

\* An aggregate's specialization may have lost its namespace.
Descriptors(occurrence) ==
  {occurrence} \union IF occurrence.identity.type = "aggregate" THEN {[occurrence EXCEPT !.identity.ns = ""]} ELSE {}

\* The entry as its binder puts it into the plan, and the aggregate a dispatcher selects.
Bound ==
  IF Entry.type \in {"scalar", "aggregate"} \/ (Entry.type = "table" /\ Entry.body = <<>>)
  THEN {{it} : it \in UNION {Descriptors(Occurrence(i, Identity(Entry), "")) : i \in {Identity(Entry)} \union Entry.becomes[major]}}
  ELSE {{}}
Selected ==
  IF Item.detail \in DOMAIN catalog
  THEN {{it} : it \in Descriptors(Occurrence(Identity(catalog[Item.detail]), NoIdentity, Entry.name))} ELSE {{}}

LookupFunction ==
  /\ Busy(FunctionTypes)
  /\ IF FunctionLookupRefused
     THEN Refuse(Entry)
     ELSE /\ p' = Learned
          /\ Arm(ArmsFunction)
          /\ Continue(Unfold)
          /\ \E function \in Bound, aggregate \in Selected : plan' = plan \union function \union aggregate
-----------------------------------------------------------------------------
(***************************************************************************)
(* GatekeeperReplacementScan under a scope: the name of a path the catalog *)
(* does not have.  The reader the host's callback chose is then bound like *)
(* any table function.                                                     *)
(***************************************************************************)
\* CallerWritten variant: nobody asks who wrote the path.
CallerWrittenUnasked == TRUE

CallerWritten == <<Entry.name>> \in binding.tables
Reader == catalog[Entry.body[1].entry]

ReaderRefused ==
  LET b == [binding EXCEPT !.functions = @ \union {Reader.name}]
  IN  \E i \in 1 .. 2 :
        \/ CallerWritten /\ ~FunctionEligible(layers[i], Reader.name)
        \/ FunctionEntryRefused(layers[i], b, {}, Identity(Reader), CallerWritten)

ReplacementScan ==
  /\ Busy({"path"})
  /\ IF Entry.callback = "subquery"
     THEN Refuse(Entry)
     ELSE IF Entry.body # <<>> /\ ReaderRefused
     THEN Refuse(Reader)
     ELSE IF Entry.body = <<>>
     THEN outcome' = "failed" /\ UNCHANGED <<major, text, catalog, binding, layers, work, binders, p, plan, retrieved, culprit>>
     ELSE /\ LET recorded == RecordFunction(p, {Identity(Reader)}, CallerWritten, major)
             IN  p' = IF CallerWritten THEN [recorded EXCEPT !.replacement_functions = @ \union {Reader.name}] ELSE recorded
          /\ Continue(Owned(Entry.body, Item.owner))
          /\ UNCHANGED <<binders, plan>>

\* A COLLATE puts its scalar into the plan without a lookup, on 1.5 without a namespace.
Collate ==
  /\ Busy({"collation"})
  /\ LET scalar == [Identity(Entry) EXCEPT !.type = "scalar"]
         it == Occurrence(scalar, scalar, "")
     IN  plan' = plan \union {IF major < 2 THEN [it EXCEPT !.identity.ns = ""] ELSE it}
  /\ Continue(<<>>)
  /\ UNCHANGED <<binders, p>>

\* The bind is complete: every function of its plan is held to both layers.
AuthorizePlan ==
  /\ outcome = "binding" /\ work = <<>>
  /\ LET refused == {o \in plan : \E i \in 1 .. 2 : OccurrenceRefused(layers[i], binding, p, major, o)}
     IN  \/ refused = {} /\ outcome' = "admitted" /\ UNCHANGED culprit
         \/ /\ outcome' = "refused"
            /\ \E o \in refused : culprit' = About(o.truth, o.via, o.owner)
  /\ UNCHANGED <<major, text, catalog, binding, layers, work, binders, p, plan, retrieved>>

Next == Open \/ Close \/ Argument \/ LookupObject \/ LookupFunction \/ ReplacementScan \/ Collate \/ AuthorizePlan

Spec == Init /\ [][Next]_vars
-----------------------------------------------------------------------------
(***************************************************************************)
(* Properties.                                                             *)
(***************************************************************************)
\* The callback's only knowledge of scope is its trusted flag (check.cpp:604-612).  The body of a host's view or table
\* macro, and whatever is opened inside it, binds under a trusted callback, though arming and copying are apart and
\* views, macros and subqueries follow each other in any order.
BodiesTrusted ==
  \A i, j \in DOMAIN binders : i <= j /\ (binders[i].owner = "body" \/ binders[i].trusted) => binders[j].trusted

\* What is bound trusted lies within the body of a view or table macro or a subquery of a macro's: the caller's own text,
\* and what the engine's macros make of it, never is outside of one ("lookups a trusted copy makes are that definition's
\* own", check.cpp:609-610).
TrustIsScope ==
  \A i \in DOMAIN binders : binders[i].trusted => \E j \in 1 .. i : binders[j].owner \notin {"caller", "default"}

\* That is so until the text of one bind holds a path and a host's scalar macro that names the path's reader: the lookup
\* of the one is then taken for the other's (check.cpp:675-676).  Nothing else lets trust out of a definition.
TrustIsScopeButReaders == p.replacement_functions \intersect p.trusted_names = {} => TrustIsScope

\* What the text names is held to both layers wherever it is retrieved (check.cpp:612, "an object the caller's text
\* names is the caller's wherever it binds"): an object in any binder, in a host's definition too; a function in every
\* untrusted one; a function the syntax implies in any, and there it is the system's.  Control-plane and opaque
\* functions are retrieved on no route.
NamedHeld ==
  \A r \in retrieved, i \in 1 .. 2 :
    LET e == catalog[r.entry]
    IN  /\ e.type \in {"relation", "view"} /\ NamesObject(binding.tables, e) => TableAllowed(layers[i], e.name)
        /\ e.type \in FunctionTypes =>
             /\ e.name \notin ControlPlaneNames \union OpaqueNames
             /\ e.name \in binding.functions /\ ~r.trusted => FunctionAllowed(layers[i], Identity(e))
             /\ e.name \in binding.synthesized \union binding.literals =>
                  SystemIdentity(Identity(e)) /\ FunctionAllowed(layers[i], Identity(e))

\* What was retrieved for the caller was allowed: every object its text names, by both layers, in whatever binder; in
\* an untrusted binder, every function of its text, and what the engine's own macros and views make of it is the
\* system's and not blocked; what its macros make of it is granted where the defaults are off.  A metadata view's body
\* shares its binder with host scalar-macro bodies, and a name one of those introduces is theirs.
CallersHeld ==
  \A r \in retrieved, i \in 1 .. 2 :
    LET e == catalog[r.entry]
        known == e.name \in p.trusted_names \/ NamesObject(p.trusted_tables, e)
    IN  /\ e.type \in {"relation", "view"} /\ (r.owner = "caller" \/ (r.owner # "host" /\ ~known /\ ~r.trusted)) =>
             TableAllowed(layers[i], e.name)
        /\ e.type \in FunctionTypes /\ ~r.trusted =>
             /\ r.owner = "caller" => FunctionAllowed(layers[i], Identity(e))
             /\ r.owner = "default" \/ (r.owner = "metadata" /\ ~known) =>
                  /\ ~FunctionDenied(layers[i], Identity(e))
                  /\ SystemIdentity(Identity(e)) \/ (r.owner = "metadata" /\ FunctionAllowed(layers[i], Identity(e)))
             /\ r.owner = "default" /\ ~layers[i].defaults => FunctionAllowed(layers[i], Identity(e))

\* What runs is what was allowed, though binding substitutes implementations and loses namespaces on the way: a
\* function of an admitted plan that comes from the caller's text is blocked by neither layer, and is the system's or
\* granted; with the defaults off it is granted (docs/qualified-functions.md, "With defaults disabled").
PlanHeld ==
  outcome = "admitted" =>
    \A o \in plan, i \in 1 .. 2 :
      o.owner \in {"caller", "default"} /\ ~o.trusted =>
        LET identity == [o.truth EXCEPT !.internal = IF @ = "yes" THEN "yes" ELSE "no"]
        IN  /\ ~FunctionDenied(layers[i], identity)
            /\ (layers[i].defaults /\ SystemIdentity(identity)) \/ FunctionAllowed(layers[i], identity)

\* Refused on every route, whoever wrote it.
AlwaysRefused ==
  \/ culprit.name \in ControlPlaneNames \union OpaqueNames
  \/ culprit.ns = "quack"
  \/ \E e \in Range(catalog) : e.type = "path" /\ e.callback = "subquery" /\ culprit = About(e, "", culprit.owner)

\* The caller's text, a path or a metadata view it names, or what it expands to or may select, can produce what was
\* refused.
MayBeCallers ==
  \/ NamesObject(binding.tables, culprit) \/ CallerCanName(binding, p, culprit.name)
  \/ \E e \in Range(catalog) : /\ e.type = "path" /\ <<e.name>> \in binding.tables /\ e.body # <<>>
                               /\ catalog[e.body[1].entry].name = culprit.name
  \/ culprit.via # "" /\ p.authorized_dispatchers # {}
  \/ \E r \in retrieved : /\ catalog[r.entry].type = "view" /\ catalog[r.entry].internal
                          /\ NamesObject(binding.tables, catalog[r.entry]) /\ culprit.name \in MacroBodyNames(catalog[r.entry].body)
  \/ \E r \in retrieved : /\ r.owner # "host" /\ catalog[r.entry].type \in FunctionTypes
                          /\ culprit.name \in FunctionImplementations(Identity(catalog[r.entry]), major) \union
                                               {i.name : i \in catalog[r.entry].becomes[major]}

\* Host definitions are opaque (docs/security.md:852-859): nothing a host's view or macro introduces, a path's reader
\* included, is refused, but for the control plane and remote scopes, unless the caller can produce it too.
BodiesOpaque == outcome = "refused" /\ culprit.owner = "host" => AlwaysRefused \/ MayBeCallers

\* The reader of a path that an untrusted binder met in a host's definition, so in a scalar macro's body.
ReaderOfMacro ==
  \E r \in retrieved : /\ r.owner = "host" /\ ~r.trusted /\ catalog[r.entry].type = "path"
                      /\ catalog[catalog[r.entry].body[1].entry].name = culprit.name

\* That is so but for the reader of a path in a scalar macro's body, which the gate admits as the macro's and the
\* caller's binder then looks up as its own (check.cpp:671-684).
BodiesOpaqueButReaders == BodiesOpaque \/ ReaderOfMacro
=============================================================================
