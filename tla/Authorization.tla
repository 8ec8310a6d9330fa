--------------------------- MODULE Authorization ---------------------------
(***************************************************************************)
(* Who a function or an object belongs to, and what a policy layer says of *)
(* it: the decisions of authorization.cpp on one resolved entry and on one *)
(* function of a bound plan, and the queries of Provenance they rest on    *)
(* (validator.cpp, validator.hpp, function_policy.hpp).                    *)
(*                                                                         *)
(* Names are folded and namespaces resolved: ns is "system" for            *)
(* system.main, "" where a descriptor carries no namespace, and anything   *)
(* else for a host's or an extension's schema.  How rules match (wildcards,*)
(* case, unknown origin) is PolicyRules; here a layer is the set of keys   *)
(* its rules grant and the set they block.                                 *)
(***************************************************************************)
EXTENDS Naturals, Sequences, FiniteSets

CONSTANTS
  Defaults,          \* keys of the embedded inventory's default functions
  NeverBindNames,    \* functions no policy admits on a caller's route
  ControlPlaneNames, \* Gatekeeper's own, refused on every route
  OpaqueNames,       \* functions that delegate SQL elsewhere
  Dispatchers,       \* scalars that select an aggregate by name (DispatchingAggregators)
  CollationNames,    \* functions a collation binds (CollationFunction)
  Edges              \* [1..2 -> SUBSET <<type, name, implementation>>], the reviewed substitutions of each engine

ASSUME NamesAssumption == ControlPlaneNames \subseteq NeverBindNames

FunctionTypes == {"scalar", "aggregate", "table", "macro", "table_macro"}

\* An identity without a name, where a plan retains no definition.
NoIdentity == [ns |-> "", name |-> "", type |-> "", internal |-> "unknown"]

Key(identity) == <<identity.ns, identity.name, identity.type>>
HasKey(identities, identity) == \E other \in identities : Key(other) = Key(identity)
SystemIdentity(identity) == identity.ns = "system"
-----------------------------------------------------------------------------
(***************************************************************************)
(* Policy layers: [defaults, granted, blocked, tables].                    *)
(***************************************************************************)
FunctionDenied(layer, identity) == identity.name \in NeverBindNames \/ Key(identity) \in layer.blocked

FunctionAllowed(layer, identity) ==
  /\ identity.ns # "" /\ ~FunctionDenied(layer, identity)
  /\ (layer.defaults /\ identity.internal = "yes" /\ Key(identity) \in Defaults) \/ Key(identity) \in layer.granted

\* Some function of that name is granted and not blocked: the screen of the names a text writes.
FunctionEligible(layer, name) ==
  /\ name \notin NeverBindNames
  /\ \E key \in (IF layer.defaults THEN Defaults ELSE {}) \union layer.granted : key[2] = name /\ key \notin layer.blocked

TableAllowed(layer, object) == object \in layer.tables
-----------------------------------------------------------------------------
(***************************************************************************)
(* Provenance: b is the text's BindingPolicy, p what the private bind has  *)
(* learned.                                                                *)
(***************************************************************************)
\* The implementations a binder may put in the place of a system function.
FunctionImplementations(source, major) ==
  {source.name} \union
    IF SystemIdentity(source) /\ source.internal = "yes"
    THEN {edge[3] : edge \in {e \in Edges[major] : e[1] = source.type /\ e[2] = source.name}} ELSE {}

\* What retrieving a function is evidence of: on 2.0 a plan retains its definition, on 1.5 each possible
\* implementation is attributed.
Implementations(source, major) ==
  IF major >= 2 THEN {source} ELSE {[source EXCEPT !.name = n] : n \in FunctionImplementations(source, major)}

\* RecordFunction variant: the possible implementations are left out on 1.5 too.
RecordFunctionExact(p, sources, caller, major) ==
  LET entries == [p EXCEPT !.function_entries = @ \union sources]
  IN  IF caller THEN [entries EXCEPT !.caller_implementations = @ \union sources]
      ELSE [entries EXCEPT !.trusted_implementations = @ \union sources]

\* For each of a set of sources.
RecordFunction(p, sources, caller, major) ==
  LET recorded == UNION {Implementations(source, major) : source \in sources}
      entries == [p EXCEPT !.function_entries = @ \union sources]
  IN  IF caller THEN [entries EXCEPT !.caller_implementations = @ \union recorded]
      ELSE [entries EXCEPT !.trusted_implementations = @ \union recorded]

\* The text, or a default macro it expands to, can produce this name.
CallerCanName(b, p, name) ==
  \/ name \in b.functions \union b.synthesized \union b.literals \union p.caller_expansions
  \/ b.collations # {} /\ name \in CollationNames

Attributable(b, p, name) == CallerCanName(b, p, name) \/ name \in p.caller_lookups

\* A written reference names an object by its leaf or by namespace and leaf.
NamesObject(written, object) == {<<object.name>>, <<object.ns, object.name>>} \intersect written # {}
-----------------------------------------------------------------------------
(***************************************************************************)
(* One resolved entry.                                                     *)
(***************************************************************************)
\* AuthorizeFunction's refusal; system is binding.system_functions, grant whether the entry must be granted.
FunctionRefused(layer, b, system, identity, attributable, grant) ==
  \/ identity.name \in ControlPlaneNames
  \/ attributable /\ FunctionDenied(layer, identity)
  \/ attributable /\ grant /\ ~FunctionAllowed(layer, identity)
  \/ attributable /\ ~grant /\ ~SystemIdentity(identity)
  \/ identity.name \in system /\ ~SystemIdentity(identity)
  \/ /\ identity.name \in b.synthesized \union b.literals
     /\ ~SystemIdentity(identity) \/ ~FunctionAllowed(layer, identity)

\* AuthorizeObjectAgainst, for a function: written names must be granted, and with the defaults off, or from
\* outside the engine, so must the names a default macro introduces.
FunctionEntryRefused(layer, b, system, identity, attributable) ==
  LET selected == identity.name \in b.functions \/
                  ((~layer.defaults \/ identity.internal # "yes") /\ identity.name \in system)
  IN  \/ identity.name \in OpaqueNames
      \/ FunctionRefused(layer, b, system, identity, attributable, selected)
      \/ /\ identity.type \in {"table", "table_macro"} /\ identity.name \in b.runtime
         /\ ~(identity.type = "table" /\ SystemIdentity(identity))
      \/ identity.name \in b.literals /\ ~(identity.type = "scalar" /\ SystemIdentity(identity))

\* AuthorizeObjectAgainst, for a table or view: a Quack object is read under a scope no local rule describes.
ObjectRefused(layer, major, object, attributable) ==
  \/ object.ns = "quack" /\ (major < 2 \/ object.type = "view")
  \/ attributable /\ ~TableAllowed(layer, object.name)
-----------------------------------------------------------------------------
(***************************************************************************)
(* One function of a bound plan (the function lambda of                    *)
(* AuthorizePlanAgainst).  An occurrence holds the descriptor's identity,  *)
(* the definition 2.0 retains, and the dispatcher that selected it.        *)
(***************************************************************************)
\* The origin the evidence sets know; exact entries outweigh implementations, the caller's the trusted ones.
Origin(p, identity) ==
  LET hits == SelectSeq(<<p.function_entries, p.caller_implementations, p.trusted_implementations>>,
                        LAMBDA entries : HasKey(entries, identity))
  IN  IF hits = <<>> THEN identity.internal ELSE (CHOOSE e \in Head(hits) : Key(e) = Key(identity)).internal

\* A retained definition proves the edge to a reviewed implementation, and lends its namespace and origin.
FromDefinition(p, major, identity, definition) ==
  LET sources == {e \in p.function_entries : Key(e) = Key(definition) /\ identity.name \in FunctionImplementations(e, major)}
  IN  IF sources = {} THEN identity
      ELSE LET source == CHOOSE e \in sources : TRUE
               named == IF identity.ns = "" THEN [identity EXCEPT !.ns = source.ns] ELSE identity
           IN  IF named.ns = source.ns THEN [named EXCEPT !.internal = source.internal] ELSE named

\* An aggregate that lost its namespace is an observed definition of that name when all of them are the system's.
FromAggregates(p, identity, definition) ==
  LET same == {e \in p.caller_implementations \union p.trusted_implementations :
                 e.name = identity.name /\ e.type = "aggregate"}
  IN  IF /\ identity.ns = "" /\ identity.type = "aggregate"
         /\ definition = NoIdentity \/ SystemIdentity(definition)
         /\ same # {} /\ \A e \in same : SystemIdentity(e)
      THEN CHOOSE e \in same : TRUE ELSE identity

\* On 1.5 a scalar of the text's collations is the system's, unless a host's scalar of that name was retrieved.
FromCollations(p, major, identity) ==
  IF /\ major < 2 /\ identity.ns = "" /\ identity.type = "scalar" /\ identity.name \in p.collation_functions
     /\ ~\E e \in p.function_entries : e.type = "scalar" /\ e.name = identity.name /\ ~SystemIdentity(e)
  THEN LET system == [identity EXCEPT !.ns = "system", !.internal = "unknown"]
       IN  [system EXCEPT !.internal = IF HasKey(p.function_entries, system) THEN Origin(p, system) ELSE "unknown"]
  ELSE identity

Recovered(p, major, occurrence) ==
  LET defined == FromDefinition(p, major, occurrence.identity, occurrence.definition)
      origin == IF defined.internal = "unknown" THEN [defined EXCEPT !.internal = Origin(p, defined)] ELSE defined
  IN  FromCollations(p, major, FromAggregates(p, origin, occurrence.definition))

\* The plan walk's own view of a name, before identities are considered.
Produced(b, p, name) == Attributable(b, p, name) \/ name \in p.collation_functions

\* Resolved identities win over names, the caller's over the trusted ones, and a caller's definition over all.
Callers(b, p, identity, occurrence) ==
  LET dispatched == occurrence.via # "" /\ p.authorized_dispatchers # {} /\ occurrence.via \in Dispatchers
      named == Produced(b, p, occurrence.identity.name) \/ (occurrence.via # "" /\ Produced(b, p, occurrence.via)) \/ dispatched
      theirs == /\ HasKey(p.trusted_implementations, identity)
                /\ identity.name \notin b.synthesized \union b.literals \union p.collation_functions
  IN  \/ named /\ ~theirs
      \/ HasKey(p.caller_implementations, identity)
      \/ HasKey(p.caller_implementations, occurrence.definition)

\* Whether it must be granted, and not only be a system function that is not blocked.
GrantNeeded(layer, b, p, identity, occurrence) ==
  LET name == occurrence.identity.name
      ofCaller == HasKey(p.caller_implementations, identity)
  IN  \/ occurrence.identity.type = "table"
      \/ occurrence.via = "" /\ name \in b.functions
      \/ occurrence.via = "" /\ occurrence.identity.type = "scalar" /\
           (name \in p.collation_functions \/ (b.collations # {} /\ name \in CollationNames))
      \/ occurrence.via \in Dispatchers /\ p.authorized_dispatchers # {}
      \/ ~layer.defaults /\ name \in p.caller_expansions \union p.expansion_targets
      \/ HasKey(p.caller_implementations, occurrence.definition) /\ (~SystemIdentity(occurrence.definition) \/ ~ofCaller)
      \/ ~layer.defaults /\ Callers(b, p, identity, occurrence) /\ ofCaller

OccurrenceRefused(layer, b, p, major, occurrence) ==
  LET identity == Recovered(p, major, occurrence)
  IN  FunctionRefused(layer, b, {}, identity, Callers(b, p, identity, occurrence), GrantNeeded(layer, b, p, identity, occurrence))
=============================================================================
