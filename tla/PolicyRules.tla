---------------------------- MODULE PolicyRules ----------------------------
(***************************************************************************)
(* How a policy's rules decide on a resolved identity (validator.cpp,      *)
(* function_policy.hpp), and the two points at which a statement's         *)
(* function calls meet them: the text walk screens the written name before *)
(* anything binds (FunctionEligible), and authorization decides on the     *)
(* identity the binder resolved it to (FunctionAllowed).  Tables are       *)
(* decided only when resolved (TableAllowed).                              *)
(*                                                                         *)
(* A rule's catalog, path and leaf are folded when the policy is decoded;  *)
(* an empty catalog or type leaves that part open, "*" is a wildcard for a *)
(* catalog or path component, and for a table, but never for a function's  *)
(* name.  An identity keeps the engine's spelling.                         *)
(***************************************************************************)
EXTENDS Sequences, Naturals

CONSTANTS
  Fold,            \* the ASCII case folding of the names in use (Lower)
  NeverBindNames,  \* folded leaf names no policy admits
  Defaults,        \* the embedded inventory's default function grants
  PolicyChoices,   \* policies the host may configure
  Functions,       \* function identities the binder may resolve to
  Objects          \* tables and views the binder may resolve to

FunctionKinds == {"scalar", "aggregate", "table", "macro", "table_macro", "window"}

Names == DOMAIN Fold

\* Lower is idempotent and leaves the empty name and the wildcard alone.
ASSUME FoldAssumption ==
  /\ \A n \in Names : Fold[n] \in Names /\ Fold[Fold[n]] = Fold[n] /\ (Fold[n] = "" <=> n = "")
  /\ {"", "*"} \subseteq Names /\ Fold["*"] = "*" /\ \A n \in Names : Fold[n] = "*" => n = "*"

Folded == {n \in Names : Fold[n] = n}
FoldPath(path) == [i \in DOMAIN path |-> Fold[path[i]]]

Grants == [catalog : Folded, path : Seq(Folded), name : Folded, type : FunctionKinds \union {""}]
TableRules == [catalog : Folded, path : Seq(Folded), table : Folded]
Identities == [catalog : Names, path : Seq(Names), name : Names, type : FunctionKinds, internal : {"yes", "no", "unknown"}]
Tables == [catalog : Names, path : Seq(Names), table : Names]

\* The Inventory constructor refuses embedded defaults that are not complete, folded and concrete.
ConcreteGrant(grant) ==
  /\ grant \in Grants /\ grant.catalog \notin {"", "*"} /\ grant.name # "" /\ grant.type # "" /\ grant.path # <<>>
  /\ \A i \in DOMAIN grant.path : grant.path[i] \notin {"", "*"}
ASSUME DefaultsAssumption == \A grant \in Defaults : ConcreteGrant(grant)

ASSUME NeverBindAssumption == NeverBindNames \subseteq Folded

ASSUME InputAssumption ==
  /\ \A policy \in PolicyChoices :
       /\ policy.defaults \in BOOLEAN /\ policy.tables \in BOOLEAN
       /\ \A rule \in policy.allowed_functions \union policy.blocked_functions : rule \in Grants
       /\ \A rule \in policy.allowed_tables \union policy.blocked_tables : rule \in TableRules
  /\ \A identity \in Functions : identity \in Identities
  /\ \A object \in Objects : object.key \in Tables /\ object.internal \in BOOLEAN
-----------------------------------------------------------------------------
(***************************************************************************)
(* Rules.                                                                  *)
(***************************************************************************)
NamespaceMatches(rule, actual, exactSchema) ==
  /\ actual.catalog # "" /\ actual.path # <<>> /\ Len(rule.path) = Len(actual.path)
  /\ rule.catalog \in {"", "*", Fold[actual.catalog]}
  /\ \A i \in DOMAIN rule.path :
       /\ actual.path[i] # ""
       /\ rule.path[i] = Fold[actual.path[i]] \/ (~exactSchema /\ rule.path[i] = "*")

\* A resolved object as rules are looked up by: every component folded.
ObjectKey(object) ==
  [catalog |-> Fold[object.catalog], path |-> FoldPath(object.path), table |-> Fold[object.table]]

\* TableMatches variant: an internal object may be named by a rule that spells "*".
TableMatchesStarNames(rules, key, internal) ==
  \/ key \in rules
  \/ \E rule \in rules : /\ NamespaceMatches(rule, key, internal)
                         /\ rule.table = key.table \/ (~internal /\ rule.table = "*")

\* Exact rules are found in the set's index; the others by a scan.
TableMatches(rules, key, internal) ==
  /\ ~(internal /\ (key.table = "*" \/ \E i \in DOMAIN key.path : key.path[i] = "*"))
  /\ \/ key \in rules
     \/ \E rule \in rules : /\ NamespaceMatches(rule, key, internal)
                            /\ rule.table = key.table \/ (~internal /\ rule.table = "*")

TableBlocked(policy, object) == TableMatches(policy.blocked_tables, ObjectKey(object), FALSE)

TableAllowed(policy, object, internal) ==
  /\ ~TableMatches(policy.blocked_tables, ObjectKey(object), FALSE)
  /\ (~policy.tables /\ ~internal) \/ TableMatches(policy.allowed_tables, ObjectKey(object), internal)

NeverBind(name) == Fold[name] \in NeverBindNames

FunctionMatches(rule, identity, exactSchema) ==
  /\ ~(exactSchema /\ \E i \in DOMAIN rule.path : rule.path[i] = "*")
  /\ rule.type \in {"", identity.type}
  /\ rule.name = Fold[identity.name]
  /\ NamespaceMatches(rule, identity, exactSchema)

FunctionBlocked(policy, identity) == \E rule \in policy.blocked_functions : FunctionMatches(rule, identity, FALSE)
FunctionDenied(policy, identity) == NeverBind(identity.name) \/ FunctionBlocked(policy, identity)

\* BlockCovers variant: a block covers every grant of the same name and kind, whatever its namespace.
BlockCoversLeaf(block, candidate) ==
  block.type \in {"", candidate.type} /\ block.name = candidate.name

\* A block refuses everything a grant could admit: it covers the grant's whole namespace pattern.
BlockCovers(block, candidate) ==
  /\ block.catalog \in {"", "*", candidate.catalog}
  /\ Len(block.path) = Len(candidate.path)
  /\ \A i \in DOMAIN block.path : block.path[i] \in {"*", candidate.path[i]}
  /\ block.type \in {"", candidate.type}
  /\ block.name = candidate.name

\* Some kind of function the grant admits under this name is left by the blocks.
Survives(policy, rule, name) ==
  /\ rule.name = Fold[name]
  /\ \E kind \in FunctionKinds :
       /\ rule.type \in {"", kind}
       /\ ~\E block \in policy.blocked_functions : BlockCovers(block, [rule EXCEPT !.name = Fold[name], !.type = kind])

FunctionEligible(policy, name) ==
  /\ ~NeverBind(name)
  /\ \E rule \in (IF policy.defaults THEN Defaults ELSE {}) \union policy.allowed_functions : Survives(policy, rule, name)

\* FunctionAllowed variant: a function of unknown origin passes for the host's own.
FunctionAllowedUnknownOrigin(policy, identity) ==
  /\ identity.name # "" /\ identity.catalog # "" /\ identity.path # <<>> /\ identity.type \in FunctionKinds
  /\ \A i \in DOMAIN identity.path : identity.path[i] # ""
  /\ ~FunctionDenied(policy, identity)
  /\ \E rule \in policy.allowed_functions : FunctionMatches(rule, identity, identity.internal = "yes")

\* Unknown origin counts as internal where wildcards are concerned, and as not internal where the defaults are.
FunctionAllowed(policy, identity) ==
  /\ identity.name # "" /\ identity.catalog # "" /\ identity.path # <<>> /\ identity.type \in FunctionKinds
  /\ \A i \in DOMAIN identity.path : identity.path[i] # ""
  /\ ~FunctionDenied(policy, identity)
  /\ \/ /\ policy.defaults /\ identity.internal = "yes"
        /\ [catalog |-> Fold[identity.catalog], path |-> FoldPath(identity.path),
            name |-> Fold[identity.name], type |-> identity.type] \in Defaults
     \/ \E rule \in policy.allowed_functions : FunctionMatches(rule, identity, identity.internal # "no")
-----------------------------------------------------------------------------
VARIABLES
  policy,  \* the policy in force
  name,    \* the function name the caller wrote
  stage    \* how far that call has come: "none", "screened", "eligible", "allowed", "denied"

vars == <<policy, name, stage>>

Init == policy \in PolicyChoices /\ name = "" /\ stage = "none"

\* The host replaces the policy; the next call meets the new one.
Configure ==
  /\ policy' \in PolicyChoices
  /\ name' = "" /\ stage' = "none"

\* The text walk screens a caller-written function name.
Screen ==
  /\ stage = "none"
  /\ name' \in Names \ {"", "*"}
  /\ stage' = IF FunctionEligible(policy, name') THEN "eligible" ELSE "screened"
  /\ UNCHANGED policy

\* The binder resolves the name, in any spelling, and authorization decides on what it found.
Authorize ==
  /\ stage = "eligible"
  /\ \E identity \in Functions :
       /\ Fold[identity.name] = Fold[name]
       /\ stage' = IF FunctionAllowed(policy, identity) THEN "allowed" ELSE "denied"
  /\ UNCHANGED <<policy, name>>

Next == Configure \/ Screen \/ Authorize

Spec == Init /\ [][Next]_vars
-----------------------------------------------------------------------------
(***************************************************************************)
(* Properties.                                                             *)
(***************************************************************************)

\* The screen never refuses what authorization would admit: a name refused before binding resolves to no identity
\* the same policy allows (validator.cpp, "Prove coverage of an eligible namespace pattern").
ScreenSound ==
  stage = "screened" =>
    \A identity \in Functions : Fold[identity.name] = Fold[name] => ~FunctionAllowed(policy, identity)

\* A wildcard never admits an engine-internal object or a function that is, or may be, internal: some rule, or the
\* default inventory, names its schema path component by component, and the table by its name.
InternalNeedsExact ==
  /\ \A identity \in Functions : FunctionAllowed(policy, identity) /\ identity.internal # "no" =>
       \E rule \in policy.allowed_functions \union Defaults :
         rule.name = Fold[identity.name] /\ rule.path = FoldPath(identity.path)
  /\ \A object \in Objects : TableAllowed(policy, object.key, TRUE) =>
       \E rule \in policy.allowed_tables : /\ rule.table = Fold[object.key.table] /\ rule.table # "*"
                                           /\ rule.path = FoldPath(object.key.path)

\* The index of exact rules is a shortcut only: for an object with all its components it finds nothing the scan
\* of the rules would not.
IndexAgrees ==
  \A object \in Objects, internal \in BOOLEAN :
    LET key == ObjectKey(object.key)
    IN  key.catalog # "" /\ key.path # <<>> /\ (\A i \in DOMAIN key.path : key.path[i] # "") =>
          \A rules \in {policy.allowed_tables, policy.blocked_tables} :
            TableMatches(rules, key, internal) <=>
              \E rule \in rules : /\ rule.catalog \in {"", "*", key.catalog}
                                  /\ Len(rule.path) = Len(key.path)
                                  /\ \A i \in DOMAIN key.path :
                                       \/ rule.path[i] = key.path[i] /\ ~(internal /\ key.path[i] = "*")
                                       \/ rule.path[i] = "*" /\ ~internal
                                  /\ \/ rule.table = key.table /\ ~(internal /\ key.table = "*")
                                     \/ rule.table = "*" /\ ~internal
=============================================================================
