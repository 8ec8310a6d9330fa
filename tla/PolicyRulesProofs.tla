-------------------------- MODULE PolicyRulesProofs --------------------------
(***************************************************************************)
(* Theorems about PolicyRules, for every policy and identity.              *)
(***************************************************************************)
EXTENDS PolicyRules, TLAPS

\* A policy whose rules are decoded ones.
Decoded(p) ==
  /\ p.defaults \in BOOLEAN /\ p.tables \in BOOLEAN
  /\ \A rule \in p.allowed_functions \union p.blocked_functions : rule \in Grants
  /\ \A rule \in p.allowed_tables \union p.blocked_tables : rule \in TableRules

\* Sequences over one domain have one length.
LEMMA SameDomain ==
  ASSUME NEW S, NEW T, NEW s \in Seq(S), NEW t \in Seq(T), DOMAIN s = DOMAIN t
  PROVE  Len(s) = Len(t)
  <1>1. Len(s) \in Nat /\ Len(t) \in Nat /\ 1 .. Len(s) = 1 .. Len(t)
    OBVIOUS
  <1>2. \A m, n \in Nat : (\A i \in Nat : i \in 1 .. m <=> i \in 1 .. n) => m = n
    OBVIOUS
  <1> QED BY <1>1, <1>2

\* Folding a path keeps its length.
LEMMA FoldKeepsLength ==
  ASSUME NEW r \in Seq(Folded), NEW p \in Seq(Names), r = FoldPath(p)
  PROVE  Len(r) = Len(p)
  <1>1. DOMAIN r = DOMAIN p
    BY DEF FoldPath
  <1> QED BY ONLY <1>1, SameDomain, r \in Seq(Folded), p \in Seq(Names)

\* A block that covers a grant refuses every identity the grant's namespace and name match.
LEMMA CoveredIsBlocked ==
  ASSUME NEW block \in Grants, NEW rule \in Grants, NEW identity \in Identities, NEW exact \in BOOLEAN,
         rule.name = Fold[identity.name], NamespaceMatches(rule, identity, exact),
         BlockCovers(block, [rule EXCEPT !.name = Fold[identity.name], !.type = identity.type])
  PROVE  FunctionMatches(block, identity, FALSE)
  <1> DEFINE candidate == [rule EXCEPT !.name = Fold[identity.name], !.type = identity.type]
  <1>1. /\ candidate.catalog = rule.catalog /\ candidate.path = rule.path
        /\ candidate.name = Fold[identity.name] /\ candidate.type = identity.type
    BY DEF Grants
  <1>2. /\ block.catalog \in {"", "*", rule.catalog} /\ Len(block.path) = Len(rule.path)
        /\ \A i \in DOMAIN block.path : block.path[i] \in {"*", rule.path[i]}
        /\ block.type \in {"", identity.type} /\ block.name = Fold[identity.name]
    BY <1>1 DEF BlockCovers
  <1>3. /\ identity.catalog # "" /\ identity.path # <<>> /\ Len(rule.path) = Len(identity.path)
        /\ rule.catalog \in {"", "*", Fold[identity.catalog]}
        /\ \A i \in DOMAIN rule.path :
             identity.path[i] # "" /\ (rule.path[i] = Fold[identity.path[i]] \/ rule.path[i] = "*")
    BY DEF NamespaceMatches
  <1>4. DOMAIN block.path = DOMAIN rule.path
    <2>1. block.path \in Seq(Folded) /\ rule.path \in Seq(Folded)
      BY DEF Grants
    <2>2. DOMAIN block.path = 1 .. Len(block.path) /\ DOMAIN rule.path = 1 .. Len(rule.path)
      BY <2>1
    <2> QED BY <1>2, <2>2
  <1>5. NamespaceMatches(block, identity, FALSE)
    BY <1>2, <1>3, <1>4 DEF NamespaceMatches
  <1> QED BY <1>2, <1>5 DEF FunctionMatches

\* The default inventory's entries match the identities they are keyed by.
LEMMA DefaultMatches ==
  ASSUME NEW identity \in Identities,
         NEW rule \in Grants, identity.catalog # "", identity.path # <<>>,
         \A i \in DOMAIN identity.path : identity.path[i] # "",
         rule.catalog = Fold[identity.catalog], rule.path = FoldPath(identity.path)
  PROVE  NamespaceMatches(rule, identity, FALSE)
  <1>2. DOMAIN rule.path = DOMAIN identity.path /\ \A i \in DOMAIN identity.path : rule.path[i] = Fold[identity.path[i]]
    BY DEF FoldPath
  <1>3. rule.path \in Seq(Folded) /\ identity.path \in Seq(Names)
    BY DEF Grants, Identities
  <1>4. Len(rule.path) = Len(identity.path)
    BY <1>3, FoldKeepsLength
  <1> QED BY <1>2, <1>4 DEF NamespaceMatches

\* A grant that matches an identity no block matches survives, so the written name passes the screen.
LEMMA MatchSurvives ==
  ASSUME NEW p, Decoded(p), NEW identity \in Identities, NEW rule \in Grants, NEW exact \in BOOLEAN,
         rule.name = Fold[identity.name], rule.type \in {"", identity.type}, NamespaceMatches(rule, identity, exact),
         ~FunctionBlocked(p, identity)
  PROVE  Survives(p, rule, identity.name)
  <1>1. identity.type \in FunctionKinds
    BY DEF Identities
  <1>2. ASSUME NEW block \in p.blocked_functions,
               BlockCovers(block, [rule EXCEPT !.name = Fold[identity.name], !.type = identity.type])
        PROVE  FALSE
    BY <1>2, CoveredIsBlocked DEF FunctionBlocked, Decoded
  <1> QED BY <1>1, <1>2 DEF Survives

\* What authorization allows, the screen lets through: every policy, every identity (FunctionEligible is "only a
\* pre-bind leaf screen", function_policy.hpp).
THEOREM AllowedIsEligible ==
  ASSUME NEW p, Decoded(p), NEW identity \in Identities, FunctionAllowed(p, identity)
  PROVE  FunctionEligible(p, identity.name)
  <1>1. /\ identity.catalog # "" /\ identity.path # <<>> /\ \A i \in DOMAIN identity.path : identity.path[i] # ""
        /\ ~NeverBind(identity.name) /\ ~FunctionBlocked(p, identity)
    BY DEF FunctionAllowed, FunctionDenied
  <1> DEFINE key == [catalog |-> Fold[identity.catalog], path |-> FoldPath(identity.path),
                     name |-> Fold[identity.name], type |-> identity.type]
  <1>2. CASE p.defaults /\ key \in Defaults
    <2>1. key \in Grants
      BY <1>2, DefaultsAssumption DEF ConcreteGrant
    <2>2. PICK rule \in Grants : rule = key
      BY <2>1
    <2>3. /\ rule.catalog = Fold[identity.catalog] /\ rule.path = FoldPath(identity.path)
          /\ rule.name = Fold[identity.name] /\ rule.type = identity.type
      BY <2>2
    <2>4. NamespaceMatches(rule, identity, FALSE)
      BY <1>1, <2>3, DefaultMatches
    <2>5. Survives(p, rule, identity.name)
      BY <1>1, <2>3, <2>4, MatchSurvives
    <2> QED BY <1>1, <1>2, <2>2, <2>5 DEF FunctionEligible
  <1>3. ASSUME NEW rule \in p.allowed_functions, FunctionMatches(rule, identity, identity.internal # "no")
        PROVE  FunctionEligible(p, identity.name)
    <2>1. /\ rule.name = Fold[identity.name] /\ rule.type \in {"", identity.type} /\ rule \in Grants
          /\ NamespaceMatches(rule, identity, identity.internal # "no")
      BY <1>3 DEF FunctionMatches, Decoded
    <2>2. Survives(p, rule, identity.name)
      BY <1>1, <2>1, MatchSurvives
    <2> QED BY <1>1, <2>2 DEF FunctionEligible
  <1> QED BY <1>2, <1>3 DEF FunctionAllowed

\* Eligibility depends on the folded name only.
LEMMA EligibleFolds ==
  ASSUME NEW p, NEW n, NEW m, Fold[n] = Fold[m]
  PROVE  FunctionEligible(p, n) => FunctionEligible(p, m)
  BY DEF FunctionEligible, NeverBind, Survives

\* The call's stage is the verdict on its name.
ScreenInv ==
  /\ policy \in PolicyChoices
  /\ stage = "screened" => ~FunctionEligible(policy, name)

\* In every behaviour, a name refused before binding resolves to nothing the policy in force allows.
THEOREM ScreenIsSound == Spec => []ScreenSound
  <1>1. Init => ScreenInv
    BY DEF Init, ScreenInv
  <1>2. ScreenInv /\ [Next]_vars => ScreenInv'
    <2> SUFFICES ASSUME ScreenInv, [Next]_vars PROVE ScreenInv'
      OBVIOUS
    <2>1. CASE Configure
      BY <2>1 DEF Configure, ScreenInv
    <2>2. CASE Screen
      BY <2>2 DEF Screen, ScreenInv
    <2>3. CASE Authorize
      BY <2>3 DEF Authorize, ScreenInv
    <2>4. CASE UNCHANGED vars
      BY <2>4 DEF vars, ScreenInv
    <2> QED BY <2>1, <2>2, <2>3, <2>4 DEF Next
  <1>3. ScreenInv => ScreenSound
    <2> SUFFICES ASSUME ScreenInv, stage = "screened", NEW identity \in Functions, Fold[identity.name] = Fold[name],
                        FunctionAllowed(policy, identity)
                 PROVE  FALSE
      BY DEF ScreenSound
    <2>1. Decoded(policy) /\ identity \in Identities
      BY InputAssumption DEF ScreenInv, Decoded
    <2>2. FunctionEligible(policy, identity.name)
      BY <2>1, AllowedIsEligible
    <2> QED BY <2>2, EligibleFolds DEF ScreenInv
  <1> QED BY <1>1, <1>2, <1>3, PTL DEF Spec
-----------------------------------------------------------------------------
(***************************************************************************)
(* Wildcards and the index of exact rules.                                 *)
(***************************************************************************)
\* Sequences of one length that agree at every index are equal.
LEMMA SequencesEqual ==
  ASSUME NEW S, NEW T, NEW s \in Seq(S), NEW t \in Seq(T), Len(s) = Len(t), \A i \in DOMAIN s : s[i] = t[i]
  PROVE  s = t
  <1>1. s = [i \in 1 .. Len(s) |-> s[i]] /\ t = [i \in 1 .. Len(t) |-> t[i]] /\ DOMAIN s = 1 .. Len(s)
    OBVIOUS
  <1> QED BY <1>1

\* A folded path is a path of folded names.
LEMMA FoldPathType ==
  ASSUME NEW p \in Seq(Names)
  PROVE  FoldPath(p) \in Seq(Folded) /\ Len(FoldPath(p)) = Len(p) /\ DOMAIN FoldPath(p) = DOMAIN p
         /\ \A i \in DOMAIN p : FoldPath(p)[i] = Fold[p[i]]
  <1>1. FoldPath(p) = [i \in 1 .. Len(p) |-> Fold[p[i]]] /\ Len(p) \in Nat /\ DOMAIN p = 1 .. Len(p)
    BY DEF FoldPath
  <1>2. \A i \in 1 .. Len(p) : Fold[p[i]] \in Folded
    <2>1. \A n \in Names : Fold[n] \in Folded
      BY FoldAssumption DEF Folded
    <2>2. \A i \in 1 .. Len(p) : p[i] \in Names
      OBVIOUS
    <2> QED BY <2>1, <2>2
  <1>3. FoldPath(p) \in Seq(Folded)
    BY <1>1, <1>2
  <1>4. Len(FoldPath(p)) = Len(p) /\ DOMAIN FoldPath(p) = DOMAIN p /\ \A i \in DOMAIN p : FoldPath(p)[i] = Fold[p[i]]
    BY <1>1
  <1> QED BY <1>3, <1>4

\* A key consists of folded names, which folding leaves alone.
LEMMA KeyFolded ==
  ASSUME NEW object \in Tables
  PROVE  /\ ObjectKey(object) \in TableRules
         /\ ObjectKey(object).catalog = Fold[object.catalog] /\ ObjectKey(object).table = Fold[object.table]
         /\ ObjectKey(object).path = FoldPath(object.path)
  <1>1. object.catalog \in Names /\ object.path \in Seq(Names) /\ object.table \in Names
    BY DEF Tables
  <1>2. Fold[object.catalog] \in Folded /\ Fold[object.table] \in Folded /\ FoldPath(object.path) \in Seq(Folded)
    BY <1>1, FoldAssumption, FoldPathType DEF Folded
  <1> QED BY <1>2 DEF ObjectKey, TableRules

\* What a rule must be to name a namespace exactly.
LEMMA ExactNamespace ==
  ASSUME NEW r \in Seq(Folded), NEW p \in Seq(Names), Len(r) = Len(p), \A i \in DOMAIN r : r[i] = Fold[p[i]]
  PROVE  r = FoldPath(p)
  <1>1. /\ FoldPath(p) \in Seq(Folded) /\ Len(FoldPath(p)) = Len(p) /\ DOMAIN FoldPath(p) = DOMAIN p
        /\ \A i \in DOMAIN p : FoldPath(p)[i] = Fold[p[i]]
    BY FoldPathType
  <1>2. DOMAIN r = 1 .. Len(r) /\ DOMAIN p = 1 .. Len(p)
    OBVIOUS
  <1>3. \A i \in DOMAIN r : r[i] = FoldPath(p)[i]
    BY <1>1, <1>2
  <1> HIDE DEF FoldPath
  <1> QED BY ONLY <1>1, <1>3, SequencesEqual, r \in Seq(Folded), Len(r) = Len(p)

\* A wildcard never admits a function that is, or may be, the engine's own.
LEMMA InternalFunctionExact ==
  ASSUME NEW p, Decoded(p), NEW identity \in Identities, FunctionAllowed(p, identity), identity.internal # "no"
  PROVE  \E rule \in p.allowed_functions \union Defaults :
           rule.name = Fold[identity.name] /\ rule.path = FoldPath(identity.path)
  <1> DEFINE key == [catalog |-> Fold[identity.catalog], path |-> FoldPath(identity.path),
                     name |-> Fold[identity.name], type |-> identity.type]
  <1>1. CASE key \in Defaults
    <2>1. key.name = Fold[identity.name] /\ key.path = FoldPath(identity.path)
      OBVIOUS
    <2> QED BY <1>1, <2>1
  <1>2. ASSUME NEW rule \in p.allowed_functions, FunctionMatches(rule, identity, TRUE)
        PROVE  rule.name = Fold[identity.name] /\ rule.path = FoldPath(identity.path)
    <2>1. rule.path \in Seq(Folded) /\ identity.path \in Seq(Names)
      <3>1. rule \in Grants
        BY DEF Decoded
      <3> QED BY <3>1 DEF Grants, Identities
    <2>2. /\ rule.name = Fold[identity.name] /\ Len(rule.path) = Len(identity.path)
          /\ \A i \in DOMAIN rule.path : rule.path[i] = Fold[identity.path[i]]
      BY <1>2 DEF FunctionMatches, NamespaceMatches
    <2> QED BY <2>1, <2>2, ExactNamespace
  <1>3. (identity.internal # "no") = TRUE
    OBVIOUS
  <1> QED BY <1>1, <1>2, <1>3 DEF FunctionAllowed

\* Nor an internal table or view.
LEMMA InternalTableExact ==
  ASSUME NEW p, Decoded(p), NEW object \in Tables, TableAllowed(p, object, TRUE)
  PROVE  \E rule \in p.allowed_tables : /\ rule.table = Fold[object.table] /\ rule.table # "*"
                                        /\ rule.path = FoldPath(object.path)
  <1> DEFINE key == ObjectKey(object)
  <1>1. TableMatches(p.allowed_tables, key, TRUE)
    BY DEF TableAllowed
  <1>2. /\ key \in TableRules /\ key.table = Fold[object.table] /\ key.path = FoldPath(object.path)
        /\ key.path \in Seq(Folded)
    BY KeyFolded DEF TableRules
  <1> HIDE DEF key
  <1>3. key.table # "*"
    BY <1>1 DEF TableMatches
  <1>4. ASSUME NEW rule \in p.allowed_tables, NamespaceMatches(rule, key, TRUE)
        PROVE  rule.path = key.path
    <2>1. rule.path \in Seq(Folded) /\ Len(rule.path) = Len(key.path)
          /\ \A i \in DOMAIN rule.path : rule.path[i] = Fold[key.path[i]]
      <3>1. rule \in TableRules
        BY DEF Decoded
      <3>2. rule.path \in Seq(Folded)
        BY <3>1 DEF TableRules
      <3> QED BY <1>4, <3>2 DEF NamespaceMatches
    <2>2. \A i \in DOMAIN rule.path : Fold[key.path[i]] = key.path[i]
      <3>1. \A i \in DOMAIN rule.path : key.path[i] \in Folded
        BY <1>2, <2>1
      <3> QED BY <3>1 DEF Folded
    <2> QED BY <1>2, <2>1, <2>2, SequencesEqual
  <1> QED BY <1>1, <1>2, <1>3, <1>4 DEF TableMatches

\* The scan of the rules, as IndexAgrees states it.
Scanned(rule, key, internal) ==
  /\ rule.catalog \in {"", "*", key.catalog}
  /\ Len(rule.path) = Len(key.path)
  /\ \A i \in DOMAIN key.path :
       \/ rule.path[i] = key.path[i] /\ ~(internal /\ key.path[i] = "*")
       \/ rule.path[i] = "*" /\ ~internal
  /\ \/ rule.table = key.table /\ ~(internal /\ key.table = "*")
     \/ rule.table = "*" /\ ~internal

\* What a sequence is, with its elements.
LEMMA SequenceShape ==
  ASSUME NEW S, NEW s \in Seq(S)
  PROVE  DOMAIN s = 1 .. Len(s) /\ \A i \in DOMAIN s : s[i] \in S
  OBVIOUS

\* For a complete key, what the index or the namespace match finds is what the scan finds.
LEMMA IndexIsScan ==
  ASSUME NEW rules \in SUBSET TableRules, NEW key \in TableRules, NEW internal \in BOOLEAN,
         key.catalog # "", key.path # <<>>, \A i \in DOMAIN key.path : key.path[i] # ""
  PROVE  TableMatches(rules, key, internal) <=> \E rule \in rules : Scanned(rule, key, internal)
  <1>1. key.path \in Seq(Folded) /\ key.catalog \in Folded /\ key.table \in Folded
    BY DEF TableRules
  <1>2. Fold[key.catalog] = key.catalog /\ \A i \in DOMAIN key.path : Fold[key.path[i]] = key.path[i]
    <2>1. \A i \in DOMAIN key.path : key.path[i] \in Folded
      BY ONLY <1>1, SequenceShape
    <2> QED BY <1>1, <2>1 DEF Folded
  <1>3. ASSUME NEW rule \in rules, Len(rule.path) = Len(key.path)
        PROVE  DOMAIN rule.path = DOMAIN key.path
    <2>1. rule.path \in Seq(Folded)
      BY DEF TableRules
    <2>2. DOMAIN rule.path = 1 .. Len(rule.path) /\ DOMAIN key.path = 1 .. Len(key.path)
      BY ONLY <1>1, <2>1, SequenceShape
    <2> QED BY <1>3, <2>2
  <1>4. ASSUME TableMatches(rules, key, internal)
        PROVE  \E rule \in rules : Scanned(rule, key, internal)
    <2>1. ~(internal /\ (key.table = "*" \/ \E i \in DOMAIN key.path : key.path[i] = "*"))
      BY <1>4 DEF TableMatches
    <2>2. CASE key \in rules
      BY <2>1, <2>2 DEF Scanned
    <2>3. ASSUME NEW rule \in rules, NamespaceMatches(rule, key, internal),
                 rule.table = key.table \/ (~internal /\ rule.table = "*")
          PROVE  Scanned(rule, key, internal)
      <3>1. /\ Len(rule.path) = Len(key.path) /\ rule.catalog \in {"", "*", key.catalog}
            /\ \A i \in DOMAIN rule.path : rule.path[i] = Fold[key.path[i]] \/ (~internal /\ rule.path[i] = "*")
        BY <1>2, <2>3 DEF NamespaceMatches
      <3>2. DOMAIN rule.path = DOMAIN key.path
        BY <1>3, <3>1
      <3> QED BY <1>2, <2>1, <2>3, <3>1, <3>2 DEF Scanned
    <2> QED BY <1>4, <2>2, <2>3 DEF TableMatches
  <1>5. ASSUME NEW rule \in rules, Scanned(rule, key, internal)
        PROVE  TableMatches(rules, key, internal)
    <2>1. DOMAIN rule.path = DOMAIN key.path
      BY <1>3, <1>5 DEF Scanned
    <2>2. NamespaceMatches(rule, key, internal)
      BY <1>2, <1>5, <2>1 DEF Scanned, NamespaceMatches
    <2>3. ~(internal /\ (key.table = "*" \/ \E i \in DOMAIN key.path : key.path[i] = "*"))
      BY <1>5 DEF Scanned
    <2>4. rule.table = key.table \/ (~internal /\ rule.table = "*")
      BY <1>5 DEF Scanned
    <2> QED BY <2>2, <2>3, <2>4 DEF TableMatches
  <1> QED BY <1>4, <1>5

\* The policy in force is always one the host may configure.
LEMMA PolicyInForce == Spec => [](policy \in PolicyChoices)
  <1>1. Init => policy \in PolicyChoices
    BY DEF Init
  <1>2. policy \in PolicyChoices /\ [Next]_vars => (policy \in PolicyChoices)'
    BY DEF Next, Configure, Screen, Authorize, vars
  <1> QED BY <1>1, <1>2, PTL DEF Spec

\* Under every policy, no wildcard admits an engine-internal table or view, or a function that is or may be internal:
\* some rule or default names its whole path and its name (validator.cpp, exact schema matching).
THEOREM InternalIsNamed == Spec => []InternalNeedsExact
  <1>1. policy \in PolicyChoices => InternalNeedsExact
    <2> SUFFICES ASSUME policy \in PolicyChoices PROVE InternalNeedsExact
      OBVIOUS
    <2>1. Decoded(policy)
      BY InputAssumption DEF Decoded
    <2>2. \A identity \in Functions : identity \in Identities
      BY InputAssumption
    <2>3. \A object \in Objects : object.key \in Tables
      BY InputAssumption
    <2>4. ASSUME NEW identity \in Functions, FunctionAllowed(policy, identity), identity.internal # "no"
          PROVE  \E rule \in policy.allowed_functions \union Defaults :
                   rule.name = Fold[identity.name] /\ rule.path = FoldPath(identity.path)
      BY <2>1, <2>2, <2>4, InternalFunctionExact
    <2>5. ASSUME NEW object \in Objects, TableAllowed(policy, object.key, TRUE)
          PROVE  \E rule \in policy.allowed_tables : /\ rule.table = Fold[object.key.table] /\ rule.table # "*"
                                                     /\ rule.path = FoldPath(object.key.path)
      BY <2>1, <2>3, <2>5, InternalTableExact
    <2> QED BY <2>4, <2>5 DEF InternalNeedsExact
  <1> QED BY <1>1, PolicyInForce, PTL

\* Under every policy, the index of exact rules is a shortcut only (TableMatches, validator.cpp).
THEOREM IndexIsAShortcut == Spec => []IndexAgrees
  <1>1. policy \in PolicyChoices => IndexAgrees
    <2> SUFFICES ASSUME policy \in PolicyChoices, NEW object \in Objects, NEW internal \in BOOLEAN,
                        ObjectKey(object.key).catalog # "", ObjectKey(object.key).path # <<>>,
                        \A i \in DOMAIN ObjectKey(object.key).path : ObjectKey(object.key).path[i] # "",
                        NEW rules \in {policy.allowed_tables, policy.blocked_tables}
                 PROVE  TableMatches(rules, ObjectKey(object.key), internal) <=>
                          \E rule \in rules : Scanned(rule, ObjectKey(object.key), internal)
      BY DEF IndexAgrees, Scanned
    <2>1. ObjectKey(object.key) \in TableRules
      BY InputAssumption, KeyFolded
    <2>2. rules \in SUBSET TableRules
      BY InputAssumption
    <2> QED BY <2>1, <2>2, IndexIsScan
  <1> QED BY <1>1, PolicyInForce, PTL

=============================================================================
