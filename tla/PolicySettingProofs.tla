------------------------ MODULE PolicySettingProofs ------------------------
(***************************************************************************)
(* Theorems about PolicySetting: the canonical form of a policy reads back *)
(* as that policy, and the log is never behind the settings it describes.  *)
(***************************************************************************)
EXTENDS PolicySetting, TLAPS

(***************************************************************************)
(* Decoding and encoding.                                                  *)
(***************************************************************************)

\* A rule that passes the checks of ApplyOptions decodes to one a policy holds.
LEMMA DecodedHeld ==
  ASSUME NEW name \in ListOptions, NEW rule \in WrittenRules(name) \union {Null}, RuleOK(name, rule)
  PROVE  DecodeRule(name, rule) \in HeldRules(name)
  <1>1. rule \in WrittenRules(name)
    BY DEF RuleOK
  <1>2. Fold[rule.object] \in Folded
    BY FoldAssumption DEF RuleOK, Names, Folded
  <1>3. (IF rule.catalog = Null THEN "" ELSE Fold[rule.catalog]) \in Folded \union {""}
    BY FoldAssumption DEF RuleOK, Names, Folded
  <1>4. CASE name \in FunctionOptions
    BY <1>1, <1>2, <1>3, <1>4 DEF DecodeRule, HeldRules, RuleOK
  <1>5. CASE name \notin FunctionOptions
    BY <1>1, <1>2, <1>3, <1>5 DEF DecodeRule, HeldRules
  <1> QED BY <1>4, <1>5

\* A held rule has no NULL, and opened as CanonicalIdentities does it passes the checks and decodes to itself.
LEMMA HeldDecodes ==
  ASSUME NEW name \in ListOptions, NEW rule \in HeldRules(name)
  PROVE  /\ rule \in WrittenRules(name) /\ NullFree(name, rule)
         /\ RuleOK(name, OpenRule(name, rule)) /\ DecodeRule(name, OpenRule(name, rule)) = rule
  <1>1. \A n \in Folded : n \in Names /\ n # "" /\ n # Null /\ Fold[n] = n
    BY FoldAssumption, NullAssumption DEF Folded, Names
  <1>2. rule \in WrittenRules(name)
    BY <1>1 DEF HeldRules, WrittenRules
  <1>3. rule # Null /\ Null # ""
    BY <1>2, NullAssumption
  <1>4. CASE name \in FunctionOptions
    <2>1. /\ rule.catalog \in Folded \union {""} /\ rule.object \in Folded /\ rule.type \in FunctionKinds \union {""}
          /\ rule = [catalog |-> rule.catalog, object |-> rule.object, type |-> rule.type]
      BY <1>4 DEF HeldRules
    <2>2. NullFree(name, rule)
      BY <1>1, <1>3, <2>1, NullAssumption DEF NullFree
    <2> DEFINE o == OpenRule(name, rule)
    <2>3. o = [catalog |-> Open(rule.catalog), object |-> rule.object, type |-> Open(rule.type)]
      BY <1>4 DEF OpenRule
    <2> HIDE DEF o
    <2>8. /\ Open(rule.catalog) \in Names \union {Null, ""} /\ rule.object \in Names \union {Null, ""}
          /\ Open(rule.type) \in FunctionKinds \union {Null, "", "unsupported"}
      BY <1>1, <2>1 DEF Open
    <2>4. o \in WrittenRules(name)
      BY <1>4, <2>3, <2>8 DEF WrittenRules
    <2>5. /\ o.catalog = Open(rule.catalog) /\ o.object = rule.object /\ o.type = Open(rule.type) /\ o # Null
      BY <2>3, <2>4, NullAssumption
    <2>6. RuleOK(name, o)
      BY <1>1, <2>1, <2>5 DEF RuleOK, Open
    <2>7. DecodeRule(name, o) = rule
      BY <1>1, <1>3, <1>4, <2>1, <2>5, NullAssumption DEF DecodeRule, Open
    <2> QED BY <1>2, <2>2, <2>6, <2>7 DEF o
  <1>5. CASE name \notin FunctionOptions
    <2>1. /\ rule.catalog \in Folded \union {""} /\ rule.object \in Folded
          /\ rule = [catalog |-> rule.catalog, object |-> rule.object]
      BY <1>5 DEF HeldRules
    <2>2. NullFree(name, rule)
      BY <1>1, <1>3, <1>5, <2>1 DEF NullFree
    <2> DEFINE o == OpenRule(name, rule)
    <2>3. o = [catalog |-> Open(rule.catalog), object |-> rule.object]
      BY <1>5 DEF OpenRule
    <2> HIDE DEF o
    <2>8. Open(rule.catalog) \in Names \union {Null, ""} /\ rule.object \in Names \union {Null, ""}
      BY <1>1, <2>1 DEF Open
    <2>4. o \in WrittenRules(name)
      BY <1>5, <2>3, <2>8 DEF WrittenRules
    <2>5. /\ o.catalog = Open(rule.catalog) /\ o.object = rule.object /\ o # Null
      BY <2>3, <2>4, NullAssumption
    <2>6. RuleOK(name, o)
      BY <1>1, <1>5, <2>1, <2>5 DEF RuleOK, Open
    <2>7. DecodeRule(name, o) = rule
      BY <1>1, <1>3, <1>5, <2>1, <2>5 DEF DecodeRule, Open
    <2> QED BY <1>2, <2>2, <2>6, <2>7 DEF o
  <1> QED BY <1>4, <1>5

\* Opening a rule keeps it writable.
LEMMA OpenWritten ==
  ASSUME NEW name \in ListOptions, NEW rule \in WrittenRules(name)
  PROVE  OpenRule(name, rule) \in WrittenRules(name)
  <1>1. CASE name \in FunctionOptions
    BY <1>1 DEF OpenRule, Open, WrittenRules
  <1>2. CASE name \notin FunctionOptions
    BY <1>2 DEF OpenRule, Open, WrittenRules
  <1> QED BY <1>1, <1>2

\* A decoded or kept list holds rules a policy may hold.
LEMMA DecodedList ==
  ASSUME NEW policy \in Policies, NEW options, Typed(options, OptionNames), NEW name \in ListOptions,
         \A n \in DOMAIN options : OptionOK(n, options[n])
  PROVE  DecodeList(policy, options, name) \subseteq HeldRules(name)
  <1>1. CASE name \in DOMAIN options
    <2>1. options[name] \subseteq WrittenRules(name) \union {Null} /\ \A rule \in options[name] : RuleOK(name, rule)
      BY <1>1 DEF Typed, OptionOK
    <2>2. \A rule \in options[name] : DecodeRule(name, rule) \in HeldRules(name)
      BY <2>1, DecodedHeld
    <2> QED BY <1>1, <2>2 DEF DecodeList
  <1>2. CASE name \notin DOMAIN options
    <2>1. policy[name] \subseteq HeldRules(name)
      BY DEF Policies, PolicyRecords, ListOptions, FunctionOptions
    <2> QED BY <1>2, <2>1 DEF DecodeList
  <1> QED BY <1>1, <1>2

\* Options applied to a policy yield a policy, or nothing.
LEMMA AppliedPolicy ==
  ASSUME NEW policy \in Policies, NEW options, Typed(options, OptionNames), ApplyOptions(policy, options) # Invalid
  PROVE  /\ ApplyOptions(policy, options) \in Policies
         /\ \A name \in ListOptions : ApplyOptions(policy, options)[name] = DecodeList(policy, options, name)
         /\ \A name \in DOMAIN options : OptionOK(name, options[name])
  <1>1. \A name \in DOMAIN options : OptionOK(name, options[name])
    BY DEF ApplyOptions
  <1>2. \A name \in ListOptions : DecodeList(policy, options, name) \subseteq HeldRules(name)
    BY <1>1, DecodedList
  <1>3. policy \in PolicyRecords /\ (policy.allowed_tables # {} => policy.tables)
    BY DEF Policies
  <1> DEFINE d == IF "use_default_functions" \in DOMAIN options
                  THEN options["use_default_functions"] ELSE policy.defaults
             t == policy.tables \/ "allowed_tables" \in DOMAIN options
             af == DecodeList(policy, options, "allowed_functions")
             bf == DecodeList(policy, options, "blocked_functions")
             at == DecodeList(policy, options, "allowed_tables")
             bt == DecodeList(policy, options, "blocked_tables")
  <1>4. d \in BOOLEAN
    <2>1. CASE "use_default_functions" \in DOMAIN options
      BY <1>1, <2>1 DEF OptionOK, Typed, ListOptions, FunctionOptions
    <2>2. CASE "use_default_functions" \notin DOMAIN options
      BY <1>3, <2>2 DEF PolicyRecords
    <2> QED BY <2>1, <2>2
  <1>5. t \in BOOLEAN
    OBVIOUS
  <1>6. at # {} => t
    BY <1>3 DEF DecodeList
  <1>7. /\ af \in SUBSET HeldRules("allowed_functions") /\ bf \in SUBSET HeldRules("blocked_functions")
        /\ at \in SUBSET HeldRules("allowed_tables") /\ bt \in SUBSET HeldRules("blocked_tables")
    BY <1>2 DEF ListOptions, FunctionOptions
  <1>8. ApplyOptions(policy, options) =
          [defaults |-> d, tables |-> t, allowed_functions |-> af, blocked_functions |-> bf,
           allowed_tables |-> at, blocked_tables |-> bt]
    BY <1>1 DEF ApplyOptions
  <1>9. \A name \in ListOptions : ApplyOptions(policy, options)[name] = DecodeList(policy, options, name)
    BY <1>8 DEF ListOptions, FunctionOptions
  <1> HIDE DEF d, t, af, bf, at, bt
  <1>10. ApplyOptions(policy, options) \in Policies
    BY <1>4, <1>5, <1>6, <1>7, <1>8 DEF Policies, PolicyRecords
  <1> QED BY <1>1, <1>9, <1>10

LEMMA DefaultIsPolicy == DefaultPolicy \in Policies
  BY DEF DefaultPolicy, Policies, PolicyRecords

\* What ReadPolicy accepts is a policy.
LEMMA ReadIsPolicy ==
  ASSUME NEW value, RawPolicy(value), ReadPolicy(value) # Invalid
  PROVE  ReadPolicy(value) \in Policies
  <1> DEFINE options == [name \in OptionNames |->
                           IF name \in ListOptions THEN CanonicalIdentities(name, value[name]) ELSE value[name]]
             policy == ApplyOptions(DefaultPolicy, options)
  <1>1. /\ value # Null
        /\ \A field \in PolicyFields \ ListOptions : value[field] # Null
        /\ \A name \in ListOptions : \A rule \in value[name] : NullFree(name, rule)
        /\ policy # Invalid /\ (policy.allowed_tables # {} => value.restrict_tables)
        /\ ReadPolicy(value) = [policy EXCEPT !.tables = value.restrict_tables]
    BY DEF ReadPolicy
  <1>2. Typed(options, OptionNames)
    <2>1. \A name \in ListOptions : value[name] \subseteq WrittenRules(name) \union {Null}
      BY <1>1 DEF RawPolicy, Typed, PolicyFields, OptionNames
    <2>2. \A name \in ListOptions : CanonicalIdentities(name, value[name]) \subseteq WrittenRules(name)
      BY <1>1, <2>1, OpenWritten DEF CanonicalIdentities, NullFree
    <2>3. \A name \in OptionNames \ ListOptions : value[name] \in BOOLEAN \union {Null}
      BY <1>1 DEF RawPolicy, Typed, PolicyFields
    <2> QED BY <2>2, <2>3 DEF Typed
  <1>3. policy \in Policies
    BY <1>1, <1>2, DefaultIsPolicy, AppliedPolicy
  <1>4. value.restrict_tables \in BOOLEAN
    <2>1. "restrict_tables" \in PolicyFields \ ListOptions
      BY DEF PolicyFields, OptionNames, ListOptions, FunctionOptions
    <2> QED BY <1>1, <2>1 DEF RawPolicy, Typed
  <1> HIDE DEF policy
  <1> QED BY <1>1, <1>3, <1>4 DEF Policies, PolicyRecords

\* The canonical value of any policy is a well-typed setting that reads back as that very policy: no rule is
\* widened by an open field, and an empty allowed_tables stays apart from an absent one (options.cpp).
THEOREM RoundTrip ==
  ASSUME NEW policy \in Policies
  PROVE  /\ RawPolicy(PolicyValue(policy)) /\ ReadPolicy(PolicyValue(policy)) = policy
         /\ Canonical(PolicyValue(policy)) /\ policy # Invalid
  <1> DEFINE value == PolicyValue(policy)
             options == [name \in OptionNames |->
                           IF name \in ListOptions THEN CanonicalIdentities(name, value[name]) ELSE value[name]]
  <1>1. /\ policy \in PolicyRecords /\ (policy.allowed_tables # {} => policy.tables) /\ policy # Null
        /\ policy.defaults \in BOOLEAN /\ policy.tables \in BOOLEAN
    BY NullAssumption DEF Policies, PolicyRecords
  <1>2. /\ DOMAIN value = PolicyFields
        /\ value["use_default_functions"] = policy.defaults /\ value["restrict_tables"] = policy.tables
        /\ value.restrict_tables = policy.tables
        /\ \A name \in ListOptions : value[name] = policy[name] /\ value[name] \subseteq HeldRules(name)
    BY <1>1 DEF PolicyValue, PolicyRecords, PolicyFields, OptionNames, ListOptions, FunctionOptions
  <1>3. PolicyFields \ ListOptions = {"use_default_functions", "restrict_tables"}
    BY DEF PolicyFields, OptionNames, ListOptions, FunctionOptions
  <1>4. RawPolicy(value)
    <2>1. \A name \in ListOptions : value[name] \subseteq WrittenRules(name) \union {Null}
      BY <1>2, HeldDecodes
    <2>2. \A field \in PolicyFields \ ListOptions : value[field] \in BOOLEAN \union {Null}
      BY <1>1, <1>2, <1>3
    <2> QED BY <1>2, <2>1, <2>2 DEF RawPolicy, Typed
  <1>5. value # Null
    <2>1. value \in ValueRecords
      BY <1>1 DEF PolicyValue, ValueRecords, PolicyRecords
    <2> QED BY <2>1, NullAssumption
  <1>6. ~ \/ \E field \in PolicyFields \ ListOptions : value[field] = Null
          \/ \E name \in ListOptions : \E rule \in value[name] : ~NullFree(name, rule)
    BY <1>1, <1>2, <1>3, NullAssumption, HeldDecodes
  <1>7. \A name \in OptionNames : OptionOK(name, options[name])
    <2>1. ASSUME NEW name \in ListOptions PROVE OptionOK(name, options[name])
      <3>1. options[name] = {OpenRule(name, rule) : rule \in value[name]}
        BY DEF CanonicalIdentities, OptionNames
      <3>2. \A rule \in value[name] : RuleOK(name, OpenRule(name, rule))
        BY <1>2, HeldDecodes
      <3> QED BY <3>1, <3>2 DEF OptionOK
    <2>2. ASSUME NEW name \in OptionNames \ ListOptions PROVE OptionOK(name, options[name])
      <3>1. name = "use_default_functions"
        BY DEF OptionNames
      <3> QED BY <1>1, <1>2, <3>1, NullAssumption DEF OptionOK
    <2> QED BY <2>1, <2>2
  <1>8. \A name \in ListOptions : DecodeList(DefaultPolicy, options, name) = policy[name]
    <2> SUFFICES ASSUME NEW name \in ListOptions PROVE DecodeList(DefaultPolicy, options, name) = policy[name]
      OBVIOUS
    <2>1. options[name] = {OpenRule(name, rule) : rule \in policy[name]} /\ name \in DOMAIN options
      BY <1>2 DEF CanonicalIdentities, OptionNames
    <2>2. \A rule \in policy[name] : DecodeRule(name, OpenRule(name, rule)) = rule
      BY <1>2, HeldDecodes
    <2> HIDE DEF options
    <2>3. DecodeList(DefaultPolicy, options, name) = {DecodeRule(name, rule) : rule \in options[name]}
      BY <2>1 DEF DecodeList
    <2>4. {DecodeRule(name, rule) : rule \in options[name]} = policy[name]
      BY <2>1, <2>2
    <2> QED BY <2>3, <2>4
  <1>9. "use_default_functions" \in DOMAIN options /\ options["use_default_functions"] = policy.defaults
        /\ "allowed_tables" \in DOMAIN options /\ DOMAIN options = OptionNames
    BY <1>2 DEF OptionNames, ListOptions, FunctionOptions
  <1> DEFINE read == ApplyOptions(DefaultPolicy, options)
  <1>10. read = [defaults |-> policy.defaults, tables |-> TRUE,
                 allowed_functions |-> policy.allowed_functions, blocked_functions |-> policy.blocked_functions,
                 allowed_tables |-> policy.allowed_tables, blocked_tables |-> policy.blocked_tables]
    <2> HIDE DEF options
    <2>1. \A name \in DOMAIN options : OptionOK(name, options[name])
      BY <1>7, <1>9
    <2>2. (DefaultPolicy.tables \/ "allowed_tables" \in DOMAIN options) = TRUE
      BY <1>9
    <2> QED BY <1>8, <1>9, <2>1, <2>2 DEF ApplyOptions, ListOptions, FunctionOptions
  <1>11. read \in PolicyRecords /\ read # Invalid
    <2> HIDE DEF read
    <2>1. read \in PolicyRecords
      BY <1>1, <1>10 DEF PolicyRecords
    <2> QED BY <2>1, NullAssumption DEF Invalid
  <1>12. [read EXCEPT !.tables = policy.tables] = policy /\ (policy.tables \/ read.allowed_tables = {})
    <2> HIDE DEF read
    <2> QED BY <1>1, <1>10 DEF PolicyRecords
  <1>13. ReadPolicy(value) = policy
    <2>1. ReadPolicy(value) = IF read = Invalid \/ (~value.restrict_tables /\ read.allowed_tables # {})
                              THEN Invalid ELSE [read EXCEPT !.tables = value.restrict_tables]
      BY <1>5, <1>6 DEF ReadPolicy
    <2> HIDE DEF read, value
    <2> QED BY <1>2, <1>11, <1>12, <2>1
  <1> QED BY <1>1, <1>4, <1>13 DEF Canonical, Invalid
-----------------------------------------------------------------------------
(***************************************************************************)
(* The settings and the log.                                               *)
(***************************************************************************)

\* The built-in defaults are canonical.
LEMMA DefaultCanonical ==
  /\ RawPolicy(Default["policy"]) /\ Canonical(Default["policy"])
  /\ \A name \in Settings : HashOf(name, Default[name]) = Default[name]
  <1>1. Default["policy"] = PolicyValue(DefaultPolicy)
    BY DEF Default, Settings
  <1>2. RawPolicy(Default["policy"]) /\ Canonical(Default["policy"])
    BY <1>1, DefaultIsPolicy, RoundTrip
  <1> QED BY <1>2 DEF HashOf, Canonical

\* The invariant holds initially: every setting has its default and nothing is in flight.
LEMMA InitInv == Init => IInv
  <1> SUFFICES ASSUME Init PROVE IInv
    OBVIOUS
  <1>1. setting = Default /\ DOMAIN setting = Settings
    BY DEF Init, Default
  <1>2. \A c \in Conns : task[c] = Idle /\ task[c].stage = "idle" /\ task[c].name = "policy" /\ task[c].scope = "global"
    BY DEF Init, Idle, Task
  <1>3. TypeOK
    BY <1>1, <1>2 DEF Init, TypeOK, Stages, Settings
  <1>4. ChangesRecorded
    <2>1. \A name \in Settings : Tracked(name, Default[name])
      BY DEF Init, Tracked
    <2> QED BY <1>1, <1>2, <2>1, DefaultCanonical DEF ChangesRecorded
  <1> QED BY <1>1, <1>2, <1>3, <1>4, DefaultCanonical DEF IInv

\* What was tracked stays tracked: the log only grows, and a value leaves untracked only into the log.
LEMMA TrackedGrows ==
  ASSUME \/ UNCHANGED <<changes, untracked>>
         \/ \E change : /\ changes' = changes \union change
                        /\ untracked' = untracked \ change
         \/ \E more : changes' = changes /\ untracked' = untracked \union more
  PROVE  \A name, value : Tracked(name, value) => Tracked(name, value)'
  BY DEF Tracked

\* A step that leaves the settings alone and gives c a new task keeps the invariant if that task conforms to it.
LEMMA TaskStep ==
  ASSUME IInv, NEW c \in Conns, NEW new, UNCHANGED <<setting, native>>, locked' \in BOOLEAN, logging' \in BOOLEAN,
         task' = [task EXCEPT ![c] = new],
         \A name, value : Tracked(name, value) => Tracked(name, value)',
         /\ new.stage \in Stages /\ new.name \in Settings /\ new.scope \in {"global", "session"}
         /\ new.stage = "recorded" => new.scope = "global" /\ Tracked(new.name, new.value)'
         /\ new.name = "policy" /\ new.stage \in {"bound", "checked", "recorded"} => RawPolicy(new.value)
         /\ new.name = "policy" /\ new.stage = "recorded" => Canonical(new.value)
         /\ new.stage = "read" => new.value = Null \/ Tracked("policy", new.value)'
  PROVE  IInv'
  <1>1. DOMAIN task' = Conns /\ task'[c] = new /\ \A d \in Conns : d # c => task'[d] = task[d]
    BY DEF IInv, TypeOK
  <1>2. TypeOK'
    BY <1>1 DEF IInv, TypeOK
  <1>3. ChangesRecorded'
    BY <1>1 DEF IInv, ChangesRecorded
  <1>4. ASSUME NEW d \in Conns
        PROVE (/\ task[d].name = "policy" /\ task[d].stage \in {"bound", "checked", "recorded"} => RawPolicy(task[d].value)
               /\ task[d].name = "policy" /\ task[d].stage = "recorded" => Canonical(task[d].value)
               /\ task[d].stage = "read" => task[d].value = Null \/ Tracked("policy", task[d].value))'
    <2>1. CASE d = c
      BY <1>1, <2>1
    <2>2. CASE d # c
      BY <1>1, <2>2 DEF IInv
    <2> QED BY <2>1, <2>2
  <1> QED BY <1>2, <1>3, <1>4 DEF IInv

\* The same for a connection that becomes idle.
LEMMA IdleStep ==
  ASSUME IInv, NEW c \in Conns, UNCHANGED <<setting, locked, logging, changes, untracked, native>>,
         task' = [task EXCEPT ![c] = Idle]
  PROVE  IInv'
  <1>1. Idle.stage = "idle" /\ Idle.name = "policy" /\ Idle.scope = "global"
    BY DEF Idle, Task
  <1>2. \A name, value : Tracked(name, value) => Tracked(name, value)'
    BY TrackedGrows
  <1>3. locked' \in BOOLEAN /\ logging' \in BOOLEAN
    BY DEF IInv, TypeOK
  <1> QED BY <1>1, <1>2, <1>3, TaskStep DEF Stages, Settings

\* The callback: a refused value ends the statement, an accepted one is recorded in canonical form first.
LEMMA RecordStep ==
  ASSUME IInv, NEW c \in Conns, NEW value, LogSettingChange(c, value),
         UNCHANGED <<setting, locked, logging, native>>, task[c].scope = "global",
         task[c].name = "policy" => RawPolicy(value) /\ Canonical(value)
  PROVE  IInv'
  <1> DEFINE change == {<<task[c].name, value>>}
  <1>1. locked' \in BOOLEAN /\ logging' \in BOOLEAN /\ task[c].name \in Settings
    BY DEF IInv, TypeOK
  <1>2. CASE /\ task' = [task EXCEPT ![c] = Task("recorded", task[c].name, task[c].scope, value)]
             /\ changes' = IF logging THEN changes \union change ELSE changes
             /\ untracked' = IF logging THEN untracked \ change ELSE untracked \union (change \ changes)
    <2>1. \A name, v : Tracked(name, v) => Tracked(name, v)'
      BY <1>2, TrackedGrows
    <2>2. PICK new : new = Task("recorded", task[c].name, task[c].scope, value)
      OBVIOUS
    <2>3. /\ new.stage = "recorded" /\ new.name = task[c].name /\ new.scope = "global" /\ new.value = value
      BY <2>2 DEF Task
    <2>4. Tracked(new.name, new.value)'
      BY <1>2, <2>3 DEF Tracked
    <2> QED BY <1>1, <1>2, <2>1, <2>2, <2>3, <2>4, TaskStep DEF Stages
  <1>3. CASE task' = [task EXCEPT ![c] = Idle] /\ UNCHANGED <<changes, untracked>>
    BY <1>3, IdleStep
  <1> QED BY <1>2, <1>3 DEF LogSettingChange

\* Publishing: the value in force is the recorded, canonical one.
LEMMA PublishStep ==
  ASSUME IInv, NEW c \in Conns, SetOption(c)
  PROVE  IInv'
  <1>1. /\ task[c].stage = "recorded" /\ task[c].name \in Settings /\ Tracked(task[c].name, task[c].value)
        /\ task[c].name = "policy" => RawPolicy(task[c].value) /\ Canonical(task[c].value)
        /\ HashOf(task[c].name, task[c].value) = task[c].value
    BY DEF SetOption, IInv, TypeOK, ChangesRecorded, HashOf, Canonical
  <1>2. /\ setting' = [setting EXCEPT ![task[c].name] = task[c].value] /\ task' = [task EXCEPT ![c] = Idle]
        /\ native' = native \ {task[c].name} /\ UNCHANGED <<locked, logging, changes, untracked>>
    BY DEF SetOption
  <1>3. /\ DOMAIN setting' = Settings /\ setting'[task[c].name] = task[c].value
        /\ \A name \in Settings : name # task[c].name => setting'[name] = setting[name]
    BY <1>1, <1>2 DEF IInv, TypeOK
  <1>4. \A name, value : Tracked(name, value) <=> Tracked(name, value)'
    BY <1>2 DEF Tracked
  <1>5. /\ DOMAIN task' = Conns /\ task'[c] = Idle /\ Idle.stage = "idle" /\ Idle.name = "policy" /\ Idle.scope = "global"
        /\ \A d \in Conns : d # c => task'[d] = task[d]
    BY <1>2 DEF IInv, TypeOK, Idle, Task
  <1>6. TypeOK'
    BY <1>2, <1>3, <1>5 DEF IInv, TypeOK, Stages, Settings
  <1>7. \A name \in Settings : Tracked(name, HashOf(name, setting'[name]))
    BY <1>1, <1>3 DEF IInv, ChangesRecorded
  <1>8. ChangesRecorded'
    BY <1>4, <1>5, <1>7 DEF IInv, ChangesRecorded, HashOf
  <1>9. RawPolicy(setting'["policy"]) /\ ("policy" \in native' \/ Canonical(setting'["policy"]))
    <2>1. CASE task[c].name = "policy"
      BY <1>1, <1>3, <2>1
    <2>2. CASE task[c].name # "policy"
      BY <1>2, <1>3, <2>2 DEF IInv, Settings
    <2> QED BY <2>1, <2>2
  <1>10. ASSUME NEW d \in Conns
         PROVE (/\ task[d].name = "policy" /\ task[d].stage \in {"bound", "checked", "recorded"} => RawPolicy(task[d].value)
                /\ task[d].name = "policy" /\ task[d].stage = "recorded" => Canonical(task[d].value)
                /\ task[d].stage = "read" => task[d].value = Null \/ Tracked("policy", task[d].value))'
    <2>1. CASE d = c
      BY <1>5, <2>1
    <2>2. CASE d # c
      BY <1>4, <1>5, <2>2 DEF IInv
    <2> QED BY <2>1, <2>2
  <1> QED BY <1>6, <1>8, <1>9, <1>10 DEF IInv

\* Every step keeps the invariant.
LEMMA NextInv == IInv /\ [Next]_vars => IInv'
  <1> SUFFICES ASSUME IInv, [Next]_vars PROVE IInv'
    OBVIOUS
  <1>0. locked \in BOOLEAN /\ logging \in BOOLEAN
    BY DEF IInv, TypeOK
  <1>1. ASSUME NEW c \in Conns, BindConfigure(c) PROVE IInv'
    <2>1. PICK request \in Requests :
            LET policy == ApplyArguments(DefaultPolicy, request)
            IN  policy # Invalid /\ task' = [task EXCEPT ![c] = Task("bound", "policy", "global", PolicyValue(policy))]
      BY <1>1 DEF BindConfigure
    <2>2. ApplyArguments(DefaultPolicy, request) \in Policies
      BY <2>1, InputAssumption, DefaultIsPolicy, AppliedPolicy DEF ApplyArguments
    <2>3. PICK new : new = Task("bound", "policy", "global", PolicyValue(ApplyArguments(DefaultPolicy, request)))
      OBVIOUS
    <2>4. new.stage = "bound" /\ new.name = "policy" /\ new.scope = "global" /\ RawPolicy(new.value)
      BY <2>2, <2>3, RoundTrip DEF Task
    <2>5. UNCHANGED <<setting, locked, logging, changes, untracked, native>>
      BY <1>1 DEF BindConfigure
    <2>6. \A name, value : Tracked(name, value) => Tracked(name, value)'
      BY <2>5, TrackedGrows
    <2> QED BY <1>0, <2>1, <2>3, <2>4, <2>5, <2>6, TaskStep DEF Stages, Settings
  <1>2. ASSUME NEW c \in Conns, BeginSet(c) PROVE IInv'
    <2>1. PICK name \in Settings, scope \in {"global", "session"} :
            \E value \in (IF name = "policy" THEN RawPolicies ELSE RawSwitches) \union {Default[name]} :
              task' = [task EXCEPT ![c] = Task("bound", name, scope, value)]
      BY <1>2 DEF BeginSet
    <2>2. PICK value \in (IF name = "policy" THEN RawPolicies ELSE RawSwitches) \union {Default[name]} :
            task' = [task EXCEPT ![c] = Task("bound", name, scope, value)]
      BY <2>1
    <2>3. PICK new : new = Task("bound", name, scope, value)
      OBVIOUS
    <2>4. new.stage = "bound" /\ new.name = name /\ new.scope = scope /\ (name = "policy" => RawPolicy(new.value))
      BY <2>2, <2>3, InputAssumption, DefaultCanonical DEF Task
    <2>5. UNCHANGED <<setting, locked, logging, changes, untracked, native>>
      BY <1>2 DEF BeginSet
    <2>6. \A n, v : Tracked(n, v) => Tracked(n, v)'
      BY <2>5, TrackedGrows
    <2> QED BY <1>0, <2>2, <2>3, <2>4, <2>5, <2>6, TaskStep DEF Stages
  <1>3. ASSUME NEW c \in Conns, CheckLock(c) PROVE IInv'
    <2>1. /\ UNCHANGED <<setting, locked, logging, changes, untracked, native>> /\ task[c].stage = "bound"
          /\ task[c].name \in Settings /\ task[c].scope \in {"global", "session"}
          /\ task[c].name = "policy" => RawPolicy(task[c].value)
      BY <1>3 DEF CheckLock, IInv, TypeOK
    <2>2. CASE locked /\ task[c].name \notin Exempt
      BY <1>3, <2>1, <2>2, IdleStep DEF CheckLock
    <2>3. CASE ~(locked /\ task[c].name \notin Exempt)
      <3>1. PICK new : new = Task("checked", task[c].name, task[c].scope, task[c].value)
        OBVIOUS
      <3>2. new.stage = "checked" /\ new.name = task[c].name /\ new.scope = task[c].scope /\ new.value = task[c].value
        BY <3>1 DEF Task
      <3>3. task' = [task EXCEPT ![c] = new]
        BY <1>3, <2>3, <3>1 DEF CheckLock
      <3>4. \A name, value : Tracked(name, value) => Tracked(name, value)'
        BY <2>1, TrackedGrows
      <3> QED BY <1>0, <2>1, <3>2, <3>3, <3>4, TaskStep DEF Stages
    <2> QED BY <2>2, <2>3
  <1>4. ASSUME NEW c \in Conns, RunCallback(c) PROVE IInv'
    <2>1. /\ UNCHANGED <<setting, locked, logging, native>> /\ task[c].stage = "checked"
          /\ task[c].name = "policy" => RawPolicy(task[c].value)
          /\ task[c].scope \in {"global", "session"}
      BY <1>4 DEF RunCallback, IInv, TypeOK
    <2>2. CASE Refuse(c)
      BY <2>1, <2>2, IdleStep DEF Refuse
    <2>3. CASE task[c].name = "policy" /\ ~Refuse(c)
      <3>1. PICK policy : policy = ReadPolicy(task[c].value)
        OBVIOUS
      <3>2. policy # Invalid /\ task[c].scope # "session" /\ LogSettingChange(c, PolicyValue(policy))
        BY <1>4, <2>3, <3>1 DEF RunCallback, SetPolicy
      <3>3. policy \in Policies
        BY <2>1, <2>3, <3>1, <3>2, ReadIsPolicy
      <3>4. PICK value : value = PolicyValue(policy)
        OBVIOUS
      <3>5. RawPolicy(value) /\ Canonical(value) /\ LogSettingChange(c, value)
        BY <3>2, <3>3, <3>4, RoundTrip
      <3> QED BY <2>1, <3>2, <3>5, RecordStep
    <2>4. CASE task[c].name # "policy" /\ ~Refuse(c)
      <3>1. PICK value : value = task[c].value
        OBVIOUS
      <3>2. task[c].scope # "session" /\ LogSettingChange(c, value)
        BY <1>4, <2>4, <3>1 DEF RunCallback, SetLogOnly
      <3> QED BY <2>1, <2>4, <3>2, RecordStep
    <2> QED BY <2>2, <2>3, <2>4
  <1>5. ASSUME NEW c \in Conns, ReadCeiling(c) PROVE IInv'
    <2>1. PICK new : new = Task("read", "policy", "global",
                                IF GlobalPolicy = Invalid THEN Null ELSE PolicyValue(GlobalPolicy))
      OBVIOUS
    <2>2. task' = [task EXCEPT ![c] = new] /\ UNCHANGED <<setting, locked, logging, changes, untracked, native>>
      BY <1>5, <2>1 DEF ReadCeiling
    <2>3. new.stage = "read" /\ new.name = "policy" /\ new.scope = "global"
      BY <2>1 DEF Task
    <2>4. GlobalPolicy # Invalid => Tracked("policy", PolicyValue(GlobalPolicy))
      BY DEF IInv, ChangesRecorded, HashOf, GlobalPolicy, Settings
    <2>5. new.value = Null \/ Tracked("policy", new.value)
      BY <2>1, <2>4 DEF Task
    <2>6. \A name, value : Tracked(name, value) => Tracked(name, value)'
      BY <2>2, TrackedGrows
    <2> QED BY <1>0, <2>2, <2>3, <2>5, <2>6, TaskStep DEF Stages, Settings
  <1>6. ASSUME NEW c \in Conns, SetOption(c) PROVE IInv'
    BY <1>6, PublishStep
  <1>7. ASSUME NEW c \in Conns, RecordDecision(c) PROVE IInv'
    BY <1>7, IdleStep DEF RecordDecision
  <1>8. CASE LockConfiguration \/ SwitchLogging \/ UNCHANGED vars
    <2>1. UNCHANGED <<setting, task, changes, untracked, native>> /\ locked' \in BOOLEAN /\ logging' \in BOOLEAN
      BY <1>0, <1>8 DEF LockConfiguration, SwitchLogging, vars
    <2>2. \A name, value : Tracked(name, value) => Tracked(name, value)'
      BY <2>1, TrackedGrows
    <2>3. TypeOK'
      BY <2>1 DEF IInv, TypeOK
    <2>4. ChangesRecorded'
      BY <2>1, <2>2 DEF IInv, ChangesRecorded
    <2> QED BY <2>1, <2>2, <2>3, <2>4 DEF IInv
  <1>9. CASE NativeWrite
    <2>1. PICK name \in Settings : \E value \in IF name = "policy" THEN RawPolicies ELSE RawSwitches :
            /\ setting' = [setting EXCEPT ![name] = value]
            /\ untracked' = untracked \union ({<<name, HashOf(name, value)>>} \ changes)
            /\ native' = native \union {name}
      BY <1>9 DEF NativeWrite
    <2>2. PICK value \in IF name = "policy" THEN RawPolicies ELSE RawSwitches :
            /\ setting' = [setting EXCEPT ![name] = value]
            /\ untracked' = untracked \union ({<<name, HashOf(name, value)>>} \ changes)
            /\ native' = native \union {name}
      BY <2>1
    <2>3. UNCHANGED <<locked, logging, task, changes>>
      BY <1>9 DEF NativeWrite
    <2>4. \A n, v : Tracked(n, v) => Tracked(n, v)'
      BY <2>2, <2>3, TrackedGrows
    <2>5. /\ DOMAIN setting' = Settings /\ setting'[name] = value
          /\ \A n \in Settings : n # name => setting'[n] = setting[n]
      BY <2>2 DEF IInv, TypeOK
    <2>6. TypeOK'
      BY <2>3, <2>5 DEF IInv, TypeOK
    <2>7. Tracked(name, HashOf(name, value))'
      BY <2>2, <2>3 DEF Tracked
    <2>8. ASSUME NEW n \in Settings PROVE Tracked(n, HashOf(n, setting[n]))'
      <3>1. CASE n = name
        BY <2>5, <2>7, <3>1 DEF HashOf
      <3>2. CASE n # name
        <4>1. Tracked(n, HashOf(n, setting[n]))
          BY DEF IInv, ChangesRecorded
        <4>2. setting'[n] = setting[n]
          BY <2>5, <3>2
        <4> QED BY <2>4, <4>1, <4>2 DEF HashOf
      <3> QED BY <3>1, <3>2
    <2>9. ChangesRecorded'
      BY <2>3, <2>4, <2>8 DEF IInv, ChangesRecorded
    <2>10. RawPolicy(setting'["policy"]) /\ ("policy" \in native' \/ Canonical(setting'["policy"]))
      BY <2>2, <2>5, InputAssumption DEF IInv, Settings
    <2> QED BY <2>3, <2>4, <2>6, <2>9, <2>10 DEF IInv
  <1> QED BY <1>1, <1>2, <1>3, <1>4, <1>5, <1>6, <1>7, <1>8, <1>9 DEF Next, Proceed

\* However connections change and read the settings at the same time, and whatever the storage refuses, the
\* invariant holds.
THEOREM Invariant == Spec => []IInv
  BY InitInv, NextInv, PTL DEF Spec

\* The log is never behind the settings: what is in force is the default, has its *_changed record, or could leave
\* none.
THEOREM LogNeverBehind == Spec => []ChangesRecorded
  <1>1. IInv => ChangesRecorded
    BY DEF IInv
  <1> QED BY <1>1, Invariant, PTL

\* The policy hash on a decision leads to a policy_changed record written before it, unless none could be written.
THEOREM DecisionsTraceable == Spec => HashTraceable
  <1>1. IInv => \A c \in Conns : RecordDecision(c) => task[c].value = Null \/ Tracked("policy", task[c].value)
    BY DEF IInv, RecordDecision
  <1>2. IInv /\ [Next]_vars =>
          [\A c \in Conns : RecordDecision(c) => task[c].value = Null \/ Tracked("policy", task[c].value)]_vars
    BY <1>1
  <1> QED BY <1>2, Invariant, PTL DEF Spec, HashTraceable

\* The policy in force is canonical unless native code wrote it, as is every one recorded and about to be published; what
\* a statement publishes over a native write is canonical again.
THEOREM SettingsCanonical == Spec => []SettingCanonical
  <1>1. ASSUME NEW request \in Requests, ApplyArguments(DefaultPolicy, request) # Invalid
        PROVE  ReadPolicy(PolicyValue(ApplyArguments(DefaultPolicy, request))) = ApplyArguments(DefaultPolicy, request)
    <2>1. ApplyArguments(DefaultPolicy, request) \in Policies
      BY <1>1, InputAssumption, DefaultIsPolicy, AppliedPolicy DEF ApplyArguments
    <2> QED BY <2>1, RoundTrip
  <1>2. IInv => SettingCanonical
    BY <1>1 DEF IInv, SettingCanonical, RequestsReadBack
  <1> QED BY <1>2, Invariant, PTL

\* Once locked and settled, no statement changes a setting that is not exempt, and it stays settled.
THEOREM LockedStaysFrozen == Spec => Frozen
  <1> DEFINE Kept == locked /\ Settled /\ ~NativeWrite =>
                       Settled' /\ \A name \in Settings \ Exempt : setting'[name] = setting[name]
  <1>1. IInv /\ [Next]_vars => [Kept]_vars
    <2> SUFFICES ASSUME IInv, Next, locked, Settled, ~NativeWrite
                 PROVE  Settled' /\ \A name \in Settings \ Exempt : setting'[name] = setting[name]
      OBVIOUS
    <2>0. DOMAIN task = Conns /\ DOMAIN setting = Settings
      BY DEF IInv, TypeOK
    <2>1. ASSUME NEW c \in Conns, NEW new, task' = [task EXCEPT ![c] = new],
                 new.stage \in {"checked", "recorded"} => new.name \in Exempt
          PROVE  Settled'
      BY <2>0, <2>1 DEF Settled
    <2>2. ASSUME NEW c \in Conns, task' = [task EXCEPT ![c] = Idle]
          PROVE  Settled'
      BY <2>1, <2>2 DEF Idle, Task
    <2>3. ASSUME NEW c \in Conns, BindConfigure(c) \/ BeginSet(c) \/ ReadCeiling(c)
          PROVE  Settled' /\ setting' = setting
      <3>0. \A stage, name, scope, value : Task(stage, name, scope, value).stage = stage
        BY DEF Task
      <3>1. PICK stage, name, scope, value :
              stage \in {"bound", "read"} /\ task' = [task EXCEPT ![c] = Task(stage, name, scope, value)]
        <4>1. \E value : BindConfigure(c) => task' = [task EXCEPT ![c] = Task("bound", "policy", "global", value)]
          BY DEF BindConfigure
        <4>2. \E name, scope, value : BeginSet(c) => task' = [task EXCEPT ![c] = Task("bound", name, scope, value)]
          BY DEF BeginSet
        <4>3. \E value : ReadCeiling(c) => task' = [task EXCEPT ![c] = Task("read", "policy", "global", value)]
          BY DEF ReadCeiling
        <4> QED BY <2>3, <4>1, <4>2, <4>3
      <3>2. PICK new : new = Task(stage, name, scope, value)
        OBVIOUS
      <3>3. task' = [task EXCEPT ![c] = new] /\ new.stage \in {"bound", "read"}
        BY <3>0, <3>1, <3>2
      <3>4. Settled'
        BY <2>1, <3>3
      <3> QED BY <2>3, <3>4 DEF BindConfigure, BeginSet, ReadCeiling
    <2>4. ASSUME NEW c \in Conns, CheckLock(c)
          PROVE  Settled' /\ setting' = setting
      <3>1. CASE task[c].name \notin Exempt
        BY <2>2, <2>4, <3>1 DEF CheckLock
      <3>2. CASE task[c].name \in Exempt
        <4>1. PICK new : new = Task("checked", task[c].name, task[c].scope, task[c].value)
          OBVIOUS
        <4>2. new.name \in Exempt /\ task' = [task EXCEPT ![c] = new]
          BY <2>4, <3>2, <4>1 DEF CheckLock, Task
        <4> QED BY <2>1, <2>4, <4>2 DEF CheckLock
      <3> QED BY <3>1, <3>2
    <2>5. ASSUME NEW c \in Conns, RunCallback(c)
          PROVE  Settled' /\ setting' = setting
      <3>1. task[c].name \in Exempt /\ setting' = setting
        BY <2>5 DEF RunCallback, Settled
      <3>2. CASE task' = [task EXCEPT ![c] = Idle]
        BY <2>2, <3>1, <3>2
      <3>3. CASE \E value : task' = [task EXCEPT ![c] = Task("recorded", task[c].name, task[c].scope, value)]
        <4>1. PICK value : task' = [task EXCEPT ![c] = Task("recorded", task[c].name, task[c].scope, value)]
          BY <3>3
        <4>2. PICK new : new = Task("recorded", task[c].name, task[c].scope, value)
          OBVIOUS
        <4>3. new.name \in Exempt
          BY <3>1, <4>2 DEF Task
        <4> QED BY <2>1, <3>1, <4>1, <4>2, <4>3
      <3>4. Refuse(c) \/ \E value : LogSettingChange(c, value)
        BY <2>5 DEF RunCallback, SetPolicy, SetLogOnly
      <3>5. Refuse(c) => task' = [task EXCEPT ![c] = Idle]
        BY DEF Refuse
      <3>6. ASSUME NEW value, LogSettingChange(c, value)
            PROVE  \/ task' = [task EXCEPT ![c] = Idle]
                   \/ task' = [task EXCEPT ![c] = Task("recorded", task[c].name, task[c].scope, value)]
        BY <3>6 DEF LogSettingChange
      <3> QED BY <3>2, <3>3, <3>4, <3>5, <3>6
    <2>6. ASSUME NEW c \in Conns, SetOption(c)
          PROVE  Settled' /\ \A name \in Settings \ Exempt : setting'[name] = setting[name]
      <3>1. task[c].name \in Exempt
        BY <2>6 DEF SetOption, Settled
      <3> QED BY <2>0, <2>2, <2>6, <3>1 DEF SetOption
    <2>7. ASSUME NEW c \in Conns, RecordDecision(c)
          PROVE  Settled' /\ setting' = setting
      BY <2>2, <2>7 DEF RecordDecision
    <2>8. CASE LockConfiguration \/ SwitchLogging
      BY <2>8 DEF LockConfiguration, SwitchLogging, Settled
    <2> QED BY <2>3, <2>4, <2>5, <2>6, <2>7, <2>8 DEF Next, Proceed
  <1> QED BY <1>1, Invariant, PTL DEF Spec, Frozen
=============================================================================
