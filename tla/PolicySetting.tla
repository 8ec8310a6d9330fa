--------------------------- MODULE PolicySetting ---------------------------
(***************************************************************************)
(* The database-wide settings gatekeeper_policy and gatekeeper_log_only,   *)
(* and the connections that change and read them at the same time          *)
(* (policy_setting.cpp, options.cpp, the setting callbacks of              *)
(* enforcement.cpp and the settings' side of audit.cpp).                   *)
(*                                                                         *)
(* A change is not one step.  CALL gatekeeper_configure and the engine's   *)
(* SET and RESET each check lock_configuration, run the callback, which    *)
(* canonicalises the value and writes the *_changed record, and only then  *)
(* publish it; another connection may act between any two of these.        *)
(* gatekeeper_validate likewise reads the policy in one step and records   *)
(* its decision, naming that policy, in a later one.                       *)
(*                                                                         *)
(* A rule's schema_path and leaf are one name, "object": options.cpp       *)
(* decodes both the same way.  A policy hash stands as the canonical value *)
(* it digests, so hash collisions are left out.                            *)
(***************************************************************************)
EXTENDS Naturals

CONSTANTS
  Conns,          \* connections of the database
  Null,           \* SQL NULL, and the absence of a value
  Fold,           \* the ASCII case folding of the names in use (Lower)
  Requests,       \* argument lists given to gatekeeper_configure and gatekeeper_validate
  RawPolicies,    \* values given to SET gatekeeper_policy, or written natively
  RawSwitches,    \* values given to SET gatekeeper_log_only, or written natively
  Exempt,         \* settings the host lists in allowed_configs
  SinkMayFail     \* whether the log storage may refuse a record

Settings == {"policy", "log_only"}

ASSUME SwitchAssumption == SinkMayFail \in BOOLEAN
ASSUME ExemptAssumption == Exempt \subseteq Settings

\* Folding a folded name changes nothing, and folds no name to the empty one (Lower maps single characters).
ASSUME FoldAssumption ==
  /\ \A n \in DOMAIN Fold : Fold[n] \in DOMAIN Fold /\ Fold[Fold[n]] = Fold[n]
  /\ "" \notin DOMAIN Fold
-----------------------------------------------------------------------------
(***************************************************************************)
(* Options: what options.cpp decodes and encodes.                          *)
(***************************************************************************)
FunctionOptions == {"allowed_functions", "blocked_functions"}
ListOptions == FunctionOptions \union {"allowed_tables", "blocked_tables"}
OptionNames == ListOptions \union {"use_default_functions"}
PolicyFields == OptionNames \union {"restrict_tables"}

FunctionKinds == {"scalar", "aggregate", "table", "macro", "table_macro", "window"}

\* A rule as it may be written, any part of it NULL or empty.
Names == DOMAIN Fold
WrittenRules(name) ==
  IF name \in FunctionOptions
  THEN [catalog : Names \union {Null, ""}, object : Names \union {Null, ""},
        type : FunctionKinds \union {Null, "", "unsupported"}]
  ELSE [catalog : Names \union {Null, ""}, object : Names \union {Null, ""}]

\* Values of the types the engine's STRUCT and BOOLEAN checks let through, with NULL anywhere.  A NULL list and
\* a list that holds NULL are refused alike: both are written {Null}.
Typed(values, fields) ==
  /\ DOMAIN values \subseteq fields
  /\ \A field \in DOMAIN values :
       IF field \in ListOptions
       THEN values[field] \subseteq WrittenRules(field) \union {Null} ELSE values[field] \in BOOLEAN \union {Null}

\* What a policy holds, the policies, and the canonical setting values.
Folded == {name \in Names : Fold[name] = name}
HeldRules(name) ==
  IF name \in FunctionOptions
  THEN [catalog : Folded \union {""}, object : Folded, type : FunctionKinds \union {""}]
  ELSE [catalog : Folded \union {""}, object : Folded]
PolicyRecords ==
  [defaults : BOOLEAN, tables : BOOLEAN,
   allowed_functions : SUBSET HeldRules("allowed_functions"), blocked_functions : SUBSET HeldRules("blocked_functions"),
   allowed_tables : SUBSET HeldRules("allowed_tables"), blocked_tables : SUBSET HeldRules("blocked_tables")]
ValueRecords ==
  [use_default_functions : BOOLEAN, restrict_tables : BOOLEAN,
   allowed_functions : SUBSET HeldRules("allowed_functions"), blocked_functions : SUBSET HeldRules("blocked_functions"),
   allowed_tables : SUBSET HeldRules("allowed_tables"), blocked_tables : SUBSET HeldRules("blocked_tables")]
Policies == {policy \in PolicyRecords : policy.allowed_tables # {} => policy.tables}

\* NULL is no value of any of these types.
ASSUME NullAssumption ==
  /\ Null \notin BOOLEAN /\ Null \notin Names \union FunctionKinds \union {"", "unsupported"}
  /\ \A name \in ListOptions : Null \notin WrittenRules(name)
  /\ Null \notin PolicyRecords \union ValueRecords

\* A value of the setting's declared type.
RawPolicy(value) == value = Null \/ (DOMAIN value = PolicyFields /\ Typed(value, PolicyFields))

\* The inputs are typed, as the engine guarantees before any callback runs.
ASSUME InputAssumption ==
  /\ \A request \in Requests : Typed(request.options, OptionNames)
  /\ \A value \in RawPolicies : RawPolicy(value)

\* No policy: decoding threw std::invalid_argument.
Invalid == Null

\* A Policy as it is constructed.
DefaultPolicy == [defaults |-> TRUE, tables |-> FALSE, allowed_functions |-> {}, blocked_functions |-> {},
                  allowed_tables |-> {}, blocked_tables |-> {}]

\* A rule the caller may write: an object, and a catalog and (for functions) a kind that are named or absent.
RuleOK(name, rule) ==
  /\ rule # Null
  /\ rule.object \in Names
  /\ rule.catalog = Null \/ rule.catalog \in Names
  /\ name \in FunctionOptions => rule.type = Null \/ rule.type \in FunctionKinds

\* The rule as a policy holds it: folded, with the empty string for a field the caller left open.
DecodeRule(name, rule) ==
  LET catalog == IF rule.catalog = Null THEN "" ELSE Fold[rule.catalog]
  IN  IF name \in FunctionOptions
      THEN [catalog |-> catalog, object |-> Fold[rule.object], type |-> IF rule.type = Null THEN "" ELSE rule.type]
      ELSE [catalog |-> catalog, object |-> Fold[rule.object]]

OptionOK(name, value) ==
  IF name \in ListOptions THEN \A rule \in value : RuleOK(name, rule) ELSE value # Null

\* A list option that is given replaces the policy's list, one that is not leaves it.
DecodeList(policy, options, name) ==
  IF name \in DOMAIN options THEN {DecodeRule(name, rule) : rule \in options[name]} ELSE policy[name]

\* allowed_tables turns table restriction on even when the list is empty.
ApplyOptions(policy, options) ==
  IF \A name \in DOMAIN options : OptionOK(name, options[name])
  THEN [defaults |-> IF "use_default_functions" \in DOMAIN options
                     THEN options["use_default_functions"] ELSE policy.defaults,
        tables |-> policy.tables \/ "allowed_tables" \in DOMAIN options,
        allowed_functions |-> DecodeList(policy, options, "allowed_functions"),
        blocked_functions |-> DecodeList(policy, options, "blocked_functions"),
        allowed_tables |-> DecodeList(policy, options, "allowed_tables"),
        blocked_tables |-> DecodeList(policy, options, "blocked_tables")]
  ELSE Invalid

\* Arguments are typed options, or one json document that decodes to the same options, never both.
ApplyArguments(policy, request) ==
  IF request.accepted THEN ApplyOptions(policy, request.options) ELSE Invalid

\* The canonical setting value, NULL-free at every depth: an open catalog or type stays the empty string.
PolicyValue(policy) ==
  [use_default_functions |-> policy.defaults,
   allowed_functions |-> policy.allowed_functions, blocked_functions |-> policy.blocked_functions,
   allowed_tables |-> policy.allowed_tables, blocked_tables |-> policy.blocked_tables,
   restrict_tables |-> policy.tables]

\* A NULL inside a canonical list is a field DuckDB's STRUCT cast dropped.
NullFree(name, rule) ==
  /\ rule # Null
  /\ rule.object # Null /\ rule.catalog # Null
  /\ name \in FunctionOptions => rule.type # Null

\* A canonical rule as a request would spell it: an open field is NULL.
Open(field) == IF field = "" THEN Null ELSE field
OpenRule(name, rule) ==
  IF name \in FunctionOptions
  THEN [catalog |-> Open(rule.catalog), object |-> rule.object, type |-> Open(rule.type)]
  ELSE [catalog |-> Open(rule.catalog), object |-> rule.object]

CanonicalIdentities(name, rules) == {OpenRule(name, rule) : rule \in rules}

ReadPolicy(value) ==
  IF \/ value = Null
     \/ \E field \in PolicyFields \ ListOptions : value[field] = Null
     \/ \E name \in ListOptions : \E rule \in value[name] : ~NullFree(name, rule)
  THEN Invalid
  ELSE LET options == [name \in OptionNames |->
                         IF name \in ListOptions THEN CanonicalIdentities(name, value[name]) ELSE value[name]]
           policy == ApplyOptions(DefaultPolicy, options)
       IN  IF policy = Invalid \/ (~value.restrict_tables /\ policy.allowed_tables # {})
           THEN Invalid
           ELSE [policy EXCEPT !.tables = value.restrict_tables]
-----------------------------------------------------------------------------
VARIABLES
  setting,    \* the value of each setting in DBConfig
  locked,     \* lock_configuration
  logging,    \* whether the database logger keeps Gatekeeper records at INFO
  task,       \* what each connection is in the middle of
  changes,    \* the *_changed records in the log: setting and new value; and the defaults, which need none
  untracked,  \* values no record tells of: logging was off when they were set, or native code wrote them
  native      \* history: the settings whose value native code wrote

vars == <<setting, locked, logging, task, changes, untracked, native>>

Default == [name \in Settings |-> IF name = "policy" THEN PolicyValue(DefaultPolicy) ELSE "false"]

\* A connection's task: the stage of its statement, the setting it changes, in which scope, and the value.
Task(stage, name, scope, value) == [stage |-> stage, name |-> name, scope |-> scope, value |-> value]
Idle == Task("idle", "policy", "global", Null)

\* What a record names a setting's value by: the canonical form of a policy that can be read.
HashOf(name, value) ==
  LET policy == ReadPolicy(value)
  IN  IF name = "policy" /\ policy # Invalid THEN PolicyValue(policy) ELSE value

\* The value is the setting's default, is recorded, or is known to have come without a record.
Tracked(name, value) == <<name, value>> \in changes \union untracked

Init ==
  /\ setting = Default
  /\ locked = FALSE
  /\ logging \in BOOLEAN
  /\ task = [c \in Conns |-> Idle]
  /\ changes = {<<name, Default[name]>> : name \in Settings} /\ untracked = {} /\ native = {}
-----------------------------------------------------------------------------
(***************************************************************************)
(* Changing a setting.                                                     *)
(***************************************************************************)

\* CALL gatekeeper_configure(...): the bind decodes the arguments over the built-in defaults; bad ones end it.
BindConfigure(c) ==
  /\ task[c] = Idle
  /\ \E request \in Requests :
       LET policy == ApplyArguments(DefaultPolicy, request)
       IN  /\ policy # Invalid
           /\ task' = [task EXCEPT ![c] = Task("bound", "policy", "global", PolicyValue(policy))]
  /\ UNCHANGED <<setting, locked, logging, changes, untracked, native>>

\* SET, or RESET with the default, of either setting, in a scope the statement names.
BeginSet(c) ==
  /\ task[c] = Idle
  /\ \E name \in Settings, scope \in {"global", "session"} :
       \E value \in (IF name = "policy" THEN RawPolicies ELSE RawSwitches) \union {Default[name]} :
         task' = [task EXCEPT ![c] = Task("bound", name, scope, value)]
  /\ UNCHANGED <<setting, locked, logging, changes, untracked, native>>

\* CheckLock variant: the lock is not consulted.
CheckLockSkipped(c) ==
  /\ task[c].stage = "bound"
  /\ task' = [task EXCEPT ![c] = Task("checked", task[c].name, task[c].scope, task[c].value)]
  /\ UNCHANGED <<setting, locked, logging, changes, untracked, native>>

\* DBConfig::CheckLock throws unless the setting is exempt.
CheckLock(c) ==
  /\ task[c].stage = "bound"
  /\ task' = [task EXCEPT ![c] = IF locked /\ task[c].name \notin Exempt
                                 THEN Idle ELSE Task("checked", task[c].name, task[c].scope, task[c].value)]
  /\ UNCHANGED <<setting, locked, logging, changes, untracked, native>>

\* LogSettingChange variant: a record the storage refuses is dropped and the change goes on.
LogSettingChangeGuarded(c, value) ==
  /\ task' = [task EXCEPT ![c] = Task("recorded", task[c].name, task[c].scope, value)]
  /\ \/ changes' = IF logging THEN changes \union {<<task[c].name, value>>} ELSE changes
     \/ SinkMayFail /\ UNCHANGED changes
  /\ untracked' = IF logging THEN untracked ELSE untracked \union {<<task[c].name, value>>}

\* The *_changed record of c's value, if it is kept; a storage that refuses it ends the statement.
LogSettingChange(c, value) ==
  \/ LET change == {<<task[c].name, value>>}
     IN  /\ task' = [task EXCEPT ![c] = Task("recorded", task[c].name, task[c].scope, value)]
         /\ changes' = IF logging THEN changes \union change ELSE changes
         /\ untracked' = IF logging THEN untracked \ change ELSE untracked \union (change \ changes)
  \/ /\ SinkMayFail /\ logging
     /\ task' = [task EXCEPT ![c] = Idle]
     /\ UNCHANGED <<changes, untracked>>

\* A callback that throws ends the statement with nothing changed.
Refuse(c) == task' = [task EXCEPT ![c] = Idle] /\ UNCHANGED <<changes, untracked>>

\* SetPolicy variant: the value is checked but stored as it was given.
SetPolicyVerbatim(c) ==
  IF task[c].scope = "session" \/ ReadPolicy(task[c].value) = Invalid
  THEN Refuse(c) ELSE LogSettingChange(c, task[c].value)

\* The callback of gatekeeper_policy: global scope only, a readable value only, stored in canonical form.
SetPolicy(c) ==
  LET policy == ReadPolicy(task[c].value)
  IN  IF task[c].scope = "session" \/ policy = Invalid
      THEN Refuse(c) ELSE LogSettingChange(c, PolicyValue(policy))

\* The callback of gatekeeper_log_only: global scope only, and not NULL.
SetLogOnly(c) ==
  IF task[c].scope = "session" \/ task[c].value = Null
  THEN Refuse(c) ELSE LogSettingChange(c, task[c].value)

RunCallback(c) ==
  /\ task[c].stage = "checked"
  /\ IF task[c].name = "policy" THEN SetPolicy(c) ELSE SetLogOnly(c)
  /\ UNCHANGED <<setting, locked, logging, native>>

\* DBConfig::SetOption after the callback returned: the value is in force.
SetOption(c) ==
  /\ task[c].stage = "recorded"
  /\ setting' = [setting EXCEPT ![task[c].name] = task[c].value]
  /\ task' = [task EXCEPT ![c] = Idle]
  /\ native' = native \ {task[c].name}
  /\ UNCHANGED <<locked, logging, changes, untracked>>
-----------------------------------------------------------------------------
(***************************************************************************)
(* gatekeeper_validate, and any other reader of the policy.                *)
(***************************************************************************)

\* GlobalPolicy: the setting is decoded again on every read, since native code can bypass the callback.
GlobalPolicy == ReadPolicy(setting["policy"])

\* The policy is read when the statement executes, never when it binds; its hash is what the record will name.
ReadCeiling(c) ==
  /\ task[c] = Idle
  /\ task' = [task EXCEPT ![c] = Task("read", "policy", "global",
                                      IF GlobalPolicy = Invalid THEN Null ELSE PolicyValue(GlobalPolicy))]
  /\ UNCHANGED <<setting, locked, logging, changes, untracked, native>>

\* Decide writes the decision, if it is kept, under the policy read earlier; refused or not, the statement ends.
RecordDecision(c) ==
  /\ task[c].stage = "read"
  /\ task' = [task EXCEPT ![c] = Idle]
  /\ UNCHANGED <<setting, locked, logging, changes, untracked, native>>
-----------------------------------------------------------------------------
(***************************************************************************)
(* The host.                                                               *)
(***************************************************************************)

\* SET lock_configuration = true; the engine has no way back.
LockConfiguration ==
  /\ ~locked /\ locked' = TRUE
  /\ UNCHANGED <<setting, logging, task, changes, untracked, native>>

\* CALL enable_logging('Gatekeeper'), CALL disable_logging().
SwitchLogging ==
  /\ logging' = ~logging
  /\ UNCHANGED <<setting, locked, task, changes, untracked, native>>

\* DBConfig::SetOption called by native code: no lock, no callback, no record.
NativeWrite ==
  /\ \E name \in Settings : \E value \in IF name = "policy" THEN RawPolicies ELSE RawSwitches :
       /\ setting' = [setting EXCEPT ![name] = value]
       /\ untracked' = untracked \union ({<<name, HashOf(name, value)>>} \ changes)
       /\ native' = native \union {name}
  /\ UNCHANGED <<locked, logging, task, changes>>

\* What a connection in the middle of a statement does next.
Proceed(c) == CheckLock(c) \/ RunCallback(c) \/ SetOption(c) \/ RecordDecision(c)

Next ==
  \/ \E c \in Conns : BindConfigure(c) \/ BeginSet(c) \/ ReadCeiling(c) \/ Proceed(c)
  \/ LockConfiguration \/ SwitchLogging \/ NativeWrite

Spec == Init /\ [][Next]_vars

\* The engine finishes the statements it runs, so a connection is idle again and again.  This is WF_vars(Proceed(c)):
\* Proceed(c) is disabled exactly when c is idle, and ends every statement in at most three steps.
FairSpec == Spec /\ \A c \in Conns : []<>(task[c] = Idle)
-----------------------------------------------------------------------------
(***************************************************************************)
(* Properties.                                                             *)
(***************************************************************************)
Stages == {"idle", "bound", "checked", "recorded", "read"}

\* Every connection is at one stage of one statement, and what will be published or named is held in the task.
TypeOK ==
  /\ DOMAIN setting = Settings /\ DOMAIN task = Conns
  /\ locked \in BOOLEAN /\ logging \in BOOLEAN
  /\ \A c \in Conns : /\ task[c].stage \in Stages
                      /\ task[c].name \in Settings /\ task[c].scope \in {"global", "session"}
                      /\ task[c].stage = "recorded" => task[c].scope = "global"

\* The canonical form of a policy is a fixed point: what SetPolicy stores and PolicyHash digests reads back as
\* itself (audit.cpp: the same string hashes in a decision and in policy_changed).
Canonical(value) ==
  LET policy == ReadPolicy(value)
  IN  policy # Invalid /\ PolicyValue(policy) = value

\* A configure's arguments decode to a policy that reads back unchanged.
RequestsReadBack ==
  \A request \in Requests :
    LET policy == ApplyArguments(DefaultPolicy, request)
    IN  policy # Invalid => ReadPolicy(PolicyValue(policy)) = policy

\* Unless native code wrote it, the policy in force is canonical, so is every policy about to be published, and a
\* configure's arguments decode to a policy that reads back unchanged.
SettingCanonical ==
  /\ "policy" \in native \/ Canonical(setting["policy"])
  /\ \A c \in Conns : task[c].stage = "recorded" /\ task[c].name = "policy" => Canonical(task[c].value)
  /\ RequestsReadBack

\* The log is never behind: a value in force, or about to be, is the default, has its *_changed record, or is one
\* that could leave none (the record is written before the setting is published, docs/security.md:796-799).
ChangesRecorded ==
  /\ \A c \in Conns : task[c].stage = "recorded" => Tracked(task[c].name, task[c].value)
  /\ \A name \in Settings : Tracked(name, HashOf(name, setting[name]))

\* The policy hash on a decision is the hash of the default policy or of a policy_changed record written before
\* it, unless that policy came without a record (docs/security.md:734), however changes and decisions interleave.
HashTraceable ==
  [][\A c \in Conns : RecordDecision(c) => task[c].value = Null \/ Tracked("policy", task[c].value)]_vars

\* The inductive invariant behind them: what is in flight is typed, canonical once its record is written, and a
\* policy a reader holds was tracked when it was read.
IInv ==
  /\ TypeOK /\ ChangesRecorded
  /\ RawPolicy(setting["policy"]) /\ ("policy" \in native \/ Canonical(setting["policy"]))
  /\ \A c \in Conns :
       /\ task[c].name = "policy" /\ task[c].stage \in {"bound", "checked", "recorded"} => RawPolicy(task[c].value)
       /\ task[c].name = "policy" /\ task[c].stage = "recorded" => Canonical(task[c].value)
       /\ task[c].stage = "read" => task[c].value = Null \/ Tracked("policy", task[c].value)

\* No change is past its lock check.
Settled == \A c \in Conns : task[c].stage \in {"checked", "recorded"} => task[c].name \in Exempt

\* Once the configuration is locked and the changes that had passed the check are through, no statement on any
\* connection changes a setting that is not exempt.
Frozen ==
  [][locked /\ Settled /\ ~NativeWrite =>
       Settled' /\ \A name \in Settings \ Exempt : setting'[name] = setting[name]]_vars

\* Locking takes effect: the changes already past the check end, and none follows them.
LockSettles == locked ~> []Settled
=============================================================================
