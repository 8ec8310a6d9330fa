----------------------------- MODULE Enforcement -----------------------------
(***************************************************************************)
(* One enforced connection of the Gatekeeper extension (enforcement.cpp):  *)
(* the per-connection EnforcementState and the hooks through which the     *)
(* engine drives it, composed with the engine that calls them and with a   *)
(* host that changes the global settings between any two hooks.            *)
(*                                                                         *)
(* A verdict of a check (text, parameters, private bind, plan structure,   *)
(* plan) is a nondeterministic choice: what is modelled is which checks    *)
(* run, under which policy snapshot and mode, and what their outcome does. *)
(* DuckDB is not part of the repository. Its side (phase, request,         *)
(* activeQuery, error) is modelled from the order in which the comments    *)
(* and the code of enforcement.cpp rely on its hooks being called.         *)
(***************************************************************************)
EXTENDS Naturals, Sequences

CONSTANTS
  EngineMajor,    \* GATEKEEPER_DUCKDB_MAJOR of the build: 1 (DuckDB 1.5) or 2 (2.0)
  Policies,       \* policies the global setting can hold
  None,           \* no policy: an unreadable setting, or no policy in force
  LogOnlyValues,  \* values the host may give gatekeeper_log_only
  MaxStatements,  \* bound on the statements the engine numbers
  SinkMayFail,    \* whether the log storage may refuse a record
  MissedHooks     \* whether the engine may plan a batch statement without asking CanRequestRebind

ASSUME EngineAssumption == EngineMajor \in {1, 2}
ASSUME PolicyAssumption == None \notin Policies
ASSUME LogOnlyAssumption == LogOnlyValues \subseteq {"true", "false", "invalid"}
ASSUME BoundAssumption == MaxStatements \in Nat
ASSUME FaultAssumption == SinkMayFail \in BOOLEAN /\ MissedHooks \in BOOLEAN

VARIABLES
  policySetting,   \* gatekeeper_policy, None when it cannot be read
  logOnlySetting,  \* gatekeeper_log_only, "invalid" when written natively
  remotePushdown,  \* a remote catalog is attached and remote_pushdown is enabled (2.0)
  enforced,        \* the connection carries the latch
  connected,       \* CONNECT-ed: statements route to a remote session (2.0)
  autocommit,      \* no explicit transaction is open
  phase,           \* which hook the engine calls next
  request,         \* the statement the engine is handling
  activeQuery,     \* ClientContext::transaction's active query id, 0 when there is none
  lastId,          \* the last query id the engine assigned
  error,           \* the error the statement ends with
  st,              \* the EnforcementState
  log,             \* history: decisions recorded for the engine's current statement
  passed,          \* history: <<check, policy>> pairs passed for that statement
  admission        \* history: the settings BeginStatement read for that statement

host == <<policySetting, logOnlySetting, remotePushdown>>
conn == <<enforced, connected, autocommit>>
query == <<request, activeQuery, lastId>>
vars == <<host, conn, query, phase, error, st, log, passed, admission>>

-----------------------------------------------------------------------------
(* Values *)

Shapes == {"query", "prepare", "execute"}
Kinds == {"select", "transaction"} \union (IF EngineMajor >= 2 THEN {"routing"} ELSE {})
Requests == [shape : Shapes, kind : Kinds, params : BOOLEAN]
Results == {"none", "ok", "denied"}
Modes == {"enforce", "log_only"}
Boundaries == {"binding", "authorize", "execution", "prepare", "replacement_scan"}
Checks == {"text", "objects", "structure", "plan"}
Phases == {"idle", "begin", "admit", "plan", "rebind", "bind", "postbind", "wrapper",
           "final", "run", "done", "fail", "end"}
Errors == {"none", "refused", "sink", "engine", "fatal"}
Snapshots == Policies \union {None}
Records == [mode : Modes, boundary : Boundaries, policy : Snapshots, result : Results]
States == [statementId : 0 .. MaxStatements, policy : Snapshots, result : Results,
           logOnly : BOOLEAN, inStatement : BOOLEAN, decided : BOOLEAN,
           prepareDecided : BOOLEAN, admitted : BOOLEAN, authorized : BOOLEAN,
           executingPrepared : BOOLEAN, prescreened : BOOLEAN]

\* The state EnforcementState::Reset leaves, also the state a connection is latched with.
Reset == [statementId |-> 0, policy |-> None, result |-> "none",
          logOnly |-> FALSE, inStatement |-> FALSE, decided |-> FALSE,
          prepareDecided |-> FALSE, admitted |-> FALSE, authorized |-> FALSE,
          executingPrepared |-> FALSE, prescreened |-> FALSE]

NoAdmission == [id |-> 0, logOnly |-> FALSE, policy |-> None]

\* The request a connection that never submitted one stands for.
NoRequest == [shape |-> "query", kind |-> "select", params |-> FALSE]

Init ==
  /\ policySetting \in Policies
  /\ logOnlySetting \in LogOnlyValues
  /\ remotePushdown = FALSE
  /\ enforced = FALSE /\ connected = FALSE /\ autocommit = TRUE
  /\ request = NoRequest /\ activeQuery = 0 /\ lastId = 0
  /\ phase = "idle" /\ error = "none"
  /\ st = Reset
  /\ log = <<>> /\ passed = {} /\ admission = NoAdmission

-----------------------------------------------------------------------------
(* Reads of the settings *)

\* Only a readable true suspends refusals.
LogOnlySetting == logOnlySetting = "true"

ModeFor(logOnly) == IF logOnly THEN "log_only" ELSE "enforce"

\* Variant: the switch suspends the refusal of every statement.
RoutingControlIgnored == FALSE

\* CONNECT and DISCONNECT keep ENFORCE mode even with the switch on.
RoutingControl == EngineMajor >= 2 /\ request.kind = "routing"

TryGlobalPolicy == policySetting # None

CheckRemoteScope == ~(EngineMajor >= 2 /\ remotePushdown)

\* Variant: any admission in progress counts as the current statement's.
CurrentStatementAnyId == st.inStatement /\ activeQuery # 0

\* The state describes the statement the engine is executing.
CurrentStatement == st.inStatement /\ activeQuery # 0 /\ st.statementId = activeQuery

InStatementButStale == st.inStatement /\ activeQuery # 0 /\ ~CurrentStatement

-----------------------------------------------------------------------------
(* Recording a decision *)

\* The phases whose failure the engine reports to OnPlanningError.
Planning == {"bind", "postbind", "wrapper"} \union (IF EngineMajor >= 2 THEN {"rebind"} ELSE {})

\* An exception leaves the hook the engine called.
Throw(e) ==
  /\ error' = e
  /\ phase' = IF phase \in Planning THEN "fail" ELSE "end"

\* Write the record, then refuse a denial in ENFORCE mode. A failing sink throws before either.
Decide(record, goOn) ==
  \/ /\ log' = Append(log, record)
     /\ IF record.result = "denied" /\ record.mode = "enforce"
        THEN Throw("refused")
        ELSE phase' = goOn /\ error' = error
  \/ /\ SinkMayFail
     /\ log' = log
     /\ Throw("sink")

\* EnforcementState::Record of state s: marked decided before Decide can throw.
Record(s, boundary, inForce, result, goOn) ==
  /\ st' = [s EXCEPT !.decided = TRUE, !.result = result]
  /\ Decide([mode |-> ModeFor(s.logOnly), boundary |-> boundary,
             policy |-> inForce, result |-> result], goOn)

\* EnforcementState::Authorize when the private bind does not pass: a violation, or in
\* log-only mode an engine error DescribeError can describe, is recorded; any other error
\* propagates.
AuthorizeFails(s, goOn) ==
  \/ Record(s, "authorize", s.policy, "denied", goOn)
  \/ /\ st' = s
     /\ log' = log
     /\ \/ ~s.logOnly /\ Throw("engine")
        \/ Throw("fatal")

-----------------------------------------------------------------------------
(* The host: other connections and native writes change the settings at any moment *)

HostSetPolicy ==
  /\ \E p \in Snapshots : p # policySetting /\ policySetting' = p
  /\ UNCHANGED <<logOnlySetting, remotePushdown, conn, query, phase, error, st, log, passed, admission>>

HostSetLogOnly ==
  /\ \E v \in LogOnlyValues : v # logOnlySetting /\ logOnlySetting' = v
  /\ UNCHANGED <<policySetting, remotePushdown, conn, query, phase, error, st, log, passed, admission>>

HostSetRemotePushdown ==
  /\ EngineMajor >= 2
  /\ remotePushdown' = ~remotePushdown
  /\ UNCHANGED <<policySetting, logOnlySetting, conn, query, phase, error, st, log, passed, admission>>

\* What the host does on the connection before it latches it.
HostSetup ==
  /\ ~enforced
  /\ \/ EngineMajor >= 2 /\ connected' = ~connected /\ UNCHANGED autocommit
     \/ autocommit' = ~autocommit /\ UNCHANGED connected
  /\ UNCHANGED <<host, enforced, query, phase, error, st, log, passed, admission>>

\* CALL gatekeeper_enforce(): refused on a CONNECT-ed connection and inside a transaction.
Enforce ==
  /\ ~enforced
  /\ ~(EngineMajor >= 2 /\ connected)
  /\ autocommit
  /\ enforced' = TRUE
  /\ st' = Reset
  /\ UNCHANGED <<host, connected, autocommit, query, phase, error, log, passed, admission>>

-----------------------------------------------------------------------------
(* Admission *)

\* The engine takes a statement. DuckDB 1.5 plans Prepare() outside any query, with no hook
\* before it; every other statement is numbered and announced through QueryBegin.
Submit ==
  /\ enforced /\ phase = "idle"
  /\ request' \in Requests
  /\ IF EngineMajor = 1 /\ request'.shape = "prepare"
     THEN /\ phase' = "plan"
          /\ UNCHANGED <<activeQuery, lastId>>
     ELSE /\ lastId < MaxStatements
          /\ phase' = "begin"
          /\ activeQuery' = lastId + 1 /\ lastId' = lastId + 1
  /\ error' = "none"
  /\ log' = <<>> /\ passed' = {} /\ admission' = NoAdmission
  /\ UNCHANGED <<host, conn, st>>

\* BeginStatement up to and including the read of gatekeeper_log_only.
BeginStatement ==
  /\ st' = [Reset EXCEPT !.inStatement = TRUE, !.statementId = activeQuery,
                         !.logOnly = LogOnlySetting /\ ~RoutingControl]
  /\ admission' = [id |-> activeQuery, logOnly |-> LogOnlySetting /\ ~RoutingControl, policy |-> None]
  /\ phase' = "admit"
  /\ UNCHANGED <<host, conn, query, error, log, passed>>

QueryBegin == phase = "begin" /\ BeginStatement

\* The rest of BeginStatement, from the read of the policy on. The policy is read after
\* gatekeeper_log_only, and the host may change either in between.
Unreadable ==
  /\ ~TryGlobalPolicy
  /\ Record(st, "binding", None, "denied", "plan")
  /\ UNCHANGED <<passed, admission>>

\* CheckRemoteScope refuses, the text is denied, unreadable or unsupported, or an exception
\* the binding boundary does not describe escapes.
TextRefused(s) ==
  /\ \/ Record(s, "binding", s.policy, "denied", "plan")
     \/ CheckRemoteScope /\ st' = s /\ log' = log /\ Throw("fatal")
  /\ UNCHANGED passed

\* Only a SELECT can pass the text check.
TextAdmitted(s) ==
  /\ CheckRemoteScope /\ request.kind = "select"
  /\ \/ \* CheckParameters: a session-variable fallback the policy does not permit
        /\ EngineMajor >= 2 /\ request.params
        /\ Record(s, "binding", s.policy, "denied", "plan")
        /\ passed' = {<<"text", s.policy>>}
     \/ \* parameters defer authorization to PostBind
        /\ request.params
        /\ st' = s /\ phase' = "plan"
        /\ passed' = {<<"text", s.policy>>}
        /\ UNCHANGED <<error, log>>
     \/ /\ ~request.params
        /\ AuthorizeFails(s, "plan")
        /\ passed' = {<<"text", s.policy>>}
     \/ /\ ~request.params
        /\ st' = [s EXCEPT !.authorized = TRUE] /\ phase' = "plan"
        /\ passed' = {<<"text", s.policy>>, <<"objects", s.policy>>}
        /\ UNCHANGED <<error, log>>

Admit ==
  /\ phase = "admit"
  /\ \/ Unreadable
     \/ /\ TryGlobalPolicy
        /\ admission' = [admission EXCEPT !.policy = policySetting]
        /\ LET read == [st EXCEPT !.policy = policySetting]
           IN  \/ TextRefused(read)
               \/ TextAdmitted([read EXCEPT !.admitted = TRUE, !.result = "ok"])
  /\ UNCHANGED <<host, conn, query>>

-----------------------------------------------------------------------------
(* Planning *)

\* The engine asks before planning every statement; on 2.0 a new statement id advances the
\* admission boundary here.
CanRequestRebind ==
  \/ EngineMajor >= 2 /\ InStatementButStale /\ BeginStatement
  \/ /\ ~(EngineMajor >= 2 /\ InStatementButStale)
     /\ phase' = IF request.shape = "execute" THEN "rebind" ELSE "bind"
     /\ UNCHANGED <<host, conn, query, error, st, log, passed, admission>>

\* An engine path that plans the next statement of a batch without asking.
RebindHookMissed ==
  /\ MissedHooks /\ EngineMajor >= 2 /\ InStatementButStale
  /\ phase' = "bind"
  /\ UNCHANGED <<host, conn, query, error, st, log, passed, admission>>

\* The engine turns to planning the statement.
Plan == phase = "plan" /\ (CanRequestRebind \/ RebindHookMissed)

\* The engine fails the statement before planning it (a parameter that was not supplied).
EngineRejects ==
  /\ phase = "plan" /\ activeQuery # 0
  /\ error' \in {"engine", "fatal"}
  /\ phase' = "end"
  /\ UNCHANGED <<host, conn, query, st, log, passed, admission>>

\* OnExecutePrepared (1.5) and OnRebindPreparedStatement (2.0). A record that throws leaves
\* before the flag is set, and the statement ends.
ForceRebind ==
  /\ phase = "rebind"
  /\ IF ~st.admitted /\ ~st.decided
     THEN Record([st EXCEPT !.executingPrepared = TRUE], "binding", st.policy, "denied", "bind")
     ELSE /\ st' = [st EXCEPT !.executingPrepared = TRUE]
          /\ phase' = "bind"
          /\ UNCHANGED <<error, log>>
  /\ UNCHANGED <<host, conn, query, passed, admission>>

\* Variant: the gate enforces inside every statement.
ReplacementGateStrict ==
  IF st.inStatement \/ ~LogOnlySetting THEN "enforce"
  ELSE IF st.prepareDecided THEN "open" ELSE "log_only"

ReplacementGate ==
  IF st.inStatement
  THEN IF ~CurrentStatement \/ ~st.logOnly THEN "enforce"
       ELSE IF st.decided THEN "open" ELSE "log_only"
  ELSE IF ~LogOnlySetting THEN "enforce"
       ELSE IF st.prepareDecided THEN "open" ELSE "log_only"

MarkGateDecided ==
  IF st.inStatement THEN [st EXCEPT !.decided = TRUE]
                    ELSE [st EXCEPT !.prepareDecided = TRUE]

AdmittedPolicy == IF st.admitted /\ CurrentStatement THEN st.policy ELSE None

\* Variant: the gate reads the setting as it stands.
GatePolicyLive == policySetting

\* The policy the gate holds a reader to; None when the setting it falls back on is unreadable.
GatePolicy == IF AdmittedPolicy # None THEN AdmittedPolicy ELSE policySetting

\* Variant: an open gate decides too.
ScanThroughOpenGate ==
  /\ phase = "bind"
  /\ st' = MarkGateDecided
  /\ Decide([mode |-> ReplacementGate, boundary |-> "replacement_scan",
             policy |-> GatePolicy, result |-> "denied"], "bind")
  /\ UNCHANGED <<host, conn, query, passed, admission>>

\* A name no catalog has reaches the gate and its reader is denied. An allowed reader, and an
\* open gate, change nothing; a name no callback claims is an engine error (BindFails).
GatekeeperReplacementScan ==
  /\ phase = "bind"
  /\ ReplacementGate # "open"
  /\ st' = MarkGateDecided
  /\ Decide([mode |-> ReplacementGate, boundary |-> "replacement_scan",
             policy |-> GatePolicy, result |-> "denied"], "bind")
  /\ UNCHANGED <<host, conn, query, passed, admission>>

BindFails ==
  /\ phase = "bind"
  /\ phase' = "fail"
  /\ error' \in {"engine", "fatal"}
  /\ UNCHANGED <<host, conn, query, st, log, passed, admission>>

\* A parameter whose type never resolved: no plan, so no PostBind, and no planning error. A
\* 1.5 Prepare() still completes; an execution is then failed by the engine.
BindYieldsNoPlan ==
  /\ phase = "bind" /\ request.params
  /\ \/ /\ EngineMajor = 1 /\ request.shape = "prepare"
        /\ phase' = "final" /\ UNCHANGED error
     \/ /\ request.shape # "prepare"
        /\ phase' = "end" /\ error' = "engine"
  /\ UNCHANGED <<host, conn, query, st, log, passed, admission>>

BindYieldsPlan ==
  /\ phase = "bind"
  /\ phase' = "postbind"
  /\ UNCHANGED <<host, conn, query, error, st, log, passed, admission>>

\* OnPlanningError: every failed planning attempt ends here.
OnPlanningError ==
  /\ phase = "fail"
  /\ LET after == IF activeQuery = 0 THEN "idle" ELSE "end"
     IN  IF st.inStatement /\ st.logOnly /\ ~st.decided /\ error # "fatal"
         THEN Record(st, "authorize", st.policy, "denied", after)
         ELSE /\ st' = IF st.inStatement THEN st ELSE [st EXCEPT !.prepareDecided = FALSE]
              /\ phase' = after
              /\ UNCHANGED <<error, log>>
  /\ UNCHANGED <<host, conn, query, passed, admission>>

\* Variant: the end of a prepare attempt leaves the gate's mark.
OnFinalizePrepareKeepsMark ==
  /\ phase = "final"
  /\ phase' = IF activeQuery = 0 THEN "idle" ELSE "run"
  /\ UNCHANGED <<host, conn, query, error, st, log, passed, admission>>

OnFinalizePrepare ==
  /\ phase = "final"
  /\ st' = IF st.inStatement THEN st ELSE [st EXCEPT !.prepareDecided = FALSE]
  /\ phase' = IF activeQuery = 0 THEN "idle" ELSE "run"
  /\ UNCHANGED <<host, conn, query, error, log, passed, admission>>

-----------------------------------------------------------------------------
(* PostBind: the execution boundary on every plan the engine's planner produces *)

\* 2.0 plans the statement a Prepare() or Execute() carries first, its wrapper after.
Wrapped == EngineMajor >= 2 /\ request.shape \in {"prepare", "execute"}

AfterPlan == IF Wrapped THEN "wrapper" ELSE "final"

\* 1.5's Prepare(): no statement in progress, so only the plan's structure is screened.
PrescreenOutside ==
  /\ ~st.inStatement
  /\ \/ /\ st.prepareDecided
        /\ st' = [st EXCEPT !.prepareDecided = FALSE]
        /\ phase' = "final" /\ UNCHANGED <<error, log>>
     \/ /\ ~st.prepareDecided /\ TryGlobalPolicy
        /\ phase' = "final" /\ UNCHANGED <<error, st, log>>
     \/ /\ ~st.prepareDecided
        /\ UNCHANGED st
        /\ Decide([mode |-> ModeFor(LogOnlySetting), boundary |-> "prepare",
                   policy |-> policySetting, result |-> "denied"], "final")
  /\ UNCHANGED passed

\* A plan may never reuse a preceding statement's admission.
StalePlan(goOn) ==
  /\ st.inStatement /\ ~CurrentStatement
  /\ Record(st, "execution", st.policy, "denied", goOn)
  /\ UNCHANGED passed

\* Decided at an earlier boundary and not refused: the record stands.
DecidedPlan(goOn) ==
  /\ CurrentStatement /\ st.logOnly /\ st.decided
  /\ phase' = goOn
  /\ UNCHANGED <<error, st, log, passed>>

\* Variant: a plan the engine binds in spite of a log-only denial is checked like any other.
UndecidedPlanAlways == CurrentStatement

UndecidedPlan == CurrentStatement /\ ~(st.logOnly /\ st.decided)

\* 2.0's Prepare(): the nested plan, bound in BindingMode::PREPARE before any rebind hook.
PrescreenPrepare ==
  /\ UndecidedPlan /\ Wrapped /\ ~st.executingPrepared
  /\ \/ /\ st.admitted
        /\ st' = [st EXCEPT !.prescreened = TRUE] /\ phase' = AfterPlan
        /\ passed' = passed \union {<<"structure", st.policy>>}
        /\ UNCHANGED <<error, log>>
     \/ /\ Record(st, "prepare", st.policy, "denied", AfterPlan)
        /\ UNCHANGED passed

\* Variant: a plan that passes goes unrecorded.
CheckExecutedPlanUnrecorded ==
  /\ UndecidedPlan /\ ~(Wrapped /\ ~st.executingPrepared)
  /\ st' = [st EXCEPT !.authorized = TRUE]
  /\ passed' = passed \union {<<"objects", st.policy>>, <<"plan", st.policy>>}
  /\ phase' = AfterPlan
  /\ UNCHANGED <<error, log>>

\* The plan the engine will execute. A statement with parameters is authorized here first,
\* with the values the engine bound.
CheckExecutedPlan ==
  /\ UndecidedPlan /\ ~(Wrapped /\ ~st.executingPrepared)
  /\ IF ~st.admitted
     THEN /\ Record(st, "execution", st.policy, "denied", AfterPlan)
          /\ UNCHANGED passed
     ELSE \/ /\ ~st.authorized
             /\ AuthorizeFails(st, AfterPlan)
             /\ UNCHANGED passed
          \/ /\ st.authorized \/ CheckRemoteScope
             /\ \E result \in {st.result, "denied"} :
                  /\ Record([st EXCEPT !.authorized = TRUE], "execution", st.policy, result, AfterPlan)
                  /\ passed' = passed \union {<<"objects", st.policy>>}
                                      \union (IF result = "denied" THEN {} ELSE {<<"plan", st.policy>>})

PostBind ==
  /\ phase = "postbind"
  /\ \/ PrescreenOutside
     \/ StalePlan(AfterPlan)
     \/ DecidedPlan(AfterPlan)
     \/ PrescreenPrepare
     \/ CheckExecutedPlan
  /\ UNCHANGED <<host, conn, query, admission>>

\* PostBind on the LOGICAL_PREPARE or LOGICAL_EXECUTE wrapper: accepted exactly when the plan
\* it wraps was decided under this statement.
WrapperAccepted ==
  IF request.shape = "prepare" THEN st.prescreened ELSE st.decided /\ st.result = "ok"

PostBindWrapper ==
  /\ phase = "wrapper"
  /\ \/ DecidedPlan("final")
     \/ /\ UndecidedPlan
        /\ IF WrapperAccepted
           THEN phase' = "final" /\ UNCHANGED <<error, st, log>>
           ELSE Record(st, IF request.shape = "prepare" THEN "prepare" ELSE "execution",
                       st.policy, "denied", "final")
        /\ UNCHANGED passed
  /\ UNCHANGED <<host, conn, query, admission>>

-----------------------------------------------------------------------------
(* Execution and the end of the query *)

\* The engine runs the plan. A Prepare() runs nothing of its own.
Execute ==
  /\ phase = "run"
  /\ phase' = "done"
  /\ connected' = IF request.shape # "prepare" /\ request.kind = "routing" THEN ~connected ELSE connected
  /\ autocommit' = IF request.shape # "prepare" /\ request.kind = "transaction" THEN ~autocommit ELSE autocommit
  /\ UNCHANGED <<host, enforced, query, error, st, log, passed, admission>>

ExecutionFails ==
  /\ phase = "run"
  /\ phase' = "end"
  /\ error' \in {"engine", "fatal"}
  /\ UNCHANGED <<host, conn, query, st, log, passed, admission>>

\* 2.0: the next statement of an expanded batch gets its own id and text, and no QueryBegin.
Advance ==
  /\ EngineMajor >= 2 /\ phase = "done" /\ request.shape = "query"
  /\ lastId < MaxStatements
  /\ \E next \in Requests : next.shape = "query" /\ request' = next
  /\ activeQuery' = lastId + 1 /\ lastId' = lastId + 1
  /\ phase' = "plan"
  /\ log' = <<>> /\ passed' = {} /\ admission' = NoAdmission
  /\ UNCHANGED <<host, conn, error, st>>

Finish ==
  /\ phase = "done"
  /\ phase' = "end"
  /\ UNCHANGED <<host, conn, query, error, st, log, passed, admission>>

\* Variant: a statement the engine failed before planning leaves no record.
QueryEndUnrecorded ==
  /\ phase = "end" /\ phase' = "idle"
  /\ activeQuery' = 0 /\ st' = Reset
  /\ UNCHANGED <<host, conn, request, lastId, error, log, passed, admission>>

\* Variant: the statement is marked decided only once its record is written.
QueryEndMarksLate ==
  /\ phase = "end" /\ phase' = "idle"
  /\ activeQuery' = 0
  /\ IF SinkMayFail /\ st.inStatement /\ st.logOnly /\ ~st.decided /\ error \notin {"none", "fatal"}
     THEN st' = st /\ error' = "sink"
     ELSE st' = Reset /\ UNCHANGED error
  /\ UNCHANGED <<host, conn, request, lastId, log, passed, admission>>

\* The engine has closed the query before it calls QueryEnd. A record the sink refuses leaves
\* the hook before Reset.
QueryEnd ==
  /\ phase = "end"
  /\ phase' = "idle"
  /\ activeQuery' = 0
  /\ IF st.inStatement /\ st.logOnly /\ ~st.decided /\ error \notin {"none", "fatal"}
     THEN \/ /\ log' = Append(log, [mode |-> "log_only", boundary |-> "authorize",
                                    policy |-> st.policy, result |-> "denied"])
             /\ st' = Reset /\ error' = error
          \/ /\ SinkMayFail
             /\ st' = [st EXCEPT !.decided = TRUE, !.result = "denied"]
             /\ error' = "sink" /\ log' = log
     ELSE st' = Reset /\ UNCHANGED <<error, log>>
  /\ UNCHANGED <<host, conn, request, lastId, passed, admission>>

-----------------------------------------------------------------------------
HostStep == HostSetPolicy \/ HostSetLogOnly \/ HostSetRemotePushdown \/ HostSetup \/ Enforce \/ Submit

EngineStep ==
  \/ QueryBegin \/ Admit
  \/ Plan \/ EngineRejects \/ ForceRebind
  \/ GatekeeperReplacementScan \/ BindFails \/ BindYieldsNoPlan \/ BindYieldsPlan
  \/ OnPlanningError \/ OnFinalizePrepare
  \/ PostBind \/ PostBindWrapper
  \/ Execute \/ ExecutionFails \/ Advance \/ Finish \/ QueryEnd

Next == HostStep \/ EngineStep

Spec == Init /\ [][Next]_vars

\* The engine drives a statement it has taken to its end; nothing obliges the host.
FairSpec == Spec /\ WF_vars(EngineStep)

-----------------------------------------------------------------------------
(* Properties *)

\* Every variable holds a value of its kind.
TypeOK ==
  /\ policySetting \in Snapshots /\ logOnlySetting \in LogOnlyValues /\ remotePushdown \in BOOLEAN
  /\ enforced \in BOOLEAN /\ connected \in BOOLEAN /\ autocommit \in BOOLEAN
  /\ phase \in Phases /\ request \in Requests /\ error \in Errors
  /\ activeQuery \in 0 .. MaxStatements /\ lastId \in 0 .. MaxStatements
  /\ st \in States
  /\ log \in Seq(Records)
  /\ passed \in SUBSET (Checks \X Snapshots)
  /\ admission \in [id : 0 .. MaxStatements, logOnly : BOOLEAN, policy : Snapshots]

\* The invariants the comment on EnforcementState claims for its flags between the hooks:
\* each step of admission presupposes the one before it, the Prepare() mark exists only outside
\* a statement, and the 2.0 marks only inside one.
FlagInvariant ==
  /\ st.authorized => st.admitted
  /\ st.admitted => st.inStatement
  /\ st.prepareDecided => ~st.inStatement
  /\ st.executingPrepared \/ st.prescreened => st.inStatement

AdmittedLogOnly == admission.id = activeQuery /\ admission.logOnly

\* A plan about to run that was not itself admitted in log-only mode has passed the text check,
\* the private bind and the plan check, all under the one policy its own admission read, and its
\* single record says so, whatever the host changed and whatever ran before it.
EnforcedExecution ==
  phase = "run" /\ request.shape # "prepare" /\ ~AdmittedLogOnly =>
    /\ admission.id = activeQuery
    /\ {"text", "objects", "plan"} \X {admission.policy} \subseteq passed
    /\ log = <<[mode |-> "enforce", boundary |-> "execution",
                policy |-> admission.policy, result |-> "ok"]>>

\* A statement is recorded at most once whichever hooks decide it, and before it runs.
RecordedOnce ==
  admission.id # 0 =>
    /\ Len(log) <= 1
    /\ phase \in {"run", "done"} /\ request.shape # "prepare" => Len(log) = 1

\* Every record of a statement carries the mode and the policy its admission read, not what
\* the settings hold when the hook that records it runs.
SnapshotGoverns ==
  admission.id # 0 =>
    \A i \in 1 .. Len(log) :
      /\ log[i].mode = ModeFor(admission.logOnly)
      /\ log[i].policy = admission.policy

\* A statement admitted in log-only mode is never refused by a policy decision.
LogOnlyNeverRefuses == admission.id # 0 /\ error = "refused" => ~admission.logOnly

\* A log-only statement that ended without a record ended with an error no decision describes,
\* or was a Prepare() that succeeded: the trail misses none of the ways a bind can fail.
LogOnlyTrail ==
  phase = "idle" /\ admission.id # 0 /\ admission.logOnly /\ log = <<>> =>
    error \in {"fatal", "sink"} \/ (request.shape = "prepare" /\ error = "none")

\* Between statements the connection carries nothing of the last statement or Prepare().
NothingOutlives == phase = "idle" => st = Reset

\* Once latched, no step changes the connection's route, and only a log-only statement opens or
\* ends a transaction.
StaysLocal ==
  [][enforced => /\ connected' = connected
                 /\ autocommit' # autocommit => st.logOnly]_vars

\* A log-only statement that reaches planning is eventually recorded, unless it ends with an
\* error no decision describes.
LogOnlyRecorded ==
  (phase = "plan" /\ CurrentStatement /\ st.logOnly /\ request.shape # "prepare")
    ~> (log # <<>> \/ error \in {"fatal", "sink"})

-----------------------------------------------------------------------------
(* Refinement *)

\* The statement as StatementDecision sees it. A 1.5 Prepare() outside any statement is no
\* statement; a 2.0 Prepare() ends without running.
Stage ==
  IF phase = "idle" \/ activeQuery = 0 THEN IF admission.id = 0 THEN "idle" ELSE "ended"
  ELSE IF request.shape # "prepare" /\ (phase = "done" \/ (phase = "end" /\ error = "none"))
       THEN "ran" ELSE "open"

Decision == INSTANCE StatementDecision WITH
  stage <- Stage,
  mode <- IF admission.id = 0 THEN "none" ELSE ModeFor(admission.logOnly),
  verdict <- IF admission.id = 0 \/ log = <<>> THEN "none" ELSE log[1].result

\* The hooks together keep the promise StatementDecision states of every statement.
KeepsPromise == Decision!Spec

-----------------------------------------------------------------------------
(* The inductive invariant, for an engine that misses no hook *)

\* Which phases lie inside a numbered query. Only a 1.5 Prepare() is planned outside one.
PhaseOK ==
  /\ activeQuery <= lastId /\ st.statementId <= lastId
  /\ phase # "idle" => enforced
  /\ phase = "idle" => activeQuery = 0
  /\ phase \in {"begin", "admit", "rebind", "wrapper", "run", "done", "end"} => activeQuery # 0
  /\ activeQuery = 0 /\ phase # "idle" =>
       EngineMajor = 1 /\ request.shape = "prepare" /\ admission.id = 0
  /\ EngineMajor = 1 /\ activeQuery # 0 => request.shape # "prepare"
  /\ phase = "wrapper" => Wrapped
  /\ phase = "rebind" => request.shape = "execute"
  /\ phase \notin {"idle", "fail", "end"} => error = "none"
  /\ phase = "fail" => error # "none"

\* The state describes the engine's statement from its admission on; until then the stale state
\* is one whose statement was decided, and the new statement has no history.
AdmissionOK ==
  /\ phase = "begin" => ~CurrentStatement
  /\ phase \in {"admit", "rebind", "bind", "postbind", "wrapper", "final", "run", "done", "fail"}
       /\ activeQuery # 0 => CurrentStatement
  /\ phase = "plan" /\ activeQuery # 0 => st.inStatement /\ (EngineMajor = 1 => CurrentStatement)
  /\ st.inStatement /\ ~CurrentStatement => st.decided
  /\ activeQuery # 0 /\ ~CurrentStatement => admission = NoAdmission /\ log = <<>> /\ passed = {}
  /\ CurrentStatement => admission = [id |-> activeQuery, logOnly |-> st.logOnly, policy |-> st.policy]
  /\ phase = "admit" => st = [Reset EXCEPT !.inStatement = TRUE, !.statementId = activeQuery,
                                           !.logOnly = st.logOnly]

\* What each flag of a current statement vouches for.
ChecksOK ==
  CurrentStatement =>
    /\ st.admitted => st.policy # None /\ <<"text", st.policy>> \in passed /\ request.kind = "select"
    /\ st.admitted /\ ~st.decided => st.result = "ok"
    /\ st.authorized => <<"objects", st.policy>> \in passed
    /\ st.logOnly => request.kind # "routing"
    /\ st.executingPrepared => request.shape = "execute"

\* A current statement is decided exactly when its one record is written, or was refused by
\* the sink.
RecordOK ==
  CurrentStatement =>
    /\ log # <<>> => st.decided
    /\ st.decided /\ log = <<>> => error = "sink"

\* Before PostBind: an enforced statement is admitted and undecided, a log-only one is admitted
\* or already decided.
PlanOK ==
  CurrentStatement =>
    /\ phase \in {"plan", "rebind", "bind", "postbind"} =>
         IF st.logOnly THEN st.admitted \/ st.decided ELSE st.admitted /\ ~st.decided
    /\ phase \in {"bind", "postbind", "wrapper"} /\ request.shape = "execute" => st.executingPrepared

\* After PostBind: a plan that will run is decided, and allowed unless log-only.
DecidedOK ==
  /\ phase \in {"wrapper", "final", "run", "done"} /\ activeQuery # 0 =>
       IF request.shape = "prepare"
       THEN ~st.logOnly => ~st.decided /\ st.prescreened
       ELSE /\ st.decided
            /\ ~st.logOnly =>
                 /\ st.result = "ok" /\ st.admitted
                 /\ {"text", "objects", "plan"} \X {st.policy} \subseteq passed
                 /\ log = <<[mode |-> "enforce", boundary |-> "execution",
                             policy |-> st.policy, result |-> "ok"]>>
  /\ phase = "end" /\ error = "none" /\ request.shape # "prepare" => CurrentStatement /\ st.decided

IInv ==
  /\ TypeOK /\ FlagInvariant
  /\ PhaseOK /\ AdmissionOK /\ ChecksOK /\ RecordOK /\ PlanOK /\ DecidedOK
  /\ RecordedOnce /\ SnapshotGoverns /\ LogOnlyNeverRefuses /\ LogOnlyTrail
=============================================================================
