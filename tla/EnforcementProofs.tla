-------------------------- MODULE EnforcementProofs --------------------------
(***************************************************************************)
(* Theorems of Enforcement for every set of policies, either engine and    *)
(* any number of statements, with or without a failing log sink.           *)
(***************************************************************************)
EXTENDS Enforcement, TLAPS

\* Reset is a state of its kind: what a connection is latched with and every statement starts from.
LEMMA ResetType == Reset \in States
  BY BoundAssumption DEF Reset, States, Snapshots, Results

\* A trail extended by a record is a trail.
LEMMA AppendType == ASSUME NEW S, NEW q \in Seq(S), NEW e \in S PROVE Append(q, e) \in Seq(S)
  OBVIOUS

\* Deciding keeps the trail and the engine's control well-typed.
LEMMA DecideType ==
  ASSUME TypeOK, NEW m \in Modes, NEW b \in Boundaries, NEW p \in Snapshots, NEW r \in Results,
         NEW g \in Phases, Decide([mode |-> m, boundary |-> b, policy |-> p, result |-> r], g)
  PROVE  log' \in Seq(Records) /\ phase' \in Phases /\ error' \in Errors
  <1>1. [mode |-> m, boundary |-> b, policy |-> p, result |-> r] \in Records
    BY DEF Records
  <1>2. log \in Seq(Records) /\ phase \in Phases /\ error \in Errors
    BY DEF TypeOK
  <1>3. log' \in Seq(Records)
    BY <1>1, <1>2, AppendType DEF Decide
  <1>4. phase' \in Phases /\ error' \in Errors
    BY <1>2 DEF Decide, Throw, Phases, Errors
  <1> QED BY <1>3, <1>4

\* Recording keeps the state, the trail and the engine's control well-typed.
LEMMA RecordType ==
  ASSUME TypeOK, NEW s \in States, NEW b \in Boundaries, NEW p \in Snapshots,
         NEW r \in Results, NEW g \in Phases, Record(s, b, p, r, g)
  PROVE  st' \in States /\ log' \in Seq(Records) /\ phase' \in Phases /\ error' \in Errors
  <1>1. st' \in States
    BY DEF Record, States, Results
  <1>2. ModeFor(s.logOnly) \in Modes
    BY DEF ModeFor, Modes
  <1> QED BY <1>1, <1>2, DecideType DEF Record

\* A private bind that does not pass keeps them well-typed too.
LEMMA AuthorizeType ==
  ASSUME TypeOK, NEW s \in States, NEW g \in Phases, AuthorizeFails(s, g)
  PROVE  st' \in States /\ log' \in Seq(Records) /\ phase' \in Phases /\ error' \in Errors
  <1>1. CASE Record(s, "authorize", s.policy, "denied", g)
    <2>1. "authorize" \in Boundaries /\ s.policy \in Snapshots /\ "denied" \in Results
      BY DEF Boundaries, States, Results
    <2> QED BY <1>1, <2>1, RecordType
  <1>2. CASE st' = s /\ log' = log /\ (Throw("engine") \/ Throw("fatal"))
    BY <1>2 DEF Throw, TypeOK, Phases, Errors
  <1> QED BY <1>1, <1>2 DEF AuthorizeFails

\* A statement that begins starts from Reset.
LEMMA BeginType == TypeOK /\ BeginStatement => TypeOK'
  <1> SUFFICES ASSUME TypeOK, BeginStatement PROVE TypeOK'
    OBVIOUS
  <1>1. st' \in States
    <2>1. (LogOnlySetting /\ ~RoutingControl) \in BOOLEAN
      OBVIOUS
    <2>2. Reset \in States
      BY BoundAssumption DEF Reset, States, Snapshots, Results
    <2>3. activeQuery \in 0 .. MaxStatements
      BY DEF TypeOK
    <2>4. \A s \in States, l \in BOOLEAN, n \in 0 .. MaxStatements :
            [s EXCEPT !.inStatement = TRUE, !.statementId = n, !.logOnly = l] \in States
      BY DEF States
    <2> QED BY <2>1, <2>2, <2>3, <2>4 DEF BeginStatement
  <1>2. admission' \in [id : 0 .. MaxStatements, logOnly : BOOLEAN, policy : Snapshots]
    BY DEF BeginStatement, TypeOK, Snapshots
  <1> QED BY <1>1, <1>2 DEF BeginStatement, TypeOK, Phases, host, conn, query

\* Each step keeps every variable of its kind.
LEMMA TypeStep == TypeOK /\ [Next]_vars => TypeOK'
  <1> SUFFICES ASSUME TypeOK, [Next]_vars PROVE TypeOK'
    OBVIOUS
  <1> USE EngineAssumption, PolicyAssumption, BoundAssumption, ResetType DEF TypeOK, host, conn, query
  <1>1. CASE HostSetPolicy
    BY <1>1 DEF HostSetPolicy, Phases, Errors
  <1>2. CASE HostSetLogOnly
    BY <1>2 DEF HostSetLogOnly, Phases, Errors
  <1>3. CASE HostSetRemotePushdown
    BY <1>3 DEF HostSetRemotePushdown, Phases, Errors
  <1>4. CASE HostSetup
    BY <1>4 DEF HostSetup, Phases, Errors
  <1>5. CASE Enforce
    BY <1>5 DEF Enforce, Phases, Errors
  <1>6. CASE Submit
    BY <1>6 DEF Submit, Phases, Errors, NoAdmission, Snapshots
  <1>7. CASE QueryBegin
    BY <1>7, BeginType DEF QueryBegin
  <1>8. CASE Admit
    <2> DEFINE read == [st EXCEPT !.policy = policySetting]
               open == [read EXCEPT !.admitted = TRUE, !.result = "ok"]
    <2> "plan" \in Phases /\ {"binding"} \subseteq Boundaries /\ "denied" \in Results /\ None \in Snapshots
      BY DEF Phases, Boundaries, Results, Snapshots
    <2>1. read \in States /\ open \in States /\ read.policy \in Snapshots /\ open.policy \in Snapshots
      BY DEF States, Results
    <2>2. admission' \in [id : 0 .. MaxStatements, logOnly : BOOLEAN, policy : Snapshots]
      BY <1>8 DEF Admit, Unreadable
    <2>3. CASE Unreadable
      BY <1>8, <2>2, <2>3, RecordType DEF Admit, Unreadable
    <2>4. CASE TextRefused(read)
      <3>1. CASE Record(read, "binding", read.policy, "denied", "plan")
        BY <1>8, <2>1, <2>2, <2>4, <3>1, RecordType DEF Admit, TextRefused
      <3>2. CASE st' = read /\ log' = log /\ Throw("fatal")
        BY <1>8, <2>1, <2>2, <2>4, <3>2 DEF Admit, TextRefused, Throw, Phases, Errors
      <3> QED BY <2>4, <3>1, <3>2 DEF TextRefused
    <2>5. CASE TextAdmitted(open)
      <3>1. passed' \in SUBSET (Checks \X Snapshots)
        BY <2>1, <2>5 DEF TextAdmitted, Checks
      <3>2. CASE Record(open, "binding", open.policy, "denied", "plan")
        BY <1>8, <2>1, <2>2, <3>1, <3>2, RecordType DEF Admit
      <3>3. CASE AuthorizeFails(open, "plan")
        BY <1>8, <2>1, <2>2, <3>1, <3>3, AuthorizeType DEF Admit
      <3>4. CASE st' \in {open, [open EXCEPT !.authorized = TRUE]} /\ phase' = "plan" /\ UNCHANGED <<error, log>>
        <4>1. [open EXCEPT !.authorized = TRUE] \in States
          BY <2>1 DEF States
        <4> QED BY <1>8, <2>1, <2>2, <3>1, <3>4, <4>1 DEF Admit
      <3> QED BY <2>5, <3>2, <3>3, <3>4 DEF TextAdmitted
    <2> QED BY <1>8, <2>3, <2>4, <2>5 DEF Admit
  <1>9. CASE CanRequestRebind
    BY <1>9, BeginType DEF CanRequestRebind, Phases
  <1>10. CASE RebindHookMissed
    BY <1>10 DEF RebindHookMissed, Phases, Errors
  <1>11. CASE EngineRejects
    BY <1>11 DEF EngineRejects, Phases, Errors
  <1>12. CASE ForceRebind
    <2>1. [st EXCEPT !.executingPrepared = TRUE] \in States /\ st.policy \in Snapshots
      BY DEF States
    <2>2. CASE Record([st EXCEPT !.executingPrepared = TRUE], "binding", st.policy, "denied", "bind")
      BY <1>12, <2>1, <2>2, RecordType DEF ForceRebind, Phases, Boundaries, Results
    <2> QED BY <1>12, <2>1, <2>2 DEF ForceRebind, Phases
  <1>13. CASE GatekeeperReplacementScan
    <2>1. MarkGateDecided \in States
      BY DEF MarkGateDecided, States
    <2>2. GatePolicy \in Snapshots
      BY DEF GatePolicy, AdmittedPolicy, States, Snapshots
    <2>3. ReplacementGate # "open" => ReplacementGate \in Modes
      BY DEF ReplacementGate, Modes
    <2> QED BY <1>13, <2>1, <2>2, <2>3, DecideType DEF GatekeeperReplacementScan, Boundaries, Results, Phases
  <1>14. CASE BindFails
    BY <1>14 DEF BindFails, Phases, Errors
  <1>15. CASE BindYieldsNoPlan
    BY <1>15 DEF BindYieldsNoPlan, Phases, Errors
  <1>16. CASE BindYieldsPlan
    BY <1>16 DEF BindYieldsPlan, Phases, Errors
  <1>17. CASE OnPlanningError
    <2>1. [st EXCEPT !.prepareDecided = FALSE] \in States /\ st.policy \in Snapshots
      BY DEF States
    <2> QED BY <1>17, <2>1, RecordType DEF OnPlanningError, Phases, Boundaries, Results
  <1>18. CASE OnFinalizePrepare
    <2>1. [st EXCEPT !.prepareDecided = FALSE] \in States
      BY DEF States
    <2> QED BY <1>18, <2>1 DEF OnFinalizePrepare, Phases
  <1>19. CASE PostBind
    <2> st.policy \in Snapshots /\ st.result \in Results /\ AfterPlan \in Phases /\ "final" \in Phases
        /\ {"execution", "prepare"} \subseteq Boundaries /\ "denied" \in Results
      BY DEF States, AfterPlan, Phases, Boundaries, Results
    <2>1. CASE PrescreenOutside
      <3>1. [st EXCEPT !.prepareDecided = FALSE] \in States
        BY DEF States
      <3>2. ModeFor(LogOnlySetting) \in Modes
        BY DEF ModeFor, Modes
      <3> QED BY <1>19, <2>1, <3>1, <3>2, DecideType DEF PostBind, PrescreenOutside
    <2>2. CASE StalePlan(AfterPlan)
      BY <1>19, <2>2, RecordType DEF PostBind, StalePlan
    <2>3. CASE DecidedPlan(AfterPlan)
      BY <1>19, <2>3 DEF PostBind, DecidedPlan
    <2>4. CASE PrescreenPrepare
      <3>1. [st EXCEPT !.prescreened = TRUE] \in States
        BY DEF States
      <3>2. passed' \in SUBSET (Checks \X Snapshots)
        BY <2>4 DEF PrescreenPrepare, Checks
      <3> QED BY <1>19, <2>4, <3>1, <3>2, RecordType DEF PostBind, PrescreenPrepare
    <2>5. CASE CheckExecutedPlan
      <3>1. [st EXCEPT !.authorized = TRUE] \in States
        BY DEF States
      <3>2. passed' \in SUBSET (Checks \X Snapshots)
        BY <2>5 DEF CheckExecutedPlan, Checks
      <3>3. CASE Record(st, "execution", st.policy, "denied", AfterPlan)
        BY <1>19, <3>2, <3>3, RecordType DEF PostBind
      <3>4. CASE AuthorizeFails(st, AfterPlan)
        BY <1>19, <3>2, <3>4, AuthorizeType DEF PostBind
      <3>5. ASSUME NEW r \in {st.result, "denied"},
                   Record([st EXCEPT !.authorized = TRUE], "execution", st.policy, r, AfterPlan)
            PROVE  TypeOK'
        BY <1>19, <3>1, <3>2, <3>5, RecordType DEF PostBind
      <3> QED BY <2>5, <3>3, <3>4, <3>5 DEF CheckExecutedPlan
    <2> QED BY <1>19, <2>1, <2>2, <2>3, <2>4, <2>5 DEF PostBind
  <1>20. CASE PostBindWrapper
    <2>1. st.policy \in Snapshots /\ "final" \in Phases /\ {"execution", "prepare"} \subseteq Boundaries /\ "denied" \in Results
      BY DEF States, Phases, Boundaries, Results
    <2> QED BY <1>20, <2>1, RecordType DEF PostBindWrapper, DecidedPlan
  <1>21. CASE Execute
    BY <1>21 DEF Execute, Phases, Errors
  <1>22. CASE ExecutionFails
    BY <1>22 DEF ExecutionFails, Phases, Errors
  <1>23. CASE Advance
    BY <1>23 DEF Advance, Phases, Errors, NoAdmission, Snapshots
  <1>24. CASE Finish
    BY <1>24 DEF Finish, Phases, Errors
  <1>25. CASE QueryEnd
    <2>1. [st EXCEPT !.decided = TRUE, !.result = "denied"] \in States /\ st.policy \in Snapshots
      BY DEF States, Results
    <2>2. [mode |-> "log_only", boundary |-> "authorize", policy |-> st.policy, result |-> "denied"] \in Records
      BY <2>1 DEF Records, Modes, Boundaries, Results
    <2>3. log' \in Seq(Records)
      BY <1>25, <2>2, AppendType DEF QueryEnd
    <2> QED BY <1>25, <2>1, <2>3 DEF QueryEnd, Phases, Errors
  <1>26. CASE UNCHANGED vars
    BY <1>26 DEF vars
  <1> QED BY <1>1, <1>2, <1>3, <1>4, <1>5, <1>6, <1>7, <1>8, <1>9, <1>10, <1>11, <1>12, <1>13, <1>14, <1>15, <1>16, <1>17, <1>18, <1>19, <1>20, <1>21, <1>22, <1>23, <1>24, <1>25, <1>26 DEF Next, HostStep, EngineStep, Plan

\* The connection's first state is well-typed.
LEMMA TypeInit == Init => TypeOK
  <1> SUFFICES ASSUME Init PROVE TypeOK
    OBVIOUS
  <1>1. NoRequest \in Requests
    BY DEF NoRequest, Requests, Shapes, Kinds
  <1>2. NoAdmission \in [id : 0 .. MaxStatements, logOnly : BOOLEAN, policy : Snapshots]
    BY BoundAssumption DEF NoAdmission, Snapshots
  <1>3. <<>> \in Seq(Records)
    OBVIOUS
  <1>4. 0 \in 0 .. MaxStatements
    BY BoundAssumption
  <1>5. "idle" \in Phases /\ "none" \in Errors /\ Policies \subseteq Snapshots
    BY DEF Phases, Errors, Snapshots
  <1> QED BY <1>1, <1>2, <1>3, <1>4, <1>5, ResetType DEF Init, TypeOK

\* Every variable keeps a value of its kind, under every interleaving of host and engine.
THEOREM TypeCorrect == Spec => []TypeOK
  BY TypeInit, TypeStep, PTL DEF Spec

\* What Record leaves in the trail and in the engine's control when it is the first record of
\* its statement.
LEMMA RecordFields ==
  ASSUME log = <<>>, NEW s \in States, NEW b, NEW p, NEW r, NEW g, Record(s, b, p, r, g)
  PROVE  /\ \/ /\ log' = <<[mode |-> ModeFor(s.logOnly), boundary |-> b, policy |-> p, result |-> r]>>
               /\ r = "denied" /\ ~s.logOnly => error' = "refused" /\ phase' \in {"fail", "end"}
               /\ r # "denied" \/ s.logOnly => error' = error /\ phase' = g
            \/ log' = <<>> /\ error' = "sink" /\ phase' \in {"fail", "end"}
         /\ phase \in Planning => phase' \in {"fail", g}
         /\ phase \notin Planning => phase' \in {"end", g}
  <1>1. \A e : Append(log, e) = <<e>>
    OBVIOUS
  <1>2. s.logOnly \in BOOLEAN
    BY DEF States
  <1>3. phase \in Planning => phase' \in {"fail", g}
    BY DEF Record, Decide, Throw
  <1>4. phase \notin Planning => phase' \in {"end", g}
    BY DEF Record, Decide, Throw
  <1>5. \/ /\ log' = <<[mode |-> ModeFor(s.logOnly), boundary |-> b, policy |-> p, result |-> r]>>
           /\ r = "denied" /\ ~s.logOnly => error' = "refused" /\ phase' \in {"fail", "end"}
           /\ r # "denied" \/ s.logOnly => error' = error /\ phase' = g
        \/ log' = <<>> /\ error' = "sink" /\ phase' \in {"fail", "end"}
    BY <1>1, <1>2 DEF Record, Decide, Throw, ModeFor
  <1> QED BY <1>3, <1>4, <1>5

\* The first record of a current statement, at any boundary, keeps the invariant.
LEMMA RecordStep ==
  ASSUME IInv, TypeOK', CurrentStatement, log = <<>>, phase \notin {"idle", "begin", "end"},
         NEW s \in States, NEW b, NEW r \in {"ok", "denied"}, NEW g \in {"plan", "wrapper", "final", "end"},
         Record(s, b, s.policy, r, g),
         s.inStatement, s.statementId = activeQuery, s.logOnly = st.logOnly, ~s.prepareDecided,
         s.authorized => s.admitted,
         s.executingPrepared => request.shape = "execute",
         admission' = [id |-> activeQuery, logOnly |-> s.logOnly, policy |-> s.policy],
         s.admitted => s.policy # None /\ <<"text", s.policy>> \in passed' /\ request.kind = "select",
         s.authorized => <<"objects", s.policy>> \in passed',
         UNCHANGED <<query, enforced>>,
         error = "none" \/ g = "end",
         g = "end" => r = "denied" /\ error # "none",
         g = "plan" => r = "denied" /\ phase = "admit",
         g \in {"wrapper", "final"} =>
           /\ phase \in {"postbind", "wrapper"}
           /\ request.shape = "prepare" => r = "denied"
           /\ r = "ok" => /\ s.admitted /\ b = "execution"
                          /\ {"text", "objects", "plan"} \X {s.policy} \subseteq passed',
         g = "wrapper" => Wrapped /\ (request.shape = "execute" => s.executingPrepared)
  PROVE  IInv'
  <1> DEFINE rec == [mode |-> ModeFor(s.logOnly), boundary |-> b, policy |-> s.policy, result |-> r]
  <1>1. /\ st'.statementId = activeQuery /\ st'.policy = s.policy /\ st'.result = r
        /\ st'.logOnly = s.logOnly /\ st'.inStatement /\ st'.decided
        /\ ~st'.prepareDecided /\ st'.admitted = s.admitted
        /\ st'.authorized = s.authorized /\ st'.executingPrepared = s.executingPrepared
        /\ st'.prescreened = s.prescreened
    <2>1. /\ st'.statementId = s.statementId /\ st'.policy = s.policy /\ st'.result = r
          /\ st'.logOnly = s.logOnly /\ st'.inStatement = s.inStatement /\ st'.decided = TRUE
          /\ st'.prepareDecided = s.prepareDecided /\ st'.admitted = s.admitted
          /\ st'.authorized = s.authorized /\ st'.executingPrepared = s.executingPrepared
          /\ st'.prescreened = s.prescreened
      BY DEF Record, States
    <2> QED BY <2>1
  <1>2. \/ /\ log' = <<rec>>
           /\ r = "denied" /\ ~s.logOnly => error' = "refused" /\ phase' \in {"fail", "end"}
           /\ r # "denied" \/ s.logOnly => error' = error /\ phase' = g
        \/ log' = <<>> /\ error' = "sink" /\ phase' \in {"fail", "end"}
    BY RecordFields
  <1>3. phase' \in {"fail", "end", g} /\ (phase' = "fail" => phase \in Planning)
    <2>1. (phase \in Planning => phase' \in {"fail", g}) /\ (phase \notin Planning => phase' \in {"end", g})
      BY RecordFields
    <2> QED BY <2>1
  <1>4. /\ activeQuery' = activeQuery /\ lastId' = lastId /\ request' = request /\ enforced' = enforced
        /\ activeQuery # 0 /\ activeQuery <= lastId /\ enforced
    BY DEF query, IInv, CurrentStatement, PhaseOK
  <1>5. CurrentStatement'
    BY <1>1, <1>4 DEF CurrentStatement
  <1>6. Len(<<rec>>) = 1 /\ <<rec>>[1] = rec /\ <<rec>> # <<>> /\ Len(<<>>) = 0
    OBVIOUS
  <1>7. s.logOnly \in BOOLEAN
    BY DEF States
  <1>8. admission'.id = activeQuery /\ admission'.logOnly = s.logOnly /\ admission'.policy = s.policy
    OBVIOUS
  <1>9. FlagInvariant'
    BY <1>1 DEF FlagInvariant
  <1>10. PhaseOK'
    BY <1>1, <1>2, <1>3, <1>4, EngineAssumption DEF PhaseOK, IInv, Wrapped
  <1>11. AdmissionOK'
    BY <1>1, <1>3, <1>4, <1>5, <1>8 DEF AdmissionOK
  <1>12. ChecksOK'
    BY <1>1, <1>4, <1>5 DEF ChecksOK, IInv
  <1>13. RecordOK'
    BY <1>1, <1>2, <1>6 DEF RecordOK
  <1>14. PlanOK'
    BY <1>1, <1>2, <1>3, <1>4, <1>7 DEF PlanOK
  <1>15. DecidedOK'
    BY <1>1, <1>2, <1>3, <1>4, <1>5, <1>7 DEF DecidedOK, ModeFor
  <1>16. RecordedOnce'
    <2>1. Len(log') <= 1
      <3>1. CASE log' = <<rec>>
        BY <1>6, <3>1
      <3>2. CASE log' = <<>>
        BY <1>6, <3>2
      <3> QED BY <1>2, <3>1, <3>2
    <2>2. phase' \notin {"run", "done"}
      BY <1>3
    <2> HIDE DEF rec
    <2> QED BY <2>1, <2>2 DEF RecordedOnce
  <1>17. SnapshotGoverns'
    BY <1>2, <1>6, <1>8 DEF SnapshotGoverns
  <1>18. LogOnlyNeverRefuses'
    BY <1>2, <1>4, <1>7, <1>8 DEF LogOnlyNeverRefuses, IInv, AdmissionOK
  <1>19. LogOnlyTrail'
    BY <1>3 DEF LogOnlyTrail
  <1> QED BY <1>9, <1>10, <1>11, <1>12, <1>13, <1>14, <1>15, <1>16, <1>17, <1>18, <1>19 DEF IInv

\* Beginning a statement, from QueryBegin or for the next statement of a batch, keeps the
\* invariant: the new state vouches for nothing, and the statement has no history.
LEMMA BeginStep ==
  ASSUME IInv, TypeOK', BeginStatement, phase \in {"begin", "plan"}, activeQuery # 0, ~CurrentStatement
  PROVE  IInv'
  <1>1. /\ st'.statementId = activeQuery /\ st'.policy = None /\ st'.inStatement = TRUE
        /\ st'.decided = FALSE /\ st'.prepareDecided = FALSE /\ st'.admitted = FALSE
        /\ st'.authorized = FALSE /\ st'.executingPrepared = FALSE /\ st'.prescreened = FALSE
        /\ st'.logOnly = (LogOnlySetting /\ ~RoutingControl)
    BY DEF BeginStatement, Reset
  <1>2. /\ admission' = [id |-> activeQuery, logOnly |-> st'.logOnly, policy |-> None]
        /\ st' = [Reset EXCEPT !.inStatement = TRUE, !.statementId = activeQuery, !.logOnly = st'.logOnly]
    BY <1>1 DEF BeginStatement
  <1>3. /\ phase' = "admit" /\ activeQuery' = activeQuery /\ lastId' = lastId /\ request' = request
        /\ enforced' = enforced /\ enforced /\ activeQuery <= lastId /\ error' = "none"
        /\ EngineMajor = 1 => request.shape # "prepare"
    BY DEF BeginStatement, IInv, PhaseOK, conn, query
  <1>4. log' = <<>> /\ passed' = {}
    BY DEF BeginStatement, IInv, AdmissionOK
  <1>5. CurrentStatement'
    BY <1>1, <1>3 DEF CurrentStatement
  <1>6. Len(log') = 0
    BY <1>4
  <1>7. FlagInvariant'
    BY <1>1 DEF FlagInvariant
  <1>8. PhaseOK'
    BY <1>1, <1>3 DEF PhaseOK
  <1>9. AdmissionOK'
    BY <1>1, <1>2, <1>3, <1>5 DEF AdmissionOK
  <1>10. ChecksOK' /\ RecordOK'
    <2>1. st'.logOnly => request'.kind # "routing"
      BY <1>1, <1>3 DEF RoutingControl, IInv, TypeOK, Requests, Kinds
    <2> QED BY <1>1, <1>4, <2>1 DEF ChecksOK, RecordOK
  <1>11. PlanOK' /\ DecidedOK' /\ LogOnlyTrail'
    BY <1>3 DEF PlanOK, DecidedOK, LogOnlyTrail
  <1>12. RecordedOnce' /\ SnapshotGoverns' /\ LogOnlyNeverRefuses'
    BY <1>3, <1>6 DEF RecordedOnce, SnapshotGoverns, LogOnlyNeverRefuses
  <1> QED BY <1>7, <1>8, <1>9, <1>10, <1>11, <1>12 DEF IInv

\* A nonempty trail has a first record.
LEMMA NonEmpty == ASSUME NEW S, NEW q \in Seq(S), q # <<>> PROVE Len(q) \in Nat /\ Len(q) >= 1
  OBVIOUS

\* A step of the host on the settings, or on a connection not yet latched, and a step of the
\* engine that only moves its control keep the invariant.
LEMMA ControlStep ==
  ASSUME IInv, TypeOK',
         \/ HostSetPolicy \/ HostSetLogOnly \/ HostSetRemotePushdown \/ HostSetup \/ UNCHANGED vars
         \/ EngineRejects \/ BindFails \/ BindYieldsNoPlan \/ BindYieldsPlan \/ Execute \/ ExecutionFails \/ Finish
  PROVE  IInv'
  <1> USE EngineAssumption DEF IInv, host, conn, query, CurrentStatement, Wrapped, FlagInvariant, PhaseOK, AdmissionOK, ChecksOK, RecordOK, PlanOK, DecidedOK,
       RecordedOnce, SnapshotGoverns, LogOnlyNeverRefuses, LogOnlyTrail
  <1>1. CASE HostSetPolicy
    BY <1>1 DEF HostSetPolicy
  <1>2. CASE HostSetLogOnly
    BY <1>2 DEF HostSetLogOnly
  <1>3. CASE HostSetRemotePushdown
    BY <1>3 DEF HostSetRemotePushdown
  <1>4. CASE HostSetup
    BY <1>4 DEF HostSetup
  <1>5. CASE UNCHANGED vars
    BY <1>5 DEF vars
  <1>6. CASE EngineRejects
    BY <1>6 DEF EngineRejects
  <1>7. CASE BindFails
    BY <1>7 DEF BindFails
  <1>8. CASE BindYieldsNoPlan
    BY <1>8 DEF BindYieldsNoPlan
  <1>9. CASE BindYieldsPlan
    BY <1>9 DEF BindYieldsPlan
  <1>10. CASE Execute
    BY <1>10 DEF Execute
  <1>11. CASE ExecutionFails
    BY <1>11 DEF ExecutionFails
  <1>12. CASE Finish
    BY <1>12 DEF Finish
  <1> QED BY <1>1, <1>2, <1>3, <1>4, <1>5, <1>6, <1>7, <1>8, <1>9, <1>10, <1>11, <1>12

\* Outside any query only a DuckDB 1.5 Prepare() is in progress, and no statement of this
\* connection is described: a step there keeps the invariant if it keeps the flags and leaves
\* what an earlier statement left decided.
LEMMA OutsideStep ==
  ASSUME IInv, TypeOK', activeQuery = 0, phase # "idle", UNCHANGED <<query, enforced, admission>>,
         FlagInvariant', st'.statementId <= lastId, st'.inStatement => st'.decided,
         phase' \in {"idle", "bind", "postbind", "final", "fail"},
         phase' \in {"idle", "fail"} \/ error' = "none", phase' = "fail" => error' # "none"
  PROVE  IInv'
  <1>1. /\ EngineMajor = 1 /\ request.shape = "prepare" /\ admission.id = 0 /\ enforced
        /\ activeQuery' = 0 /\ lastId' = lastId /\ request' = request /\ admission' = admission /\ enforced'
        /\ activeQuery <= lastId
    BY DEF IInv, PhaseOK, query
  <1>2. ~CurrentStatement'
    BY <1>1 DEF CurrentStatement
  <1>3. PhaseOK'
    BY <1>1 DEF PhaseOK
  <1>4. AdmissionOK'
    BY <1>1, <1>2 DEF AdmissionOK
  <1>5. ChecksOK' /\ RecordOK' /\ PlanOK'
    BY <1>2 DEF ChecksOK, RecordOK, PlanOK
  <1>6. DecidedOK'
    BY <1>1 DEF DecidedOK
  <1>7. RecordedOnce' /\ SnapshotGoverns' /\ LogOnlyNeverRefuses' /\ LogOnlyTrail'
    BY <1>1 DEF RecordedOnce, SnapshotGoverns, LogOnlyNeverRefuses, LogOnlyTrail
  <1> QED BY <1>3, <1>4, <1>5, <1>6, <1>7 DEF IInv

\* Admission that records nothing: the statement goes on to be planned with the checks its flags
\* vouch for, or an exception ends it.
LEMMA AdmitQuietly ==
  ASSUME IInv, TypeOK', phase = "admit", NEW s \in States, st' = s,
         s.inStatement, s.statementId = activeQuery, s.logOnly = st.logOnly, ~s.prepareDecided,
         ~s.decided, ~s.executingPrepared, s.authorized => s.admitted, ~s.prescreened,
         s.admitted => s.policy # None /\ <<"text", s.policy>> \in passed' /\ request.kind = "select" /\ s.result = "ok",
         s.authorized => <<"objects", s.policy>> \in passed',
         admission' = [id |-> activeQuery, logOnly |-> s.logOnly, policy |-> s.policy],
         log' = <<>>, UNCHANGED <<query, enforced>>,
         \/ phase' = "plan" /\ error' = "none" /\ s.admitted
         \/ phase' = "end" /\ error' \in {"engine", "fatal"}
  PROVE  IInv'
  <1>1. /\ activeQuery' = activeQuery /\ lastId' = lastId /\ request' = request /\ enforced' = enforced
        /\ activeQuery # 0 /\ activeQuery <= lastId /\ enforced /\ (EngineMajor = 1 => request.shape # "prepare")
        /\ st.logOnly => request.kind # "routing"
    BY DEF query, IInv, AdmissionOK, CurrentStatement, PhaseOK, ChecksOK
  <1>2. CurrentStatement'
    BY <1>1 DEF CurrentStatement
  <1>3. Len(log') = 0
    OBVIOUS
  <1>4. FlagInvariant'
    BY DEF FlagInvariant
  <1>5. PhaseOK'
    BY <1>1 DEF PhaseOK
  <1>6. AdmissionOK'
    BY <1>1, <1>2 DEF AdmissionOK
  <1>7. ChecksOK' /\ RecordOK'
    BY <1>1, <1>2 DEF ChecksOK, RecordOK
  <1>8. PlanOK' /\ DecidedOK' /\ LogOnlyTrail'
    BY <1>1 DEF PlanOK, DecidedOK, LogOnlyTrail
  <1>9. RecordedOnce' /\ SnapshotGoverns' /\ LogOnlyNeverRefuses'
    BY <1>3 DEF RecordedOnce, SnapshotGoverns, LogOnlyNeverRefuses
  <1> QED BY <1>4, <1>5, <1>6, <1>7, <1>8, <1>9 DEF IInv

\* The rest of BeginStatement keeps the invariant.
LEMMA AdmitStep ==
  ASSUME IInv, TypeOK', Admit
  PROVE  IInv'
  <1> DEFINE read == [st EXCEPT !.policy = policySetting]
             open == [read EXCEPT !.admitted = TRUE, !.result = "ok"]
             bound == [open EXCEPT !.authorized = TRUE]
  <1>1. /\ phase = "admit" /\ CurrentStatement /\ log = <<>> /\ error = "none" /\ activeQuery # 0
        /\ st \in States /\ st.inStatement = TRUE /\ st.statementId = activeQuery /\ st.policy = None
        /\ st.decided = FALSE /\ st.prepareDecided = FALSE /\ st.admitted = FALSE /\ st.authorized = FALSE
        /\ st.executingPrepared = FALSE /\ st.prescreened = FALSE
        /\ admission = [id |-> activeQuery, logOnly |-> st.logOnly, policy |-> st.policy]
    <2>1. /\ phase = "admit" /\ st \in States /\ activeQuery # 0 /\ CurrentStatement /\ error = "none"
          /\ admission = [id |-> activeQuery, logOnly |-> st.logOnly, policy |-> st.policy]
          /\ st = [Reset EXCEPT !.inStatement = TRUE, !.statementId = activeQuery, !.logOnly = st.logOnly]
      BY DEF Admit, IInv, TypeOK, PhaseOK, AdmissionOK
    <2>2. /\ st.inStatement = TRUE /\ st.statementId = activeQuery /\ st.policy = None
          /\ st.decided = FALSE /\ st.prepareDecided = FALSE /\ st.admitted = FALSE /\ st.authorized = FALSE
          /\ st.executingPrepared = FALSE /\ st.prescreened = FALSE
      BY <2>1 DEF Reset
    <2>3. log = <<>>
      BY <2>1, <2>2 DEF IInv, RecordOK
    <2> QED BY <2>1, <2>2, <2>3
  <1>2. /\ read \in States /\ read.inStatement = TRUE /\ read.statementId = activeQuery
        /\ read.policy = policySetting /\ read.logOnly = st.logOnly
        /\ read.decided = FALSE /\ read.prepareDecided = FALSE /\ read.admitted = FALSE /\ read.authorized = FALSE
        /\ read.executingPrepared = FALSE /\ read.prescreened = FALSE
    BY <1>1 DEF States, IInv, TypeOK
  <1>3. /\ open \in States /\ open.inStatement = TRUE /\ open.statementId = activeQuery
        /\ open.policy = policySetting /\ open.logOnly = st.logOnly /\ open.result = "ok"
        /\ open.decided = FALSE /\ open.prepareDecided = FALSE /\ open.admitted = TRUE /\ open.authorized = FALSE
        /\ open.executingPrepared = FALSE /\ open.prescreened = FALSE
    BY <1>2 DEF States, Results
  <1>4. /\ bound \in States /\ bound.inStatement = TRUE /\ bound.statementId = activeQuery
        /\ bound.policy = policySetting /\ bound.logOnly = st.logOnly /\ bound.result = "ok"
        /\ bound.decided = FALSE /\ bound.prepareDecided = FALSE /\ bound.admitted = TRUE /\ bound.authorized = TRUE
        /\ bound.executingPrepared = FALSE /\ bound.prescreened = FALSE
    BY <1>3 DEF States
  <1>5. UNCHANGED <<query, enforced>>
    BY DEF Admit, conn
  <1>6. CASE Unreadable
    <2>1. Record(st, "binding", st.policy, "denied", "plan") /\ admission' = admission
      BY <1>1, <1>6 DEF Unreadable
    <2> QED BY <1>1, <1>5, <2>1, RecordStep
  <1>7. CASE TryGlobalPolicy /\ TextRefused(read) /\ admission' = [admission EXCEPT !.policy = policySetting]
    <2>1. admission' = [id |-> activeQuery, logOnly |-> read.logOnly, policy |-> read.policy]
      BY <1>1, <1>2, <1>7
    <2>2. CASE Record(read, "binding", read.policy, "denied", "plan")
      BY <1>1, <1>2, <1>5, <2>1, <2>2, RecordStep
    <2>3. CASE st' = read /\ log' = log /\ Throw("fatal")
      <3>1. phase' = "end" /\ error' = "fatal" /\ log' = <<>>
        BY <1>1, <2>3 DEF Throw, Planning
      <3> QED BY <1>1, <1>2, <1>5, <2>1, <2>3, <3>1, AdmitQuietly
    <2> QED BY <1>7, <2>2, <2>3 DEF TextRefused
  <1>8. CASE TryGlobalPolicy /\ TextAdmitted(open) /\ admission' = [admission EXCEPT !.policy = policySetting]
    <2>1. admission' = [id |-> activeQuery, logOnly |-> open.logOnly, policy |-> open.policy]
      BY <1>1, <1>3, <1>8
    <2>2. open.policy # None /\ request.kind = "select" /\ <<"text", open.policy>> \in passed'
      BY <1>3, <1>8 DEF TextAdmitted, TryGlobalPolicy
    <2>3. CASE Record(open, "binding", open.policy, "denied", "plan")
      BY <1>1, <1>3, <1>5, <2>1, <2>2, <2>3, RecordStep
    <2>4. CASE AuthorizeFails(open, "plan")
      <3>1. CASE Record(open, "authorize", open.policy, "denied", "plan")
        BY <1>1, <1>3, <1>5, <2>1, <2>2, <3>1, RecordStep
      <3>2. CASE st' = open /\ log' = log /\ (Throw("engine") \/ Throw("fatal"))
        <4>1. phase' = "end" /\ error' \in {"engine", "fatal"} /\ log' = <<>>
          BY <1>1, <3>2 DEF Throw, Planning
        <4> QED BY <1>1, <1>3, <1>5, <2>1, <2>2, <3>2, <4>1, AdmitQuietly
      <3> QED BY <2>4, <3>1, <3>2 DEF AuthorizeFails
    <2>5. CASE st' = open /\ phase' = "plan" /\ UNCHANGED <<error, log>>
      <3>1. phase' = "plan" /\ error' = "none" /\ log' = <<>> /\ st' = open
        BY <1>1, <2>5
      <3> QED BY <1>1, <1>3, <1>5, <2>1, <2>2, <3>1, AdmitQuietly
    <2>6. CASE st' = bound /\ phase' = "plan" /\ UNCHANGED <<error, log>> /\ <<"objects", open.policy>> \in passed'
      <3>1. phase' = "plan" /\ error' = "none" /\ log' = <<>> /\ st' = bound
        BY <1>1, <2>6
      <3>2. admission' = [id |-> activeQuery, logOnly |-> bound.logOnly, policy |-> bound.policy]
        BY <1>3, <1>4, <2>1
      <3>3. bound.policy # None /\ <<"text", bound.policy>> \in passed' /\ <<"objects", bound.policy>> \in passed' /\ request.kind = "select"
        BY <1>3, <1>4, <2>2, <2>6
      <3> QED BY <1>1, <1>4, <1>5, <3>1, <3>2, <3>3, AdmitQuietly
    <2> QED BY <1>8, <2>3, <2>4, <2>5, <2>6 DEF TextAdmitted
  <1> QED BY <1>6, <1>7, <1>8 DEF Admit

\* A plan the engine's planner hands to PostBind, and the 2.0 wrapper after it, keep the
\* invariant.
LEMMA PostBindStep ==
  ASSUME IInv, TypeOK', PostBind
  PROVE  IInv'
  <1> DEFINE bound == [st EXCEPT !.authorized = TRUE]
             seen == [st EXCEPT !.prescreened = TRUE]
             clear == [st EXCEPT !.prepareDecided = FALSE]
  <1>1. /\ phase = "postbind" /\ error = "none" /\ st \in States /\ UNCHANGED <<query, enforced, admission>>
        /\ st.statementId <= lastId /\ FlagInvariant
    BY DEF PostBind, IInv, TypeOK, PhaseOK, conn
  <1>2. CASE activeQuery = 0
    <2>1. st.inStatement => st.decided
      BY <1>2 DEF IInv, AdmissionOK, CurrentStatement
    <2>2. ~CurrentStatement /\ ~UndecidedPlan
      BY <1>2 DEF CurrentStatement, UndecidedPlan
    <2>3. CASE PrescreenOutside
      <3>1. clear.statementId = st.statementId /\ clear.inStatement = st.inStatement /\ clear.decided = st.decided
            /\ clear.prepareDecided = FALSE /\ clear.admitted = st.admitted /\ clear.authorized = st.authorized
            /\ clear.executingPrepared = st.executingPrepared /\ clear.prescreened = st.prescreened
        BY <1>1 DEF States
      <3>2. FlagInvariant' /\ st'.statementId <= lastId /\ ~st'.inStatement
        <4>1. CASE st' = clear
          BY <1>1, <2>3, <3>1, <4>1 DEF FlagInvariant, PrescreenOutside
        <4>2. CASE st' = st
          BY <1>1, <2>3, <4>2 DEF FlagInvariant, PrescreenOutside
        <4> QED BY <2>3, <4>1, <4>2 DEF PrescreenOutside
      <3>3. phase' \in {"final", "fail"} /\ (phase' = "fail" \/ error' = "none") /\ (phase' = "fail" => error' # "none")
        BY <1>1, <2>3 DEF PrescreenOutside, Decide, Throw, Planning
      <3> QED BY <1>1, <1>2, <3>2, <3>3, OutsideStep
    <2>4. CASE StalePlan(AfterPlan)
      <3>1. /\ st'.statementId = st.statementId /\ st'.inStatement = st.inStatement /\ st'.decided = TRUE
            /\ st'.prepareDecided = st.prepareDecided /\ st'.admitted = st.admitted
            /\ st'.authorized = st.authorized /\ st'.executingPrepared = st.executingPrepared
            /\ st'.prescreened = st.prescreened
        BY <1>1, <2>4 DEF StalePlan, Record, States
      <3>2. FlagInvariant' /\ st'.statementId <= lastId /\ st'.decided
        BY <1>1, <3>1 DEF FlagInvariant
      <3>3. AfterPlan = "final"
        BY <1>1, <1>2 DEF AfterPlan, Wrapped, IInv, PhaseOK
      <3>4. phase' \in {"final", "fail"} /\ (phase' = "fail" \/ error' = "none") /\ (phase' = "fail" => error' # "none")
        BY <1>1, <2>4, <3>3 DEF StalePlan, Record, Decide, Throw, Planning
      <3> QED BY <1>1, <1>2, <3>2, <3>4, OutsideStep
    <2> QED BY <2>2, <2>3, <2>4 DEF PostBind, DecidedPlan, PrescreenPrepare, CheckExecutedPlan
  <1>3. CASE activeQuery # 0
    <2>1. /\ CurrentStatement /\ st.inStatement = TRUE /\ st.statementId = activeQuery /\ ~st.prepareDecided
          /\ admission = [id |-> activeQuery, logOnly |-> st.logOnly, policy |-> st.policy]
          /\ admission' = [id |-> activeQuery, logOnly |-> st.logOnly, policy |-> st.policy]
      BY <1>1, <1>3 DEF IInv, AdmissionOK, CurrentStatement, FlagInvariant, TypeOK, States
    <2>2. /\ IF st.logOnly THEN st.admitted \/ st.decided ELSE st.admitted /\ ~st.decided
          /\ request.shape = "execute" => st.executingPrepared
      BY <1>1, <2>1 DEF IInv, PlanOK
    <2>3. /\ st.admitted => st.policy # None /\ <<"text", st.policy>> \in passed /\ request.kind = "select"
          /\ st.admitted /\ ~st.decided => st.result = "ok"
          /\ st.authorized => <<"objects", st.policy>> \in passed
          /\ st.executingPrepared => request.shape = "execute"
      BY <2>1 DEF IInv, ChecksOK
    <2>4. st.authorized => st.admitted
      BY <1>1 DEF FlagInvariant
    <2>5. /\ AfterPlan \in {"wrapper", "final"}
          /\ AfterPlan = "wrapper" => Wrapped
          /\ request.shape = "prepare" => Wrapped /\ ~st.executingPrepared
      BY <1>3, <2>3, EngineAssumption DEF AfterPlan, Wrapped, IInv, PhaseOK
    <2>6. passed \subseteq passed'
      BY DEF PostBind, PrescreenOutside, StalePlan, DecidedPlan, PrescreenPrepare, CheckExecutedPlan
    <2>7. st.admitted /\ UndecidedPlan => log = <<>> /\ ~st.decided
      BY <1>1, <2>1, <2>2 DEF UndecidedPlan, IInv, RecordOK
    <2>8. CASE DecidedPlan(AfterPlan)
      BY <1>1, <1>3, <2>1, <2>5, <2>8, EngineAssumption
         DEF DecidedPlan, IInv, CurrentStatement, FlagInvariant, PhaseOK, AdmissionOK, ChecksOK, RecordOK, PlanOK,
             DecidedOK, RecordedOnce, SnapshotGoverns, LogOnlyNeverRefuses, LogOnlyTrail, query, Wrapped
    <2>9. CASE PrescreenPrepare
      <3>1. CASE Record(st, "prepare", st.policy, "denied", AfterPlan)
        BY <1>1, <1>3, <2>1, <2>2, <2>3, <2>4, <2>5, <2>6, <2>7, <2>9, <3>1, RecordStep DEF UndecidedPlan, PrescreenPrepare
      <3>2. CASE st.admitted /\ st' = seen /\ phase' = AfterPlan /\ UNCHANGED <<error, log>>
        <4>1. /\ st'.statementId = st.statementId /\ st'.policy = st.policy /\ st'.result = st.result
              /\ st'.logOnly = st.logOnly /\ st'.inStatement = st.inStatement /\ st'.decided = st.decided
              /\ st'.prepareDecided = st.prepareDecided /\ st'.admitted = st.admitted
              /\ st'.authorized = st.authorized /\ st'.executingPrepared = st.executingPrepared
              /\ st'.prescreened = TRUE
          BY <1>1, <3>2 DEF States
        <4>2. log' = <<>> /\ ~st'.decided /\ Len(log') = 0
          BY <2>7, <2>9, <3>2, <4>1 DEF PrescreenPrepare
        <4>3. /\ Wrapped /\ phase' = "wrapper" /\ error' = "none" /\ request.shape = "prepare" /\ Wrapped'
              /\ activeQuery' = activeQuery /\ lastId' = lastId /\ request' = request /\ enforced' = enforced
              /\ activeQuery <= lastId /\ enforced
          BY <1>1, <2>2, <2>9, <3>2 DEF PrescreenPrepare, AfterPlan, Wrapped, query, IInv, PhaseOK
        <4>4. CurrentStatement'
          BY <2>1, <4>1, <4>3 DEF CurrentStatement
        <4>5. FlagInvariant'
          BY <1>1, <2>1, <4>1 DEF FlagInvariant
        <4>6. PhaseOK'
          BY <1>1, <1>3, <4>1, <4>3, EngineAssumption DEF PhaseOK, Wrapped
        <4>7. AdmissionOK'
          BY <2>1, <4>1, <4>3, <4>4 DEF AdmissionOK
        <4>8. ChecksOK' /\ RecordOK'
          BY <2>1, <2>3, <2>6, <4>1, <4>2, <4>3, <4>4 DEF IInv, ChecksOK, RecordOK
        <4>9. PlanOK' /\ DecidedOK' /\ LogOnlyTrail'
          BY <4>1, <4>2, <4>3 DEF PlanOK, DecidedOK, LogOnlyTrail
        <4>10. RecordedOnce' /\ SnapshotGoverns' /\ LogOnlyNeverRefuses'
          BY <4>2, <4>3 DEF RecordedOnce, SnapshotGoverns, LogOnlyNeverRefuses
        <4> QED BY <4>5, <4>6, <4>7, <4>8, <4>9, <4>10 DEF IInv
      <3> QED BY <2>9, <3>1, <3>2 DEF PrescreenPrepare
    <2>10. CASE CheckExecutedPlan
      <3>1. st.admitted /\ log = <<>> /\ ~st.decided /\ st.result = "ok" /\ request.shape # "prepare"
        BY <2>2, <2>3, <2>5, <2>7, <2>10 DEF CheckExecutedPlan, UndecidedPlan
      <3>2. CASE Record(st, "authorize", st.policy, "denied", AfterPlan)
        BY <1>1, <1>3, <2>1, <2>2, <2>3, <2>4, <2>5, <2>6, <3>1, <3>2, RecordStep
      <3>3. CASE st' = st /\ log' = log /\ (Throw("engine") \/ Throw("fatal")) /\ UNCHANGED passed
        <4>1. phase' = "fail" /\ error' \in {"engine", "fatal"} /\ log' = log /\ st' = st /\ passed' = passed
          BY <1>1, <3>3 DEF Throw, Planning
        <4> QED BY <1>1, <1>3, <2>1, <3>1, <4>1
              DEF IInv, CurrentStatement, FlagInvariant, PhaseOK, AdmissionOK, ChecksOK, RecordOK, PlanOK,
                  DecidedOK, RecordedOnce, SnapshotGoverns, LogOnlyNeverRefuses, LogOnlyTrail, query, Wrapped
      <3>4. ASSUME NEW r \in {"ok", "denied"}, Record(bound, "execution", st.policy, r, AfterPlan),
                   <<"objects", st.policy>> \in passed', r = "ok" => <<"plan", st.policy>> \in passed'
            PROVE  IInv'
        <4>1. /\ bound \in States /\ bound.inStatement = TRUE /\ bound.statementId = activeQuery
              /\ bound.policy = st.policy /\ bound.logOnly = st.logOnly /\ bound.prepareDecided = st.prepareDecided
              /\ bound.admitted = st.admitted /\ bound.authorized = TRUE
              /\ bound.executingPrepared = st.executingPrepared
          BY <1>1, <2>1 DEF States
        <4>2. Record(bound, "execution", bound.policy, r, AfterPlan)
          BY <3>4, <4>1
        <4>3. r = "ok" => {"text", "objects", "plan"} \X {bound.policy} \subseteq passed'
          BY <2>3, <2>6, <3>1, <3>4, <4>1
        <4>4. bound.policy # None /\ <<"text", bound.policy>> \in passed' /\ <<"objects", bound.policy>> \in passed' /\ request.kind = "select"
          BY <2>3, <2>6, <3>1, <3>4, <4>1
        <4>5. admission' = [id |-> activeQuery, logOnly |-> bound.logOnly, policy |-> bound.policy]
          BY <2>1, <4>1
        <4>6. bound.admitted /\ ~bound.prepareDecided /\ (bound.executingPrepared => request.shape = "execute")
              /\ (request.shape = "execute" => bound.executingPrepared)
          BY <2>1, <2>2, <2>3, <3>1, <4>1
        <4> HIDE DEF bound
        <4> QED BY <1>1, <1>3, <2>1, <2>5, <3>1, <4>1, <4>2, <4>3, <4>4, <4>5, <4>6, RecordStep
      <3> QED BY <2>10, <3>1, <3>2, <3>3, <3>4 DEF CheckExecutedPlan, AuthorizeFails
    <2>11. ~StalePlan(AfterPlan) /\ ~PrescreenOutside
      BY <2>1 DEF StalePlan, PrescreenOutside
    <2> QED BY <2>8, <2>9, <2>10, <2>11 DEF PostBind
  <1> QED BY <1>2, <1>3

\* PostBind on the 2.0 wrapper keeps the invariant: its only record refuses a Prepare() none of
\* whose plan was screened.
LEMMA WrapperStep ==
  ASSUME IInv, TypeOK', PostBindWrapper
  PROVE  IInv'
  <1>1. /\ phase = "wrapper" /\ error = "none" /\ st \in States /\ UNCHANGED <<query, enforced, admission>>
        /\ FlagInvariant /\ activeQuery # 0 /\ passed' = passed
    BY DEF PostBindWrapper, DecidedPlan, IInv, TypeOK, PhaseOK, conn
  <1>2. CurrentStatement /\ Wrapped
    BY <1>1 DEF IInv, AdmissionOK, PhaseOK
  <1>3. CASE phase' = "final" /\ UNCHANGED <<error, st, log>>
    BY <1>1, <1>2, <1>3, EngineAssumption
       DEF IInv, CurrentStatement, FlagInvariant, PhaseOK, AdmissionOK, ChecksOK, RecordOK, PlanOK,
           DecidedOK, RecordedOnce, SnapshotGoverns, LogOnlyNeverRefuses, LogOnlyTrail, query
  <1>4. ASSUME UndecidedPlan, ~WrapperAccepted, NEW b, Record(st, b, st.policy, "denied", "final")
        PROVE  IInv'
    <2>1. request.shape = "prepare"
      BY <1>1, <1>2, <1>4 DEF UndecidedPlan, WrapperAccepted, IInv, DecidedOK
    <2>2. log = <<>>
      BY <1>1, <1>2, <1>4, <2>1 DEF UndecidedPlan, WrapperAccepted, IInv, DecidedOK, RecordOK
    <2>3. /\ st.inStatement /\ st.statementId = activeQuery /\ ~st.prepareDecided
          /\ st.authorized => st.admitted
          /\ st.executingPrepared => request.shape = "execute"
          /\ admission' = [id |-> activeQuery, logOnly |-> st.logOnly, policy |-> st.policy]
          /\ st.admitted => st.policy # None /\ <<"text", st.policy>> \in passed' /\ request.kind = "select"
          /\ st.authorized => <<"objects", st.policy>> \in passed'
      BY <1>1, <1>2 DEF IInv, AdmissionOK, ChecksOK, FlagInvariant, CurrentStatement
    <2> QED BY <1>1, <1>2, <1>4, <2>1, <2>2, <2>3, RecordStep
  <1> QED BY <1>3, <1>4 DEF PostBindWrapper, DecidedPlan

\* The replacement-scan gate records at most the first denial of a statement, and marks it decided.
LEMMA GateStep ==
  ASSUME IInv, TypeOK', GatekeeperReplacementScan
  PROVE  IInv'
  <1>1. /\ phase = "bind" /\ error = "none" /\ st \in States /\ UNCHANGED <<query, enforced, admission>>
        /\ FlagInvariant /\ st.statementId <= lastId /\ passed' = passed
    BY DEF GatekeeperReplacementScan, IInv, TypeOK, PhaseOK, conn
  <1>2. /\ phase' \in {"bind", "fail"} /\ (phase' = "fail" \/ error' = "none") /\ (phase' = "fail" => error' # "none")
    BY <1>1 DEF GatekeeperReplacementScan, Decide, Throw, Planning
  <1>3. CASE activeQuery = 0
    <2>1. ~CurrentStatement /\ (st.inStatement => st.decided)
      BY <1>3 DEF IInv, AdmissionOK, CurrentStatement
    <2>2. FlagInvariant' /\ st'.statementId <= lastId /\ (st'.inStatement => st'.decided)
      <3>1. CASE st.inStatement
        <4>1. st' = [st EXCEPT !.decided = TRUE]
          BY <3>1 DEF GatekeeperReplacementScan, MarkGateDecided
        <4> QED BY <1>1, <3>1, <4>1 DEF FlagInvariant, States
      <3>2. CASE ~st.inStatement
        <4>1. st' = [st EXCEPT !.prepareDecided = TRUE]
          BY <3>2 DEF GatekeeperReplacementScan, MarkGateDecided
        <4> QED BY <1>1, <3>2, <4>1 DEF FlagInvariant, States
      <3> QED BY <3>1, <3>2
    <2> QED BY <1>1, <1>2, <1>3, <2>2, OutsideStep
  <1>4. CASE activeQuery # 0
    <2>1. /\ CurrentStatement /\ st.inStatement = TRUE /\ st.statementId = activeQuery /\ ~st.prepareDecided
          /\ admission = [id |-> activeQuery, logOnly |-> st.logOnly, policy |-> st.policy]
      BY <1>1, <1>4 DEF IInv, AdmissionOK, CurrentStatement, FlagInvariant, TypeOK, States
    <2>2. /\ st.admitted /\ ~st.decided
          /\ (ReplacementGate = IF st.logOnly THEN "log_only" ELSE "enforce")
      BY <1>1, <2>1 DEF IInv, PlanOK, GatekeeperReplacementScan, ReplacementGate
    <2>3. st.policy # None /\ GatePolicy = st.policy
      BY <2>1, <2>2 DEF IInv, ChecksOK, GatePolicy, AdmittedPolicy
    <2> DEFINE rec == [mode |-> ModeFor(st.logOnly), boundary |-> "replacement_scan",
                       policy |-> st.policy, result |-> "denied"]
    <2>4. log = <<>>
      BY <1>1, <2>1, <2>2 DEF IInv, RecordOK
    <2>5. Append(log, rec) = <<rec>> /\ Len(<<rec>>) = 1 /\ <<rec>>[1] = rec /\ <<rec>> # <<>> /\ Len(<<>>) = 0
      BY <2>4
    <2>6. st.logOnly \in BOOLEAN
      BY <1>1 DEF States
    <2>7. \/ log' = <<rec>> /\ (st.logOnly => phase' = "bind") /\ (~st.logOnly => phase' = "fail" /\ error' = "refused")
          \/ log' = <<>> /\ phase' = "fail" /\ error' = "sink"
      BY <1>1, <2>2, <2>3, <2>4, <2>5, <2>6 DEF GatekeeperReplacementScan, Decide, Throw, Planning, ModeFor
    <2>8. /\ st'.statementId = st.statementId /\ st'.policy = st.policy /\ st'.result = st.result
          /\ st'.logOnly = st.logOnly /\ st'.inStatement = TRUE /\ st'.decided = TRUE
          /\ st'.prepareDecided = st.prepareDecided /\ st'.admitted = st.admitted
          /\ st'.authorized = st.authorized /\ st'.executingPrepared = st.executingPrepared
          /\ st'.prescreened = st.prescreened
      BY <1>1, <2>1 DEF GatekeeperReplacementScan, MarkGateDecided, States
    <2>9. /\ activeQuery' = activeQuery /\ lastId' = lastId /\ request' = request /\ enforced' = enforced
          /\ activeQuery <= lastId /\ enforced /\ (EngineMajor = 1 => request.shape # "prepare")
      BY <1>1, <1>4 DEF query, IInv, PhaseOK
    <2>10. CurrentStatement'
      BY <2>1, <2>8, <2>9 DEF CurrentStatement
    <2>11. FlagInvariant'
      BY <1>1, <2>1, <2>8 DEF FlagInvariant
    <2>12. PhaseOK'
      BY <1>1, <1>2, <1>4, <2>8, <2>9 DEF PhaseOK
    <2>13. AdmissionOK'
      BY <1>1, <1>2, <2>1, <2>8, <2>9, <2>10 DEF AdmissionOK
    <2>14. ChecksOK'
      BY <1>1, <2>1, <2>8, <2>9 DEF IInv, ChecksOK
    <2>15. RecordOK'
      <3>1. CASE log' = <<rec>>
        BY <1>1, <1>2, <2>1, <2>2, <2>6, <2>8, <2>9, <3>1 DEF IInv, RecordOK
      <3>2. CASE log' = <<>>
        BY <1>1, <1>2, <2>1, <2>2, <2>6, <2>7, <2>8, <2>9, <3>2 DEF IInv, RecordOK
      <3> QED BY <2>7, <3>1, <3>2
    <2>20. PlanOK'
      <3>1. phase' = "bind" => st.logOnly
        BY <1>2, <2>6, <2>7
      <3>2. request.shape = "execute" => st.executingPrepared
        BY <1>1, <2>1 DEF IInv, PlanOK
      <3> QED BY <1>2, <2>8, <2>9, <3>1, <3>2 DEF PlanOK
    <2>16. DecidedOK' /\ LogOnlyTrail'
      BY <1>2 DEF DecidedOK, LogOnlyTrail
    <2>17. RecordedOnce'
      <3>1. Len(log') <= 1
        <4>1. CASE log' = <<rec>>
          BY <2>5, <4>1
        <4>2. CASE log' = <<>>
          BY <2>5, <4>2
        <4> QED BY <2>7, <4>1, <4>2
      <3> QED BY <1>2, <3>1 DEF RecordedOnce
    <2>18. SnapshotGoverns'
      BY <1>1, <2>1, <2>5, <2>7 DEF SnapshotGoverns
    <2>19. LogOnlyNeverRefuses'
      BY <1>1, <1>2, <2>1, <2>7 DEF LogOnlyNeverRefuses
    <2> QED BY <2>11, <2>12, <2>13, <2>14, <2>15, <2>16, <2>17, <2>18, <2>19, <2>20 DEF IInv
  <1> QED BY <1>3, <1>4

\* The ends of a planning attempt: a failed one is recorded in log-only mode if nothing recorded
\* it before, and both clear the mark of a Prepare() outside any statement.
LEMMA PlanningEndStep ==
  ASSUME IInv, TypeOK', OnPlanningError \/ OnFinalizePrepare
  PROVE  IInv'
  <1> DEFINE clear == [st EXCEPT !.prepareDecided = FALSE]
  <1>1. /\ st \in States /\ UNCHANGED <<query, enforced, admission>> /\ passed' = passed
        /\ FlagInvariant /\ st.statementId <= lastId /\ phase \in {"fail", "final"}
        /\ phase = "final" => error = "none"
    BY DEF OnPlanningError, OnFinalizePrepare, IInv, TypeOK, PhaseOK, conn
  <1>2. CASE activeQuery = 0
    <2>1. ~CurrentStatement /\ (st.inStatement => st.decided)
      BY <1>2 DEF IInv, AdmissionOK, CurrentStatement
    <2>2. /\ st' = (IF st.inStatement THEN st ELSE clear) /\ phase' = "idle"
      BY <1>2, <2>1 DEF OnPlanningError, OnFinalizePrepare
    <2>3. /\ clear.statementId = st.statementId /\ clear.inStatement = st.inStatement /\ clear.decided = st.decided
          /\ clear.prepareDecided = FALSE /\ clear.admitted = st.admitted /\ clear.authorized = st.authorized
          /\ clear.executingPrepared = st.executingPrepared /\ clear.prescreened = st.prescreened
      BY <1>1 DEF States
    <2>4. FlagInvariant' /\ st'.statementId <= lastId /\ (st'.inStatement => st'.decided)
      <3> HIDE DEF clear
      <3>1. CASE st' = st
        BY <1>1, <2>1, <3>1 DEF FlagInvariant
      <3>2. CASE st' = clear
        BY <1>1, <2>1, <2>3, <3>2 DEF FlagInvariant
      <3> QED BY <2>2, <3>1, <3>2
    <2> QED BY <1>1, <1>2, <2>2, <2>4, OutsideStep
  <1>3. CASE activeQuery # 0
    <2>1. /\ CurrentStatement /\ st.inStatement = TRUE /\ st.statementId = activeQuery /\ ~st.prepareDecided
          /\ admission = [id |-> activeQuery, logOnly |-> st.logOnly, policy |-> st.policy]
          /\ admission' = [id |-> activeQuery, logOnly |-> st.logOnly, policy |-> st.policy]
      BY <1>1, <1>3 DEF IInv, AdmissionOK, CurrentStatement, FlagInvariant, TypeOK, States
    <2>2. CASE OnFinalizePrepare
      <3>1. phase = "final" /\ phase' = "run" /\ st' = st /\ error' = error /\ log' = log
        BY <1>3, <2>1, <2>2 DEF OnFinalizePrepare
      <3>2. request.shape # "prepare" => Len(log) = 1
        <4>1. request.shape # "prepare" => log # <<>>
          BY <1>1, <1>3, <2>1, <3>1 DEF IInv, DecidedOK, RecordOK
        <4>2. log \in Seq(Records) /\ Len(log) <= 1
          BY <1>3, <2>1 DEF IInv, TypeOK, RecordedOnce
        <4>3. log # <<>> => Len(log) \in Nat /\ Len(log) >= 1
          BY <4>2, NonEmpty
        <4>4. \A n \in Nat : n <= 1 /\ n >= 1 => n = 1
          OBVIOUS
        <4> QED BY <4>1, <4>2, <4>3, <4>4, Zenon
      <3> QED BY <1>1, <1>3, <2>1, <3>1, <3>2
            DEF IInv, CurrentStatement, FlagInvariant, PhaseOK, AdmissionOK, ChecksOK, RecordOK, PlanOK,
                DecidedOK, RecordedOnce, SnapshotGoverns, LogOnlyNeverRefuses, LogOnlyTrail, query
    <2>3. CASE OnPlanningError /\ st.logOnly /\ ~st.decided /\ error # "fatal"
      <3>1. phase = "fail" /\ log = <<>> /\ Record(st, "authorize", st.policy, "denied", "end")
        BY <1>3, <2>1, <2>3 DEF OnPlanningError, IInv, RecordOK
      <3>2. /\ st.authorized => st.admitted
            /\ st.executingPrepared => request.shape = "execute"
            /\ st.admitted => st.policy # None /\ <<"text", st.policy>> \in passed' /\ request.kind = "select"
            /\ st.authorized => <<"objects", st.policy>> \in passed'
        BY <1>1, <2>1 DEF IInv, ChecksOK, FlagInvariant
      <3>3. error # "none"
        BY <3>1 DEF IInv, PhaseOK
      <3> QED BY <1>1, <2>1, <3>1, <3>2, <3>3, RecordStep
    <2>4. CASE OnPlanningError /\ ~(st.logOnly /\ ~st.decided /\ error # "fatal")
      <3>1. phase = "fail" /\ phase' = "end" /\ st' = st /\ error' = error /\ log' = log
        BY <1>3, <2>1, <2>4 DEF OnPlanningError
      <3> QED BY <1>1, <1>3, <2>1, <3>1
            DEF IInv, CurrentStatement, FlagInvariant, PhaseOK, AdmissionOK, ChecksOK, RecordOK, PlanOK,
                DecidedOK, RecordedOnce, SnapshotGoverns, LogOnlyNeverRefuses, LogOnlyTrail, query
    <2> QED BY <2>2, <2>3, <2>4
  <1> QED BY <1>2, <1>3

\* The end of the query forgets the statement, after recording a log-only one the engine failed
\* before any hook could decide it; a sink that refuses that record leaves it decided.
LEMMA QueryEndStep ==
  ASSUME IInv, TypeOK', QueryEnd
  PROVE  IInv'
  <1>1. /\ phase = "end" /\ phase' = "idle" /\ activeQuery' = 0 /\ activeQuery # 0 /\ st \in States
        /\ request' = request /\ lastId' = lastId /\ admission' = admission /\ passed' = passed
        /\ activeQuery <= lastId /\ st.statementId <= lastId /\ FlagInvariant
    BY DEF QueryEnd, IInv, TypeOK, PhaseOK
  <1>2. ~CurrentStatement'
    BY <1>1 DEF CurrentStatement
  <1>3. ChecksOK' /\ RecordOK' /\ PlanOK' /\ DecidedOK'
    BY <1>1, <1>2 DEF ChecksOK, RecordOK, PlanOK, DecidedOK
  <1>4. admission.id # 0 => /\ CurrentStatement
                            /\ admission = [id |-> activeQuery, logOnly |-> st.logOnly, policy |-> st.policy]
    BY <1>1 DEF IInv, AdmissionOK, NoAdmission
  <1>5. lastId \in Nat
    BY BoundAssumption DEF IInv, TypeOK
  <1>6. CASE st' = Reset /\ UNCHANGED <<error, log>>
             /\ ~(st.inStatement /\ st.logOnly /\ ~st.decided /\ error \notin {"none", "fatal"})
    <2>1. /\ st'.statementId = 0 /\ st'.inStatement = FALSE /\ st'.prepareDecided = FALSE /\ st'.admitted = FALSE
          /\ st'.authorized = FALSE /\ st'.executingPrepared = FALSE /\ st'.prescreened = FALSE
      BY <1>6 DEF Reset
    <2>2. FlagInvariant' /\ PhaseOK' /\ AdmissionOK'
      BY <1>1, <1>2, <1>5, <2>1 DEF FlagInvariant, PhaseOK, AdmissionOK
    <2>3. RecordedOnce' /\ SnapshotGoverns' /\ LogOnlyNeverRefuses'
      BY <1>1, <1>6 DEF IInv, RecordedOnce, SnapshotGoverns, LogOnlyNeverRefuses
    <2>4. LogOnlyTrail'
      BY <1>1, <1>4, <1>6 DEF IInv, LogOnlyTrail, RecordOK, DecidedOK, CurrentStatement
    <2> QED BY <1>3, <2>2, <2>3, <2>4 DEF IInv
  <1>7. CASE st.inStatement /\ st.logOnly /\ ~st.decided /\ error \notin {"none", "fatal"}
    <2> DEFINE rec == [mode |-> "log_only", boundary |-> "authorize", policy |-> st.policy, result |-> "denied"]
    <2>1. CurrentStatement /\ log = <<>>
      BY <1>7 DEF IInv, AdmissionOK, RecordOK
    <2>2. admission = [id |-> activeQuery, logOnly |-> st.logOnly, policy |-> st.policy]
      BY <2>1 DEF IInv, AdmissionOK
    <2>3. Append(log, rec) = <<rec>> /\ Len(<<rec>>) = 1 /\ <<rec>>[1] = rec /\ <<rec>> # <<>> /\ Len(<<>>) = 0
      BY <2>1
    <2>4. \/ log' = <<rec>> /\ st' = Reset /\ error' = error
          \/ log' = <<>> /\ st' = [st EXCEPT !.decided = TRUE, !.result = "denied"] /\ error' = "sink"
      BY <1>7, <2>1, <2>3 DEF QueryEnd
    <2>5. error # "refused"
      BY <1>1, <1>7, <2>2 DEF IInv, LogOnlyNeverRefuses
    <2>6. CASE log' = <<rec>> /\ st' = Reset /\ error' = error
      <3>1. /\ st'.statementId = 0 /\ st'.inStatement = FALSE /\ st'.prepareDecided = FALSE /\ st'.admitted = FALSE
            /\ st'.authorized = FALSE /\ st'.executingPrepared = FALSE /\ st'.prescreened = FALSE
        BY <2>6 DEF Reset
      <3>2. FlagInvariant' /\ PhaseOK' /\ AdmissionOK'
        BY <1>1, <1>2, <1>5, <3>1 DEF FlagInvariant, PhaseOK, AdmissionOK
      <3>3. Len(log') = 1 /\ log'[1] = rec /\ log' # <<>>
        BY <2>3, <2>6
      <3>4. RecordedOnce' /\ LogOnlyNeverRefuses' /\ LogOnlyTrail'
        BY <1>1, <2>5, <2>6, <3>3 DEF RecordedOnce, LogOnlyNeverRefuses, LogOnlyTrail
      <3>5. SnapshotGoverns'
        BY <1>1, <1>7, <2>2, <3>3 DEF SnapshotGoverns, ModeFor
      <3> QED BY <1>3, <3>2, <3>4, <3>5 DEF IInv
    <2>7. CASE log' = <<>> /\ st' = [st EXCEPT !.decided = TRUE, !.result = "denied"] /\ error' = "sink"
      <3>1. /\ st'.statementId = st.statementId /\ st'.inStatement = st.inStatement /\ st'.decided = TRUE
            /\ st'.prepareDecided = st.prepareDecided /\ st'.admitted = st.admitted
            /\ st'.authorized = st.authorized /\ st'.executingPrepared = st.executingPrepared
            /\ st'.prescreened = st.prescreened
        BY <1>1, <2>7 DEF States
      <3>2. FlagInvariant' /\ PhaseOK' /\ AdmissionOK'
        BY <1>1, <1>2, <1>5, <3>1 DEF FlagInvariant, PhaseOK, AdmissionOK
      <3>3. Len(log') = 0
        BY <2>3, <2>7
      <3>4. RecordedOnce' /\ LogOnlyNeverRefuses' /\ LogOnlyTrail' /\ SnapshotGoverns'
        BY <1>1, <2>7, <3>3 DEF RecordedOnce, LogOnlyNeverRefuses, LogOnlyTrail, SnapshotGoverns
      <3> QED BY <1>3, <3>2, <3>4 DEF IInv
    <2> QED BY <2>4, <2>6, <2>7
  <1> QED BY <1>6, <1>7 DEF QueryEnd

\* A connection that is latched, a statement that arrives, and the rebind forced on a prepared
\* one keep the invariant.
LEMMA ArrivalStep ==
  ASSUME IInv, TypeOK', Enforce \/ Submit \/ Advance \/ ForceRebind
  PROVE  IInv'
  <1> USE EngineAssumption, BoundAssumption DEF IInv, host, conn, query, CurrentStatement, Wrapped
  <1>1. CASE Enforce
    <2>1. /\ st'.statementId = 0 /\ st'.inStatement = FALSE /\ st'.prepareDecided = FALSE /\ st'.admitted = FALSE
          /\ st'.authorized = FALSE /\ st'.executingPrepared = FALSE /\ st'.prescreened = FALSE
      BY <1>1 DEF Enforce, Reset
    <2>2. phase = "idle" /\ activeQuery = 0 /\ lastId \in Nat
      BY <1>1 DEF Enforce, PhaseOK, TypeOK
    <2> QED BY <1>1, <2>1, <2>2 DEF Enforce, FlagInvariant, PhaseOK, AdmissionOK, ChecksOK, RecordOK, PlanOK,
                DecidedOK, RecordedOnce, SnapshotGoverns, LogOnlyNeverRefuses, LogOnlyTrail
  <1>2. CASE Submit
    <2>1. Len(<<>>) = 0 /\ NoAdmission.id = 0 /\ lastId \in Nat /\ activeQuery = 0 /\ st.statementId <= lastId
      BY <1>2 DEF Submit, NoAdmission, TypeOK, PhaseOK
    <2> QED BY <1>2, <2>1 DEF Submit, TypeOK, States, FlagInvariant, PhaseOK, AdmissionOK, ChecksOK, RecordOK, PlanOK,
                DecidedOK, RecordedOnce, SnapshotGoverns, LogOnlyNeverRefuses, LogOnlyTrail
  <1>3. CASE Advance
    <2>1. Len(<<>>) = 0 /\ NoAdmission.id = 0 /\ lastId \in Nat /\ st.statementId <= lastId /\ st.statementId \in Nat
      BY <1>3 DEF Advance, NoAdmission, TypeOK, PhaseOK, States
    <2> QED BY <1>3, <2>1 DEF Advance, FlagInvariant, PhaseOK, AdmissionOK, ChecksOK, RecordOK, PlanOK,
                DecidedOK, RecordedOnce, SnapshotGoverns, LogOnlyNeverRefuses, LogOnlyTrail
  <1>4. CASE ForceRebind
    <2>1. st.admitted \/ st.decided
      BY <1>4 DEF ForceRebind, PlanOK, AdmissionOK, PhaseOK
    <2>2. /\ phase = "rebind" /\ phase' = "bind" /\ UNCHANGED <<query, enforced, error, log, passed, admission>>
          /\ st' = [st EXCEPT !.executingPrepared = TRUE] /\ st \in States
      BY <1>4, <2>1 DEF ForceRebind, TypeOK
    <2>3. /\ st'.statementId = st.statementId /\ st'.policy = st.policy /\ st'.result = st.result
          /\ st'.logOnly = st.logOnly /\ st'.inStatement = st.inStatement /\ st'.decided = st.decided
          /\ st'.prepareDecided = st.prepareDecided /\ st'.admitted = st.admitted
          /\ st'.authorized = st.authorized /\ st'.executingPrepared = TRUE
          /\ st'.prescreened = st.prescreened
      BY <2>2 DEF States
    <2> QED BY <2>2, <2>3 DEF FlagInvariant, PhaseOK, AdmissionOK, ChecksOK, RecordOK, PlanOK,
                DecidedOK, RecordedOnce, SnapshotGoverns, LogOnlyNeverRefuses, LogOnlyTrail
  <1> QED BY <1>1, <1>2, <1>3, <1>4

\* Admission through QueryBegin and, on DuckDB 2.0, through CanRequestRebind keeps the invariant.
LEMMA BeginHookStep ==
  ASSUME IInv, TypeOK', QueryBegin \/ (phase = "plan" /\ CanRequestRebind)
  PROVE  IInv'
  <1>1. CASE BeginStatement /\ phase = "plan" /\ InStatementButStale
    BY <1>1, BeginStep DEF InStatementButStale
  <1>2. CASE QueryBegin
    <2>1. phase = "begin" /\ activeQuery # 0 /\ ~CurrentStatement
      BY <1>2 DEF QueryBegin, IInv, PhaseOK, AdmissionOK
    <2> QED BY <1>2, <2>1, BeginStep DEF QueryBegin
  <1>3. CASE /\ phase = "plan" /\ ~(EngineMajor >= 2 /\ InStatementButStale)
             /\ phase' = (IF request.shape = "execute" THEN "rebind" ELSE "bind")
             /\ UNCHANGED <<host, conn, query, error, st, log, passed, admission>>
    <2>1. activeQuery # 0 => CurrentStatement
      BY <1>3, EngineAssumption DEF IInv, AdmissionOK, InStatementButStale
    <2> QED BY <1>3, <2>1, EngineAssumption
          DEF IInv, conn, query, CurrentStatement, FlagInvariant, PhaseOK, AdmissionOK, ChecksOK, RecordOK, PlanOK,
              DecidedOK, RecordedOnce, SnapshotGoverns, LogOnlyNeverRefuses, LogOnlyTrail
  <1> QED BY <1>1, <1>2, <1>3 DEF CanRequestRebind

\* Each step keeps the invariant, as long as the engine misses no hook.
LEMMA IStep == IInv /\ [Next]_vars /\ ~MissedHooks => IInv'
  <1> SUFFICES ASSUME IInv, [Next]_vars, ~MissedHooks PROVE IInv'
    OBVIOUS
  <1>1. TypeOK'
    BY TypeStep DEF IInv
  <1>2. ~RebindHookMissed
    BY DEF RebindHookMissed
  <1> QED BY <1>1, <1>2, ControlStep, ArrivalStep, BeginHookStep, AdmitStep, GateStep, PlanningEndStep,
             PostBindStep, WrapperStep, QueryEndStep DEF Next, HostStep, EngineStep, Plan

\* The invariant holds of the connection's first state.
LEMMA IInit == Init => IInv
  <1> SUFFICES ASSUME Init PROVE IInv
    OBVIOUS
  <1>1. TypeOK
    BY TypeInit
  <1>2. /\ st.statementId = 0 /\ st.inStatement = FALSE /\ st.prepareDecided = FALSE /\ st.admitted = FALSE
        /\ st.authorized = FALSE /\ st.executingPrepared = FALSE /\ st.prescreened = FALSE
    BY DEF Init, Reset
  <1>3. phase = "idle" /\ activeQuery = 0 /\ lastId = 0 /\ admission.id = 0 /\ ~CurrentStatement
    BY <1>2 DEF Init, NoAdmission, CurrentStatement
  <1> QED BY <1>1, <1>2, <1>3 DEF IInv, FlagInvariant, PhaseOK, AdmissionOK, ChecksOK, RecordOK, PlanOK,
             DecidedOK, RecordedOnce, SnapshotGoverns, LogOnlyNeverRefuses, LogOnlyTrail

\* An enforced plan about to run is one the invariant vouches for.
LEMMA EnforcedFromInvariant == IInv => EnforcedExecution
  <1> SUFFICES ASSUME IInv, phase = "run", request.shape # "prepare", ~AdmittedLogOnly
               PROVE  /\ admission.id = activeQuery
                      /\ {"text", "objects", "plan"} \X {admission.policy} \subseteq passed
                      /\ log = <<[mode |-> "enforce", boundary |-> "execution",
                                  policy |-> admission.policy, result |-> "ok"]>>
    BY DEF EnforcedExecution
  <1>1. activeQuery # 0 /\ CurrentStatement
    BY DEF IInv, PhaseOK, AdmissionOK
  <1>2. admission = [id |-> activeQuery, logOnly |-> st.logOnly, policy |-> st.policy]
    BY <1>1 DEF IInv, AdmissionOK
  <1>3. ~st.logOnly
    BY <1>2 DEF AdmittedLogOnly
  <1> QED BY <1>1, <1>2, <1>3 DEF IInv, DecidedOK

\* Under any interleaving of host and engine, as long as the engine misses no hook, the
\* invariant that ties each flag of the state to what it vouches for holds.
THEOREM Invariant ==
  ASSUME ~MissedHooks
  PROVE  Spec => []IInv
  <1>1. IInv /\ [Next]_vars => IInv'
    BY IStep
  <1> QED BY <1>1, IInit, PTL DEF Spec

\* Nothing runs on an enforced connection outside log-only mode unless its own admission read
\* one policy and the text check, the private bind and the plan check all passed under it.
THEOREM ExecutionIsEnforced ==
  ASSUME ~MissedHooks
  PROVE  Spec => []EnforcedExecution
  BY Invariant, EnforcedFromInvariant, PTL

\* Every statement has at most one record, whichever hooks decide it, and it is written before the statement runs.
THEOREM OneRecord ==
  ASSUME ~MissedHooks
  PROVE  Spec => []RecordedOnce
  <1>1. IInv => RecordedOnce
    BY DEF IInv
  <1> QED BY <1>1, Invariant, PTL

\* Every record carries the mode and the policy its statement's admission read, whatever the host changed since.
THEOREM RecordsCarryTheSnapshot ==
  ASSUME ~MissedHooks
  PROVE  Spec => []SnapshotGoverns
  <1>1. IInv => SnapshotGoverns
    BY DEF IInv
  <1> QED BY <1>1, Invariant, PTL

\* A statement admitted in log-only mode is never refused by a policy decision.
THEOREM LogOnlyHarmless ==
  ASSUME ~MissedHooks
  PROVE  Spec => []LogOnlyNeverRefuses
  <1>1. IInv => LogOnlyNeverRefuses
    BY DEF IInv
  <1> QED BY <1>1, Invariant, PTL

\* A log-only statement ends without a record only on an error no decision describes.
THEOREM LogOnlyLeavesATrail ==
  ASSUME ~MissedHooks
  PROVE  Spec => []LogOnlyTrail
  <1>1. IInv => LogOnlyTrail
    BY DEF IInv
  <1> QED BY <1>1, Invariant, PTL

\* The flags of the state keep the invariants its comment claims between any two hooks.
THEOREM FlagsOrdered ==
  ASSUME ~MissedHooks
  PROVE  Spec => []FlagInvariant
  <1>1. IInv => FlagInvariant
    BY DEF IInv
  <1> QED BY <1>1, Invariant, PTL

\* A step that changes the connection's route, or its transaction, runs a statement the
\* invariant says was never admitted for that.
LEMMA StaysLocalStep ==
  IInv /\ [Next]_vars /\ enforced => connected' = connected /\ (autocommit' # autocommit => st.logOnly)
  <1> SUFFICES ASSUME IInv, [Next]_vars, enforced
               PROVE  connected' = connected /\ (autocommit' # autocommit => st.logOnly)
    OBVIOUS
  <1>1. CASE Execute
    <2>1. activeQuery # 0 /\ CurrentStatement
      BY <1>1 DEF Execute, IInv, PhaseOK, AdmissionOK
    <2>2. request.shape # "prepare" => (request.kind = "select" \/ (st.logOnly /\ request.kind # "routing"))
      BY <1>1, <2>1 DEF Execute, IInv, DecidedOK, ChecksOK
    <2> QED BY <1>1, <2>2 DEF Execute
  <1>2. CASE UNCHANGED conn
    BY <1>2 DEF conn
  <1>3. CASE ~Execute
    <2> USE <1>3 DEF conn, vars
    <2>1. HostSetPolicy \/ HostSetLogOnly \/ HostSetRemotePushdown \/ Submit => UNCHANGED conn
      BY DEF HostSetPolicy, HostSetLogOnly, HostSetRemotePushdown, Submit
    <2>2. ~HostSetup /\ ~Enforce
      BY DEF HostSetup, Enforce
    <2>3. QueryBegin \/ CanRequestRebind \/ RebindHookMissed \/ EngineRejects \/ ForceRebind \/ Admit => UNCHANGED conn
      BY DEF QueryBegin, BeginStatement, CanRequestRebind, RebindHookMissed, EngineRejects, ForceRebind, Admit
    <2>4. GatekeeperReplacementScan \/ BindFails \/ BindYieldsNoPlan \/ BindYieldsPlan => UNCHANGED conn
      BY DEF GatekeeperReplacementScan, BindFails, BindYieldsNoPlan, BindYieldsPlan
    <2>5. OnPlanningError \/ OnFinalizePrepare \/ PostBind \/ PostBindWrapper => UNCHANGED conn
      BY DEF OnPlanningError, OnFinalizePrepare, PostBind, PostBindWrapper
    <2>6. ExecutionFails \/ Advance \/ Finish \/ QueryEnd \/ UNCHANGED vars => UNCHANGED conn
      BY DEF ExecutionFails, Advance, Finish, QueryEnd
    <2> QED BY <1>2, <2>1, <2>2, <2>3, <2>4, <2>5, <2>6 DEF Next, HostStep, EngineStep, Plan
  <1> QED BY <1>1, <1>3

\* A latched connection never changes its route, and opens or ends a transaction only in
\* log-only mode.
THEOREM ConnectionStaysLocal ==
  ASSUME ~MissedHooks
  PROVE  Spec => StaysLocal
  <1>1. IInv /\ [Next]_vars =>
          [enforced => connected' = connected /\ (autocommit' # autocommit => st.logOnly)]_vars
    BY StaysLocalStep
  <1> QED BY <1>1, Invariant, PTL DEF Spec, StaysLocal

-----------------------------------------------------------------------------
(***************************************************************************)
(* Enforcement implements StatementDecision.                               *)
(***************************************************************************)
\* Every record of the trail is a verdict.
Definite == \A i \in 1 .. Len(log) : log[i].result # "none"

\* A step within one statement: who the statement is stays fixed, and the trail is kept or takes one more verdict;
\* the statement does not run, and ends only with an error.
Steady ==
  /\ request' = request /\ activeQuery' = activeQuery
  /\ admission'.id = admission.id /\ admission'.logOnly = admission.logOnly
  /\ log' = log \/ \E e \in Records : e.result # "none" /\ log' = Append(log, e)
  /\ phase' # "done" /\ (phase' = "end" => error' # "none")

\* The hooks, and the engine's moves between them, that neither start, run nor end a statement.
Hook ==
  \/ Admit \/ EngineRejects \/ ForceRebind \/ GatekeeperReplacementScan \/ BindFails \/ BindYieldsNoPlan
  \/ BindYieldsPlan \/ OnPlanningError \/ OnFinalizePrepare \/ PostBind \/ PostBindWrapper \/ ExecutionFails
  \/ phase = "plan" /\ CanRequestRebind /\ ~BeginStatement

\* Deciding writes at most the given record, and goes on or raises.
LEMMA DecideShape ==
  ASSUME NEW e, NEW g, Decide(e, g)
  PROVE  /\ log' = log \/ log' = Append(log, e)
         /\ \/ phase' = g /\ error' = error
            \/ phase' \in {"fail", "end"} /\ error' # "none"
  BY DEF Decide, Throw

\* Recording a verdict is steady when the statement's identity is.
LEMMA RecordSteady ==
  ASSUME NEW s \in States, NEW b \in Boundaries, NEW p \in Snapshots, NEW r \in {"ok", "denied"}, NEW g,
         Record(s, b, p, r, g), g # "done", g = "end" => error # "none",
         request' = request, activeQuery' = activeQuery,
         admission'.id = admission.id, admission'.logOnly = admission.logOnly
  PROVE  Steady
  <1> DEFINE e == [mode |-> ModeFor(s.logOnly), boundary |-> b, policy |-> p, result |-> r]
  <1>1. e \in Records /\ e.result # "none"
    BY DEF Records, Results, ModeFor, Modes
  <1>2. Decide(e, g)
    BY DEF Record
  <1> HIDE DEF e
  <1>3. /\ log' = log \/ log' = Append(log, e)
        /\ \/ phase' = g /\ error' = error
           \/ phase' \in {"fail", "end"} /\ error' # "none"
    BY <1>2, DecideShape
  <1> QED BY <1>1, <1>3 DEF Steady

\* So is a private bind that does not pass.
LEMMA AuthorizeSteady ==
  ASSUME NEW s \in States, NEW g \in Phases, AuthorizeFails(s, g), g \notin {"done", "end"},
         request' = request, activeQuery' = activeQuery,
         admission'.id = admission.id, admission'.logOnly = admission.logOnly
  PROVE  Steady
  <1>1. CASE Record(s, "authorize", s.policy, "denied", g)
    <2>1. "authorize" \in Boundaries /\ s.policy \in Snapshots
      BY DEF Boundaries, States
    <2> QED BY <1>1, <2>1, RecordSteady
  <1>2. CASE log' = log /\ (Throw("engine") \/ Throw("fatal"))
    BY <1>2 DEF Throw, Steady
  <1> QED BY <1>1, <1>2 DEF AuthorizeFails

\* Every hook is steady.
LEMMA HookSteady ==
  ASSUME IInv, Hook
  PROVE  Steady
  <1> USE DEF host, conn, query
  <1> TypeOK /\ st \in States /\ st.policy \in Snapshots /\ PhaseOK
    BY DEF IInv, TypeOK, States
  <1>0. /\ {"binding", "authorize", "execution", "prepare", "replacement_scan"} \subseteq Boundaries
        /\ "plan" \in Phases /\ None \in Snapshots /\ policySetting \in Snapshots
    BY DEF Boundaries, Phases, Snapshots, TypeOK
  <1>1. CASE Admit
    <2> DEFINE read == [st EXCEPT !.policy = policySetting]
               open == [read EXCEPT !.admitted = TRUE, !.result = "ok"]
    <2>1. /\ read \in States /\ open \in States /\ read.policy \in Snapshots /\ open.policy \in Snapshots
          /\ admission'.id = admission.id /\ admission'.logOnly = admission.logOnly
      <3>1. read \in States /\ open \in States /\ read.policy \in Snapshots /\ open.policy \in Snapshots
        BY <1>0 DEF States, Results
      <3>2. admission'.id = admission.id /\ admission'.logOnly = admission.logOnly
        BY <1>1 DEF Admit, Unreadable, TypeOK
      <3> QED BY <3>1, <3>2
    <2>2. request' = request /\ activeQuery' = activeQuery /\ error = "none"
      BY <1>1 DEF Admit, PhaseOK
    <2>3. CASE Unreadable
      BY <1>0, <2>1, <2>2, <2>3, RecordSteady DEF Unreadable
    <2>4. CASE TextRefused(read)
      <3>1. CASE Record(read, "binding", read.policy, "denied", "plan")
        BY <1>0, <2>1, <2>2, <3>1, RecordSteady
      <3>2. CASE log' = log /\ Throw("fatal")
        BY <2>1, <2>2, <3>2 DEF Throw, Steady
      <3> QED BY <2>4, <3>1, <3>2 DEF TextRefused
    <2>5. CASE TextAdmitted(open)
      <3>1. CASE Record(open, "binding", open.policy, "denied", "plan")
        BY <1>0, <2>1, <2>2, <3>1, RecordSteady
      <3>2. CASE AuthorizeFails(open, "plan")
        BY <1>0, <2>1, <2>2, <3>2, AuthorizeSteady
      <3>3. CASE phase' = "plan" /\ UNCHANGED <<error, log>>
        BY <2>1, <2>2, <3>3 DEF Steady
      <3> QED BY <2>5, <3>1, <3>2, <3>3 DEF TextAdmitted
    <2> QED BY <1>1, <2>3, <2>4, <2>5 DEF Admit
  <1>2. CASE EngineRejects \/ BindFails \/ BindYieldsNoPlan \/ BindYieldsPlan \/ OnFinalizePrepare \/ ExecutionFails
    BY <1>2 DEF EngineRejects, BindFails, BindYieldsNoPlan, BindYieldsPlan, OnFinalizePrepare, ExecutionFails, Steady
  <1>3. CASE phase = "plan" /\ CanRequestRebind /\ ~BeginStatement
    BY <1>3 DEF CanRequestRebind, Steady
  <1>4. CASE ForceRebind
    <2>1. [st EXCEPT !.executingPrepared = TRUE] \in States
      BY DEF States
    <2>2. CASE Record([st EXCEPT !.executingPrepared = TRUE], "binding", st.policy, "denied", "bind")
      BY <1>0, <1>4, <2>1, <2>2, RecordSteady DEF ForceRebind
    <2>3. CASE phase' = "bind" /\ UNCHANGED <<error, log>>
      BY <1>4, <2>3 DEF ForceRebind, Steady
    <2> QED BY <1>4, <2>2, <2>3 DEF ForceRebind
  <1>5. CASE GatekeeperReplacementScan
    <2> DEFINE e == [mode |-> ReplacementGate, boundary |-> "replacement_scan",
                     policy |-> GatePolicy, result |-> "denied"]
    <2>1. ReplacementGate \in Modes /\ GatePolicy \in Snapshots
      BY <1>5 DEF GatekeeperReplacementScan, ReplacementGate, Modes, GatePolicy, AdmittedPolicy, TypeOK
    <2>2. e \in Records /\ e.result # "none"
      BY <1>0, <2>1 DEF Records, Results
    <2>3. Decide(e, "bind")
      BY <1>5 DEF GatekeeperReplacementScan
    <2> HIDE DEF e
    <2> QED BY <1>5, <2>2, <2>3, DecideShape DEF GatekeeperReplacementScan, Steady
  <1>6. CASE OnPlanningError
    <2>1. error # "none"
      BY <1>6 DEF OnPlanningError, PhaseOK
    <2> DEFINE after == IF activeQuery = 0 THEN "idle" ELSE "end"
    <2>2. CASE Record(st, "authorize", st.policy, "denied", after)
      BY <1>0, <1>6, <2>1, <2>2, RecordSteady DEF OnPlanningError
    <2>3. CASE phase' = after /\ UNCHANGED <<error, log>>
      BY <1>6, <2>1, <2>3 DEF OnPlanningError, Steady
    <2> QED BY <1>6, <2>2, <2>3 DEF OnPlanningError
  <1>7. CASE PostBind
    <2>1. request' = request /\ activeQuery' = activeQuery /\ admission' = admission /\ error = "none" /\ phase = "postbind"
      BY <1>7 DEF PostBind, PhaseOK
    <2>2. AfterPlan \in Phases /\ AfterPlan \notin {"done", "end"}
      BY DEF AfterPlan, Phases
    <2>3. CASE PrescreenOutside
      <3> DEFINE e == [mode |-> ModeFor(LogOnlySetting), boundary |-> "prepare",
                       policy |-> policySetting, result |-> "denied"]
      <3>1. e \in Records /\ e.result # "none"
        BY <1>0 DEF Records, Results, Modes, ModeFor
      <3>2. CASE phase' = "final" /\ UNCHANGED <<error, log>>
        BY <2>1, <3>2 DEF Steady
      <3>3. CASE Decide(e, "final")
        <4> HIDE DEF e
        <4> QED BY <2>1, <3>1, <3>3, DecideShape DEF Steady
      <3> QED BY <2>3, <3>2, <3>3 DEF PrescreenOutside
    <2>4. CASE StalePlan(AfterPlan)
      BY <1>0, <2>1, <2>2, <2>4, RecordSteady DEF StalePlan
    <2>5. CASE DecidedPlan(AfterPlan)
      BY <2>1, <2>2, <2>5 DEF DecidedPlan, Steady
    <2>6. CASE PrescreenPrepare
      <3>1. CASE Record(st, "prepare", st.policy, "denied", AfterPlan)
        BY <1>0, <2>1, <2>2, <3>1, RecordSteady
      <3>2. CASE phase' = AfterPlan /\ UNCHANGED <<error, log>>
        BY <2>1, <2>2, <3>2 DEF Steady
      <3> QED BY <2>6, <3>1, <3>2 DEF PrescreenPrepare
    <2>7. CASE CheckExecutedPlan
      <3>1. [st EXCEPT !.authorized = TRUE] \in States
        BY DEF States
      <3>2. CASE Record(st, "execution", st.policy, "denied", AfterPlan)
        BY <1>0, <2>1, <2>2, <3>2, RecordSteady
      <3>3. CASE AuthorizeFails(st, AfterPlan)
        BY <2>1, <2>2, <3>3, AuthorizeSteady
      <3>4. ASSUME st.admitted, NEW r \in {st.result, "denied"},
                   Record([st EXCEPT !.authorized = TRUE], "execution", st.policy, r, AfterPlan)
            PROVE  Steady
        <4>1. st.result = "ok"
          BY <2>1, <2>7, <3>4 DEF CheckExecutedPlan, UndecidedPlan, IInv, PlanOK, ChecksOK
        <4> QED BY <1>0, <2>1, <2>2, <3>1, <3>4, <4>1, RecordSteady
      <3> QED BY <2>7, <3>2, <3>3, <3>4 DEF CheckExecutedPlan
    <2> QED BY <1>7, <2>3, <2>4, <2>5, <2>6, <2>7 DEF PostBind
  <1>8. CASE PostBindWrapper
    <2>1. request' = request /\ activeQuery' = activeQuery /\ admission' = admission /\ error = "none" /\ phase = "wrapper"
      BY <1>8 DEF PostBindWrapper, PhaseOK
    <2>2. CASE phase' = "final" /\ UNCHANGED <<error, log>>
      BY <2>1, <2>2 DEF Steady
    <2>3. ASSUME NEW b \in {"prepare", "execution"}, Record(st, b, st.policy, "denied", "final")
          PROVE  Steady
      BY <1>0, <2>1, <2>3, RecordSteady
    <2> QED BY <1>8, <2>2, <2>3 DEF PostBindWrapper, DecidedPlan
  <1> QED BY <1>1, <1>2, <1>3, <1>4, <1>5, <1>6, <1>7, <1>8 DEF Hook

\* The trail holds verdicts only.
LEMMA DefiniteStep == IInv /\ Definite /\ [Next]_vars /\ ~MissedHooks => Definite'
  <1> SUFFICES ASSUME IInv, Definite, [Next]_vars, ~MissedHooks PROVE Definite'
    OBVIOUS
  <1>1. log \in Seq(Records)
    BY DEF IInv, TypeOK
  <1>2. ASSUME NEW e \in Records, e.result # "none", log' = Append(log, e) PROVE Definite'
    <2>1. Len(log') = Len(log) + 1 /\ \A i \in 1 .. Len(log) + 1 : log'[i] = IF i <= Len(log) THEN log[i] ELSE e
      BY <1>1, <1>2
    <2> QED BY <1>1, <1>2, <2>1 DEF Definite
  <1>3. log' = log => Definite'
    BY DEF Definite
  <1>4. CASE Hook
    BY <1>2, <1>3, <1>4, HookSteady DEF Steady
  <1>5. CASE Submit \/ Advance
    <2>1. log' = <<>> /\ Len(<<>>) = 0
      BY <1>5 DEF Submit, Advance
    <2> QED BY <2>1 DEF Definite
  <1>6. CASE QueryEnd
    <2>1. CASE log' = log
      BY <1>3, <2>1
    <2>2. CASE log' = Append(log, [mode |-> "log_only", boundary |-> "authorize", policy |-> st.policy, result |-> "denied"])
      <3>1. [mode |-> "log_only", boundary |-> "authorize", policy |-> st.policy, result |-> "denied"] \in Records
        BY DEF Records, Modes, Boundaries, Results, IInv, TypeOK, States
      <3> QED BY <1>2, <2>2, <3>1
    <2> QED BY <1>6, <2>1, <2>2 DEF QueryEnd
  <1>7. CASE HostSetPolicy \/ HostSetLogOnly \/ HostSetRemotePushdown \/ HostSetup \/ Enforce \/ QueryBegin \/ Execute
             \/ Finish \/ BeginStatement \/ UNCHANGED vars
    BY <1>3, <1>7 DEF HostSetPolicy, HostSetLogOnly, HostSetRemotePushdown, HostSetup, Enforce, QueryBegin, Execute, Finish,
                      BeginStatement, vars
  <1> QED BY <1>4, <1>5, <1>6, <1>7 DEF Next, HostStep, EngineStep, Hook, Plan, RebindHookMissed

\* A steady step is a verdict of the abstract statement, or invisible.
LEMMA SteadyPromise ==
  ASSUME IInv, IInv', Steady, phase \notin {"idle", "done", "end"}
  PROVE  [Decision!Next]_(Decision!vars)
  <1> USE DEF Steady
  <1>1. CASE activeQuery = 0
    <2>1. admission.id = 0 /\ admission'.id = 0 /\ activeQuery' = 0
      BY <1>1 DEF IInv, PhaseOK
    <2>2. Stage = "idle" /\ Stage' = "idle"
      BY <1>1, <2>1 DEF Stage
    <2> QED BY <2>1, <2>2 DEF Decision!vars
  <1>2. CASE activeQuery # 0
    <2>1. phase' # "idle"
      BY <1>2 DEF IInv, PhaseOK
    <2>2. Stage = "open" /\ Stage' = "open"
      BY <1>2, <2>1 DEF Stage
    <2>3. CASE admission.id = 0 \/ log' = log
      BY <2>2, <2>3 DEF Decision!vars, ModeFor
    <2>4. ASSUME admission.id # 0, NEW e \in Records, e.result # "none", log' = Append(log, e)
          PROVE  Decision!Decide
      <3>1. log \in Seq(Records) /\ Len(log') <= 1
        BY <2>4 DEF IInv, TypeOK, RecordedOnce
      <3>2. Len(log) \in Nat /\ Len(Append(log, e)) = Len(log) + 1 /\ (Len(log) = 0 => log = <<>>)
        BY <3>1
      <3>3. log = <<>>
        BY <2>4, <3>1, <3>2
      <3>4. log' = <<e>>
        BY <2>4, <3>3
      <3>5. log'[1] = e /\ log' # <<>> /\ e.result \in {"ok", "denied"}
        BY <2>4, <3>4 DEF Records, Results
      <3> QED BY <2>2, <2>4, <3>3, <3>5 DEF Decision!Decide, ModeFor
    <2> QED BY <2>3, <2>4 DEF Decision!Next
  <1> QED BY <1>1, <1>2

\* The engine takes a statement: the abstract one opens, or a 1.5 Prepare() forgets the last.
LEMMA ArrivalPromise ==
  ASSUME IInv, IInv', Submit \/ Advance
  PROVE  [Decision!Next]_(Decision!vars)
  <1>1. admission' = NoAdmission /\ admission'.id = 0
    BY DEF Submit, Advance, NoAdmission
  <1>2. CASE activeQuery' = 0
    <2>1. phase = "idle" /\ activeQuery = 0 /\ Submit
      BY <1>2, BoundAssumption DEF Submit, Advance, IInv, PhaseOK, TypeOK
    <2>2. Stage \in {"idle", "ended"} /\ Stage' = "idle" /\ (Stage = "idle" <=> admission.id = 0)
      BY <1>1, <1>2, <2>1 DEF Stage
    <2> QED BY <1>1, <2>2 DEF Decision!Next, Decision!Forget, Decision!vars
  <1>3. CASE activeQuery' # 0
    <2>1. Stage # "open"
      BY DEF Submit, Advance, Stage, IInv, PhaseOK
    <2>2. Stage' = "open"
      BY <1>3 DEF Submit, Advance, Stage, IInv, PhaseOK
    <2> QED BY <1>1, <2>1, <2>2 DEF Decision!Next, Decision!Open
  <1> QED BY <1>2, <1>3

\* Admission fixes the mode.
LEMMA BeginPromise ==
  ASSUME IInv, IInv', BeginStatement, phase \in {"begin", "plan"}, activeQuery # 0, ~CurrentStatement
  PROVE  Decision!Next
  <1>1. admission.id = 0 /\ log = <<>>
    BY DEF IInv, AdmissionOK, NoAdmission
  <1>2. admission'.id # 0 /\ admission'.logOnly \in BOOLEAN /\ log' = <<>> /\ activeQuery' = activeQuery /\ phase' = "admit"
    BY <1>1 DEF BeginStatement, query
  <1>3. Stage = "open" /\ Stage' = "open"
    BY <1>2 DEF Stage
  <1> QED BY <1>1, <1>2, <1>3 DEF Decision!Next, Decision!FixMode, ModeFor

\* A plan runs on its verdict; a Prepare() runs nothing.
LEMMA ExecutePromise ==
  ASSUME IInv, Definite, Execute
  PROVE  [Decision!Next]_(Decision!vars)
  <1>1. /\ activeQuery # 0 /\ CurrentStatement /\ error = "none"
        /\ admission.id = activeQuery /\ admission.logOnly = st.logOnly
    BY DEF Execute, IInv, PhaseOK, AdmissionOK
  <1>2. /\ activeQuery' = activeQuery /\ admission' = admission /\ log' = log /\ request' = request /\ phase' = "done"
        /\ error' = error
    BY DEF Execute, query
  <1>3. CASE request.shape = "prepare"
    <2>1. Stage = "open" /\ Stage' = "open"
      BY <1>1, <1>2, <1>3 DEF Execute, Stage
    <2> QED BY <1>2, <2>1 DEF Decision!vars
  <1>4. CASE request.shape # "prepare"
    <2>1. Stage = "open" /\ Stage' = "ran"
      BY <1>1, <1>2, <1>4 DEF Execute, Stage
    <2>2. log # <<>> /\ log \in Seq(Records)
      BY <1>1, <1>4 DEF Execute, IInv, DecidedOK, RecordOK, TypeOK
    <2>3. log[1].result \in {"ok", "denied"}
      <3>1. Len(log) \in Nat /\ Len(log) >= 1
        BY <2>2, NonEmpty
      <3>2. log[1] \in Records /\ log[1].result # "none"
        BY <2>2, <3>1 DEF Definite
      <3> QED BY <3>2 DEF Records, Results
    <2>4. ~st.logOnly => log[1].result = "ok"
      <3>1. ~st.logOnly => log = <<[mode |-> "enforce", boundary |-> "execution", policy |-> st.policy, result |-> "ok"]>>
        BY <1>1, <1>4 DEF Execute, IInv, DecidedOK
      <3> QED BY <3>1
    <2> QED BY <1>1, <1>2, <2>1, <2>2, <2>3, <2>4 DEF Decision!Next, Decision!Run, ModeFor
  <1> QED BY <1>3, <1>4

\* The query ends: its statement ends with the verdict it has or, in log-only mode, with the one its error gives.
LEMMA QueryEndPromise ==
  ASSUME IInv, IInv', QueryEnd
  PROVE  Decision!Next
  <1>1. /\ phase = "end" /\ phase' = "idle" /\ activeQuery # 0 /\ admission' = admission
        /\ Stage' = IF admission.id = 0 THEN "idle" ELSE "ended"
    BY DEF QueryEnd, IInv, PhaseOK, Stage
  <1>2. /\ Stage \in {"open", "ran"}
        /\ Stage = "ran" => error = "none" /\ request.shape # "prepare"
    BY <1>1 DEF Stage
  <1>3. CASE admission.id = 0
    <2>1. Stage = "open"
      BY <1>1, <1>2, <1>3 DEF IInv, DecidedOK, AdmissionOK
    <2> QED BY <1>1, <1>3, <2>1 DEF Decision!Next, Decision!Forget
  <1>4. CASE admission.id # 0
    <2>1. CASE log' = log
      BY <1>1, <1>2, <1>4, <2>1 DEF Decision!Next, Decision!End, ModeFor
    <2>2. CASE log' # log
      <3> DEFINE e == [mode |-> "log_only", boundary |-> "authorize", policy |-> st.policy, result |-> "denied"]
      <3>1. log' = Append(log, e) /\ st.inStatement /\ st.logOnly /\ ~st.decided /\ error # "none"
        BY <2>2 DEF QueryEnd
      <3>2. CurrentStatement /\ log = <<>> /\ admission.logOnly
        BY <1>1, <3>1 DEF IInv, AdmissionOK, RecordOK
      <3>3. log' = <<e>> /\ log' # <<>> /\ log'[1].result = "denied"
        BY <3>1, <3>2
      <3>4. Stage = "open"
        BY <1>2, <3>1
      <3> QED BY <1>1, <1>4, <3>2, <3>3, <3>4 DEF Decision!Next, Decision!End, ModeFor
    <2> QED BY <2>1, <2>2
  <1> QED BY <1>3, <1>4

\* Every step of the hooks is a step of the abstract statement, or invisible to it.
LEMMA PromiseStep ==
  ASSUME IInv, IInv', Definite, [Next]_vars, ~MissedHooks
  PROVE  [Decision!Next]_(Decision!vars)
  <1>1. CASE Hook
    <2>1. phase \notin {"idle", "done", "end"}
      BY <1>1 DEF Hook, Admit, EngineRejects, ForceRebind, GatekeeperReplacementScan, BindFails, BindYieldsNoPlan, BindYieldsPlan,
         OnPlanningError, OnFinalizePrepare, PostBind, PostBindWrapper, ExecutionFails, CanRequestRebind
    <2> QED BY <1>1, <2>1, HookSteady, SteadyPromise
  <1>2. CASE Submit \/ Advance
    BY <1>2, ArrivalPromise
  <1>3. CASE QueryBegin
    <2>1. BeginStatement /\ phase = "begin" /\ activeQuery # 0 /\ ~CurrentStatement
      BY <1>3 DEF QueryBegin, IInv, PhaseOK, AdmissionOK
    <2> QED BY <2>1, BeginPromise
  <1>4. CASE phase = "plan" /\ CanRequestRebind /\ BeginStatement
    <2>1. phase = "plan" /\ phase' = "admit"
      BY <1>4 DEF CanRequestRebind, BeginStatement
    <2>2. InStatementButStale
      BY <1>4, <2>1 DEF CanRequestRebind
    <2> QED BY <1>4, <2>1, <2>2, BeginPromise DEF InStatementButStale
  <1>5. CASE Execute
    BY <1>5, ExecutePromise
  <1>6. CASE Finish
    <2>1. Stage' = Stage
      BY <1>6 DEF Finish, Stage, IInv, PhaseOK, query
    <2> QED BY <1>6, <2>1 DEF Finish, Decision!vars
  <1>7. CASE QueryEnd
    BY <1>7, QueryEndPromise
  <1>8. CASE HostSetPolicy \/ HostSetLogOnly \/ HostSetRemotePushdown \/ HostSetup \/ Enforce \/ UNCHANGED vars
    <2>1. UNCHANGED <<phase, request, activeQuery, error, admission, log>>
      BY <1>8 DEF HostSetPolicy, HostSetLogOnly, HostSetRemotePushdown, HostSetup, Enforce, vars, query
    <2> QED BY <2>1 DEF Decision!vars, Stage
  <1> QED BY <1>1, <1>2, <1>3, <1>4, <1>5, <1>6, <1>7, <1>8 DEF Next, HostStep, EngineStep, Hook, Plan, RebindHookMissed

\* The hooks together implement the promise StatementDecision states: on either engine, whatever the host changes and
\* whether or not the sink fails, a statement's mode is fixed before its verdict, its verdict is given once, and it runs
\* only on a verdict that allows it or in log-only mode after one.
THEOREM HooksKeepPromise ==
  ASSUME ~MissedHooks
  PROVE  Spec => KeepsPromise
  <1>1. Init => Decision!Init /\ Definite
    <2>1. Len(<<>>) = 0
      OBVIOUS
    <2> QED BY <2>1 DEF Init, Decision!Init, Definite, Stage, NoAdmission
  <1>2. IInv /\ Definite /\ [Next]_vars => Definite'
    BY DefiniteStep
  <1>3. IInv /\ IInv' /\ Definite /\ [Next]_vars => [Decision!Next]_(Decision!vars)
    BY PromiseStep
  <1> QED BY <1>1, <1>2, <1>3, Invariant, PTL DEF Spec, KeepsPromise, Decision!Spec

-----------------------------------------------------------------------------
(***************************************************************************)
(* What a statement leaves behind, when the log storage takes every        *)
(* record.                                                                 *)
(***************************************************************************)
\* Outside a query the state is the reset one, but for the mark a Prepare() under way may carry.
Clean ==
  /\ activeQuery = 0 => st = [Reset EXCEPT !.prepareDecided = st.prepareDecided]
  /\ phase = "idle" => ~st.prepareDecided

\* The mark is all that tells a clean state from the reset one.
LEMMA MarkOnly ==
  ASSUME NEW b \in BOOLEAN
  PROVE  /\ [Reset EXCEPT !.prepareDecided = b].prepareDecided = b
         /\ ~[Reset EXCEPT !.prepareDecided = b].inStatement
         /\ \A c \in BOOLEAN : [[Reset EXCEPT !.prepareDecided = b] EXCEPT !.prepareDecided = c] = [Reset EXCEPT !.prepareDecided = c]
         /\ [Reset EXCEPT !.prepareDecided = FALSE] = Reset
  <1>1. Reset \in States /\ ~Reset.inStatement /\ Reset.prepareDecided = FALSE
    <2>1. ~Reset.inStatement /\ Reset.prepareDecided = FALSE
      BY DEF Reset
    <2> QED BY <2>1, ResetType
  <1>2. \A s \in States, c \in BOOLEAN :
          /\ [s EXCEPT !.prepareDecided = c].prepareDecided = c
          /\ [s EXCEPT !.prepareDecided = c].inStatement = s.inStatement
          /\ [s EXCEPT !.prepareDecided = c] \in States
    BY DEF States
  <1>3. \A s \in States, c \in BOOLEAN, d \in BOOLEAN :
          [[s EXCEPT !.prepareDecided = c] EXCEPT !.prepareDecided = d] = [s EXCEPT !.prepareDecided = d]
    BY DEF States
  <1>4. \A s \in States : s.prepareDecided = FALSE => [s EXCEPT !.prepareDecided = FALSE] = s
    BY DEF States
  <1> QED BY <1>1, <1>2, <1>3, <1>4

\* Each step keeps the state clean: a Prepare() attempt that ends, however it ends, clears its mark.
LEMMA CleanStep == IInv /\ IInv' /\ Clean /\ [Next]_vars /\ ~MissedHooks /\ ~SinkMayFail => Clean'
  <1> SUFFICES ASSUME IInv, IInv', Clean, [Next]_vars, ~MissedHooks, ~SinkMayFail PROVE Clean'
    OBVIOUS
  <1> USE DEF host, conn, query
  <1>0. st.prepareDecided \in BOOLEAN /\ PhaseOK /\ PhaseOK'
    BY DEF IInv, TypeOK, States
  <1>1. st' = Reset => Clean'
    BY MarkOnly DEF Clean, Reset
  <1>2. UNCHANGED <<st, activeQuery>> /\ phase' # "idle" => Clean'
    BY DEF Clean
  <1>3. UNCHANGED <<st, activeQuery, phase>> => Clean'
    BY DEF Clean
  <1>4. activeQuery' # 0 => Clean'
    BY <1>0 DEF Clean, PhaseOK
  <1>5. CASE HostSetPolicy \/ HostSetLogOnly \/ HostSetRemotePushdown \/ HostSetup \/ UNCHANGED vars
    BY <1>3, <1>5 DEF HostSetPolicy, HostSetLogOnly, HostSetRemotePushdown, HostSetup, vars
  <1>6. CASE Enforce \/ QueryEnd
    BY <1>1, <1>6 DEF Enforce, QueryEnd
  <1>7. CASE Submit
    <2>1. (UNCHANGED <<st, activeQuery>> /\ phase' # "idle") \/ activeQuery' # 0
      BY <1>7, BoundAssumption DEF Submit, IInv, TypeOK
    <2> QED BY <1>2, <1>4, <2>1
  <1>8. CASE QueryBegin \/ Admit \/ ForceRebind \/ EngineRejects \/ ExecutionFails \/ Execute \/ Finish \/ PostBindWrapper
    <2>1. activeQuery' # 0
      BY <1>0, <1>8 DEF QueryBegin, BeginStatement, Admit, ForceRebind, EngineRejects, ExecutionFails, Execute, Finish,
                        PostBindWrapper, PhaseOK
    <2> QED BY <1>4, <2>1
  <1>9. CASE Advance
    <2>1. activeQuery' # 0
      BY <1>9, BoundAssumption DEF Advance, IInv, TypeOK
    <2> QED BY <1>4, <2>1
  <1>10. CASE CanRequestRebind
    BY <1>2, <1>4, <1>10 DEF CanRequestRebind, InStatementButStale, BeginStatement
  <1>11. CASE BindFails \/ BindYieldsNoPlan \/ BindYieldsPlan
    BY <1>2, <1>11 DEF BindFails, BindYieldsNoPlan, BindYieldsPlan
  <1>12. CASE GatekeeperReplacementScan \/ PostBind \/ OnFinalizePrepare \/ OnPlanningError
    <2>1. activeQuery' = activeQuery
      BY <1>12 DEF GatekeeperReplacementScan, PostBind, OnFinalizePrepare, OnPlanningError
    <2>2. CASE activeQuery = 0
      <3>1. st = [Reset EXCEPT !.prepareDecided = st.prepareDecided] /\ ~st.inStatement
        BY <1>0, <2>2, MarkOnly DEF Clean
      <3>2. CASE GatekeeperReplacementScan
        <4>1. st' = [st EXCEPT !.prepareDecided = TRUE] /\ phase' # "idle"
          BY <3>1, <3>2 DEF GatekeeperReplacementScan, MarkGateDecided, Decide, Throw
        <4>2. st' = [Reset EXCEPT !.prepareDecided = TRUE]
          BY <1>0, <3>1, <4>1, MarkOnly
        <4> QED BY <4>1, <4>2, MarkOnly DEF Clean
      <3>3. CASE PostBind
        <4>1. PrescreenOutside /\ phase' # "idle"
          BY <3>1, <3>3 DEF PostBind, StalePlan, DecidedPlan, PrescreenPrepare, CheckExecutedPlan, UndecidedPlan, CurrentStatement,
                            PrescreenOutside, Decide, Throw
        <4>2. st' = st \/ st' = [st EXCEPT !.prepareDecided = FALSE]
          BY <4>1 DEF PrescreenOutside
        <4>3. st' = st \/ st' = Reset
          BY <1>0, <3>1, <4>2, MarkOnly
        <4> QED BY <1>1, <1>2, <2>1, <4>1, <4>3
      <3>4. CASE OnFinalizePrepare \/ OnPlanningError
        <4>1. st' = [st EXCEPT !.prepareDecided = FALSE]
          BY <3>1, <3>4 DEF OnFinalizePrepare, OnPlanningError
        <4>2. st' = Reset
          BY <1>0, <3>1, <4>1, MarkOnly
        <4> QED BY <1>1, <4>2
      <3> QED BY <1>12, <3>2, <3>3, <3>4
    <2> QED BY <1>4, <2>1, <2>2
  <1> QED BY <1>5, <1>6, <1>7, <1>8, <1>9, <1>10, <1>11, <1>12 DEF Next, HostStep, EngineStep, Plan, RebindHookMissed

\* Between statements the connection carries nothing of the last statement or Prepare(), as long as the log storage
\* takes every record: only a QueryEnd whose record is refused leaves before Reset.
THEOREM NothingIsLeft ==
  ASSUME ~MissedHooks, ~SinkMayFail
  PROVE  Spec => []NothingOutlives
  <1>1. Init => Clean
    BY MarkOnly DEF Init, Clean, Reset
  <1>2. IInv /\ IInv' /\ Clean /\ [Next]_vars => Clean'
    BY CleanStep
  <1>3. IInv /\ Clean => NothingOutlives
    <2> SUFFICES ASSUME IInv, Clean, phase = "idle" PROVE st = Reset
      BY DEF NothingOutlives
    <2>1. activeQuery = 0 /\ st.prepareDecided = FALSE
      BY DEF IInv, PhaseOK, Clean, TypeOK, States
    <2> QED BY <2>1, MarkOnly DEF Clean
  <1> QED BY <1>1, <1>2, <1>3, Invariant, PTL DEF Spec

=============================================================================
