----------------------------- MODULE Validation -----------------------------
(***************************************************************************)
(* gatekeeper_validate (gatekeeper_extension.cpp, check.cpp) on one        *)
(* thread.  A call checks the text, binds every statement the engine would *)
(* run for it, in order and in every shape, and returns one row.           *)
(*                                                                         *)
(* While a statement binds, its ValidationScope is the thread's            *)
(* active_scope, which the replacement gate consults.  The gate asks the   *)
(* host's callbacks, and these may use other connections: run a query      *)
(* there, or validate again, so calls nest.  What a bind retrieves is the  *)
(* environment's choice; PlanCheck models the walk of its plan.            *)
(***************************************************************************)
EXTENDS Naturals, Sequences, SequencesExt

CONSTANTS
  Conns,   \* connections the thread uses
  None,    \* no connection
  Texts    \* inputs of gatekeeper_validate: see TextRecords

\* What CheckStatementText makes of one statement: admitted, denied with a violation, or an error raised.
Denials == {"forbidden", "unsupported"}
Errors == {"parser", "invalid_input"}
PartVerdicts == {"ok"} \union Denials \union Errors \union {"fatal"}

\* A text is refused before it is looked at ("policy": the policy or the options cannot be read, or NULL SQL), is
\* one statement, or is a dynamic PIVOT's batch: enum types and then the SELECT, one verdict for each.
TextRecords == [form : {"policy", "single", "batch"}, parts : Seq(PartVerdicts)]

ASSUME TextsAssumption ==
  /\ Texts \subseteq TextRecords
  /\ \A text \in Texts : text.form = "single" => Len(text.parts) = 1
ASSUME NoneAssumption == None \notin Conns

VARIABLES
  frames,       \* the calls under way, the innermost last
  active_scope, \* the connection whose ValidationScope the thread's pointer names, or None
  asked,        \* the last lookup the gate was asked about: its connection, who decided, and whether it validates
  row           \* the last row returned: its text, how each unit's bind ended, and the result

vars == <<frames, active_scope, asked, row>>

\* A call: its connection and text, the units the text check admitted and the denial that followed them ("ok" for
\* none), the unit and shape it is at, how the finished units ended, the violations and the unseen replacements of
\* the result, and the scope its guard restores.
Frame(c, text) ==
  [conn |-> c, text |-> text, stage |-> "text", units |-> 0, denial |-> "ok", shape |-> "small", outcomes |-> <<>>,
   violated |-> FALSE, unseen |-> FALSE, previous |-> None]

Init == frames = <<>> /\ active_scope = None /\ asked = None /\ row = None

Top == frames[Len(frames)]
Pop == SubSeq(frames, 1, Len(frames) - 1)
InFrame(stage) == frames # <<>> /\ Top.stage = stage
SetTop(frame) == Append(Pop, frame)

Return(frame, code, violated) ==
  /\ frames' = Pop
  /\ row' = [text |-> frame.text, outcomes |-> frame.outcomes, allowed |-> code = "ok", code |-> code, violated |-> violated]
-----------------------------------------------------------------------------
\* GatekeeperValidate is called, at top level or by a host callback that runs inside a bind.
Call(c) ==
  /\ \A i \in DOMAIN frames : frames[i].conn # c
  /\ frames = <<>> \/ InFrame("binding")
  /\ \E text \in Texts : frames' = Append(frames, Frame(c, text))
  /\ UNCHANGED <<active_scope, asked, row>>

\* The first part that is not admitted; 0 when all are.
FirstRefused(parts) == SelectInSeq(parts, LAMBDA part : part # "ok")

\* CheckText: the units before the first part it refuses, and that refusal.  A batch is enum types followed by a
\* SELECT, so it has at least two parts; any other batch is unsupported as a whole.
TextUnits(text) ==
  IF text.form = "batch" /\ Len(text.parts) < 2 THEN 0
  ELSE IF FirstRefused(text.parts) = 0 THEN Len(text.parts) ELSE FirstRefused(text.parts) - 1
TextVerdict(text) ==
  IF text.form = "batch" /\ Len(text.parts) < 2 THEN "unsupported"
  ELSE IF FirstRefused(text.parts) = 0 THEN "ok" ELSE text.parts[FirstRefused(text.parts)]

\* The text boundary, which never binds: a denial is kept for later, an error ends the call at once, and what
\* DescribeError will not describe leaves as an exception without a row.
CheckText ==
  /\ InFrame("text")
  /\ LET verdict == TextVerdict(Top.text)
     IN  \/ /\ Top.text.form = "policy"
            /\ Return(Top, "invalid_input", FALSE)
         \/ /\ Top.text.form # "policy" /\ verdict \in {"ok"} \union Denials
            /\ frames' = SetTop([Top EXCEPT !.stage = "units", !.units = TextUnits(Top.text), !.denial = verdict])
            /\ UNCHANGED row
         \/ /\ Top.text.form # "policy" /\ verdict \in Errors
            /\ Return(Top, verdict, FALSE)
         \/ /\ Top.text.form # "policy" /\ verdict = "fatal"
            /\ frames' = Pop /\ UNCHANGED row
  /\ UNCHANGED <<active_scope, asked>>

\* MarkDenied variant: an error stays an error though violations were recorded.
MarkDeniedAsError(frame, code) == code

\* Violations make a denial forbidden, whatever error was described.
MarkDenied(frame, code) == IF frame.violated THEN "forbidden" ELSE code

\* An exception leaves the unit's Authorize: Check describes and closes the result, or lets it propagate.
Raise(frame, error) ==
  IF error = "fatal"
  THEN frames' = Pop /\ UNCHANGED row
  ELSE LET code == MarkDenied(frame, error)
       IN  Return([frame EXCEPT !.outcomes = Append(@, code)], code, frame.violated)

\* The next unit, in the next shape, when some are left.
MoreToBind == Len(Top.outcomes) < Top.units

\* Authorize up to the bind: the remote scope and the parameter fallbacks may deny, a collation may be unknown;
\* then the guard saves the scope it finds and installs this bind's.
BeginBind ==
  /\ InFrame("units") /\ MoreToBind
  /\ \/ /\ frames' = SetTop([Top EXCEPT !.stage = "binding", !.unseen = FALSE, !.previous = active_scope])
        /\ active_scope' = Top.conn
        /\ UNCHANGED row
     \/ /\ Raise([Top EXCEPT !.violated = TRUE], "binding")
        /\ UNCHANGED active_scope
     \/ /\ \E error \in {"binding", "fatal"} : Raise(Top, error)
        /\ UNCHANGED active_scope
  /\ UNCHANGED asked

\* GatekeeperReplacementScan variant: any scope on the thread is taken for the connection's own.
GateByAnyScope(c) == IF active_scope # None THEN "scope" ELSE "gate"

\* Whether a lookup on connection c is decided under the scope, or by the enforced connection's gate.
Gate(c) == IF active_scope = c THEN "scope" ELSE "gate"

\* The binder of c meets a name the catalog does not have: c is the connection being validated, or another one a
\* host callback queries.  Under the scope a refusal is a violation; whatever it throws, the engine may swallow.
ReplacementScan(c) ==
  /\ InFrame("binding")
  /\ c = Top.conn \/ \A i \in DOMAIN frames : frames[i].conn # c
  /\ asked' = [conn |-> c, by |-> Gate(c), validating |-> c = Top.conn]
  /\ \/ UNCHANGED frames
     \/ /\ Gate(c) = "scope" /\ active_scope = Top.conn
        /\ frames' = SetTop([Top EXCEPT !.violated = TRUE])
  /\ UNCHANGED <<active_scope, row>>

\* The engine records a replacement of the validated statement that never met the gate.
UnseenReplacement ==
  /\ InFrame("binding") /\ ~Top.unseen
  /\ frames' = SetTop([Top EXCEPT !.unseen = TRUE])
  /\ UNCHANGED <<active_scope, asked, row>>

\* LookupCallback refuses an object the binder retrieved; the engine may swallow what it throws.
LookupRefused ==
  /\ InFrame("binding") /\ ~Top.violated
  /\ frames' = SetTop([Top EXCEPT !.violated = TRUE])
  /\ UNCHANGED <<active_scope, asked, row>>

\* ScopeGuard variant: the destructor clears the pointer.
RestoreScopeCleared(frame) == active_scope' = None

\* ScopeGuard's destructor, on every way out of the bind.
RestoreScope(frame) == active_scope' = frame.previous

\* The bind, or the checks of its plan, raise: an engine error, missing parameters, or a plan CheckPlan refuses.
BindRaises ==
  /\ InFrame("binding")
  /\ RestoreScope(Top)
  /\ \/ \E error \in {"parser", "binding", "fatal"} : Raise(Top, error)
     \/ Raise([Top EXCEPT !.violated = TRUE], "binding")
  /\ UNCHANGED asked

\* BindCompletes variant: the last look at the violations is left out.
BindCompletesUnchecked ==
  /\ InFrame("binding")
  /\ RestoreScope(Top)
  /\ LET done == [Top EXCEPT !.stage = "units", !.previous = None]
     IN  \/ /\ Top.shape = "small" /\ Len(Top.outcomes) > 0
            /\ frames' = SetTop([done EXCEPT !.shape = "large"])
         \/ frames' = SetTop([done EXCEPT !.shape = "small", !.outcomes = Append(@, "ok")])
  /\ UNCHANGED <<asked, row>>

\* The bind produced a plan CheckPlan admits.  A replacement the gate never saw is a violation now, and a violation
\* anyone recorded refuses the unit even if its exception never arrived.  A unit that names a batch's enum types
\* is bound again in the large shape when that differs from the small one (see PivotShapes).
BindCompletes ==
  /\ InFrame("binding")
  /\ RestoreScope(Top)
  /\ LET done == [Top EXCEPT !.stage = "units", !.violated = @ \/ Top.unseen, !.previous = None]
     IN  \/ done.violated /\ Raise(done, "binding")
         \/ /\ ~done.violated /\ Top.shape = "small" /\ Len(Top.outcomes) > 0
            /\ frames' = SetTop([done EXCEPT !.shape = "large"])
            /\ UNCHANGED row
         \/ /\ ~done.violated
            /\ frames' = SetTop([done EXCEPT !.shape = "small", !.outcomes = Append(@, "ok")])
            /\ UNCHANGED row
  /\ UNCHANGED asked

\* Check variant: a denied text is reported before the statements ahead of it are bound.
FinishEarly ==
  /\ InFrame("units") /\ (~MoreToBind \/ Top.denial # "ok")
  /\ Return(Top, Top.denial, IF Top.denial = "ok" THEN Top.violated ELSE TRUE)
  /\ UNCHANGED <<active_scope, asked>>

\* Every unit bound: a denied text's own result is returned, or else the binds' result, allowed.
Finish ==
  /\ InFrame("units") /\ ~MoreToBind
  /\ Return(Top, Top.denial, IF Top.denial = "ok" THEN Top.violated ELSE TRUE)
  /\ UNCHANGED <<active_scope, asked>>

Next ==
  \/ \E c \in Conns : Call(c) \/ ReplacementScan(c)
  \/ CheckText \/ BeginBind \/ UnseenReplacement \/ LookupRefused \/ BindRaises \/ BindCompletes \/ Finish

Spec == Init /\ [][Next]_vars
-----------------------------------------------------------------------------
(***************************************************************************)
(* Properties.                                                             *)
(***************************************************************************)
\* The connection of the innermost bind under way.
Binding == {i \in DOMAIN frames : frames[i].stage = "binding"}
InnermostBinding == IF Binding = {} THEN None ELSE frames[CHOOSE i \in Binding : \A j \in Binding : j <= i].conn

\* The thread's pointer names the innermost bind under way, however calls nest and end (check.cpp:380, "Nested
\* validations ... restore the outer scope"), and each guard holds the one outside it.
ScopeIsInnermost ==
  /\ active_scope = InnermostBinding
  /\ \A i \in Binding : frames[i].previous = IF i = 1 THEN None ELSE frames[i - 1].conn

\* A lookup is decided under the scope exactly when its connection is the one whose statement is being validated:
\* neither does a nested query borrow an outer call's policy, nor does a validated statement miss its own.
LookupsMeetTheirScope == asked # None => (asked.by = "scope" <=> asked.validating)

\* How the engine's own run of the text would end: statement by statement, each one's text before its bind.
EngineOrder(text, outcomes) ==
  LET refused == TextUnits(text) + 1
      failed == FirstRefused(outcomes)
  IN  IF failed # 0 /\ failed < refused THEN outcomes[failed] ELSE TextVerdict(text)

\* The row reports the first statement that fails in the engine's order (check.cpp:1081-1083), and only after
\* every statement before it was bound.
FirstFailureDecides ==
  row # None /\ row.text.form # "policy" =>
    /\ row.code = EngineOrder(row.text, row.outcomes)
    /\ row.code \notin Errors /\ FirstRefused(row.outcomes) = 0 => Len(row.outcomes) = TextUnits(row.text)

\* Allowed rows carry no violation, and the codes of decisions go with violations, the codes of errors without
\* (validator.hpp:62-64).
CodesMatchViolations ==
  row # None => /\ row.allowed => row.code = "ok" /\ ~row.violated /\ \A i \in DOMAIN row.outcomes : row.outcomes[i] = "ok"
                /\ row.violated <=> row.code \in Denials
=============================================================================
