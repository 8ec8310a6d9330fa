-------------------------- MODULE StatementDecision --------------------------
(***************************************************************************)
(* What an enforced connection promises of each statement, whichever       *)
(* engine hooks carry it out: the mode is fixed once, before anything is   *)
(* decided; at most one verdict is given, and never changed; the statement *)
(* runs only on a verdict that allows it or in log-only mode, where the    *)
(* verdict still comes first. This is what the header comment of           *)
(* enforcement.cpp says of a statement; Enforcement implements it.         *)
(***************************************************************************)
VARIABLES
  stage,    \* "idle", "open" while the engine handles a statement, "ran", or "ended"
  mode,     \* "none" until admission reads the log-only switch
  verdict   \* "none" until a record is written

vars == <<stage, mode, verdict>>

TypeOK ==
  /\ stage \in {"idle", "open", "ran", "ended"}
  /\ mode \in {"none", "enforce", "log_only"}
  /\ verdict \in {"none", "ok", "denied"}

Init == stage = "idle" /\ mode = "none" /\ verdict = "none"

\* A statement arrives: the first of a query, or the next of a batch after the last one ran.
Open ==
  /\ stage # "open"
  /\ stage' = "open" /\ mode' = "none" /\ verdict' = "none"

FixMode ==
  /\ stage = "open" /\ mode = "none"
  /\ mode' \in {"enforce", "log_only"}
  /\ UNCHANGED <<stage, verdict>>

Decide ==
  /\ stage = "open" /\ mode # "none" /\ verdict = "none"
  /\ verdict' \in {"ok", "denied"}
  /\ UNCHANGED <<stage, mode>>

Run ==
  /\ stage = "open"
  /\ verdict = "ok" \/ (verdict = "denied" /\ mode = "log_only")
  /\ stage' = "ran"
  /\ UNCHANGED <<mode, verdict>>

\* The statement ends, having run or not. In log-only mode the engine's error may be what
\* decides it, and only then.
End ==
  /\ stage \in {"open", "ran"} /\ mode # "none"
  /\ stage' = "ended"
  /\ \/ verdict' = verdict
     \/ stage = "open" /\ verdict = "none" /\ mode = "log_only" /\ verdict' = "denied"
  /\ UNCHANGED mode

\* The connection forgets the statement, at once when it ended before its mode was fixed.
Forget ==
  /\ stage = "ended" \/ (stage = "open" /\ mode = "none")
  /\ stage' = "idle" /\ mode' = "none" /\ verdict' = "none"

Next == Open \/ FixMode \/ Decide \/ Run \/ End \/ Forget

Spec == Init /\ [][Next]_vars
=============================================================================
