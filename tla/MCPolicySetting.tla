--------------------------- MODULE MCPolicySetting ---------------------------
(* An instance of PolicySetting for TLC. *)
EXTENDS PolicySetting

CONSTANTS c1, c2

MCFold == [n \in {"t", "T", "cat"} |-> IF n = "T" THEN "t" ELSE n]

Given(options) == [accepted |-> TRUE, options |-> options]

\* Mixed-case rules, one with the catalog left open, under defaults turned off; a NULL option, and a document the
\* decoder rejects.
MCRequests ==
  {Given([allowed_tables |-> {[catalog |-> Null, object |-> "T"]}, use_default_functions |-> FALSE,
          blocked_functions |-> {[catalog |-> "cat", object |-> "T", type |-> Null]}]),
   Given([blocked_tables |-> {Null}]),
   [accepted |-> FALSE, options |-> [allowed_tables |-> {}]]}

\* The first of these policies as a setting would hold it, but for the case of a name: readable, not canonical; and with
\* a field DuckDB's cast dropped: not readable.
Raw(catalog) ==
  [PolicyValue(DefaultPolicy) EXCEPT !.use_default_functions = FALSE, !.restrict_tables = TRUE,
     !.blocked_functions = {[catalog |-> "cat", object |-> "t", type |-> ""]},
     !.allowed_tables = {[catalog |-> catalog, object |-> "T"]}]
MCRawPolicies == {Raw(""), Raw(Null)}

MCRawSwitches == {"true"}
=============================================================================
