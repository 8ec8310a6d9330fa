---------------------------- MODULE MCPolicyRules ----------------------------
(* Instances of PolicyRules for TLC. *)
EXTENDS PolicyRules, FiniteSetsExt

MCFold == [n \in {"", "*", "system", "main", "MAIN", "db", "DB", "f", "F", "query"} |->
             CASE n = "MAIN" -> "main" [] n = "DB" -> "db" [] n = "F" -> "f" [] OTHER -> n]

MCNeverBind == {"query"}

Grant(catalog, path, leaf, type) == [catalog |-> catalog, path |-> path, name |-> leaf, type |-> type]

MCDefaults == {Grant("system", <<"main">>, "f", "scalar")}

\* Grants and blocks: open, wildcard and named catalogs, one and two path components, with and without a kind.
MCRules ==
  {Grant("", <<"main">>, "f", ""), Grant("*", <<"*">>, "f", "scalar"), Grant("db", <<"main">>, "f", "scalar"),
   Grant("db", <<"*", "main">>, "f", ""), Grant("system", <<"main">>, "f", "table"), Grant("", <<"*">>, "query", "")}

Rule(catalog, path, table) == [catalog |-> catalog, path |-> path, table |-> table]

MCTableRules ==
  {Rule("", <<"main">>, "f"), Rule("db", <<"*">>, "*"), Rule("*", <<"main", "*">>, "f"), Rule("db", <<"main">>, "*")}

UpTo2(S) == {{}} \union kSubset(1, S) \union kSubset(2, S)

MCPolicyChoices ==
  [defaults : BOOLEAN, tables : {TRUE}, allowed_functions : UpTo2(MCRules), blocked_functions : UpTo2(MCRules),
   allowed_tables : {{}}, blocked_tables : {{}}] \union
  [defaults : {FALSE}, tables : BOOLEAN, allowed_functions : {{}}, blocked_functions : {{}},
   allowed_tables : SUBSET MCTableRules, blocked_tables : SUBSET MCTableRules]

\* Spelled in either case, internal, the host's own or of unknown origin, and in a path of two components.
MCFunctions ==
  [catalog : {"system", "DB"}, path : {<<"main">>, <<"MAIN">>, <<"db", "main">>}, name : {"f", "F"},
   type : {"scalar", "table"}, internal : {"yes", "no", "unknown"}]

MCObjects ==
  [key : [catalog : {"db", "DB"}, path : {<<"main">>, <<"*">>, <<"MAIN", "db">>}, table : {"f", "F", "*"}], internal : BOOLEAN]
=============================================================================
