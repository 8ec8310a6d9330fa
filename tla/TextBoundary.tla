---------------------------- MODULE TextBoundary ----------------------------
(***************************************************************************)
(* The text boundary: what CheckStatementText (check.cpp) makes of one     *)
(* statement's text, and the record of the decision (audit.cpp).           *)
(*                                                                         *)
(* The text is bounded, parsed, serialized and walked.  Walker             *)
(* (validator.cpp) checks the serialized tree node by node against the     *)
(* grammar of the engine's serializer, with a stack of its own and limits  *)
(* on nodes and depth; it collects the names the text writes, which every  *)
(* later boundary relies on, and refuses expressions the engine would      *)
(* evaluate while it binds.  A node it does not know stops the walk.       *)
(*                                                                         *)
(* A JSON value is a record tagged with its kind.  Positions, messages and *)
(* occurrence counts, which only describe a denial, are left out.  The     *)
(* batch of a dynamic PIVOT is Validation's.                               *)
(***************************************************************************)
EXTENDS Integers, Sequences, FiniteSets, FiniteSetsExt, SequencesExt

CONSTANTS
  Json,            \* the JSON values of the serialized texts, with everything they hold
  Texts,           \* texts: [characters, parses, statements]
  Layers,          \* ceiling and policy: the eligible names, and whether tables are unrestricted
  MaxBytes, MaxNodes, MaxDepth, \* Limits
  MaxLogged,       \* MAX_LOGGED_STATEMENT
  Dispatch,        \* abstract kind -> tag -> rule
  ExpressionTypes, \* expression class -> types
  Rules,           \* rule -> [required, fields: name -> expected kind]
  Elements,        \* array kind -> the kind of its elements
  Folded,          \* names that are not in lower case -> their lower case
  SqlValues        \* column names that may be SQL value functions -> the function

\* The UTF-8 characters a text is made of, by their bytes; a NUL is one of its own.
Characters ==
  {<<"ascii">>, <<"nul">>, <<"lead", "continuation">>, <<"lead", "continuation", "continuation">>,
   <<"lead", "continuation", "continuation", "continuation">>}

ASSUME LimitsAssumption == {MaxBytes, MaxNodes, MaxDepth, MaxLogged} \subseteq Nat \ {0}
ASSUME TextsAssumption ==
  /\ \A t \in Texts : t.characters \in Seq(Characters)
  /\ {t.statements : t \in Texts} \subseteq Seq([type : STRING, ast : Json, size : Nat])

\* A set of JSON values that has what each of them holds, and the value yyjson answers for what is not there.
Closed(values) ==
  /\ [json |-> "missing"] \in values
  /\ \A value \in values : /\ value.json = "array" => value.items \in Seq(values)
                           /\ value.json = "object" => value.fields \in Seq(STRING \X values)
ASSUME JsonAssumption == Closed(Json)

VARIABLES
  text,       \* the text being decided
  stage,      \* "text", "walking", "decided", "done"
  pending,    \* Walker::pending, the next item last
  nodes,      \* Walker::nodes
  functions,  \* Walker::functions
  binding,    \* BindingPolicy: pairs of a slot and a name
  violations, \* Walker::violations: their rules
  result,     \* the result: [allowed, code, rules]
  logged      \* the record of the decision, if it was kept

walk == <<pending, nodes, functions, binding, violations>>
vars == <<text, stage, walk, result, logged>>

None == [kind |-> "none"]

Init ==
  /\ text \in Texts /\ stage = "text"
  /\ pending = <<>> /\ nodes = 0
  /\ functions = {} /\ binding = {} /\ violations = {}
  /\ result = None /\ logged = None
-----------------------------------------------------------------------------
(***************************************************************************)
(* JSON, as yyjson reads it: a missing value has no fields.                *)
(***************************************************************************)
Missing == [json |-> "missing"]
Is(value, kind) == value.json = kind
Present(value) == ~Is(value, "missing")

Get(value, name) ==
  IF ~Is(value, "object") THEN Missing
  ELSE LET at == SelectInSeq(value.fields, LAMBDA field : field[1] = name) IN IF at = 0 THEN Missing ELSE value.fields[at][2]
Items(value) == IF Is(value, "array") THEN value.items ELSE <<>>
Field(value, name) == IF Is(Get(value, name), "string") THEN Get(value, name).text ELSE ""
Lower(name) == IF name \in DOMAIN Folded THEN Folded[name] ELSE name

\* The path of a written name: a qualified name's components, or the separate fields.
WrittenPath(value, catalog, schema, name) ==
  LET qualified == Get(value, "qualified_name")
      path == IF Present(qualified) THEN [i \in DOMAIN Items(Get(qualified, "path")) |-> Items(Get(qualified, "path"))[i].text]
              ELSE IF Field(value, catalog) # "" THEN <<Field(value, catalog), Field(value, schema), Field(value, name)>>
              ELSE IF Field(value, schema) # "" THEN <<Field(value, schema), Field(value, name)>>
              ELSE <<Field(value, name)>>
  IN  [i \in DOMAIN path |-> Lower(path[i])]
TablePath(value) == WrittenPath(value, "catalog_name", "schema_name", "table_name")
FunctionPath(value) == WrittenPath(value, "catalog", "schema", "function_name")

\* A qualified name that WrittenPath stops at.
BadPath(value) ==
  LET path == Get(Get(value, "qualified_name"), "path")
  IN  /\ Present(Get(value, "qualified_name"))
      /\ ~Is(path, "array") \/ path.items = <<>> \/ \E i \in DOMAIN path.items : ~Is(path.items[i], "string")
-----------------------------------------------------------------------------
(***************************************************************************)
(* Expressions the engine evaluates while it binds.                        *)
(***************************************************************************)
\* A call's arguments: DuckDB 1.5 writes children, 2.0 pairs of a name and an expression.
Arguments(call) ==
  Items(Get(call, "children")) \o
  [i \in DOMAIN Items(Get(call, "arguments")) |-> Get(Items(Get(call, "arguments"))[i], "expression")]
ArgumentName(call, i) ==
  IF Present(Get(call, "arguments")) THEN Field(Items(Get(call, "arguments"))[i], "name")
  ELSE Field(Items(Get(call, "children"))[i], "alias")
HasNamedArguments(call) == \E i \in DOMAIN Arguments(call) : ArgumentName(call, i) # ""

\* `name = value` is a named parameter of a table function: the name is not an argument.
ArgumentValue(argument) ==
  IF /\ Field(argument, "type") = "COMPARE_EQUAL" /\ Field(Get(argument, "left"), "class") = "COLUMN_REF"
     /\ Len(Items(Get(Get(argument, "left"), "column_names"))) = 1
  THEN Get(argument, "right") ELSE argument

Constructor(expr, pivot) ==
  \/ Field(expr, "class") = "OPERATOR" /\ Field(expr, "type") = "ARRAY_CONSTRUCTOR"
  \/ /\ Field(expr, "class") = "FUNCTION"
     /\ Lower(Field(expr, "function_name")) \in {"list_value", "struct_pack"} \union (IF pivot THEN {"row"} ELSE {})

LiteralLeaf(expr, pivot) ==
  \/ Field(expr, "class") \in {"CONSTANT", "PARAMETER"}
  \/ pivot /\ Field(expr, "class") = "COLUMN_REF" /\ Len(Items(Get(expr, "column_names"))) = 1

\* A constructor the binder cannot mistake: no filter or order, the builtin's own name, and arguments.
LiteralConstructor(expr, pivot) ==
  LET name == Lower(Field(expr, "function_name"))
  IN  /\ Constructor(expr, pivot)
      /\ ~Present(Get(expr, "filter")) /\ Items(Get(Get(expr, "order_bys"), "orders")) = <<>>
      /\ Field(expr, "class") = "FUNCTION" =>
           FunctionPath(expr) \in {<<name>>, <<"main", name>>, <<"system", "main", name>>, <<"system", "", name>>}
      /\ Is(Get(expr, "children"), "array") \/ Is(Get(expr, "arguments"), "array")

ConstructorNames(expr) ==
  IF Field(expr, "class") = "OPERATOR" THEN {"list_value"}
  ELSE IF Present(Get(expr, "filter")) \/ Items(Get(Get(expr, "order_bys"), "orders")) # <<>> THEN {}
  ELSE {Lower(Field(expr, "function_name"))}

\* One step of BindLiteral: the last expression is a literal, leads to what it holds, or is refused.  The
\* constructors met must be the engine's own.
LiteralStep(s, containers, pivot) ==
  LET expr == Last(s.work)
      rest == Front(s.work)
  IN  IF LiteralLeaf(expr, pivot) THEN [s EXCEPT !.work = rest]
      ELSE IF Field(expr, "class") = "CAST" THEN [s EXCEPT !.work = Append(rest, Get(expr, "child"))]
      ELSE IF ~containers \/ ~Constructor(expr, pivot) THEN [s EXCEPT !.literal = FALSE]
      ELSE IF ~LiteralConstructor(expr, pivot) THEN [s EXCEPT !.literal = FALSE, !.names = @ \union ConstructorNames(expr)]
      ELSE [s EXCEPT !.work = rest \o Arguments(expr), !.names = @ \union ConstructorNames(expr)]

\* BindLiteral's loop, which gives up after MaxNodes expressions.
LiteralWalk(value, containers, pivot) ==
  FoldLeft(LAMBDA s, i : IF s.literal /\ s.work # <<>> THEN LiteralStep(s, containers, pivot) ELSE s,
           [work |-> <<value>>, names |-> {}, literal |-> TRUE], [i \in 1 .. MaxNodes |-> i])

\* BindLiteral variant: what a cast or a constructor holds is not looked at.
BindLiteralOuter(value, containers, pivot) ==
  LiteralLeaf(value, pivot) \/ Field(value, "class") = "CAST" \/ (containers /\ LiteralConstructor(value, pivot))

\* Constants and parameters, casts of them, and where containers are permitted, constructors of them.
BindLiteral(value, containers, pivot) ==
  LET s == LiteralWalk(value, containers, pivot) IN s.literal /\ s.work = <<>>

\* A table function's argument that depends on rows, so that the engine cannot evaluate it while it binds.  What
\* lies deeper than the walk's limit does not matter: such a text is refused.
HasRuntimeReference(value) ==
  LET Keys == {"children", "arguments", "expression", "child", "left", "right", "input", "lower", "upper", "else_expr",
               "case_checks", "when_expr", "then_expr"}
      Step(v) == IF Is(v, "array") THEN ToSet(v.items)
                 ELSE IF Field(v, "class") \in {"CONSTANT", "TYPE", "LAMBDA"} THEN {}
                 ELSE {Get(v, key) : key \in {k \in Keys : Present(Get(v, k))}}
      Reached == FoldLeft(LAMBDA found, i : found \union UNION {Step(v) : v \in found}, {value}, [i \in 1 .. MaxDepth |-> i])
  IN  \E v \in Reached : Field(v, "class") \in {"COLUMN_REF", "SUBQUERY"}

\* The table function is evaluated per row: its arguments need not be literals.
Runtime(call) ==
  /\ Lower(Field(call, "function_name")) \in {"unnest", "range", "generate_series"}
  /\ \E i \in DOMAIN Arguments(call) : HasRuntimeReference(ArgumentValue(Arguments(call)[i]))

\* The expressions of a node that must be literals, each with whether containers and pivot names are permitted.
BindTime(value, kind, edge) ==
  LET Slot(expr, containers, pivot) == IF Present(expr) THEN {<<expr, containers, pivot>>} ELSE {}
      Call == kind \in {"FunctionExpression", "WindowExpression"}
  IN  (IF kind \in {"LimitModifier", "LimitPercentModifier", "LegacyLimitPercentModifier"}
       THEN Slot(Get(value, "limit"), FALSE, FALSE) \union Slot(Get(value, "offset"), FALSE, FALSE) ELSE {})
      \union (IF kind = "AtClause" THEN Slot(Get(value, "expr"), FALSE, FALSE) ELSE {})
      \union (IF kind = "StarExpression" THEN Slot(Get(value, "expr"), TRUE, FALSE) ELSE {})
      \union (IF kind = "PivotColumnEntry" THEN Slot(Get(value, "star_expr"), TRUE, TRUE) ELSE {})
      \union (IF kind = "TypeExpression"
              THEN {<<child, FALSE, FALSE>> : child \in {c \in ToSet(Items(Get(value, "children"))) : Field(c, "class") # "TYPE"}}
              ELSE {})
      \union (IF Call /\ edge = "function" /\ ~Runtime(value)
              THEN {<<ArgumentValue(argument), TRUE, FALSE>> : argument \in ToSet(Arguments(value))} ELSE {})
      \union (IF Call /\ Lower(Field(value, "function_name")) = "unnest"
              THEN {<<Arguments(value)[i], FALSE, FALSE>> :
                      i \in {j \in DOMAIN Arguments(value) : j > 1 \/ ArgumentName(value, j) # ""}} ELSE {})
-----------------------------------------------------------------------------
(***************************************************************************)
(* References: what a node of a known kind tells the later boundaries.     *)
(***************************************************************************)
\* Functions that syntax may bind without naming them.
Implied(value, kind) ==
  LET name == Lower(Field(value, "function_name"))
      Access == {"json_extract", "map_extract_value", "variant_extract"}
      ByType == [ARRAY_CONSTRUCTOR |-> {"list_value"}, ARRAY_SLICE |-> {"array_slice"}, ARROW |-> {"json_extract"},
                 ARRAY_EXTRACT |-> Access \union {"array_extract"},
                 STRUCT_EXTRACT |-> Access \union {"struct_extract", "union_extract"}]
      Columns == Items(Get(value, "column_names"))
      Column == IF Columns # <<>> /\ Is(Columns[1], "string") THEN Lower(Columns[1].text) ELSE ""
  IN  CASE kind = "OperatorExpression" -> IF Field(value, "type") \in DOMAIN ByType THEN ByType[Field(value, "type")] ELSE {}
        [] kind = "LambdaExpression" -> IF Field(value, "syntax_type") = "LAMBDA_KEYWORD" THEN {} ELSE {"json_extract"}
        [] kind = "ColumnRefExpression" ->
             IF Len(Columns) > 1 THEN Access \union {"struct_extract", "struct_pack", "union_extract"}
             ELSE {"struct_pack"} \union (IF Column \in DOMAIN SqlValues THEN {SqlValues[Column]} ELSE {})
        [] kind \in {"FunctionExpression", "WindowExpression"} ->
             IF \/ Get(value, "is_operator") = [json |-> "boolean", value |-> TRUE]
                \/ name \in {"list_value", "struct_pack", "row", "contains", "regexp_full_match"} THEN {name} ELSE {}
        [] OTHER -> {}

\* Functions the node names, or whose syntax always binds them.
Functions(value, kind) ==
  IF kind \in {"FunctionExpression", "WindowExpression"} THEN {Lower(Field(value, "function_name"))}
  ELSE IF kind = "OperatorExpression" /\ Field(value, "type") \in {"ARRAY_CONSTRUCTOR", "ARRAY_SLICE", "ARROW"}
  THEN Implied(value, kind) ELSE {}

\* A dispatcher's second argument, when it is a string the text spells out; otherwise the dispatcher is unsupported.
DispatchEntries(value) ==
  LET name == Lower(Field(value, "function_name"))
      target == IF Len(Arguments(value)) > 1 THEN Arguments(value)[2] ELSE Missing
      spelled == IF Field(Get(target, "literal"), "kind") = "STRING" THEN Get(Get(target, "literal"), "text")
                 ELSE Get(Get(target, "value"), "value")
  IN  {<<"caller_dispatchers", name>>} \union
      (IF \/ Len(FunctionPath(value)) > 1 \/ HasNamedArguments(value)
          \/ Field(target, "class") # "CONSTANT" \/ ~Is(spelled, "string")
       THEN {<<"unsupported_dispatchers", name>>} ELSE {<<"dispatcher_targets", Lower(spelled.text)>>})

\* A quantile's fractions must be literals of the plain call.
Fractions(value) ==
  LET first == IF Len(Arguments(value)) = 1 /\ Items(Get(Get(value, "order_bys"), "orders")) # <<>> THEN 1 ELSE 2
  IN  {Arguments(value)[i] : i \in first .. Len(Arguments(value))}
UnsupportedQuantile(value) ==
  \/ Len(FunctionPath(value)) > 1 \/ HasNamedArguments(value)
  \/ \E fraction \in Fractions(value) : ~BindLiteral(fraction, TRUE, FALSE)
QuantileConstructors(value) == UNION {LiteralWalk(fraction, TRUE, FALSE).names : fraction \in Fractions(value)}

Quantiles == {"quantile", "quantile_cont", "quantile_disc", "approx_quantile", "reservoir_quantile"}
DispatchingAggregators == {"list_aggregate", "array_aggregate", "list_aggr", "array_aggr", "aggregate"}

\* The entries of a call.
CallEntries(value, kind, edge) ==
  LET name == Lower(Field(value, "function_name"))
  IN  (IF /\ kind = "WindowExpression" /\ ~Present(Get(value, "qualified_name"))
          /\ Field(value, "type") # "WINDOW_AGGREGATE" THEN {<<"intrinsic_windows", name>>} ELSE {})
      \union (IF edge = "function" /\ Runtime(value) THEN {<<"runtime_table_functions", name>>} ELSE {})
      \union (IF name \in Quantiles /\ UnsupportedQuantile(value) THEN {<<"unsupported_quantiles", name>>} ELSE {})
      \union (IF name \in Quantiles THEN {<<"literal_constructors", n>> : n \in QuantileConstructors(value)} ELSE {})
      \union (IF name \in DispatchingAggregators THEN DispatchEntries(value) ELSE {})

\* Everything the node adds to BindingPolicy.
Entries(value, kind, edge) ==
  {<<"synthesized_functions", name>> : name \in Implied(value, kind)}
  \union {<<"literal_constructors", name>> :
            name \in UNION {LiteralWalk(slot[1], slot[2], slot[3]).names : slot \in BindTime(value, kind, edge)}}
  \union CASE kind = "ParameterExpression" -> {<<"caller_parameters", Lower(Field(value, "identifier"))>>}
           [] kind = "BaseTableRef" -> {<<"caller_table_names", TablePath(value)>>}
           [] kind = "CollateExpression" -> {<<"caller_collation_names", Lower(Field(value, "collation"))>>}
           [] kind \in {"FunctionExpression", "WindowExpression"} -> CallEntries(value, kind, edge)
           [] OTHER -> {}

\* The rules the node violates.
Rejected(value, kind, edge) ==
  LET name == Lower(Field(value, "function_name"))
      sample == Get(value, "sample_size")
  IN  (IF \/ \E slot \in BindTime(value, kind, edge) : ~BindLiteral(slot[1], slot[2], slot[3])
          \/ /\ kind = "SampleOptions" /\ Present(sample)
             /\ ~Is(sample, "object") \/ ~Present(Get(sample, "type")) \/ Present(Get(sample, "class"))
       THEN {"bind_time_expression"} ELSE {})
      \union (IF /\ kind \in {"FunctionExpression", "WindowExpression"}
                 /\ \/ edge = "function" /\ name \in {"query", "query_table", "json_execute_serialized_sql"}
                    \/ name = "json_serialize_plan"
              THEN {"dynamic_sql"} ELSE {})
      \union (IF kind = "ShowRef" /\ ~Present(Get(value, "query")) /\ \E i \in DOMAIN Layers : ~Layers[i].open
              THEN {"table"} ELSE {})
-----------------------------------------------------------------------------
(***************************************************************************)
(* The walk.                                                               *)
(***************************************************************************)
Work(value, expected, depth, edge) == [value |-> value, expected |-> expected, depth |-> depth, edge |-> edge]

\* The rule a node is checked against: its tag selects it where the kind is abstract.
Tag(value, expected) == Field(value, IF expected = "ParsedExpression" THEN "class" ELSE "type")
Rule(value, expected) == IF expected \in DOMAIN Dispatch THEN Dispatch[expected][Tag(value, expected)] ELSE expected

\* The CTE entries of a node, and their names.
CteEntries(value) == Items(Get(Get(value, "cte_map"), "map"))
CteNames(value) == {Lower(Field(CteEntries(value)[i], "key")) : i \in DOMAIN CteEntries(value)}

\* A logical type whose parts Type does not know.
BadType(value) ==
  LET info == Get(value, "type_info")
  IN  IF Field(value, "id") \in {"UNBOUND", "USER"}
      THEN IF Present(Get(info, "expr")) THEN Field(Get(info, "expr"), "class") # "TYPE" ELSE Field(info, "name") = ""
      ELSE Field(value, "id") = "" \/ (Present(Get(info, "child_types")) /\ ~Is(Get(info, "child_types"), "array"))

\* No grammar rule applies: the tag is unknown, or an expression's type does not go with its class.
NoRule(value, expected) ==
  IF expected \notin DOMAIN Dispatch THEN expected \notin DOMAIN Rules
  ELSE \/ Tag(value, expected) \notin DOMAIN Dispatch[expected]
       \/ Rule(value, expected) \notin DOMAIN Rules
       \/ /\ expected = "ParsedExpression"
          /\ \/ Tag(value, expected) \notin DOMAIN ExpressionTypes
             \/ Field(value, "type") \notin ExpressionTypes[Tag(value, expected)]

\* Fields that are missing, repeated or unknown.
BadFields(value, rule) ==
  LET names == [i \in DOMAIN value.fields |-> value.fields[i][1]]
  IN  ~(rule.required \subseteq ToSet(names)) \/ ~IsInjective(names) \/ ~(ToSet(names) \subseteq DOMAIN rule.fields)

\* A set operation has a pair or a list of at least two.
BadSetOperation(value) ==
  LET children == Get(value, "children")
      left == Get(value, "left")
      right == Get(value, "right")
  IN  \/ Field(value, "setop_type") \notin {"UNION", "EXCEPT", "INTERSECT", "UNION_BY_NAME"}
      \/ IF Present(children) THEN Present(left) \/ Present(right) \/ Len(Items(children)) < 2
         ELSE ~Is(left, "object") \/ ~Is(right, "object")

\* A CTE map is empty or one list, and declares no name twice.
BadCtes(value) ==
  LET map == Get(value, "cte_map")
  IN  /\ Present(map)
      /\ \/ ~Is(map, "object") \/ Len(map.fields) > 1
         \/ Len(map.fields) = 1 /\ ~Is(Get(map, "map"), "array")
         \/ Cardinality(CteNames(value)) # Len(CteEntries(value))

\* CheckNode stops the walk here: the grammar does not describe the node.
Unsupported(value, expected) ==
  IF expected = "logical_type" THEN BadType(value)
  ELSE IF expected = "opaque" THEN FALSE
  ELSE IF expected \in DOMAIN Elements THEN ~Is(value, "array")
  ELSE IF expected \in {"string", "boolean", "number"} THEN ~Is(value, expected)
  ELSE IF ~Is(value, "object") \/ NoRule(value, expected) THEN TRUE
  ELSE LET rule == Rule(value, expected)
       IN  \/ BadFields(value, Rules[rule]) \/ BadCtes(value)
           \/ rule = "SetOperationNode" /\ BadSetOperation(value)
           \/ rule = "ShowRef" /\ Field(value, "show_type") \notin
                {"SHOW_FROM", "SHOW_UNQUALIFIED", "SHOW_SPECIAL", "DESCRIBE", "SUMMARY"}
           \/ rule = "CastExpression" /\ Present(Get(value, "type_expr")) /\ Field(Get(value, "type_expr"), "class") # "TYPE"
           \/ rule \in {"BaseTableRef", "FunctionExpression", "WindowExpression"} /\ BadPath(value)

\* The types a logical type holds.
TypeParts(value, depth) ==
  LET info == Get(value, "type_info")
      Part(part, expected) == IF Present(part) THEN <<Work(part, expected, depth + 1, "type")>> ELSE <<>>
      nested == Items(Get(info, "child_types"))
  IN  IF Field(value, "id") \in {"UNBOUND", "USER"} THEN Part(Get(info, "expr"), "ParsedExpression")
      ELSE Part(Get(info, "child_type"), "logical_type") \o
           [i \in DOMAIN nested |-> Work(Get(nested[i], "second"), "logical_type", depth + 1, "type")]

\* Children variant: the bodies of the CTEs are forgotten.
ChildrenWithoutCtes(value, expected, depth) ==
  IF expected = "logical_type" THEN TypeParts(value, depth)
  ELSE IF expected \in DOMAIN Elements
  THEN [i \in DOMAIN value.items |-> Work(value.items[i], Elements[expected], depth + 1, "")]
  ELSE IF ~Is(value, "object") \/ expected = "opaque" THEN <<>>
  ELSE LET fields == RemoveFirstMatch(value.fields, LAMBDA field : field[1] = "cte_map")
       IN  [i \in DOMAIN fields |-> Work(fields[i][2], Rules[Rule(value, expected)].fields[fields[i][1]], depth + 1, fields[i][1])]

\* What CheckNode pushes: elements, the types in a type or a TYPE constant, or the CTEs and then the fields.
Children(value, expected, depth) ==
  IF expected = "logical_type" THEN TypeParts(value, depth)
  ELSE IF expected = "opaque"
  THEN IF Field(Get(value, "type"), "id") = "TYPE" THEN <<Work(Get(value, "value"), "logical_type", depth + 1, "type")>>
       ELSE <<>>
  ELSE IF expected \in DOMAIN Elements
  THEN [i \in DOMAIN value.items |-> Work(value.items[i], Elements[expected], depth + 1, "")]
  ELSE IF ~Is(value, "object") THEN <<>>
  ELSE LET fields == RemoveFirstMatch(value.fields, LAMBDA field : field[1] = "cte_map")
           kinds == Rules[Rule(value, expected)].fields
       IN  [i \in DOMAIN CteEntries(value) |-> Work(CteEntries(value)[i], "cte_entry", depth + 1, "")] \o
           [i \in DOMAIN fields |-> Work(fields[i][2], kinds[fields[i][1]], depth + 1, fields[i][1])]

\* The grammar rule References is called with; none for arrays, types, literals and scalars.
Referent(value, expected) ==
  IF expected \in {"logical_type", "opaque"} \union DOMAIN Elements \/ ~Is(value, "object") THEN "" ELSE Rule(value, expected)

Result(allowed, code, rules) == [kind |-> "result", allowed |-> allowed, code |-> code, rules |-> rules]
Decided(outcome) == stage' = "decided" /\ result' = outcome

\* CheckNode variant: the limit is one node late.
OverLimitLate(work) == nodes > MaxNodes \/ work.depth > MaxDepth

\* The node, or the level it is on, is one too many; the node being checked is counted first.
OverLimit(work) == nodes + 1 > MaxNodes \/ work.depth > MaxDepth

\* One turn of Check's loop.  A limit is forbidden, a node outside the grammar unsupported, and either discards the
\* violations found so far.
CheckNode ==
  /\ stage = "walking" /\ pending # <<>>
  /\ LET work == Last(pending)
         kind == Referent(work.value, work.expected)
     IN  /\ nodes' = nodes + 1
         /\ \/ /\ OverLimit(work)
               /\ Decided(Result(FALSE, "forbidden", {"limit"}))
               /\ UNCHANGED <<pending, functions, binding, violations>>
            \/ /\ ~OverLimit(work) /\ Unsupported(work.value, work.expected)
               /\ Decided(Result(FALSE, "unsupported", {"unsupported"}))
               /\ UNCHANGED <<pending, functions, binding, violations>>
            \/ /\ ~OverLimit(work) /\ ~Unsupported(work.value, work.expected)
               /\ pending' = Front(pending) \o Children(work.value, work.expected, work.depth)
               /\ functions' = functions \union Functions(work.value, kind)
               /\ binding' = binding \union Entries(work.value, kind, work.edge)
               /\ violations' = violations \union Rejected(work.value, kind, work.edge)
               /\ UNCHANGED <<stage, result>>
  /\ UNCHANGED <<text, logged>>

\* Validate after the walk: every name the text writes must be eligible in both layers.
Validate ==
  /\ stage = "walking" /\ pending = <<>>
  /\ LET refused == {name \in functions : \E i \in DOMAIN Layers : name \notin Layers[i].eligible}
         rules == violations \union (IF refused = {} THEN {} ELSE {"function"})
     IN  Decided(Result(rules = {}, IF rules = {} THEN "ok" ELSE "forbidden", rules))
  /\ binding' = binding \union {<<"caller_functions", name>> : name \in functions}
  /\ UNCHANGED <<text, pending, nodes, functions, violations, logged>>
-----------------------------------------------------------------------------
Bytes(t) == FlattenSeq(t.characters)

\* What CheckStatementText answers before it walks anything, the first that applies; None when it goes on.
Screen(t) ==
  LET one == Len(t.statements) = 1
      screens ==
        <<<<"nul" \in ToSet(Bytes(t)), Result(FALSE, "invalid_input", {})>>,
          <<Len(Bytes(t)) > MaxBytes, Result(FALSE, "forbidden", {"limit"})>>,
          <<~t.parses, Result(FALSE, "parser", {})>>,
          <<t.statements = <<>>, Result(FALSE, "invalid_input", {})>>,
          <<Len(t.statements) > 1, Result(FALSE, "forbidden", {"limit"})>>,
          <<one /\ t.statements[1].type \notin {"select", "pivot_enum"}, Result(FALSE, "unsupported", {"unsupported"})>>,
          <<one /\ t.statements[1].size > MaxBytes, Result(FALSE, "forbidden", {"limit"})>>>>
      first == SelectInSeq(screens, LAMBDA screen : screen[1])
  IN  IF first = 0 THEN None ELSE screens[first][2]

\* CheckStatementText up to the walk.
CheckStatementText ==
  /\ stage = "text"
  /\ \/ /\ Screen(text) # None
        /\ Decided(Screen(text)) /\ UNCHANGED pending
     \/ /\ Screen(text) = None
        /\ stage' = "walking" /\ pending' = <<Work(text.statements[1].ast, "root", 0, "")>>
        /\ UNCHANGED result
  /\ UNCHANGED <<text, nodes, functions, binding, violations, logged>>
-----------------------------------------------------------------------------
(***************************************************************************)
(* The record.                                                             *)
(***************************************************************************)
Replacement == <<"lead", "continuation", "continuation">>

\* One byte of StatementText's pass: a NUL is replaced when the replacement fits.
Take(s, byte) ==
  IF s.stopped \/ Len(s.text) >= MaxLogged THEN [s EXCEPT !.stopped = TRUE]
  ELSE IF byte # "nul" THEN [s EXCEPT !.text = Append(@, byte), !.at = @ + 1]
  ELSE IF MaxLogged - Len(s.text) < 3 THEN [s EXCEPT !.stopped = TRUE]
  ELSE [s EXCEPT !.text = @ \o Replacement, !.at = @ + 1]

\* The text without its last character, whose first byte may be all there is of it.
WithoutPartial(bytes) ==
  LET starts == {i \in DOMAIN bytes : bytes[i] # "continuation"}
  IN  IF starts = {} THEN <<>> ELSE SubSeq(bytes, 1, Max(starts) - 1)

\* The pass over the bytes.
Taken(bytes) ==
  LET taken[i \in 0 .. Len(bytes)] ==
        IF i = 0 THEN [text |-> <<>>, at |-> 0, stopped |-> FALSE] ELSE Take(taken[i - 1], bytes[i])
  IN  taken[Len(bytes)]

\* StatementText variant: the cut is not repaired.
StatementTextCut(bytes) == Taken(bytes).text

\* The logged prefix: a partial character is removed when the byte after the cut continues it.
StatementText(bytes) ==
  LET s == Taken(bytes)
  IN  IF s.at < Len(bytes) /\ bytes[s.at + 1] = "continuation" THEN WithoutPartial(s.text) ELSE s.text

\* The levels the log may be at, and whether each keeps a denial and an admission.
Levels == {"off", "info", "debug"}
ShouldLog(level, allowed) == level = "debug" \/ (level = "info" /\ ~allowed)

\* Decide: the decision is written when the log's level asks for it.  Then a denial is thrown, which ends the text
\* either way.
Decide ==
  /\ stage = "decided"
  /\ stage' = "done"
  /\ \E level \in Levels :
       logged' = IF ShouldLog(level, result.allowed)
                 THEN [kind |-> "decision", code |-> result.code, statement |-> StatementText(Bytes(text)),
                       statement_length |-> Len(Bytes(text))]
                 ELSE None
  /\ UNCHANGED <<text, walk, result>>

Next == CheckStatementText \/ CheckNode \/ Validate \/ Decide

Spec == Init /\ [][Next]_vars
-----------------------------------------------------------------------------
(***************************************************************************)
(* Properties.                                                             *)
(***************************************************************************)
\* The nodes below a node of the tree, each with its path; nothing is known of one outside the grammar.
Offspring(node) ==
  LET work == node[2]
      children == IF Unsupported(work.value, work.expected) THEN <<>> ELSE Children(work.value, work.expected, work.depth)
  IN  {<<Append(node[1], i), children[i]>> : i \in DOMAIN children}

\* The tree the grammar makes of a value, to one level below the limit.
Tree(ast) ==
  LET grown[d \in 0 .. MaxDepth + 1] ==
        IF d = 0 THEN {<<<<>>, Work(ast, "root", 0, "")>>}
        ELSE LET found == grown[d - 1]
             IN  found \union UNION {Offspring(node) : node \in {n \in found : n[2].depth = d - 1}}
  IN  grown[MaxDepth + 1]

Walked == stage = "decided" /\ Screen(text) = None
Ast == text.statements[1].ast

\* What a tree calls for.
Answers(tree) ==
  LET over == Cardinality(tree) > MaxNodes \/ \E node \in tree : node[2].depth > MaxDepth
      unsupported == \E node \in tree : Unsupported(node[2].value, node[2].expected)
      Kind(node) == Referent(node[2].value, node[2].expected)
      names == UNION {Functions(node[2].value, Kind(node)) : node \in tree}
      refused == {name \in names : \E i \in DOMAIN Layers : name \notin Layers[i].eligible}
  IN  \/ over /\ result = Result(FALSE, "forbidden", {"limit"})
      \/ unsupported /\ result = Result(FALSE, "unsupported", {"unsupported"})
      \/ /\ ~over /\ ~unsupported
         /\ result.allowed <=> result.rules = {}
         /\ result.code = IF result.allowed THEN "ok" ELSE "forbidden"
         /\ result.rules = (UNION {Rejected(node[2].value, Kind(node), node[2].edge) : node \in tree})
                           \union (IF refused = {} THEN {} ELSE {"function"})
         /\ binding = (UNION {Entries(node[2].value, Kind(node), node[2].edge) : node \in tree})
                      \union {<<"caller_functions", name>> : name \in names}

\* The walk answers what the tree calls for: a tree past a limit or outside the grammar is stopped, for a reason it
\* has, and any other is refused exactly for the rules its nodes violate or the names the layers do not admit, with
\* nothing of what the later boundaries need left out (validator.cpp:739-876).
WalkAgrees == Walked => Answers(Tree(Ast))

\* The characters as the log shows them.
Shown(t) == [i \in DOMAIN t.characters |-> IF t.characters[i] = <<"nul">> THEN Replacement ELSE t.characters[i]]

\* The logged text is the longest run of whole characters that fits, NULs replaced (audit.cpp:93-94): neither a cut
\* character nor a NUL is stored, and nothing that fits is lost.
LoggedTextSound ==
  logged # None =>
    LET Prefix(n) == FlattenSeq(SubSeq(Shown(text), 1, n))
        n == Max({k \in 0 .. Len(text.characters) : Len(Prefix(k)) <= MaxLogged})
    IN  logged.statement = Prefix(n)
=============================================================================
