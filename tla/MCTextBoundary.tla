--------------------------- MODULE MCTextBoundary ---------------------------
(* An instance of TextBoundary for TLC: a part of the grammar generate.py writes, and texts that exercise it. *)
EXTENDS TextBoundary

Str(s) == [json |-> "string", text |-> s]
Number == [json |-> "number"]
Bool(b) == [json |-> "boolean", value |-> b]
Arr(items) == [json |-> "array", items |-> items]
Obj(fields) == [json |-> "object", fields |-> fields]

Fields(names, expected) == [name \in names |-> expected]
With(f, g) == [name \in DOMAIN f \union DOMAIN g |-> IF name \in DOMAIN g THEN g[name] ELSE f[name]]
ExpressionFields == Fields({"class", "type", "alias"}, "string")
Expression(fields, required) == [fields |-> With(ExpressionFields, fields), required |-> required \union {"class", "type"}]
Node(fields, required) == [fields |-> With([type |-> "string"], fields), required |-> required \union {"type"}]
Plain(fields, required) == [fields |-> fields, required |-> required]

MCRules ==
  [root |-> Plain([error |-> "boolean", statements |-> "SelectStatement[]"], {"error", "statements"}),
   SelectStatement |-> Plain([node |-> "QueryNode"], {"node"}),
   cte_entry |-> Plain([key |-> "string", value |-> "CommonTableExpressionInfo"], {"key", "value"}),
   CommonTableExpressionInfo |-> Plain([query |-> "SelectStatement"], {"query"}),
   SelectNode |-> Node([modifiers |-> "ResultModifier[]", cte_map |-> "CommonTableExpressionMap",
                        select_list |-> "ParsedExpression[]", from_table |-> "TableRef"], {"select_list", "from_table"}),
   SetOperationNode |-> Node([setop_type |-> "string", left |-> "QueryNode", right |-> "QueryNode",
                              children |-> "QueryNode[]"], {"setop_type"}),
   LimitModifier |-> Node([limit |-> "ParsedExpression", offset |-> "ParsedExpression"], {}),
   EmptyTableRef |-> Node(<<>>, {}),
   BaseTableRef |-> Node(Fields({"catalog_name", "schema_name", "table_name"}, "string"), {"table_name"}),
   SubqueryRef |-> Node([subquery |-> "SelectStatement"], {"subquery"}),
   TableFunctionRef |-> Node([function |-> "ParsedExpression"], {"function"}),
   ShowRef |-> Node([show_type |-> "string", table_name |-> "string", query |-> "QueryNode"], {"show_type"}),
   ConstantExpression |-> Expression([value |-> "opaque"], {"value"}),
   ParameterExpression |-> Expression([identifier |-> "string"], {"identifier"}),
   ColumnRefExpression |-> Expression([column_names |-> "string[]"], {"column_names"}),
   ComparisonExpression |-> Expression(Fields({"left", "right"}, "ParsedExpression"), {"left", "right"}),
   CastExpression |-> Expression([child |-> "ParsedExpression", cast_type |-> "logical_type"], {"child", "cast_type"}),
   CollateExpression |-> Expression([child |-> "ParsedExpression", collation |-> "string"], {"child", "collation"}),
   OperatorExpression |-> Expression([children |-> "ParsedExpression[]"], {"children"}),
   TypeExpression |-> Expression([type_name |-> "string", children |-> "ParsedExpression[]"], {"type_name"}),
   SubqueryExpression |-> Expression([subquery |-> "SelectStatement", subquery_type |-> "string"], {"subquery", "subquery_type"}),
   FunctionExpression |-> Expression([function_name |-> "string", schema |-> "string", catalog |-> "string",
                                      children |-> "ParsedExpression[]", arguments |-> "function_argument[]",
                                      qualified_name |-> "qualified_name", filter |-> "ParsedExpression",
                                      is_operator |-> "boolean"], {"function_name"}),
   function_argument |-> Plain([name |-> "string", expression |-> "ParsedExpression"], {"expression"}),
   qualified_name |-> Plain([path |-> "string[]"], {})]

MCDispatch ==
  [QueryNode |-> [SELECT_NODE |-> "SelectNode", SET_OPERATION_NODE |-> "SetOperationNode"],
   ResultModifier |-> [LIMIT_MODIFIER |-> "LimitModifier"],
   TableRef |-> [EMPTY |-> "EmptyTableRef", BASE_TABLE |-> "BaseTableRef", SUBQUERY |-> "SubqueryRef",
                 TABLE_FUNCTION |-> "TableFunctionRef", SHOW_REF |-> "ShowRef"],
   ParsedExpression |->
     [CONSTANT |-> "ConstantExpression", PARAMETER |-> "ParameterExpression", COLUMN_REF |-> "ColumnRefExpression",
      COMPARISON |-> "ComparisonExpression", CAST |-> "CastExpression", COLLATE |-> "CollateExpression",
      OPERATOR |-> "OperatorExpression", TYPE |-> "TypeExpression", SUBQUERY |-> "SubqueryExpression",
      FUNCTION |-> "FunctionExpression"]]
MCExpressionTypes ==
  [CONSTANT |-> {"VALUE_CONSTANT"}, PARAMETER |-> {"VALUE_PARAMETER"}, COLUMN_REF |-> {"COLUMN_REF"},
   COMPARISON |-> {"COMPARE_EQUAL"}, CAST |-> {"OPERATOR_CAST"}, COLLATE |-> {"COLLATE"},
   OPERATOR |-> {"ARRAY_CONSTRUCTOR", "ARROW", "OPERATOR_NOT"}, TYPE |-> {"TYPE"}, SUBQUERY |-> {"SUBQUERY"},
   FUNCTION |-> {"FUNCTION"}]
MCElements ==
  [kind \in {element \o "[]" : element \in {"SelectStatement", "QueryNode", "ResultModifier", "ParsedExpression", "string",
                                            "function_argument"}} |->
     CHOOSE element \in DOMAIN MCRules \union DOMAIN MCDispatch \union {"string"} : element \o "[]" = kind]
MCFolded == [Sum |-> "sum"]
MCSqlValues == [user |-> "user"]

\* The policy admits fewer functions than the ceiling, which restricts tables.
MCLayers ==
  <<[eligible |-> {"sum", "upper", "list_value", "range", "read_csv", "list_aggr", "quantile", "json_extract", "unnest"}, open |-> FALSE],
    [eligible |-> {"sum", "list_value", "range", "read_csv", "list_aggr", "quantile", "json_extract", "unnest"}, open |-> TRUE]>>
-----------------------------------------------------------------------------
Expr(class, type, rest) == Obj(<<<<"class", Str(class)>>, <<"type", Str(type)>>>> \o rest)
Literal(value) == Expr("CONSTANT", "VALUE_CONSTANT", <<<<"value", value>>>>)
One == Literal(Obj(<<<<"type", Obj(<<<<"id", Str("INTEGER")>>>>)>>, <<"value", Number>>>>))
Word(word) == Literal(Obj(<<<<"type", Obj(<<<<"id", Str("VARCHAR")>>>>)>>, <<"value", Str(word)>>>>))
Parameter == Expr("PARAMETER", "VALUE_PARAMETER", <<<<"identifier", Str("1")>>>>)
Column(name) == Expr("COLUMN_REF", "COLUMN_REF", <<<<"column_names", Arr(<<Str(name)>>)>>>>)
Call(name, args) == Expr("FUNCTION", "FUNCTION", <<<<"function_name", Str(name)>>, <<"children", Arr(args)>>>>)
QualifiedCall(path, name, args) ==
  Expr("FUNCTION", "FUNCTION",
       <<<<"function_name", Str(name)>>, <<"qualified_name", Obj(<<<<"path", Arr([i \in DOMAIN path |-> Str(path[i])])>>>>)>>,
         <<"arguments", Arr([i \in DOMAIN args |-> Obj(<<<<"expression", args[i]>>>>)])>>>>)
Operator(type, args) == Expr("OPERATOR", type, <<<<"children", Arr(args)>>>>)
Equals(left, right) == Expr("COMPARISON", "COMPARE_EQUAL", <<<<"left", left>>, <<"right", right>>>>)
Collate(child) == Expr("COLLATE", "COLLATE", <<<<"child", child>>, <<"collation", Str("nocase")>>>>)
Cast(child, type) == Expr("CAST", "OPERATOR_CAST", <<<<"child", child>>, <<"cast_type", type>>>>)
Simple(id) == Obj(<<<<"id", Str(id)>>>>)
ListType(type) == Obj(<<<<"id", Str("LIST")>>, <<"type_info", Obj(<<<<"child_type", type>>>>)>>>>)
UserType(expr) == Obj(<<<<"id", Str("USER")>>, <<"type_info", Obj(<<<<"expr", expr>>>>)>>>>)
TypeName(params) == Expr("TYPE", "TYPE", <<<<"type_name", Str("t")>>, <<"children", Arr(params)>>>>)

Table(type, rest) == Obj(<<<<"type", Str(type)>>>> \o rest)
Nothing == Table("EMPTY", <<>>)
Base(name) == Table("BASE_TABLE", <<<<"schema_name", Str("s")>>, <<"table_name", Str(name)>>>>)
TableFunction(call) == Table("TABLE_FUNCTION", <<<<"function", call>>>>)
Show(kind) == Table("SHOW_REF", <<<<"show_type", Str(kind)>>>>)
Select(list, from, rest) == Obj(<<<<"type", Str("SELECT_NODE")>>, <<"select_list", Arr(list)>>, <<"from_table", from>>>> \o rest)
Statement(node) == Obj(<<<<"node", node>>>>)
Subquery(node) == Expr("SUBQUERY", "SUBQUERY", <<<<"subquery", Statement(node)>>, <<"subquery_type", Str("SCALAR")>>>>)
Ctes(entries) ==
  <<<<"cte_map", Obj(<<<<"map", Arr([i \in DOMAIN entries |->
       Obj(<<<<"key", Str(entries[i][1])>>, <<"value", Obj(<<<<"query", Statement(entries[i][2])>>>>)>>>>)])>>>>)>>>>
Limit(limit) == <<<<"modifiers", Arr(<<Obj(<<<<"type", Str("LIMIT_MODIFIER")>>, <<"limit", limit>>>>)>>)>>>>
SetOperation(nodes_) == Obj(<<<<"type", Str("SET_OPERATION_NODE")>>, <<"setop_type", Str("UNION")>>, <<"children", Arr(nodes_)>>>>)
Root(node) == Obj(<<<<"error", Bool(FALSE)>>, <<"statements", Arr(<<Statement(node)>>)>>>>)
-----------------------------------------------------------------------------
Leaves == {One, Word("sum"), Parameter, Column("user"), Call("sum", <<>>), Call("Sum", <<>>), Call("upper", <<>>),
           Call("drop", <<>>), Expr("MYSTERY", "X", <<>>), Expr("CONSTANT", "FUNCTION", <<>>), Str("text"),
           Expr("COLUMN_REF", "COLUMN_REF", <<>>), Literal(Obj(<<<<"type", Simple("TYPE")>>, <<"value", Simple("")>>>>))}
Bodies == {Select(<<leaf>>, Nothing, <<>>) : leaf \in {One, Call("drop", <<>>), Call("sum", <<>>)}} \union
          {Select(<<One>>, Base("orders"), <<>>)}
Inner ==
  Leaves \union {Subquery(body) : body \in Bodies} \union
  UNION {{Cast(e, Simple("INTEGER")), Call("list_value", <<One, e>>), Operator("ARRAY_CONSTRUCTOR", <<e>>), Collate(e),
          Equals(Column("n"), e), QualifiedCall(<<"main", "list_value">>, "list_value", <<e>>)} : e \in Leaves}
Types == {Simple(""), Simple("INTEGER"), ListType(Simple("")), UserType(One), UserType(TypeName(<<One>>)),
          UserType(TypeName(<<Call("sum", <<>>)>>)), ListType(UserType(TypeName(<<TypeName(<<>>)>>)))}
Calls ==
  {Call("list_aggr", <<One, e>>) : e \in {One, Word("Sum"), Call("sum", <<>>)}} \union
  {Call("quantile", <<One, e>>) : e \in {One, Call("sum", <<>>), Call("list_value", <<One>>)}} \union
  {QualifiedCall(<<>>, "sum", <<>>), QualifiedCall(<<"main", "list_aggr">>, "list_aggr", <<One, Word("sum")>>),
   Operator("ARROW", <<One, Word("a")>>), Operator("OPERATOR_NOT", <<Call("drop", <<>>)>>),
   Expr("FUNCTION", "FUNCTION", <<<<"function_name", Str("sum")>>, <<"function_name", Str("sum")>>>>)}
Sources ==
  {Base("orders"), Show("SUMMARY"), Show("SHOW")} \union
  {Table("SUBQUERY", <<<<"subquery", Statement(body)>>>>) : body \in Bodies} \union
  {TableFunction(Call(name, <<e>>)) : name \in {"range", "read_csv"}, e \in Inner} \union
  {TableFunction(Call("query", <<One>>)), TableFunction(Call("unnest", <<Column("n"), Call("sum", <<>>)>>))}

Queries ==
  {Select(<<e>>, Nothing, <<>>) : e \in Inner \union Calls} \union
  {Select(<<Cast(One, type)>>, Nothing, <<>>) : type \in Types} \union
  {Select(<<One>>, source, <<>>) : source \in Sources} \union
  {Select(<<One>>, Nothing, Limit(e)) : e \in Inner} \union
  {Select(<<e, One, Call("drop", <<>>)>>, Nothing, <<>>) : e \in Leaves} \union
  {Select(<<One>>, Nothing, Ctes(<<<<"c", b>>, <<name, One_>>>>)) :
     b \in Bodies, One_ \in Bodies, name \in {"d", "c"}} \union
  {SetOperation(nodes_) : nodes_ \in {<<b>> : b \in Bodies} \union {<<b, Select(<<Call("upper", <<>>)>>, Nothing, <<>>)>> : b \in Bodies}} \union
  {Select(<<Subquery(Select(<<Subquery(b)>>, Nothing, <<>>))>>, Nothing, <<>>) : b \in Bodies}

Ascii == <<"ascii">>
SelectOf(node) == [type |-> "select", ast |-> Root(node), size |-> 1]
Text(characters, statements) == [characters |-> characters, parses |-> TRUE, statements |-> statements]
Trivial == SelectOf(Select(<<One>>, Nothing, <<>>))

MCTexts ==
  {Text(<<Ascii>>, <<SelectOf(query)>>) : query \in Queries} \union
  {Text(characters, <<Trivial>>) : characters \in BoundedSeq(Characters, 5)} \union
  {Text(<<Ascii>>, statements) : statements \in {<<>>, <<Trivial, Trivial>>, <<[Trivial EXCEPT !.type = "other"]>>,
                                                 <<[Trivial EXCEPT !.type = "pivot_enum"]>>,
                                                 <<[Trivial EXCEPT !.size = MaxBytes + 1]>>}} \union
  {[Text(<<Ascii>>, <<>>) EXCEPT !.parses = FALSE]}
-----------------------------------------------------------------------------
(***************************************************************************)
(* What an admitted text holds, whatever the grammar says of it.           *)
(***************************************************************************)
\* Every value inside a value, payloads of literals too.
RECURSIVE Parts(_)
Parts(value) ==
  {value} \union
  CASE Is(value, "array") -> UNION {Parts(value.items[i]) : i \in DOMAIN value.items}
    [] Is(value, "object") -> UNION {Parts(value.fields[i][2]) : i \in DOMAIN value.fields}
    [] OTHER -> {}
Asts == {Root(query) : query \in Queries} \union {Trivial.ast}
MCJson == {Missing} \union UNION {Parts(ast) : ast \in Asts}

\* Every value inside a value, whatever the grammar says of it; a literal's payload is data.
RECURSIVE Within(_)
Within(value) ==
  {value} \union
  CASE Is(value, "array") -> UNION {Within(value.items[i]) : i \in DOMAIN value.items}
    [] Is(value, "object") /\ Field(value, "class") # "CONSTANT" -> UNION {Within(value.fields[i][2]) : i \in DOMAIN value.fields}
    [] OTHER -> {}

\* No name escapes an admitted text: every call, table, parameter and collation anywhere in its tree, in the body of
\* a CTE or a subquery or the parameter of a type too, is one the layers admit or the later boundaries know of.
NamesCaught ==
  Walked /\ result.allowed =>
    \A value \in Within(Ast) :
      /\ Field(value, "class") = "FUNCTION" =>
           /\ <<"caller_functions", Lower(Field(value, "function_name"))>> \in binding
           /\ \A i \in DOMAIN Layers : Lower(Field(value, "function_name")) \in Layers[i].eligible
      /\ Field(value, "type") = "BASE_TABLE" => <<"caller_table_names", TablePath(value)>> \in binding
      /\ Field(value, "class") = "PARAMETER" => <<"caller_parameters", Lower(Field(value, "identifier"))>> \in binding
      /\ Field(value, "class") = "COLLATE" => <<"caller_collation_names", Lower(Field(value, "collation"))>> \in binding

\* Nothing in it is evaluated when bound but constants, parameters, casts and the engine's own constructors.
Inert(value) ==
  \A v \in Within(value) :
    \/ Field(v, "class") \in {"", "CONSTANT", "PARAMETER", "CAST", "TYPE"}
    \/ <<"literal_constructors", IF Field(v, "class") = "OPERATOR" THEN "list_value" ELSE Field(v, "function_name")>> \in binding

\* In an admitted text the engine evaluates nothing of the caller's while it binds: limits, the parameters of types,
\* and the arguments of table functions are inert, unless the function is one that is evaluated row by row.
BindTimeInert ==
  Walked /\ result.allowed =>
    \A value \in Within(Ast) :
      /\ Field(value, "type") = "LIMIT_MODIFIER" => Inert(Get(value, "limit"))
      /\ Field(value, "class") = "TYPE" => Inert(Get(value, "children"))
      /\ Field(value, "type") = "TABLE_FUNCTION" =>
           LET call == Get(value, "function")
           IN  \/ <<"runtime_table_functions", Field(call, "function_name")>> \in binding
               \/ \A i \in DOMAIN Arguments(call) : Inert(ArgumentValue(Arguments(call)[i]))
=============================================================================
