--------------------------- MODULE MCAttribution ---------------------------
(* Instances of Attribution for TLC. *)
EXTENDS Attribution

Use(id) == [form |-> "written", entry |-> id, detail |-> None, args |-> <<>>]
As(id, form) == [Use(id) EXCEPT !.form = form]
With(id, detail) == [Use(id) EXCEPT !.detail = detail]
Call(id, args) == [Use(id) EXCEPT !.args = args]
Mark(form) == [form |-> form, entry |-> None, detail |-> None, args |-> <<>>]
Subquery(items) == <<Mark("open")>> \o items \o <<Mark("close")>>

Plain(type, ns, name) ==
  [type |-> type, ns |-> ns, name |-> name, internal |-> ns = "system", callback |-> "none", body |-> <<>>,
   becomes |-> [engine \in 1 .. 2 |-> {}]]
Defined(type, ns, name, body) == [Plain(type, ns, name) EXCEPT !.body = body]
Function(ns, type, name) == [ns |-> ns, name |-> name, type |-> type, internal |-> IF ns = "system" THEN "yes" ELSE "no"]

MCEntries ==
  [orders |-> Plain("relation", "db", "orders"), secret |-> Plain("relation", "db", "secret"),
   far |-> Plain("relation", "quack", "far"),
   lower |-> Plain("scalar", "system", "lower"), hostLower |-> Plain("scalar", "db", "lower"),
   listValue |-> Plain("scalar", "system", "list_value"), hostListValue |-> Plain("scalar", "db", "list_value"),
   native |-> [Plain("scalar", "db", "native") EXCEPT
                 !.callback = "bind", !.becomes = [engine \in 1 .. 2 |-> {Function("db", "scalar", "lower")}]],
   listAggr |-> Plain("scalar", "system", "list_aggr"), hostListAggr |-> Plain("scalar", "db", "list_aggr"),
   sum |-> Plain("aggregate", "system", "sum"), argMin |-> Plain("aggregate", "system", "arg_min"),
   min |-> [Plain("aggregate", "system", "min") EXCEPT
              !.becomes = [engine \in 1 .. 2 |-> {Function("system", "aggregate", "arg_min")}]],
   reader |-> Plain("table", "system", "parquet_scan"), metadata |-> Plain("table", "system", "duckdb_tables"),
   queryTable |-> Defined("table", "system", "query_table", <<Use("secret")>>),
   configure |-> Plain("table", "system", "gatekeeper_configure"),
   tables |-> Defined("view", "system", "tables", <<Use("metadata")>>),
   report |-> Defined("view", "db", "report", <<Use("secret"), Use("hostLower"), Use("reader"), Use("argMin")>>),
   admin |-> Defined("view", "db", "admin", <<Use("configure")>>),
   files |-> Defined("view", "db", "files", <<Use("file"), Use("tables")>>),
   listSum |-> Defined("macro", "system", "list_sum", <<With("listAggr", "sum")>>),
   listAvg |-> Defined("macro", "system", "list_avg", <<Use("hostListAggr")>>),
   lookup |-> Defined("macro", "db", "lookup", <<As("listValue", "implied"), Use("hostLower")>> \o
                                                Subquery(<<Use("tables"), Use("secret"), Use("argMin")>>)),
   through |-> Defined("macro", "db", "through", Subquery(<<Use("reader"), Mark("argument")>>)),
   peek |-> Defined("macro", "db", "peek", Subquery(<<Use("queryTable")>>) \o <<With("listAggr", "sum"), Use("nocase")>>),
   load |-> Defined("macro", "db", "load", Subquery(<<Use("file")>>)),
   scan |-> Defined("table_macro", "db", "scan", <<Use("reader"), Use("secret"), Use("native")>>),
   file |-> Defined("path", "", "file", <<Use("reader")>>),
   frame |-> [Plain("path", "", "frame") EXCEPT !.callback = "subquery"], missing |-> Plain("path", "", "missing"),
   nocase |-> [Plain("collation", "system", "lower") EXCEPT !.internal = TRUE]]

MCDefaults ==
  {<<"system", "lower", "scalar">>, <<"system", "list_value", "scalar">>, <<"system", "sum", "aggregate">>,
   <<"system", "min", "aggregate">>, <<"system", "arg_min", "aggregate">>, <<"system", "list_sum", "macro">>,
   <<"system", "list_avg", "macro">>}
MCNeverBind == {"duckdb_tables", "query_table", "gatekeeper_configure"}
MCControlPlane == {"gatekeeper_configure"}
MCOpaque == {}
MCDispatchers == {"list_aggr"}
MCCollations == {"lower"}
MCEdges == [engine \in 1 .. 2 |-> {<<"aggregate", "min", "arg_min">>}]
MCDependency == [name \in {"min"} |-> "arg_min"]

Host == {<<"db", name, "macro">> : name \in {"lookup", "through", "peek", "load"}} \union {<<"db", "scan", "table_macro">>}
Elevated == {<<"system", "list_aggr", "scalar">>, <<"db", "list_aggr", "scalar">>, <<"system", "parquet_scan", "table">>,
             <<"db", "native", "scalar">>, <<"db", "lower", "scalar">>}

Layer(defaults, granted, blocked, tables) == [defaults |-> defaults, granted |-> granted, blocked |-> blocked, tables |-> tables]
Wide == Layer(TRUE, Host \union Elevated, {}, {"orders", "secret", "far", "report", "admin", "files", "tables"})
Narrow == Layer(TRUE, Host \union {<<"db", "native", "scalar">>, <<"system", "list_aggr", "scalar">>}, {},
                {"orders", "report", "admin", "files", "tables"})
Explicit == Layer(FALSE, Host \union Elevated \union {<<"system", "list_sum", "macro">>, <<"system", "min", "aggregate">>,
                                                     <<"system", "lower", "scalar">>}, {}, Wide.tables)
Blocking(key) == [Wide EXCEPT !.blocked = {key}, !.tables = Narrow.tables]

MCLayerPairs ==
  {<<Wide, Wide>>, <<Narrow, Wide>>, <<Wide, Narrow>>, <<Wide, Explicit>>, <<Explicit, Narrow>>} \union
  {<<Wide, Blocking(key)>> : key \in {<<"system", "arg_min", "aggregate">>, <<"system", "parquet_scan", "table">>,
                                      <<"system", "sum", "aggregate">>, <<"db", "lower", "scalar">>}}

Pieces ==
  {<<Use("orders")>>, <<As("secret", "qualified")>>, <<Use("report")>>, <<Use("admin")>>, <<Use("files")>>, <<Use("tables")>>,
   <<Use("lower")>>, Subquery(<<Use("hostLower")>>), <<As("listValue", "implied")>>,
   <<As("hostListValue", "literal")>>, <<Use("native")>>, <<With("listAggr", "sum")>>, <<With("listAggr", "computed")>>,
   <<Use("sum")>>, <<Use("min")>>, <<Use("reader")>>, <<Use("listSum")>>, <<Use("listAvg")>>, <<Use("lookup")>>,
   <<Call("through", <<Use("hostLower")>>)>>, <<Call("through", Subquery(<<Use("hostLower"), Use("orders")>>))>>,
   <<Use("peek")>>, <<Use("load")>>, <<Use("scan")>>, <<Use("file")>>, <<Use("nocase")>>}
Rare == {<<Use("far")>>, <<With("scan", "runtime")>>, <<Use("frame")>>, <<Use("missing")>>, Subquery(<<Use("min")>>)}

Text(items, shadowed) == [items |-> items, shadowed |-> shadowed]

\* Every pair of pieces in either order, and the rare ones alone; min beside a host's arg_min; and a path between two
\* pieces, the second in a subquery.
MCTexts ==
  {Text(a \o b, {}) : a, b \in Pieces} \union {Text(a, {}) : a \in Rare} \union {Text(<<Use("min")>>, {"arg_min"})} \union
  {Text(a \o <<Use("file")>> \o Subquery(b), {}) : a, b \in Pieces}

\* A path, after a host macro that names the reader it is given, and before a subquery.
MCReaderTexts == {Text(<<Use("through"), Use("file")>> \o Subquery(<<Use("lower")>>), {})}

\* A host macro whose body reads a path, under a policy that grants the macro and not the reader.
MCBodyTexts == {Text(<<Use("load")>>, {})}
=============================================================================
