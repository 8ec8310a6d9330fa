---------------------------- MODULE MCPlanCheck ----------------------------
(* Instances of PlanCheck for TLC. *)
EXTENDS PlanCheck

CONSTANTS t1, t2, reader, opaque

MCTables == {t1, t2}
MCReaders == {reader, opaque}
MCOpaque == {opaque}

\* The ceiling allows both tables, the request layer one of them.
MCLayers == <<{t1, t2}, {t1}>>

Operator(kind, source) == [kind |-> kind, source |-> source]
Ops == {Operator("read", None), Operator("read", t1), Operator("read", t2), Operator("read", reader)}
Rare == {Operator("read", opaque), Operator("other", None)}

Query(ops) == [ops |-> ops, modifies |-> {}, returns |-> "rows"]
Enum(ops) == [ops |-> ops, modifies |-> {"temp_entry"}, returns |-> "nothing"]

\* Queries of up to three operators, some with one no read has; enum types over a scan; statements that write.
MCPlans ==
  {Query(<<op>>) : op \in Ops} \union {Query(<<Operator("read", t1), op>>) : op \in Ops \union Rare}
    \union {Query(<<Operator("read", t1), op, Operator("read", t1)>>) : op \in Ops}
    \union {Query(<<Operator("read", reader), Operator("read", reader)>>)}
    \union {Enum(<<Operator("create_type", None), op>>) : op \in {Operator("read", t1)} \union Rare}
    \union {[Enum(<<Operator("create_type", None), Operator("read", t1)>>) EXCEPT !.modifies = {"other"}],
            [Query(<<Operator("read", t1)>>) EXCEPT !.modifies = {"temp_entry"}],
            [Query(<<Operator("read", t1)>>) EXCEPT !.returns = "nothing"]}

\* t2 retrieved by the caller, by a trusted definition, by both, by a definition but named in the text, or by none.
MCRetrievals ==
  {[caller |-> {t1, t2}, trusted |-> {}, written |-> {t1}], [caller |-> {t1}, trusted |-> {t2}, written |-> {t1}],
   [caller |-> {t2}, trusted |-> {t1, t2}, written |-> {}], [caller |-> {}, trusted |-> {t1, t2}, written |-> {t2}],
   [caller |-> {}, trusted |-> {}, written |-> {}]}
=============================================================================
