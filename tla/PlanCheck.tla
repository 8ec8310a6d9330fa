----------------------------- MODULE PlanCheck -----------------------------
(***************************************************************************)
(* CheckPlan (check.cpp), the execution boundary, on the plans one         *)
(* statement meets.  The private bind's plan is walked first and records   *)
(* how often it scans each source; the plans the engine then makes for the *)
(* same statement are held to that record.  Either may happen more than    *)
(* once: a dynamic PIVOT is bound in two shapes, and the engine plans a    *)
(* statement again after a rebind.  A Prepare() pre-screen walks a plan    *)
(* with no record at all.                                                  *)
(*                                                                         *)
(* A plan is the sequence of operators in the order the walk visits them,  *)
(* its root first.  A source is a base table, by resolved identity, or a   *)
(* table function, by name; the two maps of the record have disjoint keys  *)
(* and are one here.  Whether the functions of a plan are allowed          *)
(* (AuthorizePlan) is left to the environment.                             *)
(***************************************************************************)
EXTENDS Integers, Sequences, FiniteSets

CONSTANTS
  Tables,     \* base tables
  Readers,    \* table functions
  Opaque,     \* those of Readers that delegate SQL elsewhere (OpaqueQuackFunction)
  None,       \* no source: the operator is not a scan
  Plans,      \* plans the binder may produce
  Retrievals, \* what a private bind may have retrieved, and for whom
  Layers,     \* the tables each policy layer allows, the ceiling first
  MaxPasses   \* bound on the plans one statement meets

Sources == Tables \union Readers

Origins == {"PRIVATE", "ENGINE", "PRESCREEN"}

\* An operator: one the bound SELECT may contain, a dynamic PIVOT's enum type, or any other.
OperatorRecords == [kind : {"read", "create_type", "other"}, source : Sources \union {None}]

\* What the engine says of a statement: the databases it modifies, and what it returns.
ModificationKinds == {"temp_entry", "other"}
PlanRecords == [ops : Seq(OperatorRecords), modifies : SUBSET ModificationKinds, returns : {"rows", "nothing"}]

ASSUME PlansAssumption == Plans \subseteq PlanRecords /\ \A p \in Plans : p.ops # <<>>
ASSUME SourcesAssumption == Tables \intersect Readers = {} /\ None \notin Sources /\ Opaque \subseteq Readers
ASSUME LayersAssumption == \A i \in DOMAIN Layers : Layers[i] \subseteq Tables
Provenances == [caller : SUBSET Tables, trusted : SUBSET Tables, written : SUBSET Tables]
ASSUME RetrievalsAssumption == Retrievals \subseteq Provenances
ASSUME MaxPassesAssumption == MaxPasses \in Nat
-----------------------------------------------------------------------------
VARIABLES
  plan,        \* the plan being walked, or walked last
  origin,      \* whose it is
  at,          \* the operator the walk visits next; 0 when no walk is under way
  recorded,    \* scans of each source by the private bind's plan (validated_scans, validated_function_scans)
  left,        \* what the walk of an engine plan has not used up of it
  provenance,  \* the objects the caller's binders, and trusted definitions, retrieved, and those the text names
  verdict,     \* of the last walk: "none" before its end, "admitted", or the reason it was refused for
  validated,   \* the private plan the record tells of, once it was admitted; None before that
  passes       \* plans met so far

vars == <<plan, origin, at, recorded, left, provenance, verdict, validated, passes>>

Unattributed == [caller |-> {}, trusted |-> {}, written |-> {}]
NoScans == [s \in Sources |-> 0]

Init ==
  /\ plan \in Plans /\ origin = "PRESCREEN" /\ at = 0
  /\ recorded = NoScans /\ left = NoScans
  /\ provenance = Unattributed
  /\ verdict = "none" /\ validated = None /\ passes = 0
-----------------------------------------------------------------------------
\* A dynamic PIVOT's enum type: the root creates a type over the plan of the SELECT that defines it.
PivotEnumPlan(p) == p.ops[1].kind = "create_type"

\* The enum type's own entry in the temporary catalog is the one modification admitted.
ModifiesDatabase(p) == p.modifies \ (IF PivotEnumPlan(p) THEN {"temp_entry"} ELSE {}) # {}

ReadOperator(op) == op.kind = "read"

\* An object only trusted definitions retrieved is theirs; one nobody retrieved is the caller's.
ObjectAttributable(table) ==
  /\ origin # "PRESCREEN"
  /\ table \in provenance.caller \union provenance.written \/ table \notin provenance.trusted

\* AuthorizeObject variant: only the ceiling is consulted.
AuthorizeObjectCeiling(table) == ObjectAttributable(table) => table \in Layers[1]

\* AuthorizeObject, for the table of a scan.
AuthorizeObject(table) == ObjectAttributable(table) => \A i \in DOMAIN Layers : table \in Layers[i]

Refuse(reason) ==
  /\ verdict' = reason /\ at' = 0
  /\ UNCHANGED <<plan, origin, provenance, validated, passes>>

\* CheckPlan variant: a private pass adds to the scans recorded before.
CheckPlanKeepsRecord(whose, p) ==
  /\ plan' = p /\ origin' = whose
  /\ passes' = passes + 1
  /\ IF ModifiesDatabase(p) \/ p.returns # (IF PivotEnumPlan(p) THEN "nothing" ELSE "rows")
     THEN verdict' = "statement" /\ at' = 0 /\ UNCHANGED <<recorded, left>>
     ELSE verdict' = "none" /\ at' = 1 /\ left' = recorded /\ UNCHANGED recorded

\* CheckPlan variant: an engine pass uses up what the one before it left.
CheckPlanUsesUp(whose, p) ==
  /\ plan' = p /\ origin' = whose
  /\ passes' = passes + 1
  /\ IF ModifiesDatabase(p) \/ p.returns # (IF PivotEnumPlan(p) THEN "nothing" ELSE "rows")
     THEN verdict' = "statement" /\ at' = 0 /\ UNCHANGED <<recorded, left>>
     ELSE /\ verdict' = "none" /\ at' = 1
          /\ recorded' = IF whose = "PRIVATE" THEN NoScans ELSE recorded
          /\ left' = IF origin = "ENGINE" THEN left ELSE recorded'

\* The start of a walk: what the statement is, then a fresh record for a private plan and a copy of it to use up.
CheckPlan(whose, p) ==
  /\ plan' = p /\ origin' = whose
  /\ passes' = passes + 1
  /\ IF ModifiesDatabase(p) \/ p.returns # (IF PivotEnumPlan(p) THEN "nothing" ELSE "rows")
     THEN verdict' = "statement" /\ at' = 0 /\ UNCHANGED <<recorded, left>>
     ELSE /\ verdict' = "none" /\ at' = 1
          /\ recorded' = IF whose = "PRIVATE" THEN NoScans ELSE recorded
          /\ left' = recorded'

\* Authorize binds the statement privately; what the bind retrieved, and for whom, comes with its plan.
PrivateBind ==
  /\ at = 0 /\ passes < MaxPasses
  /\ provenance' \in Retrievals
  /\ \E p \in Plans : CheckPlan("PRIVATE", p)
  /\ validated' = None

\* The engine's plan of the admitted statement.
EnginePlan ==
  /\ at = 0 /\ passes < MaxPasses
  /\ validated # None
  /\ \E p \in Plans : CheckPlan("ENGINE", p)
  /\ UNCHANGED <<provenance, validated>>

\* A Prepare() bind on a unit of its own, before any statement's.
Prescreen ==
  /\ at = 0 /\ passes < MaxPasses
  /\ validated = None /\ origin = "PRESCREEN"
  /\ \E p \in Plans : CheckPlan("PRESCREEN", p)
  /\ UNCHANGED <<provenance, validated>>

Op == plan.ops[at]

\* One scan against the record; the walk goes on only if it can be accounted for and its table is allowed.
Account(source) ==
  \/ /\ origin = "ENGINE" /\ left[source] = 0
     /\ Refuse("diverged")
     /\ UNCHANGED <<recorded, left>>
  \/ /\ origin = "ENGINE" => left[source] > 0
     /\ recorded' = IF origin = "PRIVATE" THEN [recorded EXCEPT ![source] = @ + 1] ELSE recorded
     /\ left' = IF origin = "ENGINE" THEN [left EXCEPT ![source] = @ - 1] ELSE left
     /\ IF source \in Tables /\ ~AuthorizeObject(source)
        THEN Refuse("object")
        ELSE at' = at + 1 /\ UNCHANGED <<plan, origin, provenance, verdict, validated, passes>>

Visit ==
  /\ at \in DOMAIN plan.ops
  /\ \/ /\ ~ReadOperator(Op) /\ ~(PivotEnumPlan(plan) /\ at = 1)
        /\ Refuse("statement")
        /\ UNCHANGED <<recorded, left>>
     \/ /\ ReadOperator(Op) \/ (PivotEnumPlan(plan) /\ at = 1)
        /\ IF Op.source = None \/ origin = "PRESCREEN"
           THEN at' = at + 1 /\ UNCHANGED <<plan, origin, recorded, left, provenance, verdict, validated, passes>>
           ELSE IF Op.source \in Opaque
                THEN Refuse("statement") /\ UNCHANGED <<recorded, left>>
                ELSE Account(Op.source)

\* The second pass: the plan's functions, allowed or not.
AuthorizePlan ==
  /\ at > 0 /\ at \notin DOMAIN plan.ops
  /\ at' = 0
  /\ verdict' \in {"admitted", "functions"}
  /\ validated' = IF origin = "PRIVATE" /\ verdict' = "admitted" THEN plan ELSE validated
  /\ UNCHANGED <<plan, origin, recorded, left, provenance, passes>>

Next == PrivateBind \/ EnginePlan \/ Prescreen \/ Visit \/ AuthorizePlan

Spec == Init /\ [][Next]_vars
-----------------------------------------------------------------------------
(***************************************************************************)
(* Properties.                                                             *)
(***************************************************************************)
\* The operators of p among the first n that scan a source, and how many there are.
ScansOf(p, n, source) == {i \in 1 .. n : p.ops[i].source = source}
Scans(p, source) == Cardinality(ScansOf(p, Len(p.ops), source))

\* Walks stay inside their plan, and counts are numbers.
TypeOK ==
  /\ plan \in Plans /\ origin \in Origins
  /\ at \in 0 .. Len(plan.ops) + 1
  /\ recorded \in [Sources -> Nat] /\ left \in [Sources -> Nat]
  /\ provenance \in Provenances
  /\ verdict \in {"none", "admitted", "statement", "diverged", "object", "functions"}
  /\ validated \in Plans \union {None}
  /\ passes \in Nat

\* The engine's plan is held to the validated statement (check.cpp:320-322): one that is admitted scans no source
\* more often than the last admitted private plan does, whatever was bound or planned before.
HeldToRecord ==
  origin = "ENGINE" /\ verdict = "admitted" => \A s \in Sources : Scans(plan, s) <= Scans(validated, s)

\* What is refused as diverged did diverge, however often the statement was bound and planned before; and a
\* pre-screen, which has no record, refuses no plan over its scans.
DivergenceIsReal ==
  /\ verdict = "diverged" => origin = "ENGINE" /\ \E s \in Sources : Scans(plan, s) > Scans(validated, s)
  /\ origin = "PRESCREEN" => verdict \notin {"diverged", "object"}

\* Every table an admitted plan scans for the caller is allowed by both layers, and the plan reads only.
AdmittedReads ==
  verdict = "admitted" =>
    /\ \A i \in 2 .. Len(plan.ops) : plan.ops[i].kind = "read"
    /\ \A i \in DOMAIN plan.ops : plan.ops[i].source \in Tables /\ origin # "PRESCREEN" =>
         \/ plan.ops[i].source \in provenance.trusted \ (provenance.caller \union provenance.written)
         \/ \A j \in DOMAIN Layers : plan.ops[i].source \in Layers[j]

\* The counts behind HeldToRecord: a private walk has recorded what it passed, an engine walk has used up what it
\* passed, and the record is that of the validated plan.
Accounted ==
  /\ origin = "PRIVATE" /\ at > 0 => \A s \in Sources : recorded[s] = Cardinality(ScansOf(plan, at - 1, s))
  /\ origin = "ENGINE" /\ at > 0 => \A s \in Sources : left[s] + Cardinality(ScansOf(plan, at - 1, s)) = recorded[s]
  /\ validated # None => \A s \in Sources : recorded[s] = Scans(validated, s)
=============================================================================
