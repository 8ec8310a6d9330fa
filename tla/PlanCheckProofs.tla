-------------------------- MODULE PlanCheckProofs --------------------------
(***************************************************************************)
(* Theorems about PlanCheck, for every set of plans and sources.           *)
(***************************************************************************)
EXTENDS PlanCheck, FiniteSetTheorems, TLAPS

\* The scans among the first n operators are finitely many.
LEMMA ScansFinite ==
  ASSUME NEW p, NEW n \in Nat, NEW s
  PROVE  IsFiniteSet(ScansOf(p, n, s)) /\ Cardinality(ScansOf(p, n, s)) \in Nat
  <1>1. IsFiniteSet(1 .. n)
    BY FS_Interval
  <1>2. ScansOf(p, n, s) \subseteq 1 .. n
    BY DEF ScansOf
  <1> QED BY <1>1, <1>2, FS_Subset, FS_CardinalityType

\* No operator, no scan.
LEMMA NoneScanned ==
  ASSUME NEW p, NEW s
  PROVE  Cardinality(ScansOf(p, 0, s)) = 0
  <1>1. ScansOf(p, 0, s) = {}
    BY DEF ScansOf
  <1> QED BY <1>1, FS_EmptySet

\* One more operator is one more scan of its own source, and of no other.
LEMMA OneMore ==
  ASSUME NEW p, NEW n \in Nat \ {0}, NEW s
  PROVE  Cardinality(ScansOf(p, n, s)) =
           IF p.ops[n].source = s THEN Cardinality(ScansOf(p, n - 1, s)) + 1 ELSE Cardinality(ScansOf(p, n - 1, s))
  <1>1. CASE p.ops[n].source = s
    <2>1. ScansOf(p, n, s) = ScansOf(p, n - 1, s) \union {n}
      BY <1>1 DEF ScansOf
    <2>2. n \notin ScansOf(p, n - 1, s)
      BY DEF ScansOf
    <2>3. n - 1 \in Nat
      OBVIOUS
    <2>4. IsFiniteSet(ScansOf(p, n - 1, s))
      BY <2>3, ScansFinite
    <2>5. Cardinality(ScansOf(p, n - 1, s) \union {n}) = Cardinality(ScansOf(p, n - 1, s)) + 1
      BY <2>2, <2>4, FS_AddElement
    <2> QED BY <1>1, <2>1, <2>5
  <1>2. CASE p.ops[n].source # s
    <2>1. ScansOf(p, n, s) = ScansOf(p, n - 1, s)
      BY <1>2 DEF ScansOf
    <2> QED BY <1>2, <2>1
  <1> QED BY <1>1, <1>2

\* The first operators scan a source no more often than all of them do.
LEMMA PrefixScans ==
  ASSUME NEW p, NEW n \in Nat, NEW m \in Nat, n <= m, NEW s
  PROVE  Cardinality(ScansOf(p, n, s)) <= Cardinality(ScansOf(p, m, s))
  <1>1. ScansOf(p, n, s) \subseteq ScansOf(p, m, s)
    BY DEF ScansOf
  <1> QED BY <1>1, ScansFinite, FS_Subset

\* Plans are sequences of at least one operator.
LEMMA PlanShape ==
  ASSUME NEW p \in Plans
  PROVE  /\ Len(p.ops) \in Nat \ {0} /\ DOMAIN p.ops = 1 .. Len(p.ops)
         /\ \A i \in 1 .. Len(p.ops) : p.ops[i] \in OperatorRecords
  <1>1. p \in PlanRecords /\ p.ops # <<>>
    BY PlansAssumption
  <1>2. p.ops \in Seq(OperatorRecords)
    BY <1>1 DEF PlanRecords
  <1>3. PICK ops \in Seq(OperatorRecords) : ops = p.ops /\ ops # <<>>
    BY <1>1, <1>2
  <1>4. Len(ops) \in Nat \ {0} /\ DOMAIN ops = 1 .. Len(ops) /\ \A i \in 1 .. Len(ops) : ops[i] \in OperatorRecords
    BY <1>3
  <1> QED BY <1>3, <1>4

\* The inductive invariant: types, counts, an engine pass only against a validated plan, a private one against
\* none yet, and no verdict before a walk ends.
IInv ==
  /\ TypeOK /\ Accounted /\ HeldToRecord /\ DivergenceIsReal
  /\ origin = "ENGINE" => validated # None
  /\ origin = "PRIVATE" /\ at > 0 => validated = None
  /\ at > 0 => verdict = "none"

LEMMA InitInv == Init => IInv
  <1> SUFFICES ASSUME Init PROVE IInv
    OBVIOUS
  <1>1. Len(plan.ops) \in Nat
    BY PlanShape DEF Init
  <1>2. NoScans \in [Sources -> Nat]
    BY DEF NoScans
  <1>3. TypeOK
    BY <1>1, <1>2 DEF Init, TypeOK, Origins, Unattributed, Provenances
  <1> QED BY <1>3 DEF Init, IInv, Accounted, HeldToRecord, DivergenceIsReal

\* The start of a walk keeps the types and the counts.
LEMMA CheckPlanStep ==
  ASSUME IInv, NEW p \in Plans, NEW whose \in Origins, CheckPlan(whose, p), at = 0,
         provenance' \in Provenances,
         \/ whose = "PRIVATE" /\ validated' = None
         \/ whose = "ENGINE" /\ validated # None /\ validated' = validated
         \/ whose = "PRESCREEN" /\ validated = None /\ validated' = validated
  PROVE  IInv'
  <1>1. Len(p.ops) \in Nat \ {0} /\ plan' = p /\ origin' = whose /\ passes' = passes + 1
    BY PlanShape DEF CheckPlan
  <1>2. NoScans \in [Sources -> Nat]
    BY DEF NoScans
  <1>3. recorded' \in [Sources -> Nat] /\ left' \in [Sources -> Nat]
    BY <1>2 DEF CheckPlan, IInv, TypeOK
  <1>4. /\ verdict' \in {"none", "statement"} /\ at' \in {0, 1} /\ (at' = 1 => verdict' = "none" /\ left' = recorded')
        /\ whose # "PRIVATE" => recorded' = recorded
        /\ whose = "PRIVATE" /\ at' = 1 => recorded' = NoScans
    BY DEF CheckPlan
  <1>5. TypeOK'
    <2>1. at' \in 0 .. Len(plan'.ops) + 1
      BY <1>1, <1>4
    <2>2. validated' \in Plans \union {None} /\ passes' \in Nat
      BY <1>1 DEF IInv, TypeOK
    <2> QED BY <1>1, <1>3, <1>4, <2>1, <2>2 DEF TypeOK
  <1>6. Accounted'
    <2>1. ASSUME origin' = "PRIVATE", at' > 0, NEW s \in Sources
          PROVE  recorded'[s] = Cardinality(ScansOf(plan', at' - 1, s))
      <3>1. at' = 1 /\ recorded' = NoScans
        BY <1>1, <1>4, <2>1
      <3>2. recorded'[s] = 0
        BY <3>1 DEF NoScans
      <3>3. ScansOf(plan', at' - 1, s) = ScansOf(p, 0, s)
        BY <1>1, <3>1
      <3> QED BY <3>2, <3>3, NoneScanned
    <2>2. ASSUME origin' = "ENGINE", at' > 0, NEW s \in Sources
          PROVE  left'[s] + Cardinality(ScansOf(plan', at' - 1, s)) = recorded'[s]
      <3>1. at' = 1 /\ left' = recorded'
        BY <1>4, <2>2
      <3>2. ScansOf(plan', at' - 1, s) = ScansOf(p, 0, s)
        BY <1>1, <3>1
      <3>3. recorded'[s] \in Nat
        BY <1>3
      <3> QED BY <3>1, <3>2, <3>3, NoneScanned
    <2>3. ASSUME validated' # None, NEW s \in Sources
          PROVE  recorded'[s] = Scans(validated', s)
      <3>1. validated' = validated /\ recorded' = recorded
        BY <1>4, <2>3
      <3> QED BY <2>3, <3>1 DEF IInv, Accounted
    <2> QED BY <2>1, <2>2, <2>3 DEF Accounted
  <1>7. /\ origin' = "ENGINE" => validated' # None
        /\ origin' = "PRIVATE" /\ at' > 0 => validated' = None
        /\ at' > 0 => verdict' = "none"
    BY <1>1, <1>4
  <1>8. HeldToRecord' /\ DivergenceIsReal'
    BY <1>4 DEF HeldToRecord, DivergenceIsReal
  <1> QED BY <1>5, <1>6, <1>7, <1>8 DEF IInv

\* A refused walk keeps what it leaves alone.
LEMMA RefuseStep ==
  ASSUME IInv, at > 0, NEW reason \in {"statement", "object"}, Refuse(reason), reason = "object" => origin # "PRESCREEN",
         recorded' \in [Sources -> Nat], left' \in [Sources -> Nat], origin # "PRIVATE" => recorded' = recorded
  PROVE  IInv'
  <1>1. /\ verdict' = reason /\ at' = 0 /\ plan' = plan /\ origin' = origin /\ provenance' = provenance
        /\ validated' = validated /\ passes' = passes
    BY DEF Refuse
  <1>2. Len(plan.ops) \in Nat
    BY PlanShape DEF IInv, TypeOK
  <1>3. TypeOK'
    BY <1>1, <1>2 DEF IInv, TypeOK
  <1>4. Accounted'
    BY <1>1 DEF IInv, Accounted
  <1> QED BY <1>1, <1>3, <1>4 DEF IInv, HeldToRecord, DivergenceIsReal

\* A walk that goes on past an operator without a scan to account for.
LEMMA PassStep ==
  ASSUME IInv, at \in DOMAIN plan.ops, plan.ops[at].source = None \/ origin = "PRESCREEN", at' = at + 1,
         UNCHANGED <<plan, origin, recorded, left, provenance, verdict, validated, passes>>
  PROVE  IInv'
  <1>1. Len(plan.ops) \in Nat /\ at \in 1 .. Len(plan.ops)
    BY PlanShape DEF IInv, TypeOK
  <1>2. TypeOK'
    BY <1>1 DEF IInv, TypeOK
  <1>3. Accounted'
    <2>1. ASSUME NEW s \in Sources, origin # "PRESCREEN"
          PROVE  Cardinality(ScansOf(plan, at, s)) = Cardinality(ScansOf(plan, at - 1, s))
      BY <1>1, <2>1, OneMore, SourcesAssumption
    <2>2. at' - 1 = at /\ at > 0
      BY <1>1
    <2> QED BY <2>1, <2>2 DEF IInv, Accounted
  <1>4. at > 0 /\ verdict = "none"
    BY <1>1 DEF IInv
  <1> QED BY <1>2, <1>3, <1>4 DEF IInv, HeldToRecord, DivergenceIsReal

\* A scan accounted for.
LEMMA AccountStep ==
  ASSUME IInv, at \in DOMAIN plan.ops, NEW source \in Sources, source = plan.ops[at].source, origin # "PRESCREEN",
         Account(source)
  PROVE  IInv'
  <1>1. /\ Len(plan.ops) \in Nat /\ at \in 1 .. Len(plan.ops) /\ at > 0 /\ verdict = "none" /\ plan \in Plans
        /\ recorded \in [Sources -> Nat] /\ left \in [Sources -> Nat] /\ origin \in {"PRIVATE", "ENGINE"}
    BY PlanShape DEF IInv, TypeOK, Origins
  <1>2. \A s \in Sources : Cardinality(ScansOf(plan, at, s)) =
          IF source = s THEN Cardinality(ScansOf(plan, at - 1, s)) + 1 ELSE Cardinality(ScansOf(plan, at - 1, s))
    BY <1>1, OneMore
  <1>3. \A s \in Sources : Cardinality(ScansOf(plan, at - 1, s)) \in Nat
    BY <1>1, ScansFinite
  <1>4. CASE origin = "ENGINE" /\ left[source] = 0 /\ Refuse("diverged") /\ UNCHANGED <<recorded, left>>
    <2>1. /\ verdict' = "diverged" /\ at' = 0 /\ plan' = plan /\ origin' = origin /\ provenance' = provenance
          /\ validated' = validated /\ passes' = passes /\ recorded' = recorded /\ left' = left
      BY <1>4 DEF Refuse
    <2>2. TypeOK'
      BY <1>1, <2>1 DEF IInv, TypeOK
    <2>3. Accounted'
      BY <2>1 DEF IInv, Accounted
    <2>4. Scans(plan, source) > Scans(validated, source)
      <3>1. recorded[source] = Scans(validated, source) /\ recorded[source] \in Nat
        BY <1>1, <1>4 DEF IInv, Accounted
      <3>2. Cardinality(ScansOf(plan, at - 1, source)) = recorded[source]
        BY <1>1, <1>3, <1>4, <3>1 DEF IInv, Accounted
      <3>3. Cardinality(ScansOf(plan, at, source)) = recorded[source] + 1
        BY <1>2, <3>2
      <3>4. Cardinality(ScansOf(plan, at, source)) <= Scans(plan, source)
        BY <1>1, PrefixScans DEF Scans
      <3>5. Scans(plan, source) \in Nat
        BY <1>1, ScansFinite DEF Scans
      <3> QED BY <3>1, <3>3, <3>4, <3>5
    <2>5. DivergenceIsReal'
      BY <1>4, <2>1, <2>4 DEF DivergenceIsReal
    <2> QED BY <1>4, <2>1, <2>2, <2>3, <2>5 DEF IInv, HeldToRecord
  <1>5. CASE /\ origin = "ENGINE" => left[source] > 0
             /\ recorded' = IF origin = "PRIVATE" THEN [recorded EXCEPT ![source] = @ + 1] ELSE recorded
             /\ left' = IF origin = "ENGINE" THEN [left EXCEPT ![source] = @ - 1] ELSE left
             /\ IF source \in Tables /\ ~AuthorizeObject(source)
                THEN Refuse("object")
                ELSE at' = at + 1 /\ UNCHANGED <<plan, origin, provenance, verdict, validated, passes>>
    <2>1. recorded' \in [Sources -> Nat] /\ left' \in [Sources -> Nat]
      <3>1. recorded[source] + 1 \in Nat /\ (origin = "ENGINE" => left[source] - 1 \in Nat)
        BY <1>1, <1>5
      <3> QED BY <1>1, <1>5, <3>1
    <2>2. origin # "PRIVATE" => recorded' = recorded
      BY <1>5
    <2>3. CASE Refuse("object")
      BY <1>1, <2>1, <2>2, <2>3, RefuseStep
    <2>4. CASE at' = at + 1 /\ UNCHANGED <<plan, origin, provenance, verdict, validated, passes>>
      <3>1. TypeOK'
        BY <1>1, <2>1, <2>4 DEF IInv, TypeOK
      <3>2. ASSUME origin = "PRIVATE", NEW s \in Sources
            PROVE  recorded'[s] = Cardinality(ScansOf(plan, at, s))
        <4>1. recorded[s] = Cardinality(ScansOf(plan, at - 1, s))
          BY <1>1, <3>2 DEF IInv, Accounted
        <4>2. recorded'[s] = IF source = s THEN recorded[s] + 1 ELSE recorded[s]
          BY <1>1, <1>5, <3>2
        <4> QED BY <1>2, <4>1, <4>2
      <3>3. ASSUME origin = "ENGINE", NEW s \in Sources
            PROVE  left'[s] + Cardinality(ScansOf(plan, at, s)) = recorded'[s]
        <4>1. left[s] + Cardinality(ScansOf(plan, at - 1, s)) = recorded[s]
          BY <1>1, <3>3 DEF IInv, Accounted
        <4>2. left'[s] = (IF source = s THEN left[s] - 1 ELSE left[s]) /\ recorded' = recorded
          BY <1>1, <1>5, <3>3
        <4>3. left[s] \in Nat /\ Cardinality(ScansOf(plan, at - 1, s)) \in Nat /\ recorded[s] \in Nat
          BY <1>1, <1>3
        <4> QED BY <1>2, <4>1, <4>2, <4>3
      <3>4. ASSUME validated # None
            PROVE  recorded' = recorded
        BY <1>1, <1>5, <3>4 DEF IInv
      <3>5. Accounted'
        <4>1. at' - 1 = at
          BY <1>1, <2>4
        <4> QED BY <2>4, <3>2, <3>3, <3>4, <4>1 DEF IInv, Accounted
      <3> QED BY <1>1, <2>4, <3>1, <3>5 DEF IInv, HeldToRecord, DivergenceIsReal
    <2> QED BY <1>5, <2>3, <2>4
  <1> QED BY <1>4, <1>5 DEF Account

\* Every step keeps the invariant.
LEMMA NextInv == IInv /\ [Next]_vars => IInv'
  <1> SUFFICES ASSUME IInv, [Next]_vars PROVE IInv'
    OBVIOUS
  <1>1. CASE PrivateBind
    <2>1. PICK p \in Plans : CheckPlan("PRIVATE", p)
      BY <1>1 DEF PrivateBind
    <2>2. at = 0 /\ validated' = None /\ provenance' \in Provenances /\ "PRIVATE" \in Origins
      BY <1>1, RetrievalsAssumption DEF PrivateBind, Origins
    <2> QED BY <2>1, <2>2, CheckPlanStep
  <1>2. CASE EnginePlan
    <2>1. PICK p \in Plans : CheckPlan("ENGINE", p)
      BY <1>2 DEF EnginePlan
    <2>2. /\ at = 0 /\ validated # None /\ validated' = validated /\ provenance' \in Provenances
          /\ "ENGINE" \in Origins
      BY <1>2 DEF EnginePlan, Origins, IInv, TypeOK
    <2> QED BY <2>1, <2>2, CheckPlanStep
  <1>3. CASE Prescreen
    <2>1. PICK p \in Plans : CheckPlan("PRESCREEN", p)
      BY <1>3 DEF Prescreen
    <2>2. /\ at = 0 /\ validated = None /\ validated' = validated /\ provenance' \in Provenances
          /\ "PRESCREEN" \in Origins
      BY <1>3 DEF Prescreen, Origins, IInv, TypeOK
    <2> QED BY <2>1, <2>2, CheckPlanStep
  <1>4. CASE Visit
    <2>1. /\ at \in DOMAIN plan.ops /\ at > 0 /\ plan.ops[at].source \in Sources \union {None}
          /\ recorded \in [Sources -> Nat] /\ left \in [Sources -> Nat]
      BY <1>4, PlanShape DEF Visit, IInv, TypeOK, OperatorRecords
    <2>2. CASE Refuse("statement") /\ UNCHANGED <<recorded, left>>
      BY <2>1, <2>2, RefuseStep
    <2>3. CASE /\ Op.source = None \/ origin = "PRESCREEN"
               /\ at' = at + 1 /\ UNCHANGED <<plan, origin, recorded, left, provenance, verdict, validated, passes>>
      BY <2>1, <2>3, PassStep DEF Op
    <2>4. CASE Op.source # None /\ origin # "PRESCREEN" /\ Account(Op.source)
      BY <2>1, <2>4, AccountStep DEF Op
    <2> QED BY <1>4, <2>2, <2>3, <2>4 DEF Visit
  <1>5. CASE AuthorizePlan
    <2>1. /\ at > 0 /\ at = Len(plan.ops) + 1 /\ at' = 0 /\ verdict' \in {"admitted", "functions"}
          /\ Len(plan.ops) \in Nat /\ plan' = plan /\ origin' = origin /\ recorded' = recorded /\ left' = left
          /\ provenance' = provenance /\ passes' = passes /\ plan \in Plans
      BY <1>5, PlanShape DEF AuthorizePlan, IInv, TypeOK
    <2>2. validated' = IF origin = "PRIVATE" /\ verdict' = "admitted" THEN plan ELSE validated
      BY <1>5 DEF AuthorizePlan
    <2>3. TypeOK'
      BY <2>1, <2>2 DEF IInv, TypeOK
    <2>4. at - 1 = Len(plan.ops)
      BY <2>1
    <2>5. ASSUME validated' # None, NEW s \in Sources
          PROVE  recorded[s] = Scans(validated', s)
      <3>1. CASE origin = "PRIVATE" /\ verdict' = "admitted"
        BY <2>1, <2>2, <2>4, <3>1 DEF IInv, Accounted, Scans
      <3>2. CASE ~(origin = "PRIVATE" /\ verdict' = "admitted")
        BY <2>2, <2>5, <3>2 DEF IInv, Accounted
      <3> QED BY <3>1, <3>2
    <2>6. Accounted'
      BY <2>1, <2>5 DEF Accounted
    <2>7. ASSUME origin = "ENGINE", NEW s \in Sources
          PROVE  Scans(plan, s) <= Scans(validated, s)
      <3>1. left[s] + Scans(plan, s) = recorded[s] /\ recorded[s] = Scans(validated, s)
        BY <2>1, <2>4, <2>7 DEF IInv, Accounted, Scans
      <3>2. left[s] \in Nat /\ recorded[s] \in Nat /\ Scans(plan, s) \in Nat
        BY <2>1, ScansFinite DEF IInv, TypeOK, Scans
      <3> QED BY <3>1, <3>2
    <2>8. HeldToRecord'
      BY <2>1, <2>2, <2>7 DEF HeldToRecord
    <2> QED BY <2>1, <2>2, <2>3, <2>6, <2>8 DEF IInv, DivergenceIsReal
  <1>6. CASE UNCHANGED vars
    BY <1>6 DEF vars, IInv, TypeOK, Accounted, HeldToRecord, DivergenceIsReal
  <1> QED BY <1>1, <1>2, <1>3, <1>4, <1>5, <1>6 DEF Next

\* In every behaviour the counts are right: for every set of plans and sources, whatever was bound before.
THEOREM Invariant == Spec => []IInv
  BY InitInv, NextInv, PTL DEF Spec

\* An engine plan that is admitted scans no source more often than the validated statement.
THEOREM EngineHeldToRecord == Spec => []HeldToRecord
  <1>1. IInv => HeldToRecord
    BY DEF IInv
  <1> QED BY <1>1, Invariant, PTL

\* A plan refused as diverged scans some source more often than the validated statement.
THEOREM NoFalseDivergence == Spec => []DivergenceIsReal
  <1>1. IInv => DivergenceIsReal
    BY DEF IInv
  <1> QED BY <1>1, Invariant, PTL
\* What an operator the walk has passed is: only the root may be other than a read, and the table it scans is a
\* trusted definition's alone or allowed by every layer.
Passed(i) ==
  /\ i > 1 => plan.ops[i].kind = "read"
  /\ plan.ops[i].source \in Tables /\ origin # "PRESCREEN" =>
       \/ plan.ops[i].source \in provenance.trusted \ (provenance.caller \union provenance.written)
       \/ \A j \in DOMAIN Layers : plan.ops[i].source \in Layers[j]

\* The operators a walk under way has behind it, and those of an admitted plan, were passed.
WalkPassed ==
  /\ at > 0 => \A i \in 1 .. at - 1 : Passed(i)
  /\ verdict = "admitted" => \A i \in DOMAIN plan.ops : Passed(i)

\* A walk that goes on has passed the operator it was at.
LEMMA VisitPasses ==
  ASSUME IInv, Visit, at' # 0
  PROVE  /\ at' = at + 1 /\ UNCHANGED <<plan, origin, provenance, verdict>>
         /\ Passed(at)
  <1>1. at \in DOMAIN plan.ops /\ at \in Nat /\ at > 0 /\ (ReadOperator(Op) \/ (PivotEnumPlan(plan) /\ at = 1))
    BY PlanShape DEF Visit, Refuse, IInv, TypeOK
  <1>2. at > 1 => plan.ops[at].kind = "read"
    BY <1>1 DEF ReadOperator, Op
  <1>3. CASE Op.source = None \/ origin = "PRESCREEN"
    <2>1. at' = at + 1 /\ UNCHANGED <<plan, origin, provenance, verdict>>
      BY <1>3 DEF Visit, Refuse
    <2>2. plan.ops[at].source \in Tables => origin = "PRESCREEN"
      BY <1>3, SourcesAssumption DEF Op, Sources
    <2> QED BY <1>2, <2>1, <2>2 DEF Passed
  <1>4. CASE ~(Op.source = None \/ origin = "PRESCREEN")
    <2>1. Account(Op.source)
      BY <1>4 DEF Visit, Refuse
    <2>2. /\ at' = at + 1 /\ UNCHANGED <<plan, origin, provenance, verdict>>
          /\ Op.source \in Tables => AuthorizeObject(Op.source)
      BY <2>1 DEF Account, Refuse
    <2>3. Op.source \in Tables =>
            \/ Op.source \in provenance.trusted \ (provenance.caller \union provenance.written)
            \/ \A j \in DOMAIN Layers : Op.source \in Layers[j]
      BY <1>4, <2>2 DEF AuthorizeObject, ObjectAttributable
    <2> QED BY <1>2, <2>2, <2>3 DEF Passed, Op
  <1> QED BY <1>3, <1>4

\* Every step keeps what is known of the operators passed.
LEMMA PassedStep == IInv /\ WalkPassed /\ [Next]_vars => WalkPassed'
  <1> SUFFICES ASSUME IInv, WalkPassed, [Next]_vars PROVE WalkPassed'
    OBVIOUS
  <1>1. CASE PrivateBind \/ EnginePlan \/ Prescreen
    <2>1. at' \in {0, 1} /\ verdict' # "admitted"
      BY <1>1 DEF PrivateBind, EnginePlan, Prescreen, CheckPlan
    <2>2. at' > 0 => \A i \in 1 .. at' - 1 : Passed(i)'
      <3> SUFFICES ASSUME at' > 0, NEW i \in 1 .. at' - 1 PROVE FALSE
        OBVIOUS
      <3>1. at' = 1
        BY <2>1
      <3>2. i \in 1 .. 0
        BY <3>1
      <3> QED BY <3>2
    <2> QED BY <2>1, <2>2 DEF WalkPassed
  <1>2. CASE Visit
    <2>1. verdict = "none" /\ at \in Nat \ {0}
      BY <1>2, PlanShape DEF Visit, IInv, TypeOK
    <2>2. CASE at' = 0
      <3>1. verdict' # "admitted"
        BY <1>2, <2>1, <2>2 DEF Visit, Refuse, Account
      <3> QED BY <2>2, <3>1 DEF WalkPassed
    <2>3. CASE at' # 0
      <3>1. at' = at + 1 /\ UNCHANGED <<plan, origin, provenance, verdict>> /\ Passed(at)
        BY <1>2, <2>3, VisitPasses
      <3>2. \A i \in 1 .. at : Passed(i)
        BY <2>1, <3>1 DEF WalkPassed
      <3>3. at' - 1 = at /\ verdict' # "admitted"
        BY <2>1, <3>1
      <3> QED BY <3>1, <3>2, <3>3 DEF WalkPassed, Passed
    <2> QED BY <2>2, <2>3
  <1>3. CASE AuthorizePlan
    <2>1. at' = 0 /\ at - 1 = Len(plan.ops) /\ at > 0 /\ UNCHANGED <<plan, origin, provenance>>
      BY <1>3, PlanShape DEF AuthorizePlan, IInv, TypeOK
    <2>2. \A i \in DOMAIN plan.ops : Passed(i)
      BY <2>1, PlanShape DEF WalkPassed, IInv, TypeOK
    <2> QED BY <2>1, <2>2 DEF WalkPassed, Passed
  <1>4. CASE UNCHANGED vars
    BY <1>4 DEF vars, WalkPassed, Passed
  <1> QED BY <1>1, <1>2, <1>3, <1>4 DEF Next

\* Whatever plan CheckPlan admits, of any origin, reads only, and every table it scans for the caller is allowed by
\* both policy layers (check.cpp, the operator walk and AuthorizeObject).
THEOREM AdmittedOnlyReads == Spec => []AdmittedReads
  <1>1. Init => WalkPassed
    BY DEF Init, WalkPassed
  <1>2. IInv /\ WalkPassed => AdmittedReads
    <2> SUFFICES ASSUME IInv, WalkPassed, verdict = "admitted" PROVE AdmittedReads
      BY DEF AdmittedReads
    <2>1. DOMAIN plan.ops = 1 .. Len(plan.ops) /\ Len(plan.ops) \in Nat /\ \A i \in DOMAIN plan.ops : Passed(i)
      BY PlanShape DEF IInv, TypeOK, WalkPassed
    <2>2. \A i \in 2 .. Len(plan.ops) : plan.ops[i].kind = "read"
      BY <2>1 DEF Passed
    <2> QED BY <2>1, <2>2 DEF AdmittedReads, Passed
  <1> QED BY <1>1, <1>2, PassedStep, Invariant, PTL DEF Spec
=============================================================================
