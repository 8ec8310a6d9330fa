---------------------------- MODULE PivotShapes ----------------------------
(***************************************************************************)
(* SubstitutePivotEnums and the loop of Authorize over its two shapes      *)
(* (check.cpp).  The engine plans a PIVOT as filtered aggregates when its  *)
(* total number of values is at most pivot_filter_threshold, as a LIST     *)
(* aggregate above that, and rejects it from pivot_limit on.  The values   *)
(* of a dynamic column come from data nobody has read yet, so the          *)
(* statement is bound with placeholder values instead: once with one value *)
(* a column, and once with enough of them to pass the threshold.           *)
(*                                                                         *)
(* Counts are idx_t: arithmetic wraps at 2^Width.                          *)
(***************************************************************************)
EXTENDS Integers, Sequences, FiniteSetsExt

CONSTANTS
  Width,      \* bits of idx_t
  MaxColumns, \* bound on the columns of a PIVOT
  MaxValues   \* bound on the values a column has

ASSUME WidthAssumption == Width \in Nat /\ 2 ^ Width \in Nat \ {0} /\ MaxValues \in Nat /\ MaxValues < 2 ^ Width
ASSUME MaxColumnsAssumption == MaxColumns \in Nat

Idx == 0 .. 2 ^ Width - 1
Wrap(n) == n % (2 ^ Width)

\* A column of a PIVOT: dynamic, or with the values of a static IN list or a host enum, which may be empty.
Columns == [dynamic : {FALSE}, values : 0 .. MaxValues] \union [dynamic : {TRUE}, values : {0}]

VARIABLES
  threshold, limit, \* pivot_filter_threshold and pivot_limit
  pivots,           \* the PIVOTs of one statement: sequences of columns
  large,            \* which shape is bound next; "done" after the loop
  bound             \* the totals of values each PIVOT was bound with, one function a bind

vars == <<threshold, limit, pivots, large, bound>>

Init ==
  /\ threshold \in Idx /\ limit \in Idx
  /\ pivots \in [1 .. 2 -> UNION {[1 .. n -> Columns] : n \in 1 .. MaxColumns}]
  /\ large = "no" /\ bound = {}
-----------------------------------------------------------------------------
\* multiply: the product of the values so far, saturated at the limit; zero stays zero.
Multiply(fixed, values) ==
  IF fixed = 0 \/ values = 0 THEN 0
  ELSE IF values > limit \div fixed THEN limit ELSE Wrap(fixed * values)

\* The values of the columns that are not dynamic.
Fixed(columns) ==
  LET fixed[i \in 0 .. Len(columns)] ==
        IF i = 0 THEN 1
        ELSE IF columns[i].dynamic THEN fixed[i - 1] ELSE Multiply(fixed[i - 1], columns[i].values)
  IN  fixed[Len(columns)]

\* LargeCount variant: no more values than the threshold holds.
LargeCountAtThreshold(fixed) ==
  IF fixed > 0 /\ fixed <= threshold /\ limit > 0 /\ threshold \div fixed <= (limit - 1) \div fixed
  THEN threshold \div fixed ELSE 1

\* LargeCount variant: the limit itself counts as legal.
LargeCountAtLimit(fixed) ==
  LET candidate == Wrap(threshold \div fixed + 1)
  IN  IF fixed > 0 /\ fixed <= threshold /\ limit > 0 /\ candidate > 0 /\ candidate <= limit \div fixed
      THEN candidate ELSE 1

\* The values the first dynamic column has in the large shape: the fewest that pass the threshold, if they stay
\* under the limit, and one otherwise.
LargeCount(fixed) ==
  IF ~(fixed > 0 /\ fixed <= threshold /\ limit > 0) THEN 1
  ELSE LET candidate == Wrap(threshold \div fixed + 1)
       IN  IF candidate > 0 /\ candidate <= (limit - 1) \div fixed THEN candidate ELSE 1

Dynamic(columns) == {i \in DOMAIN columns : columns[i].dynamic}

\* The values each column of a PIVOT is bound with.
Substituted(columns, isLarge) ==
  [i \in DOMAIN columns |->
     IF ~columns[i].dynamic THEN columns[i].values
     ELSE IF isLarge /\ i = Min(Dynamic(columns)) THEN LargeCount(Fixed(columns)) ELSE 1]

\* SubstitutePivotEnums' return value: some PIVOT's large shape differs from its small one.
Distinct == \E k \in DOMAIN pivots : Dynamic(pivots[k]) # {} /\ LargeCount(Fixed(pivots[k])) > 1

\* One bind of the statement, every PIVOT in the same shape.
Bind(isLarge) == bound' = bound \union {[k \in DOMAIN pivots |-> Substituted(pivots[k], isLarge)]}

BindSmall ==
  /\ large = "no"
  /\ Bind(FALSE) /\ large' = "yes"
  /\ UNCHANGED <<threshold, limit, pivots>>

\* The loop ends before the large bind when no shape is different.
BindLarge ==
  /\ large = "yes"
  /\ IF Distinct THEN Bind(TRUE) ELSE UNCHANGED bound
  /\ large' = "done"
  /\ UNCHANGED <<threshold, limit, pivots>>

Next == BindSmall \/ BindLarge

Spec == Init /\ [][Next]_vars
-----------------------------------------------------------------------------
(***************************************************************************)
(* Properties.                                                             *)
(***************************************************************************)
\* How the engine plans a PIVOT whose columns have these values.
Total(values) ==
  LET product[i \in 0 .. Len(values)] == IF i = 0 THEN 1 ELSE product[i - 1] * values[i]
  IN  product[Len(values)]
Shape(values) ==
  IF Total(values) >= limit THEN "rejected" ELSE IF Total(values) <= threshold THEN "filter" ELSE "list"

\* Every plan the engine can produce was bound (check.cpp:934-935): whatever number of values, at least one, each
\* dynamic column turns out to have, a PIVOT the engine accepts is planned in a shape it was bound in.
ShapesCover ==
  large = "done" =>
    \A k \in DOMAIN pivots :
      \A data \in [Dynamic(pivots[k]) -> 1 .. MaxValues] :
        LET shape == Shape([i \in DOMAIN pivots[k] |-> IF pivots[k][i].dynamic THEN data[i] ELSE pivots[k][i].values])
        IN  shape # "rejected" => \E binding \in bound : Shape(binding[k]) = shape

\* The large bind is legal wherever the small one is: no statement is refused for a shape that only the
\* placeholders have.
LargeIsLegal ==
  \A binding, other \in bound : \A k \in DOMAIN pivots : Shape(other[k]) # "rejected" /\ binding[k] # other[k] =>
    \/ Shape(binding[k]) # "rejected"
    \/ \A i \in DOMAIN binding[k] : binding[k][i] <= other[k][i]
=============================================================================
