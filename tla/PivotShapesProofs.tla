------------------------- MODULE PivotShapesProofs -------------------------
(***************************************************************************)
(* Theorems about PivotShapes, for every width of idx_t, every threshold   *)
(* and limit, and any number of columns and values.                        *)
(***************************************************************************)
EXTENDS PivotShapes, WellFoundedInduction, TLAPS

\* Induction up to a bound, over a set of numbers.
LEMMA UpTo ==
  ASSUME NEW n \in Nat, NEW S, 0 \in S, \A i \in 0 .. n - 1 : i \in S => i + 1 \in S
  PROVE  n \in S
  <1> DEFINE T == {i \in 0 .. n : i \notin S}
  <1> SUFFICES ASSUME n \notin S PROVE FALSE
    OBVIOUS
  <1>0. T # {}
    <2>1. n \in T
      OBVIOUS
    <2> QED BY <2>1
  <1>1. T \in SUBSET Nat
    OBVIOUS
  <1>2. PICK x \in T : \A y \in T : ~(<<y, x>> \in OpToRel(<, Nat))
    BY <1>0, <1>1, NatLessThanWellFounded, WFMin
  <1>3. x # 0 /\ x \in Nat /\ x - 1 \in 0 .. n - 1
    OBVIOUS
  <1>4. x - 1 \in T
    BY <1>3
  <1>5. ~(<<x - 1, x>> \in OpToRel(<, Nat))
    BY <1>2, <1>4
  <1>6. <<x - 1, x>> \in OpToRel(<, Nat)
    BY <1>3 DEF OpToRel
  <1> QED BY <1>5, <1>6

\* A loop over 1 .. n, from a and with a step for each turn, has a sequence of intermediate values in S.
Runs(n, S, a, step) == \E f \in [0 .. n -> S] : f[0] = a /\ \A i \in 1 .. n : f[i] = step[i][f[i - 1]]

\* Every loop has one.
LEMMA Loop ==
  ASSUME NEW n \in Nat, NEW S, NEW a \in S, NEW step \in [1 .. n -> [S -> S]]
  PROVE  Runs(n, S, a, step)
  <1> DEFINE Run(m, f) == f \in [0 .. m -> S] /\ f[0] = a /\ \A i \in 1 .. m : f[i] = step[i][f[i - 1]]
             T == {m \in 0 .. n : \E f \in [0 .. m -> S] : Run(m, f)}
  <1>1. 0 \in T
    <2>1. Run(0, [i \in 0 .. 0 |-> a])
      OBVIOUS
    <2>2. \E f \in [0 .. 0 -> S] : Run(0, f)
      <3> WITNESS [i \in 0 .. 0 |-> a] \in [0 .. 0 -> S]
      <3> QED BY <2>1
    <2> HIDE DEF Run
    <2> QED BY <2>2
  <1>2. ASSUME NEW m \in 0 .. n - 1, m \in T
        PROVE  m + 1 \in T
    <2>1. PICK f \in [0 .. m -> S] : Run(m, f)
      BY <1>2
    <2> DEFINE g == [i \in 0 .. m + 1 |-> IF i = m + 1 THEN step[m + 1][f[m]] ELSE f[i]]
    <2>2. step[m + 1][f[m]] \in S
      BY <2>1
    <2>3. g \in [0 .. m + 1 -> S]
      BY <2>2
    <2>4. g[0] = a
      BY <2>1
    <2>5. ASSUME NEW i \in 1 .. m + 1
          PROVE  g[i] = step[i][g[i - 1]]
      <3>1. g[i - 1] = f[i - 1]
        OBVIOUS
      <3>2. CASE i = m + 1
        BY <3>1, <3>2
      <3>3. CASE i \in 1 .. m
        BY <2>1, <3>1, <3>3
      <3> QED BY <3>2, <3>3
    <2>6. Run(m + 1, g)
      BY <2>3, <2>4, <2>5
    <2> HIDE DEF g, Run
    <2> QED BY <2>3, <2>6
  <1> HIDE DEF T
  <1>3. \A m \in 0 .. n - 1 : m \in T => m + 1 \in T
    BY <1>2
  <1>4. n \in T
    BY <1>1, <1>3, UpTo
  <1> QED BY <1>4 DEF T, Runs

\* The product of values, factor by factor.
LEMMA TotalSteps ==
  ASSUME NEW n \in Nat, NEW values \in [1 .. n -> Nat]
  PROVE  \E f \in [0 .. n -> Nat] : /\ f[0] = 1 /\ \A i \in 1 .. n : f[i] = f[i - 1] * values[i]
                                    /\ f[n] = Total(values)
  <1> DEFINE Body(f) == [i \in 0 .. n |-> IF i = 0 THEN 1 ELSE f[i - 1] * values[i]]
             product == CHOOSE f : f = [i \in 0 .. n |-> IF i = 0 THEN 1 ELSE f[i - 1] * values[i]]
             step == [i \in 1 .. n |-> [x \in Nat |-> x * values[i]]]
  <1>1. step \in [1 .. n -> [Nat -> Nat]]
    OBVIOUS
  <1>2. PICK f \in [0 .. n -> Nat] : f[0] = 1 /\ \A i \in 1 .. n : f[i] = step[i][f[i - 1]]
    <2>1. 1 \in Nat
      OBVIOUS
    <2> HIDE DEF step
    <2>2. Runs(n, Nat, 1, step)
      BY <1>1, <2>1, Loop
    <2> QED BY <2>2 DEF Runs
  <1>3. \A i \in 1 .. n : f[i] = f[i - 1] * values[i]
    <2> SUFFICES ASSUME NEW i \in 1 .. n PROVE f[i] = f[i - 1] * values[i]
      OBVIOUS
    <2>1. f[i - 1] \in Nat
      BY <1>2
    <2>2. step[i][f[i - 1]] = f[i - 1] * values[i]
      BY <2>1
    <2> HIDE DEF step
    <2> QED BY <1>2, <2>2
  <1>4. f = Body(f)
    BY <1>2, <1>3
  <1>5. product = Body(product)
    BY <1>4
  <1>6. Len(values) = n
    OBVIOUS
  <1>7. Total(values) = product[n]
    BY <1>6 DEF Total
  <1> HIDE DEF product
  <1>8. product[0] = 1 /\ \A i \in 1 .. n : product[i] = product[i - 1] * values[i]
    BY <1>5
  <1> DEFINE T == {i \in 0 .. n : product[i] = f[i]}
  <1>9. 0 \in T
    BY <1>2, <1>8
  <1>10. \A i \in 0 .. n - 1 : i \in T => i + 1 \in T
    BY <1>3, <1>8
  <1>11. n \in T
    <2> HIDE DEF T
    <2> QED BY <1>9, <1>10, UpTo
  <1> QED BY <1>2, <1>3, <1>7, <1>11

\* Products of naturals.
LEMMA Factors ==
  ASSUME NEW a \in Nat, NEW b \in Nat, NEW c \in Nat, NEW d \in Nat
  PROVE  /\ a * b \in Nat /\ (a * b) * (c * d) = (a * c) * (b * d)
         /\ b >= 1 => a <= a * b
         /\ a >= 1 /\ b >= 1 => a * b >= 1
         /\ b <= c => a * b <= a * c
         /\ a >= 1 /\ a * b < a * c => b < c
  OBVIOUS

\* The total of values that are products, column by column, is the product of the totals.
LEMMA TotalOfProducts ==
  ASSUME NEW n \in Nat, NEW x \in [1 .. n -> Nat], NEW y \in [1 .. n -> Nat], NEW z \in [1 .. n -> Nat],
         \A i \in 1 .. n : z[i] = x[i] * y[i]
  PROVE  Total(z) = Total(x) * Total(y)
  <1>1. PICK f \in [0 .. n -> Nat] : f[0] = 1 /\ (\A i \in 1 .. n : f[i] = f[i - 1] * x[i]) /\ f[n] = Total(x)
    BY TotalSteps
  <1>2. PICK g \in [0 .. n -> Nat] : g[0] = 1 /\ (\A i \in 1 .. n : g[i] = g[i - 1] * y[i]) /\ g[n] = Total(y)
    BY TotalSteps
  <1>3. PICK h \in [0 .. n -> Nat] : h[0] = 1 /\ (\A i \in 1 .. n : h[i] = h[i - 1] * z[i]) /\ h[n] = Total(z)
    BY TotalSteps
  <1> DEFINE T == {i \in 0 .. n : h[i] = f[i] * g[i]}
  <1>4. 0 \in T
    BY <1>1, <1>2, <1>3
  <1>5. ASSUME NEW i \in 0 .. n - 1, i \in T
        PROVE  i + 1 \in T
    <2>1. i + 1 \in 1 .. n /\ (i + 1) - 1 = i /\ i \in 0 .. n
      OBVIOUS
    <2>2. h[i + 1] = h[i] * z[i + 1] /\ f[i + 1] = f[i] * x[i + 1] /\ g[i + 1] = g[i] * y[i + 1]
      BY <1>1, <1>2, <1>3, <2>1
    <2>3. h[i] = f[i] * g[i] /\ z[i + 1] = x[i + 1] * y[i + 1]
      BY <1>5, <2>1
    <2>4. f[i] \in Nat /\ g[i] \in Nat /\ x[i + 1] \in Nat /\ y[i + 1] \in Nat
      BY <2>1
    <2>5. (f[i] * g[i]) * (x[i + 1] * y[i + 1]) = (f[i] * x[i + 1]) * (g[i] * y[i + 1])
      BY ONLY <2>4, Factors
    <2>6. h[i + 1] = f[i + 1] * g[i + 1]
      BY ONLY <2>2, <2>3, <2>5
    <2> QED BY <2>1, <2>6
  <1>6. n \in T
    <2>1. \A i \in 0 .. n - 1 : i \in T => i + 1 \in T
      BY <1>5
    <2> HIDE DEF T
    <2> QED BY <1>4, <2>1, UpTo
  <1> QED BY <1>1, <1>2, <1>3, <1>6

\* Columns that each have a value have one in all.
LEMMA TotalPositive ==
  ASSUME NEW n \in Nat, NEW x \in [1 .. n -> Nat], \A i \in 1 .. n : x[i] >= 1
  PROVE  Total(x) \in Nat /\ Total(x) >= 1
  <1>1. PICK f \in [0 .. n -> Nat] : f[0] = 1 /\ (\A i \in 1 .. n : f[i] = f[i - 1] * x[i]) /\ f[n] = Total(x)
    BY TotalSteps
  <1> DEFINE T == {i \in 0 .. n : f[i] >= 1}
  <1>2. 0 \in T
    BY <1>1
  <1>3. ASSUME NEW i \in 0 .. n - 1, i \in T
        PROVE  i + 1 \in T
    <2>1. i + 1 \in 1 .. n /\ (i + 1) - 1 = i /\ i \in 0 .. n /\ i + 1 \in 0 .. n
      OBVIOUS
    <2>2. f[i + 1] = f[i] * x[i + 1] /\ f[i] >= 1 /\ x[i + 1] >= 1
      BY <1>1, <1>3, <2>1
    <2>3. f[i] \in Nat /\ x[i + 1] \in Nat
      BY <2>1
    <2>4. f[i + 1] >= 1
      BY <2>2, <2>3, Factors
    <2> QED BY <2>1, <2>4
  <1>4. n \in T
    <2>1. \A i \in 0 .. n - 1 : i \in T => i + 1 \in T
      BY <1>3
    <2> HIDE DEF T
    <2> QED BY <1>2, <2>1, UpTo
  <1> QED BY <1>1, <1>4

\* The total where one column has c values and every other has one.
LEMMA TotalOfOne ==
  ASSUME NEW n \in Nat, NEW m \in 1 .. n, NEW c \in Nat, NEW x \in [1 .. n -> Nat],
         \A i \in 1 .. n : x[i] = IF i = m THEN c ELSE 1
  PROVE  Total(x) = c
  <1>1. PICK f \in [0 .. n -> Nat] : f[0] = 1 /\ (\A i \in 1 .. n : f[i] = f[i - 1] * x[i]) /\ f[n] = Total(x)
    BY TotalSteps
  <1> DEFINE T == {i \in 0 .. n : f[i] = IF i < m THEN 1 ELSE c}
  <1>2. 0 \in T
    BY <1>1
  <1>3. ASSUME NEW i \in 0 .. n - 1, i \in T
        PROVE  i + 1 \in T
    <2>1. i + 1 \in 1 .. n /\ (i + 1) - 1 = i /\ i \in 0 .. n /\ i + 1 \in 0 .. n
      OBVIOUS
    <2>2. f[i + 1] = f[i] * x[i + 1]
      BY <1>1, <2>1
    <2>3. CASE i + 1 < m
      BY <1>3, <2>1, <2>2, <2>3
    <2>4. CASE i + 1 = m
      BY <1>3, <2>1, <2>2, <2>4
    <2>5. CASE i + 1 > m
      BY <1>3, <2>1, <2>2, <2>5
    <2> QED BY <2>3, <2>4, <2>5
  <1>4. n \in T
    <2>1. \A i \in 0 .. n - 1 : i \in T => i + 1 \in T
      BY <1>3
    <2> HIDE DEF T
    <2> QED BY <1>2, <2>1, UpTo
  <1> QED BY <1>1, <1>4

\* Division rounds down.
LEMMA Division ==
  ASSUME NEW a \in Nat, NEW b \in Nat \ {0}, NEW v \in Nat
  PROVE  /\ a \div b \in Nat
         /\ v <= a \div b <=> b * v <= a
         /\ a < b * (a \div b + 1)
  OBVIOUS
-----------------------------------------------------------------------------
(***************************************************************************)
(* One PIVOT: its columns that are not dynamic, and the two shapes.        *)
(***************************************************************************)
\* The arithmetic of idx_t below its last value.
LEMMA NoWrap ==
  ASSUME limit \in Idx, NEW v \in 0 .. limit
  PROVE  Wrap(v) = v
  <1>1. PICK M : M = 2 ^ Width
    OBVIOUS
  <1>2. M \in Nat \ {0} /\ limit \in 0 .. M - 1 /\ Wrap(v) = v % M
    BY <1>1, WidthAssumption DEF Idx, Wrap
  <1> QED BY <1>2

\* A total as the code keeps it: saturated at the limit.
Saturated(total) == IF total < limit THEN total ELSE limit

\* The multiply lambda multiplies saturated totals, and never wraps.
LEMMA MultiplySaturates ==
  ASSUME limit \in Idx, limit \in Nat \ {0}, NEW total \in Nat, NEW v \in Nat
  PROVE  Multiply(Saturated(total), v) = Saturated(total * v) /\ Saturated(total) \in Nat
  <1> DEFINE fixed == Saturated(total)
  <1>1. fixed \in Nat /\ (total < limit => fixed = total) /\ (~(total < limit) => fixed = limit)
    BY DEF Saturated
  <1>2. CASE v = 0 \/ fixed = 0
    <2>1. total * v = 0
      BY <1>1, <1>2
    <2>2. Multiply(fixed, v) = 0
      BY <1>2 DEF Multiply
    <2> QED BY <1>1, <2>1, <2>2 DEF Saturated
  <1>3. CASE v # 0 /\ fixed # 0 /\ v > limit \div fixed
    <2>1. ~(fixed * v <= limit)
      BY <1>1, <1>3, Division
    <2>2. fixed <= total
      BY <1>1
    <2>3. fixed * v <= total * v
      BY <1>1, <2>2
    <2>4. Saturated(total * v) = limit
      BY <1>1, <2>1, <2>3 DEF Saturated
    <2>5. Multiply(fixed, v) = limit
      BY <1>3 DEF Multiply
    <2> QED BY <1>1, <2>4, <2>5
  <1>4. CASE v # 0 /\ fixed # 0 /\ ~(v > limit \div fixed)
    <2>1. limit \div fixed \in Nat /\ fixed * v \in Nat /\ fixed * v <= limit
      BY <1>1, <1>4, Division
    <2>2. Multiply(fixed, v) = fixed * v
      BY <1>4, <2>1, NoWrap DEF Multiply
    <2>3. CASE total < limit
      BY <1>1, <2>1, <2>2, <2>3 DEF Saturated
    <2>4. CASE ~(total < limit)
      <3>1. fixed = limit /\ v = 1
        BY <1>1, <1>4, <2>1, <2>4
      <3> QED BY <1>1, <2>2, <2>4, <3>1 DEF Saturated
    <2> QED BY <2>3, <2>4
  <1> QED BY <1>1, <1>2, <1>3, <1>4

\* Every dynamic column with one value.
Ones(columns) == [i \in DOMAIN columns |-> IF columns[i].dynamic THEN 1 ELSE columns[i].values]

\* What a column is.
LEMMA ColumnShape ==
  ASSUME NEW column \in Columns
  PROVE  column.dynamic \in BOOLEAN /\ column.values \in Nat
  <1>1. MaxValues \in Nat
    BY WidthAssumption
  <1>2. CASE column \in [dynamic : {FALSE}, values : 0 .. MaxValues]
    <2>1. column.dynamic = FALSE
      BY <1>2, Zenon
    <2>2. column.values \in 0 .. MaxValues
      BY <1>2
    <2>3. column.values \in Nat
      BY <1>1, <2>2
    <2> QED BY <2>1, <2>3
  <1>3. CASE column \in [dynamic : {TRUE}, values : {0}]
    <2>1. column.dynamic = TRUE
      BY <1>3, Zenon
    <2>2. column.values \in Nat
      BY <1>3
    <2> QED BY <2>1, <2>2
  <1> QED BY <1>2, <1>3 DEF Columns

\* The loop over the columns computes the saturated total of those that are not dynamic.
LEMMA FixedIsSaturated ==
  ASSUME limit \in Idx, limit \in Nat \ {0}, NEW n \in Nat, NEW columns \in [1 .. n -> Columns]
  PROVE  Fixed(columns) = Saturated(Total(Ones(columns)))
  <1> DEFINE ones == Ones(columns)
             fixed == CHOOSE f : f = [i \in 0 .. n |->
                                        IF i = 0 THEN 1
                                        ELSE IF columns[i].dynamic THEN f[i - 1] ELSE Multiply(f[i - 1], columns[i].values)]
  <1>1. \A i \in 1 .. n : columns[i].dynamic \in BOOLEAN /\ columns[i].values \in Nat
    BY ColumnShape
  <1>2. ones \in [1 .. n -> Nat] /\ \A i \in 1 .. n : ones[i] = IF columns[i].dynamic THEN 1 ELSE columns[i].values
    BY <1>1 DEF Ones
  <1> HIDE DEF ones
  <1>3. PICK f \in [0 .. n -> Nat] : f[0] = 1 /\ (\A i \in 1 .. n : f[i] = f[i - 1] * ones[i]) /\ f[n] = Total(ones)
    BY <1>2, TotalSteps
  <1> DEFINE g == [i \in 0 .. n |-> Saturated(f[i])]
  <1>4. Saturated(1) = 1
    BY DEF Saturated
  <1>5. ASSUME NEW i \in 1 .. n
        PROVE  g[i] = IF columns[i].dynamic THEN g[i - 1] ELSE Multiply(g[i - 1], columns[i].values)
    <2>1. i \in 0 .. n /\ i - 1 \in 0 .. n /\ f[i - 1] \in Nat /\ f[i] = f[i - 1] * ones[i]
      BY <1>3
    <2>2. g[i] = Saturated(f[i]) /\ g[i - 1] = Saturated(f[i - 1])
      BY <2>1
    <2>3. CASE columns[i].dynamic
      <3>1. f[i] = f[i - 1]
        BY <1>2, <2>1, <2>3
      <3> QED BY <2>2, <2>3, <3>1
    <2>4. CASE ~columns[i].dynamic
      <3>1. f[i] = f[i - 1] * columns[i].values /\ columns[i].values \in Nat
        BY <1>1, <1>2, <2>1, <2>4
      <3>2. Multiply(Saturated(f[i - 1]), columns[i].values) = Saturated(f[i])
        BY <2>1, <3>1, MultiplySaturates
      <3> QED BY <2>2, <2>4, <3>2
    <2> QED BY <1>1, <2>3, <2>4
  <1>6. g[0] = 1
    BY <1>3, <1>4
  <1>7. g = [i \in 0 .. n |-> IF i = 0 THEN 1
                              ELSE IF columns[i].dynamic THEN g[i - 1] ELSE Multiply(g[i - 1], columns[i].values)]
    <2>1. \A i \in 0 .. n : i = 0 \/ i \in 1 .. n
      OBVIOUS
    <2>2. g = [i \in 0 .. n |-> g[i]]
      OBVIOUS
    <2> HIDE DEF g
    <2> QED BY <1>5, <1>6, <2>1, <2>2
  <1> HIDE DEF g
  <1>8. fixed = [i \in 0 .. n |-> IF i = 0 THEN 1
                                  ELSE IF columns[i].dynamic THEN fixed[i - 1] ELSE Multiply(fixed[i - 1], columns[i].values)]
    BY <1>7
  <1>9. Len(columns) = n
    OBVIOUS
  <1>10. Fixed(columns) = fixed[n]
    BY <1>9 DEF Fixed
  <1> HIDE DEF fixed
  <1> DEFINE T == {i \in 0 .. n : fixed[i] = g[i]}
  <1>11. 0 \in T
    BY <1>6, <1>8
  <1>12. \A i \in 0 .. n - 1 : i \in T => i + 1 \in T
    <2> SUFFICES ASSUME NEW i \in 0 .. n - 1, i \in T PROVE i + 1 \in T
      OBVIOUS
    <2>1. i + 1 \in 1 .. n /\ i + 1 \in 0 .. n /\ (i + 1) - 1 = i /\ i + 1 # 0
      OBVIOUS
    <2>2. fixed[i + 1] = IF columns[i + 1].dynamic THEN fixed[i] ELSE Multiply(fixed[i], columns[i + 1].values)
      BY <1>8, <2>1
    <2>3. g[i + 1] = IF columns[i + 1].dynamic THEN g[i] ELSE Multiply(g[i], columns[i + 1].values)
      BY <1>5, <2>1
    <2> QED BY <2>1, <2>2, <2>3
  <1>13. n \in T
    <2> HIDE DEF T
    <2> QED BY <1>11, <1>12, UpTo
  <1>14. g[n] = Saturated(Total(ones))
    BY <1>3 DEF g
  <1> QED BY <1>10, <1>13, <1>14 DEF ones

\* The large count passes the threshold under the limit, and there is one whenever any number of values does.
LEMMA LargeCountIsLeast ==
  ASSUME threshold \in Idx, limit \in Idx, NEW fixed \in Nat
  PROVE  /\ LargeCount(fixed) \in Nat \ {0}
         /\ LargeCount(fixed) # 1 => threshold < fixed * LargeCount(fixed) /\ fixed * LargeCount(fixed) < limit
         /\ \A d \in Nat : fixed <= threshold /\ threshold < fixed * d /\ fixed * d < limit => LargeCount(fixed) > 1
  <1> DEFINE q == threshold \div fixed
             candidate == Wrap(q + 1)
             r == (limit - 1) \div fixed
  <1>1. threshold \in Nat /\ limit \in Nat
    BY WidthAssumption DEF Idx
  <1>2. CASE ~(fixed > 0 /\ fixed <= threshold /\ limit > 0)
    <2>1. LargeCount(fixed) = 1
      BY <1>2 DEF LargeCount
    <2>2. ASSUME NEW d \in Nat, fixed <= threshold, threshold < fixed * d, fixed * d < limit
          PROVE  FALSE
      <3>1. fixed = 0
        BY <1>1, <1>2, <2>2
      <3>2. fixed * d = 0
        BY <3>1
      <3> QED BY <1>1, <2>2, <3>2
    <2> QED BY <2>1, <2>2
  <1>3. CASE fixed > 0 /\ fixed <= threshold /\ limit > 0
    <2>1. LargeCount(fixed) = IF candidate > 0 /\ candidate <= r THEN candidate ELSE 1
      BY <1>3 DEF LargeCount
    <2>2. q \in Nat /\ q >= 1 /\ threshold < fixed * (q + 1)
      BY <1>1, <1>3, Division
    <2>3. limit - 1 \in Nat /\ r \in Nat /\ fixed \in Nat \ {0}
      BY <1>1, <1>3, Division
    <2>4. candidate \in Nat
      <3>1. PICK M : M = 2 ^ Width
        OBVIOUS
      <3>2. M \in Nat \ {0} /\ candidate = (q + 1) % M
        BY <3>1, WidthAssumption DEF Wrap
      <3> HIDE DEF candidate, q
      <3> QED BY <2>2, <3>2
    <2>5. candidate = 0 \/ candidate = q + 1
      <3>1. PICK M : M = 2 ^ Width
        OBVIOUS
      <3>2. M \in Nat \ {0} /\ threshold \in 0 .. M - 1 /\ candidate = (q + 1) % M
        BY <3>1, WidthAssumption DEF Wrap, Idx
      <3>3. fixed * q <= threshold
        BY <1>1, <2>2, <2>3, Division
      <3>4. q <= fixed * q
        BY <2>2, <2>3
      <3>5. q + 1 <= M
        BY <1>1, <2>2, <3>2, <3>3, <3>4
      <3> HIDE DEF candidate, q
      <3>6. CASE q + 1 = M
        BY <2>2, <3>2, <3>6
      <3>7. CASE q + 1 < M
        BY <2>2, <3>2, <3>7
      <3> QED BY <2>2, <3>2, <3>5, <3>6, <3>7
    <2> HIDE DEF candidate, q
    <2>6. ASSUME candidate > 0, candidate <= r
          PROVE  candidate > 1 /\ threshold < fixed * candidate /\ fixed * candidate < limit
      <3>1. candidate = q + 1
        BY <2>5, <2>6
      <3>2. fixed * candidate <= limit - 1
        BY <2>3, <2>4, <2>6, Division
      <3>3. fixed * candidate \in Nat
        BY <2>4
      <3> QED BY <1>1, <2>2, <3>1, <3>2, <3>3
    <2>7. ASSUME NEW d \in Nat, threshold < fixed * d, fixed * d < limit
          PROVE  candidate > 0 /\ candidate <= r
      <3>1. fixed * q <= threshold
        BY <1>1, <2>2, <2>3, Division DEF q
      <3>2. fixed * q < fixed * d
        BY <1>1, <2>2, <2>7, <3>1
      <3>3. q < d
        BY <2>2, <2>3, <3>2, Factors
      <3>4. fixed * (q + 1) <= fixed * d
        BY <2>2, <3>3, Factors
      <3>5. fixed * (q + 1) <= limit - 1
        BY <1>1, <2>2, <2>7, <3>4
      <3>6. q + 1 <= r
        BY <2>2, <2>3, <3>5, Division
      <3>7. q + 1 <= fixed * (q + 1)
        BY <2>2, <2>3
      <3>8. q + 1 \in 0 .. limit
        BY <1>1, <2>2, <3>5, <3>7
      <3>9. candidate = q + 1
        BY <3>8, NoWrap DEF candidate
      <3> QED BY <2>2, <3>6, <3>9
    <2> HIDE DEF r
    <2> QED BY <2>1, <2>4, <2>6, <2>7
  <1> QED BY <1>2, <1>3

\* The first dynamic column is one.
LEMMA FirstDynamic ==
  ASSUME NEW n \in Nat, NEW columns \in [1 .. n -> Columns], Dynamic(columns) # {}
  PROVE  Min(Dynamic(columns)) \in 1 .. n /\ columns[Min(Dynamic(columns))].dynamic
  <1> DEFINE D == Dynamic(columns)
  <1>1. D \subseteq 1 .. n /\ \A i \in D : columns[i].dynamic
    BY DEF Dynamic
  <1> HIDE DEF D
  <1>2. D \in SUBSET Nat
    BY <1>1
  <1>3. PICK x \in D : \A y \in D : ~(<<y, x>> \in OpToRel(<, Nat))
    BY <1>2, NatLessThanWellFounded, WFMin DEF D
  <1>4. \A y \in D : x <= y
    <2> SUFFICES ASSUME NEW y \in D PROVE x <= y
      OBVIOUS
    <2>1. ~(y < x)
      BY <1>2, <1>3 DEF OpToRel
    <2> QED BY <1>2, <2>1
  <1>5. Min(D) \in D
    BY <1>4 DEF Min
  <1> QED BY <1>1, <1>5 DEF D

\* The totals of the two shapes, and of any the data may take: the columns that are not dynamic make the small one.
LEMMA Totals ==
  ASSUME NEW n \in Nat, NEW columns \in [1 .. n -> Columns], threshold \in Idx, limit \in Idx
  PROVE  /\ Substituted(columns, FALSE) = Ones(columns) /\ Total(Ones(columns)) \in Nat
         /\ Dynamic(columns) = {} => Substituted(columns, TRUE) = Ones(columns)
         /\ Dynamic(columns) # {} /\ LargeCount(Fixed(columns)) \in Nat =>
              Total(Substituted(columns, TRUE)) = Total(Ones(columns)) * LargeCount(Fixed(columns))
         /\ \A data \in [Dynamic(columns) -> 1 .. MaxValues] :
              LET values == [i \in DOMAIN columns |-> IF columns[i].dynamic THEN data[i] ELSE columns[i].values]
              IN  \E d \in Nat \ {0} : Total(values) = Total(Ones(columns)) * d /\ (Dynamic(columns) = {} => d = 1)
  <1> DEFINE ones == Ones(columns)
             count == LargeCount(Fixed(columns))
             first == Min(Dynamic(columns))
             D == Dynamic(columns)
  <1>1. /\ DOMAIN columns = 1 .. n
        /\ \A i \in 1 .. n : columns[i].dynamic \in BOOLEAN /\ columns[i].values \in Nat
        /\ \A i \in 1 .. n : i \in D <=> columns[i].dynamic
    BY ColumnShape DEF Dynamic
  <1>2. ones = [i \in 1 .. n |-> IF columns[i].dynamic THEN 1 ELSE columns[i].values]
    BY <1>1 DEF Ones
  <1>3. ones \in [1 .. n -> Nat]
    BY <1>1, <1>2
  <1>4. Total(ones) \in Nat
    <2>1. \E f \in [0 .. n -> Nat] : f[n] = Total(ones)
      <3> HIDE DEF ones
      <3> QED BY <1>3, TotalSteps
    <2> QED BY <2>1
  <1>5. Substituted(columns, FALSE) = ones
    BY <1>1, <1>2 DEF Substituted
  <1>6. ASSUME D = {} PROVE Substituted(columns, TRUE) = ones
    <2>1. \A i \in 1 .. n : ~columns[i].dynamic
      BY <1>1, <1>6
    <2> QED BY <1>1, <1>2, <2>1 DEF Substituted
  <1>7. ASSUME D # {}, count \in Nat
        PROVE  Total(Substituted(columns, TRUE)) = Total(ones) * count
    <2>1. first \in 1 .. n /\ columns[first].dynamic
      BY <1>7, FirstDynamic
    <2> DEFINE z == Substituted(columns, TRUE)
               y == [i \in 1 .. n |-> IF i = first THEN count ELSE 1]
    <2>2. z = [i \in 1 .. n |-> IF ~columns[i].dynamic THEN columns[i].values
                                ELSE IF i = first THEN count ELSE 1]
      BY <1>1 DEF Substituted
    <2> HIDE DEF first, count, z, ones
    <2>3. z \in [1 .. n -> Nat] /\ y \in [1 .. n -> Nat]
      BY <1>1, <1>7, <2>2
    <2>4. \A i \in 1 .. n : z[i] = ones[i] * y[i]
      <3> SUFFICES ASSUME NEW i \in 1 .. n PROVE z[i] = ones[i] * y[i]
        OBVIOUS
      <3>1. CASE ~columns[i].dynamic
        BY <1>1, <1>2, <2>1, <2>2, <3>1
      <3>2. CASE columns[i].dynamic
        BY <1>2, <1>7, <2>2, <3>2
      <3> QED BY <3>1, <3>2
    <2>5. Total(y) = count
      <3>1. \A i \in 1 .. n : y[i] = IF i = first THEN count ELSE 1
        OBVIOUS
      <3> HIDE DEF y
      <3> QED BY <1>7, <2>1, <2>3, <3>1, TotalOfOne
    <2> HIDE DEF y
    <2>6. Total(z) = Total(ones) * Total(y)
      BY <1>3, <2>3, <2>4, TotalOfProducts
    <2> QED BY <2>5, <2>6 DEF z
  <1>8. ASSUME NEW data \in [D -> 1 .. MaxValues]
        PROVE  LET values == [i \in DOMAIN columns |-> IF columns[i].dynamic THEN data[i] ELSE columns[i].values]
               IN  \E d \in Nat \ {0} : Total(values) = Total(ones) * d /\ (D = {} => d = 1)
    <2> DEFINE z == [i \in DOMAIN columns |-> IF columns[i].dynamic THEN data[i] ELSE columns[i].values]
               y == [i \in 1 .. n |-> IF columns[i].dynamic THEN data[i] ELSE 1]
    <2>1. MaxValues \in Nat
      BY WidthAssumption
    <2>2. \A i \in 1 .. n : columns[i].dynamic => data[i] \in Nat /\ data[i] >= 1
      BY <1>1, <2>1
    <2>3. z = [i \in 1 .. n |-> IF columns[i].dynamic THEN data[i] ELSE columns[i].values]
      BY <1>1
    <2> HIDE DEF z, ones
    <2>4. z \in [1 .. n -> Nat] /\ y \in [1 .. n -> Nat]
      BY <1>1, <2>2, <2>3
    <2>5. \A i \in 1 .. n : z[i] = ones[i] * y[i] /\ y[i] >= 1
      <3> SUFFICES ASSUME NEW i \in 1 .. n PROVE z[i] = ones[i] * y[i] /\ y[i] >= 1
        OBVIOUS
      <3>1. CASE ~columns[i].dynamic
        BY <1>1, <1>2, <2>3, <3>1
      <3>2. CASE columns[i].dynamic
        BY <1>2, <2>2, <2>3, <3>2
      <3> QED BY <3>1, <3>2
    <2>6. D = {} => z = ones
      <3>1. D = {} => \A i \in 1 .. n : ~columns[i].dynamic
        BY <1>1
      <3> QED BY <1>2, <2>3, <3>1
    <2> HIDE DEF y
    <2>7. Total(z) = Total(ones) * Total(y)
      BY <1>3, <2>4, <2>5, TotalOfProducts
    <2>8. Total(y) \in Nat \ {0}
      BY <2>4, <2>5, TotalPositive
    <2>9. D = {} => Total(z) = Total(ones) * 1
      BY <1>4, <2>6
    <2>10. \E d \in Nat \ {0} : Total(z) = Total(ones) * d /\ (D = {} => d = 1)
      BY <2>7, <2>8, <2>9
    <2> QED BY <2>10 DEF z
  <1> QED BY <1>4, <1>5, <1>6, <1>7, <1>8

\* Values of idx_t are numbers.
LEMMA IdxNat == Idx \subseteq Nat
  <1>1. PICK M : M = 2 ^ Width
    OBVIOUS
  <1>2. M \in Nat /\ Idx = 0 .. M - 1
    BY <1>1, WidthAssumption DEF Idx
  <1> QED BY <1>2

\* The engine's choice, from the total.
LEMMA ShapeOf ==
  ASSUME threshold \in Nat, limit \in Nat, NEW values, NEW total \in Nat, Total(values) = total
  PROVE  /\ Shape(values) = "rejected" <=> limit <= total
         /\ Shape(values) = "filter" <=> total < limit /\ total <= threshold
         /\ Shape(values) = "list" <=> total < limit /\ threshold < total
         /\ Shape(values) \in {"rejected", "filter", "list"}
  BY DEF Shape

\* Where the small shape is legal, what the code computed of the columns is its total.
LEMMA FixedIsTotal ==
  ASSUME NEW n \in Nat, NEW columns \in [1 .. n -> Columns], threshold \in Idx, limit \in Idx
  PROVE  /\ Total(Ones(columns)) < limit => Fixed(columns) = Total(Ones(columns))
         /\ LargeCount(Fixed(columns)) \in Nat \ {0}
  <1>1. limit \in Nat /\ Total(Ones(columns)) \in Nat
    BY IdxNat, Totals
  <1>2. CASE limit = 0
    <2>1. LargeCount(Fixed(columns)) = 1
      BY <1>2 DEF LargeCount
    <2> QED BY <1>1, <1>2, <2>1
  <1>3. CASE limit # 0
    <2>1. Fixed(columns) = Saturated(Total(Ones(columns)))
      BY <1>1, <1>3, FixedIsSaturated
    <2>2. Fixed(columns) \in Nat
      BY <1>1, <2>1 DEF Saturated
    <2> QED BY <2>1, <2>2, LargeCountIsLeast DEF Saturated
  <1> QED BY <1>2, <1>3

\* A PIVOT the engine accepts is planned in the small shape, or in the large one, which then differs.
LEMMA PivotCovered ==
  ASSUME NEW n \in Nat, NEW columns \in [1 .. n -> Columns], threshold \in Idx, limit \in Idx,
         NEW data \in [Dynamic(columns) -> 1 .. MaxValues]
  PROVE  LET values == [i \in DOMAIN columns |-> IF columns[i].dynamic THEN data[i] ELSE columns[i].values]
         IN  Shape(values) # "rejected" =>
               \/ Shape(Substituted(columns, FALSE)) = Shape(values)
               \/ /\ Shape(Substituted(columns, TRUE)) = Shape(values)
                  /\ Dynamic(columns) # {} /\ LargeCount(Fixed(columns)) > 1
  <1> DEFINE values == [i \in DOMAIN columns |-> IF columns[i].dynamic THEN data[i] ELSE columns[i].values]
             small == Total(Ones(columns))
             count == LargeCount(Fixed(columns))
  <1>1. threshold \in Nat /\ limit \in Nat /\ small \in Nat /\ count \in Nat \ {0}
    BY IdxNat, Totals, FixedIsTotal
  <1>2. PICK d \in Nat \ {0} : Total(values) = small * d /\ (Dynamic(columns) = {} => d = 1)
    BY Totals
  <1>3. Substituted(columns, FALSE) = Ones(columns)
    BY Totals
  <1>4. small < limit => Fixed(columns) = small
    BY FixedIsTotal
  <1>5. Dynamic(columns) # {} => Total(Substituted(columns, TRUE)) = small * count
    BY <1>1, Totals
  <1>6. small * d \in Nat /\ small <= small * d
    BY <1>1, Factors
  <1> HIDE DEF values, small, count
  <1> SUFFICES ASSUME Shape(values) # "rejected"
               PROVE  \/ Shape(Substituted(columns, FALSE)) = Shape(values)
                      \/ /\ Shape(Substituted(columns, TRUE)) = Shape(values)
                         /\ Dynamic(columns) # {} /\ count > 1
    BY DEF values, count
  <1>7. small * d < limit /\ small < limit
    <2>1. small * d < limit
      BY <1>1, <1>2, <1>6, ShapeOf
    <2> QED BY <1>1, <1>6, <2>1
  <1>8. CASE small > threshold \/ small * d <= threshold
    <2>1. Total(Substituted(columns, FALSE)) = small
      BY <1>3 DEF small
    <2>2. CASE small > threshold
      <3>1. threshold < small * d
        BY <1>1, <1>6, <2>2
      <3>2. Shape(values) = "list" /\ Shape(Substituted(columns, FALSE)) = "list"
        BY <1>1, <1>2, <1>6, <1>7, <2>1, <2>2, <3>1, ShapeOf
      <3> QED BY <3>2
    <2>3. CASE small * d <= threshold
      <3>1. small <= threshold
        BY <1>1, <1>6, <2>3
      <3>2. Shape(values) = "filter" /\ Shape(Substituted(columns, FALSE)) = "filter"
        BY <1>1, <1>2, <1>6, <1>7, <2>1, <2>3, <3>1, ShapeOf
      <3> QED BY <3>2
    <2> QED BY <1>8, <2>2, <2>3
  <1>9. CASE small <= threshold /\ threshold < small * d
    <2>1. Fixed(columns) = small
      BY <1>4, <1>7
    <2>2. count > 1 /\ threshold < small * count /\ small * count < limit
      <3>1. count = LargeCount(small)
        BY <2>1 DEF count
      <3>2. LargeCount(small) > 1
        BY <1>1, <1>7, <1>9, LargeCountIsLeast
      <3>3. threshold < small * LargeCount(small) /\ small * LargeCount(small) < limit
        <4>1. LargeCount(small) # 1
          BY <3>2
        <4> QED BY <1>1, <4>1, LargeCountIsLeast
      <3> QED BY <3>1, <3>2, <3>3
    <2>3. Dynamic(columns) # {}
      BY <1>1, <1>2, <1>9
    <2>4. Shape(Substituted(columns, TRUE)) = "list"
      <3>1. small * count \in Nat
        BY <1>1
      <3>2. Total(Substituted(columns, TRUE)) = small * count
        BY <1>5, <2>3
      <3> QED BY <1>1, <2>2, <3>1, <3>2, ShapeOf
    <2>5. Shape(values) = "list"
      BY <1>1, <1>2, <1>6, <1>7, <1>9, ShapeOf
    <2> QED BY <2>2, <2>3, <2>4, <2>5
  <1>10. (small > threshold \/ small * d <= threshold) \/ (small <= threshold /\ threshold < small * d)
    BY <1>1, <1>6
  <1> QED BY <1>8, <1>9, <1>10

\* The large shape has as many values in every column as the small one, and is legal if that is and they differ.
LEMMA LargeAgainstSmall ==
  ASSUME NEW n \in Nat, NEW columns \in [1 .. n -> Columns], threshold \in Idx, limit \in Idx
  PROVE  LET small == Substituted(columns, FALSE)
             large_ == Substituted(columns, TRUE)
         IN  /\ DOMAIN small = DOMAIN large_ /\ \A i \in DOMAIN small : small[i] <= large_[i]
             /\ large_ # small /\ Shape(small) # "rejected" => Shape(large_) # "rejected"
  <1> DEFINE small == Substituted(columns, FALSE)
             big == Substituted(columns, TRUE)
             total == Total(Ones(columns))
             count == LargeCount(Fixed(columns))
  <1>1. threshold \in Nat /\ limit \in Nat /\ total \in Nat /\ count \in Nat \ {0}
    BY IdxNat, Totals, FixedIsTotal
  <1>2. DOMAIN columns = 1 .. n /\ \A i \in 1 .. n : columns[i].values \in Nat
    BY ColumnShape
  <1>3. DOMAIN small = 1 .. n /\ DOMAIN big = 1 .. n
    BY <1>2 DEF Substituted
  <1>4. \A i \in 1 .. n : small[i] <= big[i]
    <2> SUFFICES ASSUME NEW i \in 1 .. n PROVE small[i] <= big[i]
      OBVIOUS
    <2>1. CASE ~columns[i].dynamic
      BY <1>2, <2>1 DEF Substituted
    <2>2. CASE columns[i].dynamic
      <3>1. small[i] = 1 /\ big[i] \in {1, count}
        BY <1>2, <2>2 DEF Substituted
      <3> HIDE DEF small, big, count
      <3>2. CASE big[i] = 1
        BY <3>1, <3>2
      <3>3. CASE big[i] = count
        BY <1>1, <3>1, <3>3
      <3> QED BY <3>1, <3>2, <3>3
    <2> QED BY <2>1, <2>2
  <1>5. ASSUME big # small, Shape(small) # "rejected" PROVE Shape(big) # "rejected"
    <2>1. small = Ones(columns) /\ Dynamic(columns) # {}
      BY <1>5, Totals
    <2>2. total < limit
      <3>1. Total(small) = total
        BY <2>1
      <3> HIDE DEF total, small
      <3> QED BY <1>1, <1>5, <3>1, ShapeOf
    <2>3. Fixed(columns) = total
      BY <2>2, FixedIsTotal
    <2>4. count # 1
      <3> SUFFICES ASSUME count = 1 PROVE big = small
        BY <1>5
      <3> QED BY <1>2 DEF Substituted
    <2>5. Total(big) = total * count
      BY <1>1, <2>1, Totals
    <2>6. total * count < limit
      <3>1. count = LargeCount(total)
        BY <2>3
      <3> HIDE DEF total, count
      <3> QED BY <1>1, <2>4, <3>1, LargeCountIsLeast
    <2> HIDE DEF total, count, big
    <2>7. total * count \in Nat
      BY <1>1
    <2> QED BY <1>1, <2>5, <2>6, <2>7, ShapeOf
  <1> QED BY <1>3, <1>4, <1>5
-----------------------------------------------------------------------------
(***************************************************************************)
(* The loop of Authorize.                                                  *)
(***************************************************************************)
Shapes(isLarge) == [k \in DOMAIN pivots |-> Substituted(pivots[k], isLarge)]

\* The small shape is bound first, and the large one after it where it differs.
IInv ==
  /\ threshold \in Idx /\ limit \in Idx
  /\ pivots \in [1 .. 2 -> UNION {[1 .. n -> Columns] : n \in 1 .. MaxColumns}]
  /\ large \in {"no", "yes", "done"}
  /\ large = "no" => bound = {}
  /\ large = "yes" => bound = {Shapes(FALSE)}
  /\ large = "done" => bound = {Shapes(FALSE)} \union IF Distinct THEN {Shapes(TRUE)} ELSE {}

\* In every behaviour, for every width, threshold and limit, the statement is bound in the small shape and, where any
\* PIVOT's large shape differs, in the large one (check.cpp, Authorize).
THEOREM Invariant == Spec => []IInv
  <1>1. Init => IInv
    BY DEF Init, IInv
  <1>2. IInv /\ [Next]_vars => IInv'
    <2> SUFFICES ASSUME IInv, [Next]_vars PROVE IInv'
      OBVIOUS
    <2>1. CASE UNCHANGED <<threshold, limit, pivots>>
      <3>1. Shapes(FALSE)' = Shapes(FALSE) /\ Shapes(TRUE)' = Shapes(TRUE) /\ (Distinct' <=> Distinct)
        BY <2>1 DEF Shapes, Substituted, Dynamic, Distinct, LargeCount, Fixed, Multiply
      <3>2. CASE BindSmall
        BY <2>1, <3>1, <3>2 DEF BindSmall, Bind, IInv, Shapes
      <3>3. CASE BindLarge
        BY <2>1, <3>1, <3>3 DEF BindLarge, Bind, IInv, Shapes
      <3>4. CASE UNCHANGED vars
        BY <2>1, <3>1, <3>4 DEF vars, IInv
      <3> QED BY <3>2, <3>3, <3>4 DEF Next
    <2> QED BY <2>1 DEF Next, BindSmall, BindLarge, vars
  <1> QED BY <1>1, <1>2, PTL DEF Spec

\* Whatever the data, the widths and the limits are, every plan the engine can produce for a dynamic PIVOT it accepts
\* has a shape that was bound and authorized (check.cpp, SubstitutePivotEnums).
THEOREM ShapesAreCovered == Spec => []ShapesCover
  <1>1. IInv => ShapesCover
    <2> SUFFICES ASSUME IInv, large = "done", NEW k \in DOMAIN pivots,
                        NEW data \in [Dynamic(pivots[k]) -> 1 .. MaxValues],
                        Shape([i \in DOMAIN pivots[k] |-> IF pivots[k][i].dynamic THEN data[i] ELSE pivots[k][i].values])
                          # "rejected"
                 PROVE  \E binding \in bound :
                          Shape(binding[k]) =
                            Shape([i \in DOMAIN pivots[k] |->
                                     IF pivots[k][i].dynamic THEN data[i] ELSE pivots[k][i].values])
      BY DEF ShapesCover
    <2>1. threshold \in Idx /\ limit \in Idx
      BY DEF IInv
    <2>2. PICK n \in Nat : pivots[k] \in [1 .. n -> Columns]
      <3>1. pivots[k] \in UNION {[1 .. n -> Columns] : n \in 1 .. MaxColumns}
        BY DEF IInv
      <3>2. PICK n \in 1 .. MaxColumns : pivots[k] \in [1 .. n -> Columns]
        BY <3>1
      <3>3. n \in Nat
        BY MaxColumnsAssumption
      <3> QED BY <3>2, <3>3
    <2>3. Shapes(FALSE) \in bound /\ (Distinct => Shapes(TRUE) \in bound)
      BY DEF IInv
    <2>4. Shapes(FALSE)[k] = Substituted(pivots[k], FALSE) /\ Shapes(TRUE)[k] = Substituted(pivots[k], TRUE)
      BY DEF Shapes
    <2>5. Dynamic(pivots[k]) # {} /\ LargeCount(Fixed(pivots[k])) > 1 => Distinct
      BY DEF Distinct
    <2> QED BY <2>1, <2>2, <2>3, <2>4, <2>5, PivotCovered
  <1> QED BY <1>1, Invariant, PTL

\* For every width and limit, a statement whose small shape is legal is never refused because of the values the large
\* one was given (check.cpp, "staying under pivot_limit").
THEOREM LargeShapeIsLegal == Spec => []LargeIsLegal
  <1>1. IInv => LargeIsLegal
    <2> SUFFICES ASSUME IInv, NEW binding \in bound, NEW other \in bound, NEW k \in DOMAIN pivots,
                        Shape(other[k]) # "rejected", binding[k] # other[k]
                 PROVE  \/ Shape(binding[k]) # "rejected"
                        \/ \A i \in DOMAIN binding[k] : binding[k][i] <= other[k][i]
      BY DEF LargeIsLegal
    <2>1. threshold \in Idx /\ limit \in Idx
      BY DEF IInv
    <2>2. PICK n \in Nat : pivots[k] \in [1 .. n -> Columns]
      <3>1. pivots[k] \in UNION {[1 .. n -> Columns] : n \in 1 .. MaxColumns}
        BY DEF IInv
      <3>2. PICK n \in 1 .. MaxColumns : pivots[k] \in [1 .. n -> Columns]
        BY <3>1
      <3>3. n \in Nat
        BY MaxColumnsAssumption
      <3> QED BY <3>2, <3>3
    <2>3. bound \subseteq {Shapes(FALSE), Shapes(TRUE)}
      BY DEF IInv
    <2>4. Shapes(FALSE)[k] = Substituted(pivots[k], FALSE) /\ Shapes(TRUE)[k] = Substituted(pivots[k], TRUE)
      BY DEF Shapes
    <2>5. CASE binding = Shapes(TRUE) /\ other = Shapes(FALSE)
      BY <2>1, <2>2, <2>4, <2>5, LargeAgainstSmall
    <2>6. CASE binding = Shapes(FALSE) /\ other = Shapes(TRUE)
      BY <2>1, <2>2, <2>4, <2>6, LargeAgainstSmall
    <2> QED BY <2>3, <2>5, <2>6
  <1> QED BY <1>1, Invariant, PTL
=============================================================================
