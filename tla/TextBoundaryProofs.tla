------------------------- MODULE TextBoundaryProofs -------------------------
(***************************************************************************)
(* The walk of the serialized statement (validator.cpp, Walker::Check),    *)
(* for every text, every grammar and every pair of limits; and the logged  *)
(* text (audit.cpp, StatementText), for every text and every limit on what *)
(* is logged.                                                              *)
(***************************************************************************)
EXTENDS TextBoundary, SequenceTheorems, FiniteSetTheorems, WellFoundedInduction, TLAPS

\* The bytes of a text, by their part in a character.
B == {"ascii", "nul", "lead", "continuation"}

\* Induction up to a bound, over a set of numbers.
LEMMA UpTo ==
  ASSUME NEW n \in Nat, NEW S, 0 \in S, \A i \in 0 .. n - 1 : i \in S => i + 1 \in S
  PROVE  n \in S
  <1> DEFINE T == {i \in 0 .. n : i \notin S}
  <1> SUFFICES ASSUME n \notin S PROVE FALSE
    OBVIOUS
  <1>0. T # {}
    <2>1. n \in T
      OBVIOUS
    <2> QED BY <2>1
  <1>1. T \in SUBSET Nat
    OBVIOUS
  <1>2. PICK x \in T : \A y \in T : ~(<<y, x>> \in OpToRel(<, Nat))
    BY <1>0, <1>1, NatLessThanWellFounded, WFMin
  <1>3. x # 0 /\ x \in Nat /\ x - 1 \in 0 .. n - 1
    OBVIOUS
  <1>4. x - 1 \in T
    BY <1>3
  <1>5. ~(<<x - 1, x>> \in OpToRel(<, Nat))
    BY <1>2, <1>4
  <1>6. <<x - 1, x>> \in OpToRel(<, Nat)
    BY <1>3 DEF OpToRel
  <1> QED BY <1>5, <1>6

\* A loop over 1 .. n, from a and with a step for each turn, has a sequence of intermediate values in S.
Runs(n, S, a, step) == \E f \in [0 .. n -> S] : f[0] = a /\ \A i \in 1 .. n : f[i] = step[i][f[i - 1]]

\* Every loop has one.
LEMMA Loop ==
  ASSUME NEW n \in Nat, NEW S, NEW a \in S, NEW step \in [1 .. n -> [S -> S]]
  PROVE  Runs(n, S, a, step)
  <1> DEFINE Run(m, f) == f \in [0 .. m -> S] /\ f[0] = a /\ \A i \in 1 .. m : f[i] = step[i][f[i - 1]]
             T == {m \in 0 .. n : \E f \in [0 .. m -> S] : Run(m, f)}
  <1>1. 0 \in T
    <2>1. Run(0, [i \in 0 .. 0 |-> a])
      OBVIOUS
    <2>2. \E f \in [0 .. 0 -> S] : Run(0, f)
      <3> WITNESS [i \in 0 .. 0 |-> a] \in [0 .. 0 -> S]
      <3> QED BY <2>1
    <2> HIDE DEF Run
    <2> QED BY <2>2
  <1>2. ASSUME NEW m \in 0 .. n - 1, m \in T
        PROVE  m + 1 \in T
    <2>1. PICK f \in [0 .. m -> S] : Run(m, f)
      BY <1>2
    <2> DEFINE g == [i \in 0 .. m + 1 |-> IF i = m + 1 THEN step[m + 1][f[m]] ELSE f[i]]
    <2>2. step[m + 1][f[m]] \in S
      BY <2>1
    <2>3. g \in [0 .. m + 1 -> S]
      BY <2>2
    <2>4. g[0] = a
      BY <2>1
    <2>5. ASSUME NEW i \in 1 .. m + 1
          PROVE  g[i] = step[i][g[i - 1]]
      <3>1. g[i - 1] = f[i - 1]
        OBVIOUS
      <3>2. CASE i = m + 1
        BY <3>1, <3>2
      <3>3. CASE i \in 1 .. m
        BY <2>1, <3>1, <3>3
      <3> QED BY <3>2, <3>3
    <2>6. Run(m + 1, g)
      BY <2>3, <2>4, <2>5
    <2> HIDE DEF g, Run
    <2> QED BY <2>3, <2>6
  <1> HIDE DEF T
  <1>3. \A m \in 0 .. n - 1 : m \in T => m + 1 \in T
    BY <1>2
  <1>4. n \in T
    BY <1>1, <1>3, UpTo
  <1> QED BY <1>4 DEF T, Runs

\* What a flattened sequence is, part by part.
LEMMA Flattened ==
  ASSUME NEW S, NEW s \in Seq(Seq(S))
  PROVE  \E f \in [0 .. Len(s) -> Seq(S)] :
           f[0] = <<>> /\ (\A i \in 1 .. Len(s) : f[i] = f[i - 1] \o s[i]) /\ f[Len(s)] = FlattenSeq(s)
  <1> DEFINE n == Len(s)
             step == [i \in 1 .. n |-> [x \in Seq(S) |-> x \o s[i]]]
             flatten == CHOOSE f : f = [i \in 1 .. n |-> IF i = 1 THEN s[i] ELSE f[i - 1] \o s[i]]
  <1>0. n \in Nat /\ \A i \in 1 .. n : s[i] \in Seq(S)
    OBVIOUS
  <1>1. step \in [1 .. n -> [Seq(S) -> Seq(S)]]
    BY <1>0
  <1>2. PICK f \in [0 .. n -> Seq(S)] : f[0] = <<>> /\ \A i \in 1 .. n : f[i] = step[i][f[i - 1]]
    <2>1. <<>> \in Seq(S)
      OBVIOUS
    <2> HIDE DEF step, n
    <2>2. Runs(n, Seq(S), <<>>, step)
      BY <1>0, <1>1, <2>1, Loop
    <2> QED BY <2>2 DEF Runs
  <1>3. \A i \in 1 .. n : f[i] = f[i - 1] \o s[i]
    <2> SUFFICES ASSUME NEW i \in 1 .. n PROVE f[i] = f[i - 1] \o s[i]
      OBVIOUS
    <2>1. f[i - 1] \in Seq(S)
      <3>1. i - 1 \in 0 .. n
        BY <1>0
      <3> HIDE DEF n
      <3> QED BY <3>1
    <2>2. \A x \in Seq(S) : step[i][x] = x \o s[i]
      <3> HIDE DEF n
      <3> QED OBVIOUS
    <2>3. f[i] = step[i][f[i - 1]]
      BY <1>2
    <2> HIDE DEF step, n
    <2> QED BY <2>1, <2>2, <2>3
  <1>4. CASE n = 0
    <2>1. s = <<>>
      BY <1>4
    <2> QED BY <1>2, <1>3, <1>4, <2>1 DEF FlattenSeq
  <1>5. CASE n # 0
    <2> DEFINE g == [i \in 1 .. n |-> f[i]]
    <2>1. n \in 1 .. n /\ 1 \in 1 .. n
      BY <1>0, <1>5
    <2>2. f[1] = s[1]
      <3>1. f[1] = f[1 - 1] \o s[1] /\ s[1] \in Seq(S)
        <4> HIDE DEF n
        <4> QED BY <1>0, <1>3, <2>1
      <3>2. f[1 - 1] = <<>>
        BY <1>2
      <3> QED BY <3>1, <3>2, ConcatEmptySeq
    <2>3. g = [i \in 1 .. n |-> IF i = 1 THEN s[i] ELSE g[i - 1] \o s[i]]
      <3> SUFFICES ASSUME NEW i \in 1 .. n PROVE f[i] = IF i = 1 THEN s[i] ELSE g[i - 1] \o s[i]
        OBVIOUS
      <3>1. CASE i = 1
        BY <2>2, <3>1
      <3>2. CASE i # 1
        <4>1. i - 1 \in 1 .. n
          BY <1>0, <3>2
        <4> QED BY <1>3, <3>2, <4>1
      <3> QED BY <3>1, <3>2
    <2>4. flatten = [i \in 1 .. n |-> IF i = 1 THEN s[i] ELSE flatten[i - 1] \o s[i]]
      <3> HIDE DEF g, n
      <3> QED BY <2>3
    <2>5. FlattenSeq(s) = flatten[n]
      BY <1>5 DEF FlattenSeq
    <2> DEFINE T == {i \in 0 .. n : i # 0 => flatten[i] = f[i]}
    <2> HIDE DEF flatten
    <2>6. 0 \in T
      BY <1>0
    <2>7. ASSUME NEW i \in 0 .. n - 1, i \in T
          PROVE  i + 1 \in T
      <3>1. i + 1 \in 1 .. n /\ (i + 1) - 1 = i /\ i + 1 \in 0 .. n
        BY <1>0
      <3>2. CASE i = 0
        BY <2>2, <2>4, <3>1, <3>2
      <3>3. CASE i # 0
        <4>1. flatten[i + 1] = flatten[(i + 1) - 1] \o s[i + 1]
          <5>1. i + 1 # 1
            BY <3>1, <3>3
          <5> HIDE DEF n
          <5> QED BY <2>4, <3>1, <5>1
        <4>2. f[i + 1] = f[i] \o s[i + 1]
          BY <1>3, <3>1
        <4>3. flatten[i] = f[i]
          BY <2>7, <3>3
        <4>4. flatten[i + 1] = f[i + 1]
          BY <3>1, <4>1, <4>2, <4>3
        <4> QED BY <3>1, <4>4
      <3> QED BY <3>2, <3>3
    <2>8. n \in T
      <3>1. \A i \in 0 .. n - 1 : i \in T => i + 1 \in T
        BY <2>7
      <3> HIDE DEF T, n
      <3> QED BY <1>0, <2>6, <3>1, UpTo
    <2>9. f[n] = flatten[n]
      BY <1>5, <2>8
    <2> QED BY <1>2, <1>3, <2>5, <2>9
  <1> QED BY <1>4, <1>5

\* f is what has been gathered after each part of s.
Gathers(S, s, f) == f \in [0 .. Len(s) -> Seq(S)] /\ f[0] = <<>> /\ \A i \in 1 .. Len(s) : f[i] = f[i - 1] \o s[i]

\* f is the flattened prefixes of s.
Prefixed(S, s, f) ==
  Gathers(S, s, f) /\ FlattenSeq(s) = f[Len(s)] /\ \A k \in 0 .. Len(s) : FlattenSeq(SubSeq(s, 1, k)) = f[k]

\* Every sequence has them.
LEMMA FlatPrefixes ==
  ASSUME NEW S, NEW s \in Seq(Seq(S))
  PROVE  \E f : Prefixed(S, s, f)
  <1>1. PICK f \in [0 .. Len(s) -> Seq(S)] :
          f[0] = <<>> /\ (\A i \in 1 .. Len(s) : f[i] = f[i - 1] \o s[i]) /\ f[Len(s)] = FlattenSeq(s)
    BY Flattened
  <1>2. ASSUME NEW k \in 0 .. Len(s)
        PROVE  FlattenSeq(SubSeq(s, 1, k)) = f[k]
    <2> DEFINE t == SubSeq(s, 1, k)
    <2>0. Len(s) \in Nat /\ k \in Nat /\ \A i \in 1 .. k : s[i] \in Seq(S) /\ i \in 1 .. Len(s)
      OBVIOUS
    <2>1. t \in Seq(Seq(S)) /\ Len(t) = k /\ \A i \in 1 .. k : t[i] = s[i]
      <3>1. \A i \in 1 .. k : s[i] \in Seq(S)
        BY <2>0
      <3>2. /\ t \in Seq(Seq(S)) /\ Len(t) = (IF 1 <= k THEN k - 1 + 1 ELSE 0)
            /\ \A i \in 1 .. k - 1 + 1 : t[i] = s[1 + i - 1]
        <4> HIDE DEF t
        <4> QED BY <2>0, <3>1, SubSeqProperties DEF t
      <3> HIDE DEF t
      <3> QED BY <2>0, <3>2
    <2> HIDE DEF t
    <2>2. PICK g \in [0 .. Len(t) -> Seq(S)] :
            g[0] = <<>> /\ (\A i \in 1 .. Len(t) : g[i] = g[i - 1] \o t[i]) /\ g[Len(t)] = FlattenSeq(t)
      BY <2>1, Flattened
    <2> DEFINE T == {i \in 0 .. k : g[i] = f[i]}
    <2>3. 0 \in T
      BY <1>1, <2>0, <2>2
    <2>4. ASSUME NEW i \in 0 .. k - 1, i \in T
          PROVE  i + 1 \in T
      <3>1. i + 1 \in 1 .. k /\ i + 1 \in 1 .. Len(s) /\ (i + 1) - 1 = i /\ i + 1 \in 0 .. k
        BY <2>0
      <3>2. g[i + 1] = g[(i + 1) - 1] \o t[i + 1] /\ f[i + 1] = f[(i + 1) - 1] \o s[i + 1] /\ t[i + 1] = s[i + 1]
        BY <1>1, <2>1, <2>2, <3>1
      <3>3. g[i] = f[i]
        BY <2>4
      <3> QED BY <3>1, <3>2, <3>3
    <2>5. k \in T
      <3>1. \A i \in 0 .. k - 1 : i \in T => i + 1 \in T
        BY <2>4
      <3> HIDE DEF T
      <3> QED BY <2>0, <2>3, <3>1, UpTo
    <2> QED BY <2>1, <2>2, <2>5 DEF t
  <1>3. Gathers(S, s, f)
    BY <1>1 DEF Gathers
  <1>4. Prefixed(S, s, f)
    BY <1>1, <1>2, <1>3 DEF Prefixed
  <1> QED BY <1>4

\* One part is gathered after the other.
LEMMA Gathered ==
  ASSUME NEW S, NEW s \in Seq(Seq(S)), NEW f, Gathers(S, s, f), NEW i \in 0 .. Len(s)
  PROVE  /\ f[i] \in Seq(S)
         /\ i < Len(s) => s[i + 1] \in Seq(S) /\ f[i + 1] = f[i] \o s[i + 1]
  <1> DEFINE X == Seq(S)
             n == Len(s)
  <1>1. f \in [0 .. n -> X] /\ (\A j \in 1 .. n : f[j] = f[j - 1] \o s[j]) /\ n \in Nat
    <2>1. n \in Nat
      OBVIOUS
    <2> QED BY <2>1, Zenon DEF Gathers
  <1>2. s \in [1 .. n -> X]
    BY LenProperties
  <1> HIDE DEF X, n
  <1>3. i \in 0 .. n
    BY DEF n
  <1>4. f[i] \in X
    BY <1>1, <1>3
  <1>5. ASSUME i < n
        PROVE  s[i + 1] \in X /\ f[i + 1] = f[i] \o s[i + 1]
    <2>1. i + 1 \in 1 .. n /\ (i + 1) - 1 = i
      BY <1>1, <1>3, <1>5
    <2> QED BY <1>1, <1>2, <2>1
  <1> QED BY <1>4, <1>5 DEF X, n

\* The sequence w begins with a.
StartsWith(w, a) == Len(a) <= Len(w) /\ \A m \in 1 .. Len(a) : w[m] = a[m]

\* The sequence w holds c behind its first n elements.
Holds(w, n, c) == \A m \in 1 .. Len(c) : w[n + m] = c[m]

\* Two sequences put together.
LEMMA Extends ==
  ASSUME NEW S, NEW a \in Seq(S), NEW b \in Seq(S), NEW c \in Seq(S)
  PROVE  /\ Len(b \o c) = Len(b) + Len(c) /\ Len(b) \in Nat /\ Len(c) \in Nat
         /\ StartsWith(b, a) => StartsWith(b \o c, a)
         /\ Holds(b \o c, Len(b), c)
  <1>1. Len(a) \in Nat /\ Len(b) \in Nat /\ Len(c) \in Nat
    OBVIOUS
  <1>2. /\ Len(b \o c) = Len(b) + Len(c)
        /\ \A m \in 1 .. Len(b) + Len(c) : (b \o c)[m] = IF m <= Len(b) THEN b[m] ELSE c[m - Len(b)]
    BY ConcatProperties
  <1>3. StartsWith(b, a) => StartsWith(b \o c, a)
    BY <1>1, <1>2 DEF StartsWith
  <1>4. Holds(b \o c, Len(b), c)
    <2> SUFFICES ASSUME NEW m \in 1 .. Len(c) PROVE (b \o c)[Len(b) + m] = c[m]
      BY DEF Holds
    <2>1. Len(b) + m \in 1 .. Len(b) + Len(c) /\ ~(Len(b) + m <= Len(b)) /\ (Len(b) + m) - Len(b) = m
      BY <1>1
    <2> QED BY <1>2, <2>1
  <1> QED BY <1>1, <1>2, <1>3, <1>4

\* What a sequence holds, one that begins with it holds too.
LEMMA StillHolds ==
  ASSUME NEW S, NEW w \in Seq(S), NEW v \in Seq(S), NEW c \in Seq(S), NEW n \in Nat,
         StartsWith(w, v), Len(v) = n + Len(c), Holds(v, n, c)
  PROVE  Holds(w, n, c)
  <1> SUFFICES ASSUME NEW m \in 1 .. Len(c) PROVE w[n + m] = c[m]
    BY DEF Holds
  <1>1. n + m \in 1 .. Len(v)
    OBVIOUS
  <1> QED BY <1>1 DEF StartsWith, Holds

\* What was gathered earlier is a prefix of what is gathered later.
LEMMA Grows ==
  ASSUME NEW S, NEW s \in Seq(Seq(S)), NEW f, Gathers(S, s, f), NEW j \in 0 .. Len(s), NEW k \in 0 .. Len(s), j <= k
  PROVE  StartsWith(f[k], f[j])
  <1> DEFINE T == {d \in 0 .. k - j : StartsWith(f[j + d], f[j])}
  <1>0. Len(s) \in Nat /\ j \in Nat /\ k \in Nat /\ k - j \in Nat
    OBVIOUS
  <1>1. f[j] \in Seq(S)
    BY Gathered
  <1>2. 0 \in T
    <2>1. j + 0 = j /\ 0 \in 0 .. k - j /\ Len(f[j]) \in Nat
      BY <1>0, <1>1
    <2> QED BY <2>1 DEF StartsWith
  <1>3. ASSUME NEW d \in 0 .. k - j - 1, d \in T
        PROVE  d + 1 \in T
    <2>1. j + d \in 0 .. Len(s) /\ j + (d + 1) = (j + d) + 1 /\ d + 1 \in 0 .. k - j /\ j + d < Len(s)
      BY <1>0
    <2>2. f[j + d] \in Seq(S) /\ s[(j + d) + 1] \in Seq(S) /\ f[(j + d) + 1] = f[j + d] \o s[(j + d) + 1]
      BY <2>1, Gathered
    <2>3. StartsWith(f[j + d], f[j])
      BY <1>3
    <2>4. StartsWith(f[j + d] \o s[(j + d) + 1], f[j])
      BY <1>1, <2>2, <2>3, Extends
    <2> QED BY <2>1, <2>2, <2>4
  <1>4. k - j \in T
    <2>1. \A d \in 0 .. k - j - 1 : d \in T => d + 1 \in T
      BY <1>3
    <2> HIDE DEF T
    <2> QED BY <1>0, <1>2, <2>1, UpTo
  <1>5. j + (k - j) = k
    BY <1>0
  <1> QED BY <1>4, <1>5

\* Where the bytes of one part lie in the whole.
LEMMA PartIn ==
  ASSUME NEW S, NEW s \in Seq(Seq(S)), NEW f, Gathers(S, s, f), NEW k \in 0 .. Len(s) - 1
  PROVE  /\ f[k] \in Seq(S) /\ f[k + 1] = f[k] \o s[k + 1] /\ s[k + 1] \in Seq(S)
         /\ Len(f[k]) \in Nat /\ Len(s[k + 1]) \in Nat /\ Len(f[k + 1]) = Len(f[k]) + Len(s[k + 1])
         /\ Len(f[k + 1]) <= Len(f[Len(s)])
         /\ Holds(f[Len(s)], Len(f[k]), s[k + 1])
  <1>0. k \in 0 .. Len(s) /\ k + 1 \in 0 .. Len(s) /\ Len(s) \in 0 .. Len(s) /\ k + 1 <= Len(s) /\ k < Len(s)
    OBVIOUS
  <1>1. f[k] \in Seq(S) /\ s[k + 1] \in Seq(S) /\ f[k + 1] = f[k] \o s[k + 1] /\ f[k + 1] \in Seq(S) /\ f[Len(s)] \in Seq(S)
    BY <1>0, Gathered
  <1>2. /\ Len(f[k] \o s[k + 1]) = Len(f[k]) + Len(s[k + 1]) /\ Len(f[k]) \in Nat /\ Len(s[k + 1]) \in Nat
        /\ Holds(f[k] \o s[k + 1], Len(f[k]), s[k + 1])
    BY <1>1, Extends
  <1>3. StartsWith(f[Len(s)], f[k + 1])
    BY <1>0, Grows
  <1>4. Len(f[k + 1]) <= Len(f[Len(s)])
    BY <1>3 DEF StartsWith
  <1>5. Holds(f[Len(s)], Len(f[k]), s[k + 1])
    BY <1>1, <1>2, <1>3, StillHolds
  <1> QED BY <1>1, <1>2, <1>4, <1>5
-----------------------------------------------------------------------------
\* A character as the log shows it.
Display(c) == IF c = <<"nul">> THEN Replacement ELSE c

\* What UTF-8 says of a character: only its first byte starts one, and a NUL has no other byte.
LEMMA CharacterFacts ==
  ASSUME NEW c \in Characters
  PROVE  /\ c \in Seq(B) /\ Len(c) \in 1 .. 4 /\ Display(c) \in Seq(B) /\ Len(Display(c)) \in Nat /\ Len(c) <= Len(Display(c))
         /\ c[1] # "continuation" /\ \A m \in 2 .. Len(c) : c[m] = "continuation"
         /\ c = <<"nul">> => Len(c) = 1 /\ Len(Display(c)) = 3
         /\ \A m \in 1 .. Len(c) : c[m] = "nul" <=> c = <<"nul">>
  <1>1. CASE c = <<"ascii">>
    BY <1>1 DEF Display, B
  <1>2. CASE c = <<"nul">>
    BY <1>2 DEF Display, B, Replacement
  <1>3. CASE c = <<"lead", "continuation">>
    BY <1>3 DEF Display, B
  <1>4. CASE c = <<"lead", "continuation", "continuation">>
    BY <1>4 DEF Display, B
  <1>5. CASE c = <<"lead", "continuation", "continuation", "continuation">>
    BY <1>5 DEF Display, B
  <1> QED BY <1>1, <1>2, <1>3, <1>4, <1>5 DEF Characters

\* The bytes taken from a character, one more at a time.
LEMMA OneMore ==
  ASSUME NEW c \in Seq(B), NEW p \in Seq(B), NEW j \in 0 .. Len(c) - 1
  PROVE  /\ p \o SubSeq(c, 1, j) \in Seq(B) /\ Len(p \o SubSeq(c, 1, j)) = Len(p) + j
         /\ Append(p \o SubSeq(c, 1, j), c[j + 1]) = p \o SubSeq(c, 1, j + 1)
         /\ j + 1 = Len(c) => SubSeq(c, 1, j + 1) = c
         /\ \A m \in 1 .. j : SubSeq(c, 1, j)[m] = c[m]
  <1>0. Len(c) \in Nat /\ Len(p) \in Nat /\ j \in Nat /\ j + 1 \in 1 .. Len(c) /\ (j + 1) - 1 = j /\ 1 \in 1 .. Len(c)
    OBVIOUS
  <1>1. \A m \in 1 .. j : c[m] \in B
    BY <1>0
  <1>2. /\ SubSeq(c, 1, j) \in Seq(B) /\ Len(SubSeq(c, 1, j)) = (IF 1 <= j THEN j - 1 + 1 ELSE 0)
        /\ \A m \in 1 .. j - 1 + 1 : SubSeq(c, 1, j)[m] = c[1 + m - 1]
    BY <1>0, <1>1, SubSeqProperties
  <1>3. Len(SubSeq(c, 1, j)) = j /\ \A m \in 1 .. j : SubSeq(c, 1, j)[m] = c[m]
    BY <1>0, <1>2
  <1> DEFINE u == SubSeq(c, 1, j)
             e == c[j + 1]
  <1>4. e \in B /\ <<e>> \in Seq(B)
    BY <1>0
  <1>5. SubSeq(c, 1, j + 1) = u \o <<e>>
    <2>1. SubSeq(c, 1, j + 1) = SubSeq(c, 1, (j + 1) - 1) \o <<c[j + 1]>>
      BY <1>0, SubSeqRecursiveSecond
    <2> QED BY <1>0, <2>1
  <1>6. j + 1 = Len(c) => SubSeq(c, 1, j + 1) = c
    BY SubSeqFull
  <1>7. u \in Seq(B) /\ Len(u) = j
    BY <1>2, <1>3
  <1> HIDE DEF u, e
  <1>8. p \o u \in Seq(B) /\ Len(p \o u) = Len(p) + j
    BY <1>7, ConcatProperties
  <1>9. Append(p \o u, e) = (p \o u) \o <<e>>
    BY <1>4, <1>8, AppendIsConcat
  <1>10. (p \o u) \o <<e>> = p \o (u \o <<e>>)
    <2>1. PICK w : w = <<e>>
      OBVIOUS
    <2>2. p \in Seq(B) /\ u \in Seq(B) /\ w \in Seq(B)
      BY <1>4, <1>7, <2>1
    <2>3. (p \o u) \o w = p \o (u \o w)
      BY ONLY <2>2, ConcatAssociative
    <2> QED BY <2>1, <2>3
  <1> QED BY <1>3, <1>5, <1>6, <1>8, <1>9, <1>10 DEF u, e

\* The states of StatementText's pass.
Passes == [text : Seq(B), at : Nat, stopped : BOOLEAN]

\* One turn of the pass, by its cases.
LEMMA Took ==
  ASSUME NEW s \in Passes, NEW byte \in B
  PROVE  /\ Take(s, byte) \in Passes
         /\ Take(s, byte).stopped => Take(s, byte).text = s.text /\ Take(s, byte).at = s.at
         /\ s.stopped => Take(s, byte).stopped
         /\ ~s.stopped =>
              (Take(s, byte).stopped <=> Len(s.text) >= MaxLogged \/ (byte = "nul" /\ MaxLogged - Len(s.text) < 3))
         /\ ~Take(s, byte).stopped =>
              /\ Take(s, byte).at = s.at + 1
              /\ Take(s, byte).text = IF byte = "nul" THEN s.text \o Replacement ELSE Append(s.text, byte)
  <1>0. s.text \in Seq(B) /\ s.at \in Nat /\ s.stopped \in BOOLEAN /\ Replacement \in Seq(B)
    BY DEF Passes, Replacement, B
  <1>1. CASE s.stopped \/ Len(s.text) >= MaxLogged
    <2>1. Take(s, byte) = [s EXCEPT !.stopped = TRUE]
      BY <1>1 DEF Take
    <2> QED BY <1>0, <1>1, <2>1 DEF Passes
  <1>2. CASE ~(s.stopped \/ Len(s.text) >= MaxLogged) /\ byte # "nul"
    <2>1. Take(s, byte) = [s EXCEPT !.text = Append(@, byte), !.at = @ + 1]
      BY <1>2 DEF Take
    <2> DEFINE taken == Append(s.text, byte)
    <2>2. taken \in Seq(B) /\ s.at + 1 \in Nat
      BY <1>0, AppendProperties
    <2>3. /\ Take(s, byte) \in Passes /\ Take(s, byte).text = taken /\ Take(s, byte).at = s.at + 1
          /\ Take(s, byte).stopped = s.stopped
      <3> HIDE DEF taken
      <3>1. Take(s, byte) = [s EXCEPT !.text = taken, !.at = s.at + 1]
        BY <2>1 DEF taken
      <3> QED BY <1>0, <2>2, <3>1 DEF Passes
    <2> HIDE DEF taken
    <2>4. Take(s, byte).text = IF byte = "nul" THEN s.text \o Replacement ELSE Append(s.text, byte)
      BY <1>2, <2>3 DEF taken
    <2> QED BY <1>2, <2>3, <2>4
  <1>3. CASE ~(s.stopped \/ Len(s.text) >= MaxLogged) /\ byte = "nul" /\ MaxLogged - Len(s.text) < 3
    <2>1. Take(s, byte) = [s EXCEPT !.stopped = TRUE]
      BY <1>3 DEF Take
    <2> QED BY <1>0, <1>3, <2>1 DEF Passes
  <1>4. CASE ~(s.stopped \/ Len(s.text) >= MaxLogged) /\ byte = "nul" /\ ~(MaxLogged - Len(s.text) < 3)
    <2>1. Take(s, byte) = [s EXCEPT !.text = @ \o Replacement, !.at = @ + 1]
      BY <1>4 DEF Take
    <2> DEFINE taken == s.text \o Replacement
    <2>2. taken \in Seq(B) /\ s.at + 1 \in Nat
      BY <1>0, ConcatProperties
    <2>3. /\ Take(s, byte) \in Passes /\ Take(s, byte).text = taken /\ Take(s, byte).at = s.at + 1
          /\ Take(s, byte).stopped = s.stopped
      <3> HIDE DEF taken
      <3>1. Take(s, byte) = [s EXCEPT !.text = taken, !.at = s.at + 1]
        BY <2>1 DEF taken
      <3> QED BY <1>0, <2>2, <3>1 DEF Passes
    <2> HIDE DEF taken
    <2>4. Take(s, byte).text = IF byte = "nul" THEN s.text \o Replacement ELSE Append(s.text, byte)
      BY <1>4, <2>3 DEF taken
    <2> QED BY <1>4, <2>3, <2>4
  <1> QED BY <1>1, <1>2, <1>3, <1>4

\* The characters as the log shows them.
Displayed(c) == [i \in DOMAIN c |-> Display(c[i])]

\* Where the pass is: behind k characters shown as p[k] and j bytes of the next one.  If it has stopped, that
\* character is one too many.
Within(c, b, p, i, s, k, j) ==
  /\ IF k = Len(c) THEN j = 0 ELSE j < Len(c[k + 1])
  /\ s.at = Len(b[k]) + j /\ s.text = p[k] \o SubSeq(c[k + 1], 1, j) /\ Len(p[k]) + j <= MaxLogged
  /\ s.stopped => k # Len(c) /\ Len(p[k + 1]) > MaxLogged
  /\ ~s.stopped => s.at = i
Position(c, b, p, i, s) == \E k \in 0 .. Len(c), j \in Nat : Within(c, b, p, i, s, k, j)

\* A text's characters are sequences of bytes, and so is what is shown of them.
LEMMA TextFacts ==
  ASSUME NEW c \in Seq(Characters)
  PROVE  /\ Len(c) \in Nat /\ c \in Seq(Seq(B)) /\ Displayed(c) \in Seq(Seq(B)) /\ Len(Displayed(c)) = Len(c)
         /\ \A m \in 1 .. Len(c) : c[m] \in Characters /\ Displayed(c)[m] = Display(c[m])
  <1> DEFINE n == Len(c)
  <1>1. n \in Nat /\ \A m \in 1 .. n : c[m] \in Characters
    OBVIOUS
  <1>2. Characters \subseteq Seq(B) /\ \A d \in Characters : Display(d) \in Seq(B)
    BY CharacterFacts
  <1>3. c \in Seq(Seq(B))
    BY <1>2, SeqMonotonic
  <1>4. DOMAIN c = 1 .. n
    OBVIOUS
  <1> HIDE DEF n
  <1>5. Displayed(c) \in [1 .. n -> Seq(B)] /\ \A m \in 1 .. n : Displayed(c)[m] = Display(c[m])
    BY <1>1, <1>2, <1>4 DEF Displayed
  <1>6. Displayed(c) \in Seq(Seq(B)) /\ Len(Displayed(c)) = n
    BY <1>1, <1>5
  <1> QED BY <1>1, <1>3, <1>5, <1>6 DEF n

\* The next character and its bytes.
LEMMA NextCharacter ==
  ASSUME NEW c \in Seq(Characters), NEW b, NEW p, Gathers(B, c, b), Gathers(B, Displayed(c), p), NEW k \in 0 .. Len(c) - 1
  PROVE  /\ c[k + 1] \in Characters /\ p[k] \in Seq(B) /\ Len(p[k]) \in Nat /\ Len(b[k]) \in Nat
         /\ Len(b[k + 1]) = Len(b[k]) + Len(c[k + 1]) /\ Len(b[k + 1]) <= Len(b[Len(c)])
         /\ Holds(b[Len(c)], Len(b[k]), c[k + 1])
         /\ p[k + 1] = p[k] \o Display(c[k + 1]) /\ Len(p[k + 1]) = Len(p[k]) + Len(Display(c[k + 1]))
         /\ p[k + 1] \in Seq(B)
  <1>1. k + 1 \in 1 .. Len(c)
    OBVIOUS
  <1>2. c \in Seq(Seq(B)) /\ Displayed(c) \in Seq(Seq(B)) /\ Len(Displayed(c)) = Len(c)
    BY TextFacts
  <1>3. c[k + 1] \in Characters /\ Displayed(c)[k + 1] = Display(c[k + 1])
    BY <1>1, TextFacts
  <1>4. /\ Len(b[k]) \in Nat /\ Len(b[k + 1]) = Len(b[k]) + Len(c[k + 1]) /\ Len(b[k + 1]) <= Len(b[Len(c)])
        /\ Holds(b[Len(c)], Len(b[k]), c[k + 1])
    BY <1>2, PartIn
  <1>5. k \in 0 .. Len(Displayed(c)) - 1
    BY <1>2
  <1>6. /\ p[k] \in Seq(B) /\ p[k + 1] = p[k] \o Displayed(c)[k + 1]
        /\ Len(p[k]) \in Nat /\ Len(p[k + 1]) = Len(p[k]) + Len(Displayed(c)[k + 1]) /\ Displayed(c)[k + 1] \in Seq(B)
    BY <1>2, <1>5, PartIn
  <1>7. p[k] \o Displayed(c)[k + 1] \in Seq(B)
    BY <1>6, ConcatProperties
  <1> QED BY <1>3, <1>4, <1>6, <1>7

\* The pass stands between two characters.
LEMMA Between ==
  ASSUME NEW c \in Seq(Characters), NEW b, NEW p, Gathers(B, c, b), Gathers(B, Displayed(c), p), NEW k \in 0 .. Len(c),
         NEW i \in Nat, NEW s \in Passes, ~s.stopped, s.at = i, i = Len(b[k]), s.text = p[k], Len(p[k]) <= MaxLogged
  PROVE  Position(c, b, p, i, s)
  <1>1. Displayed(c) \in Seq(Seq(B)) /\ Len(Displayed(c)) = Len(c)
    BY TextFacts
  <1>2. p[k] \in Seq(B)
    BY <1>1, Gathered
  <1>3. p[k] = p[k] \o SubSeq(c[k + 1], 1, 0)
    <2>1. SubSeq(c[k + 1], 1, 0) = <<>>
      BY SubSeqEmpty
    <2> QED BY <1>2, <2>1, ConcatEmptySeq
  <1>4. k # Len(c) => 0 < Len(c[k + 1])
    <2> SUFFICES ASSUME k # Len(c) PROVE 0 < Len(c[k + 1])
      OBVIOUS
    <2>1. k + 1 \in 1 .. Len(c)
      OBVIOUS
    <2>2. c[k + 1] \in Characters
      BY <2>1, TextFacts
    <2>3. Len(c[k + 1]) \in 1 .. 4
      BY <2>2, CharacterFacts
    <2>4. \A m \in 1 .. 4 : 0 < m
      OBVIOUS
    <2> QED BY ONLY <2>3, <2>4
  <1>5. Len(p[k]) + 0 <= MaxLogged /\ Len(b[k]) + 0 = i
    BY <1>2
  <1>6. Within(c, b, p, i, s, k, 0)
    BY <1>3, <1>4, <1>5 DEF Within
  <1>7. 0 \in Nat
    OBVIOUS
  <1> QED BY <1>6, <1>7 DEF Position

\* The room a character takes, when lt bytes are logged, j of them from the character.
LEMMA Room ==
  ASSUME NEW lp \in Nat, NEW lb \in Nat, NEW lc \in 1 .. 4, NEW ld \in Nat, NEW j \in Nat, NEW lt, NEW m \in Nat, NEW i,
         lt = lp + j, j < lc, lc <= ld
  PROVE  /\ lt >= m => lp + ld > m
         /\ ~(lt >= m) => lp + (j + 1) <= m
         /\ lc = 1 /\ ld = 3 => j = 0 /\ (m - lt < 3 => lp + ld > m) /\ (~(m - lt < 3) => lp + ld <= m)
         /\ j \in 0 .. lc - 1 /\ j + 1 \in 1 .. lc /\ j + 1 \in Nat /\ (j + 1 # lc => j + 1 < lc)
         /\ i = lb + j => i + 1 = lb + (j + 1) /\ i + 1 \in Nat
  OBVIOUS

\* A turn of the pass leaves it at such a position.
LEMMA Turn ==
  ASSUME NEW c \in Seq(Characters), NEW b, NEW p, Gathers(B, c, b), Gathers(B, Displayed(c), p),
         NEW i \in 0 .. Len(b[Len(c)]) - 1, NEW s \in Passes, Position(c, b, p, i, s)
  PROVE  /\ b[Len(c)][i + 1] \in B /\ Take(s, b[Len(c)][i + 1]) \in Passes
         /\ Position(c, b, p, i + 1, Take(s, b[Len(c)][i + 1]))
  <1> DEFINE byte == b[Len(c)][i + 1]
             n == Len(c)
             t == Take(s, byte)
  <1>1. PICK k \in 0 .. n, j \in Nat : Within(c, b, p, i, s, k, j)
    BY DEF Position
  <1>2. n \in Nat /\ c \in Seq(Seq(B))
    BY TextFacts
  <1>3. b[n] \in Seq(B) /\ Len(b[n]) \in Nat /\ i \in Nat /\ i + 1 \in 1 .. Len(b[n])
    <2>1. n \in 0 .. n
      BY <1>2
    <2>2. b[n] \in Seq(B)
      BY <1>2, <2>1, Gathered
    <2> QED BY <2>2
  <1>4. byte \in B
    BY <1>3
  <1>5. /\ t \in Passes
        /\ t.stopped => t.text = s.text /\ t.at = s.at
        /\ s.stopped => t.stopped
        /\ ~s.stopped => (t.stopped <=> Len(s.text) >= MaxLogged \/ (byte = "nul" /\ MaxLogged - Len(s.text) < 3))
        /\ ~t.stopped => /\ t.at = s.at + 1
                         /\ t.text = IF byte = "nul" THEN s.text \o Replacement ELSE Append(s.text, byte)
    <2> HIDE DEF byte
    <2> QED BY <1>4, Took
  <1>6. SUFFICES Position(c, b, p, i + 1, t)
    BY <1>4, <1>5
  <1> HIDE DEF byte, n, t
  <1>7. k # n
    BY <1>1, <1>3 DEF Within, n
  <1>8. k \in 0 .. n - 1 /\ k + 1 \in 0 .. n
    BY <1>2, <1>7
  <1> DEFINE ch == c[k + 1]
  <1>9. /\ ch \in Characters /\ p[k] \in Seq(B) /\ Len(p[k]) \in Nat /\ Len(b[k]) \in Nat
        /\ Len(b[k + 1]) = Len(b[k]) + Len(ch) /\ Holds(b[n], Len(b[k]), ch)
        /\ p[k + 1] = p[k] \o Display(ch) /\ Len(p[k + 1]) = Len(p[k]) + Len(Display(ch))
    BY <1>8, NextCharacter DEF n
  <1>10. /\ ch \in Seq(B) /\ Len(ch) \in 1 .. 4 /\ Len(Display(ch)) \in Nat /\ Len(ch) <= Len(Display(ch))
         /\ ch = <<"nul">> => Len(ch) = 1 /\ Len(Display(ch)) = 3
         /\ \A m \in 1 .. Len(ch) : ch[m] = "nul" <=> ch = <<"nul">>
    BY <1>9, CharacterFacts
  <1>11. /\ j < Len(ch) /\ s.at = Len(b[k]) + j /\ s.text = p[k] \o SubSeq(ch, 1, j) /\ Len(p[k]) + j <= MaxLogged
         /\ s.stopped => Len(p[k + 1]) > MaxLogged
         /\ ~s.stopped => s.at = i
    BY <1>1, <1>7 DEF Within, n
  <1> HIDE DEF ch
  <1>12. MaxLogged \in Nat
    BY LimitsAssumption
  <1>13. j \in 0 .. Len(ch) - 1 /\ j + 1 \in 1 .. Len(ch)
    BY ONLY <1>10, <1>11, j \in Nat
  <1>14. /\ Len(s.text) = Len(p[k]) + j
         /\ Append(s.text, ch[j + 1]) = p[k] \o SubSeq(ch, 1, j + 1)
         /\ j + 1 = Len(ch) => SubSeq(ch, 1, j + 1) = ch
    <2>1. ch \in Seq(B) /\ p[k] \in Seq(B) /\ j \in 0 .. Len(ch) - 1
      BY ONLY <1>9, <1>10, <1>13
    <2>2. /\ Len(p[k] \o SubSeq(ch, 1, j)) = Len(p[k]) + j
          /\ Append(p[k] \o SubSeq(ch, 1, j), ch[j + 1]) = p[k] \o SubSeq(ch, 1, j + 1)
          /\ j + 1 = Len(ch) => SubSeq(ch, 1, j + 1) = ch
      <3>1. PICK x, q : x = ch /\ q = p[k]
        OBVIOUS
      <3>2. x \in Seq(B) /\ q \in Seq(B) /\ j \in 0 .. Len(x) - 1
        BY ONLY <2>1, <3>1
      <3>3. /\ Len(q \o SubSeq(x, 1, j)) = Len(q) + j
            /\ Append(q \o SubSeq(x, 1, j), x[j + 1]) = q \o SubSeq(x, 1, j + 1)
            /\ j + 1 = Len(x) => SubSeq(x, 1, j + 1) = x
        BY ONLY <3>2, OneMore
      <3> QED BY ONLY <3>1, <3>3
    <2> QED BY ONLY <1>11, <2>2
  <1>15. /\ Len(s.text) >= MaxLogged => Len(p[k + 1]) > MaxLogged
         /\ ~(Len(s.text) >= MaxLogged) => Len(p[k]) + (j + 1) <= MaxLogged
         /\ ch = <<"nul">> => /\ j = 0 /\ (MaxLogged - Len(s.text) < 3 => Len(p[k + 1]) > MaxLogged)
                              /\ ~(MaxLogged - Len(s.text) < 3) => Len(p[k + 1]) <= MaxLogged
         /\ j + 1 \in Nat /\ (j + 1 # Len(ch) => j + 1 < Len(ch))
         /\ ~s.stopped => i + 1 = Len(b[k]) + (j + 1) /\ i + 1 \in Nat
    <2>1. PICK lp, lb, lc, ld, lt : lp = Len(p[k]) /\ lb = Len(b[k]) /\ lc = Len(ch) /\ ld = Len(Display(ch)) /\ lt = Len(s.text)
      OBVIOUS
    <2>2. /\ lp \in Nat /\ lb \in Nat /\ lc \in 1 .. 4 /\ ld \in Nat /\ j \in Nat /\ MaxLogged \in Nat
          /\ lt = lp + j /\ j < lc /\ lc <= ld
      BY ONLY <1>9, <1>10, <1>11, <1>12, <1>14, <2>1, j \in Nat
    <2>3. Len(p[k + 1]) = lp + ld /\ (ch = <<"nul">> => lc = 1 /\ ld = 3) /\ (~s.stopped => i = lb + j)
      BY ONLY <1>9, <1>10, <1>11, <2>1
    <2>4. /\ lt >= MaxLogged => lp + ld > MaxLogged
          /\ ~(lt >= MaxLogged) => lp + (j + 1) <= MaxLogged
          /\ lc = 1 /\ ld = 3 => /\ j = 0 /\ (MaxLogged - lt < 3 => lp + ld > MaxLogged)
                                 /\ ~(MaxLogged - lt < 3) => lp + ld <= MaxLogged
          /\ j + 1 \in Nat /\ (j + 1 # lc => j + 1 < lc)
          /\ i = lb + j => i + 1 = lb + (j + 1) /\ i + 1 \in Nat
      BY ONLY <2>2, Room
    <2> QED BY ONLY <2>1, <2>3, <2>4
  <1>16. ~s.stopped => byte = ch[j + 1] /\ (byte = "nul" <=> ch = <<"nul">>)
    <2> SUFFICES ASSUME ~s.stopped PROVE byte = ch[j + 1] /\ (byte = "nul" <=> ch = <<"nul">>)
      OBVIOUS
    <2>1. byte = b[n][Len(b[k]) + (j + 1)]
      BY <1>15 DEF byte, n
    <2>2. b[n][Len(b[k]) + (j + 1)] = ch[j + 1]
      BY ONLY <1>9, <1>13 DEF Holds
    <2> QED BY ONLY <1>10, <1>13, <2>1, <2>2
  <1>17. ASSUME t.stopped, Len(p[k + 1]) > MaxLogged
         PROVE  Position(c, b, p, i + 1, t)
    <2>1. Within(c, b, p, i + 1, t, k, j)
      BY <1>5, <1>7, <1>11, <1>17 DEF Within, n, ch
    <2> QED BY <2>1 DEF Position, n
  <1>18. ASSUME ~t.stopped, t.at = i + 1, i + 1 \in Nat, i + 1 = Len(b[k + 1]), t.text = p[k + 1], Len(p[k + 1]) <= MaxLogged
         PROVE  Position(c, b, p, i + 1, t)
    <2>1. k + 1 \in 0 .. Len(c)
      BY <1>8 DEF n
    <2>2. Gathers(B, c, b) /\ Gathers(B, Displayed(c), p) /\ c \in Seq(Characters)
      OBVIOUS
    <2> QED BY ONLY <1>5, <1>18, <2>1, <2>2, Between
  <1>19. CASE s.stopped
    BY <1>5, <1>11, <1>17, <1>19
  <1>20. CASE ~s.stopped /\ t.stopped
    <2>1. Len(p[k + 1]) > MaxLogged
      BY ONLY <1>5, <1>15, <1>16, <1>20
    <2> QED BY <1>17, <1>20, <2>1
  <1>21. CASE ~s.stopped /\ ~t.stopped /\ ch = <<"nul">>
    <2>1. j = 0 /\ Display(ch) = Replacement
      BY <1>15, <1>21 DEF Display
    <2>2. s.text = p[k]
      <3>1. SubSeq(ch, 1, 0) = <<>>
        BY SubSeqEmpty
      <3> QED BY <1>9, <1>11, <2>1, <3>1, ConcatEmptySeq
    <2>3. t.text = p[k + 1]
      BY ONLY <1>5, <1>9, <1>16, <1>21, <2>1, <2>2
    <2>4. Len(p[k + 1]) <= MaxLogged
      BY ONLY <1>5, <1>15, <1>16, <1>21
    <2>5. t.at = i + 1 /\ i + 1 \in Nat /\ i + 1 = Len(b[k + 1])
      BY ONLY <1>5, <1>9, <1>10, <1>11, <1>15, <1>21, <2>1
    <2> QED BY <1>18, <1>21, <2>3, <2>4, <2>5
  <1>22. CASE ~s.stopped /\ ~t.stopped /\ ch # <<"nul">>
    <2>1. Display(ch) = ch
      BY <1>22 DEF Display
    <2>2. t.text = p[k] \o SubSeq(ch, 1, j + 1) /\ t.at = i + 1
      BY ONLY <1>5, <1>11, <1>14, <1>16, <1>22
    <2>3. Len(p[k]) + (j + 1) <= MaxLogged
      BY ONLY <1>5, <1>15, <1>22
    <2>4. CASE j + 1 = Len(ch)
      <3>1. t.text = p[k + 1]
        BY ONLY <1>9, <1>14, <2>1, <2>2, <2>4
      <3>2. Len(p[k + 1]) <= MaxLogged /\ i + 1 = Len(b[k + 1]) /\ i + 1 \in Nat
        BY ONLY <1>9, <1>15, <1>22, <2>1, <2>3, <2>4
      <3> QED BY <1>18, <1>22, <2>2, <3>1, <3>2
    <2>5. CASE j + 1 # Len(ch)
      <3>1. j + 1 < Len(ch) /\ j + 1 \in Nat /\ i + 1 = Len(b[k]) + (j + 1)
        BY ONLY <1>15, <1>22, <2>5
      <3>2. Within(c, b, p, i + 1, t, k, j + 1)
        BY <1>7, <1>22, <2>2, <2>3, <3>1, Zenon DEF Within, n, ch
      <3>3. k \in 0 .. Len(c)
        BY DEF n
      <3> QED BY ONLY <3>1, <3>2, <3>3 DEF Position
    <2> QED BY <2>4, <2>5
  <1> QED BY <1>19, <1>20, <1>21, <1>22

\* The pass, turn by turn.
Started == [text |-> <<>>, at |-> 0, stopped |-> FALSE]
Turns(bytes, f) ==
  /\ f \in [0 .. Len(bytes) -> Passes] /\ f[0] = Started
  /\ \A i \in 1 .. Len(bytes) : f[i] = Take(f[i - 1], bytes[i])
  /\ f[Len(bytes)] = Taken(bytes)

\* StatementText's pass has such turns.
LEMMA TakenSteps ==
  ASSUME NEW bytes \in Seq(B)
  PROVE  \E f : Turns(bytes, f)
  <1> DEFINE n == Len(bytes)
             step == [i \in 1 .. n |-> [x \in Passes |-> Take(x, bytes[i])]]
             taken == CHOOSE f : f = [i \in 0 .. n |-> IF i = 0 THEN Started ELSE Take(f[i - 1], bytes[i])]
  <1>0. n \in Nat /\ (\A i \in 1 .. n : bytes[i] \in B) /\ Started \in Passes
    BY DEF Started, Passes
  <1>1. Taken(bytes) = taken[n]
    BY DEF Taken, Started
  <1> HIDE DEF n
  <1>2. \A i \in 1 .. n : \A x \in Passes : Take(x, bytes[i]) \in Passes
    BY <1>0, Took
  <1>3. step \in [1 .. n -> [Passes -> Passes]]
    BY <1>2
  <1>4. \A i \in 1 .. n : \A x \in Passes : step[i][x] = Take(x, bytes[i])
    OBVIOUS
  <1> HIDE DEF step
  <1>5. Runs(n, Passes, Started, step)
    BY <1>0, <1>3, Loop
  <1>6. PICK f \in [0 .. n -> Passes] : f[0] = Started /\ \A i \in 1 .. n : f[i] = step[i][f[i - 1]]
    BY <1>5 DEF Runs
  <1>7. \A i \in 1 .. n : f[i] = Take(f[i - 1], bytes[i])
    <2> SUFFICES ASSUME NEW i \in 1 .. n PROVE f[i] = Take(f[i - 1], bytes[i])
      OBVIOUS
    <2>1. i - 1 \in 0 .. n
      BY <1>0
    <2>2. f[i - 1] \in Passes
      BY <2>1
    <2> QED BY <1>4, <1>6, <2>2
  <1>8. f = [i \in 0 .. n |-> IF i = 0 THEN Started ELSE Take(f[i - 1], bytes[i])]
    BY <1>0, <1>6, <1>7
  <1>9. taken = [i \in 0 .. n |-> IF i = 0 THEN Started ELSE Take(taken[i - 1], bytes[i])]
    BY <1>8
  <1> HIDE DEF taken
  <1> DEFINE T == {i \in 0 .. n : taken[i] = f[i]}
  <1>10. 0 \in T
    BY <1>0, <1>6, <1>9
  <1>11. ASSUME NEW i \in 0 .. n - 1, i \in T
         PROVE  i + 1 \in T
    <2>1. i + 1 \in 1 .. n /\ (i + 1) - 1 = i /\ i + 1 \in 0 .. n /\ i + 1 # 0
      BY <1>0
    <2>2. taken[i + 1] = Take(taken[(i + 1) - 1], bytes[i + 1])
      BY <1>9, <2>1
    <2>3. f[i + 1] = Take(f[(i + 1) - 1], bytes[i + 1])
      BY <1>7, <2>1
    <2>4. taken[i] = f[i]
      BY <1>11
    <2> QED BY <2>1, <2>2, <2>3, <2>4
  <1>12. n \in T
    <2>1. \A i \in 0 .. n - 1 : i \in T => i + 1 \in T
      BY <1>11
    <2> HIDE DEF T
    <2> QED BY <1>0, <1>10, <2>1, UpTo
  <1>13. f[n] = Taken(bytes)
    BY <1>1, <1>12
  <1>14. Turns(bytes, f)
    BY <1>6, <1>7, <1>13 DEF Turns, n
  <1> QED BY <1>14

\* The whole pass ends at a position.
LEMMA Ended ==
  ASSUME NEW c \in Seq(Characters), NEW b, NEW p, Gathers(B, c, b), Gathers(B, Displayed(c), p)
  PROVE  /\ b[Len(c)] \in Seq(B) /\ Taken(b[Len(c)]) \in Passes
         /\ Position(c, b, p, Len(b[Len(c)]), Taken(b[Len(c)]))
  <1> DEFINE bytes == b[Len(c)]
             n == Len(bytes)
  <1>1. Len(c) \in 0 .. Len(c) /\ 0 \in 0 .. Len(c) /\ c \in Seq(Seq(B))
    BY TextFacts
  <1>2. bytes \in Seq(B)
    BY <1>1, Gathered
  <1>3. n \in Nat
    BY <1>2
  <1>4. PICK f : Turns(bytes, f)
    <2> HIDE DEF bytes
    <2> QED BY <1>2, TakenSteps
  <1>5. f \in [0 .. n -> Passes] /\ f[0] = Started /\ (\A i \in 1 .. n : f[i] = Take(f[i - 1], bytes[i])) /\ f[n] = Taken(bytes)
    BY <1>4, Zenon DEF Turns
  <1> DEFINE T == {i \in 0 .. n : Position(c, b, p, i, f[i])}
  <1>6. 0 \in T
    <2>1. b[0] = <<>> /\ p[0] = <<>>
      BY DEF Gathers
    <2>2. Len(b[0]) = 0 /\ Len(p[0]) = 0 /\ 0 <= MaxLogged
      BY <2>1, LimitsAssumption
    <2>3. Started \in Passes /\ ~Started.stopped /\ Started.at = 0 /\ Started.text = <<>>
      BY DEF Started, Passes
    <2>4. Gathers(B, c, b) /\ Gathers(B, Displayed(c), p) /\ c \in Seq(Characters) /\ 0 \in Nat
      OBVIOUS
    <2>5. Position(c, b, p, 0, Started)
      BY ONLY <1>1, <2>1, <2>2, <2>3, <2>4, Between
    <2>6. 0 \in 0 .. n
      BY <1>3
    <2> QED BY <1>5, <2>5, <2>6
  <1>7. ASSUME NEW i \in 0 .. n - 1, i \in T
        PROVE  i + 1 \in T
    <2> HIDE DEF n
    <2>1. i + 1 \in 1 .. n /\ (i + 1) - 1 = i /\ i + 1 \in 0 .. n /\ i \in 0 .. n
      BY <1>3
    <2>2. f[i] \in Passes /\ Position(c, b, p, i, f[i]) /\ f[i + 1] = Take(f[(i + 1) - 1], bytes[i + 1])
      BY <1>5, <1>7, <2>1
    <2>3. Position(c, b, p, i + 1, Take(f[i], bytes[i + 1]))
      BY <2>2, Turn DEF n
    <2> QED BY <2>1, <2>2, <2>3
  <1>8. n \in T
    <2>1. \A i \in 0 .. n - 1 : i \in T => i + 1 \in T
      BY <1>7
    <2> HIDE DEF T, n
    <2> QED BY <1>3, <1>6, <2>1, UpTo
  <1>9. Taken(bytes) \in Passes /\ Position(c, b, p, n, Taken(bytes))
    <2>1. n \in 0 .. n
      BY <1>3
    <2> HIDE DEF n
    <2> QED BY <1>5, <1>8, <2>1
  <1> QED BY <1>2, <1>9

\* The largest of a set of numbers.
LEMMA MaxIs ==
  ASSUME NEW S, S \subseteq Int, NEW x \in S, \A y \in S : y <= x
  PROVE  Max(S) = x
  <1>1. x \in S /\ \A y \in S : x >= y
    OBVIOUS
  <1>2. ASSUME NEW z \in S, \A y \in S : z >= y
        PROVE  z = x
    <2>1. z >= x /\ x >= z /\ x \in Int /\ z \in Int
      BY <1>1, <1>2
    <2> QED BY ONLY <2>1
  <1>3. Max(S) \in S /\ \A y \in S : Max(S) >= y
    BY <1>1 DEF Max
  <1> QED BY <1>2, <1>3

\* The repair of the cut takes off exactly the bytes of the character that did not fit.
LEMMA Trimmed ==
  ASSUME NEW c \in Characters, NEW q \in Seq(B), NEW j \in 1 .. Len(c) - 1
  PROVE  WithoutPartial(q \o SubSeq(c, 1, j)) = q
  <1> DEFINE u == SubSeq(c, 1, j)
             w == q \o u
             starts == {i \in DOMAIN w : w[i] # "continuation"}
             l == Len(q)
  <1>1. c \in Seq(B) /\ Len(c) \in 1 .. 4 /\ c[1] # "continuation" /\ \A m \in 2 .. Len(c) : c[m] = "continuation"
    BY CharacterFacts
  <1>2. l \in Nat /\ j \in Nat /\ j \in 0 .. Len(c) - 1 /\ 1 \in 1 .. j /\ \A m \in 1 .. j : m \in 1 .. Len(c)
    BY <1>1
  <1>3. Len(w) = l + j /\ w \in Seq(B) /\ \A m \in 1 .. j : u[m] = c[m]
    BY <1>1, <1>2, OneMore
  <1>4. u \in Seq(B) /\ Len(u) = j
    <2>1. \A m \in 1 .. j : c[m] \in B
      BY <1>1, <1>2
    <2>2. u \in Seq(B) /\ Len(u) = (IF 1 <= j THEN j - 1 + 1 ELSE 0)
      BY <1>2, <2>1, SubSeqProperties
    <2> HIDE DEF u
    <2> QED BY <1>2, <2>2
  <1> HIDE DEF u
  <1>5. Holds(w, l, u)
    BY <1>4, Extends
  <1>6. DOMAIN w = 1 .. l + j
    BY <1>3
  <1>7. SubSeq(w, 1, l) = q
    <2>1. CASE l = 0
      <3>1. q = <<>>
        BY <2>1
      <3>2. SubSeq(w, 1, 0) = <<>>
        BY SubSeqEmpty
      <3> QED BY <2>1, <3>1, <3>2
    <2>2. CASE l # 0
      <3>1. 1 \in 1 .. Len(q) /\ Len(q) \in 1 .. Len(q)
        BY <1>2, <2>2
      <3>2. SubSeq(q \o u, 1, Len(q)) = SubSeq(q, 1, Len(q))
        BY <1>4, <3>1, SubSeqOfConcat1
      <3> QED BY <3>2, SubSeqFull
    <2> QED BY <2>1, <2>2
  <1> HIDE DEF w, l
  <1>8. \A m \in 1 .. j : w[l + m] = c[m]
    BY <1>3, <1>4, <1>5 DEF Holds
  <1>9. l + 1 \in starts
    BY <1>1, <1>2, <1>6, <1>8
  <1>10. ASSUME NEW x \in starts
         PROVE  x <= l + 1
    <2> SUFFICES ASSUME x > l + 1 PROVE FALSE
      BY <1>2, <1>6
    <2>1. x \in 1 .. l + j /\ w[x] # "continuation"
      BY <1>6
    <2>2. x - l \in 2 .. Len(c) /\ x - l \in 1 .. j /\ l + (x - l) = x
      BY <1>1, <1>2, <2>1
    <2> QED BY <1>1, <1>8, <2>1, <2>2
  <1>11. Max(starts) = l + 1
    <2>1. starts \subseteq Int
      BY <1>2, <1>6
    <2> HIDE DEF starts
    <2>2. \A x \in starts : x <= l + 1
      BY <1>10
    <2> QED BY ONLY <1>9, <2>1, <2>2, MaxIs
  <1>12. WithoutPartial(w) = SubSeq(w, 1, (l + 1) - 1)
    <2>1. starts # {}
      BY <1>9
    <2> QED BY <1>11, <2>1 DEF WithoutPartial
  <1>13. (l + 1) - 1 = l
    BY <1>2
  <1> QED BY <1>7, <1>12, <1>13 DEF w, u

\* What is logged of the characters c: those that fit.
LEMMA LoggedPrefix ==
  ASSUME NEW c \in Seq(Characters), NEW b, NEW p, Gathers(B, c, b), Gathers(B, Displayed(c), p)
  PROVE  /\ Max({k \in 0 .. Len(c) : Len(p[k]) <= MaxLogged}) \in 0 .. Len(c)
         /\ StatementText(b[Len(c)]) = p[Max({k \in 0 .. Len(c) : Len(p[k]) <= MaxLogged})]
  <1> DEFINE bytes == b[Len(c)]
             s == Taken(bytes)
             n == Len(c)
             fitting == {k \in 0 .. n : Len(p[k]) <= MaxLogged}
  <1>1. bytes \in Seq(B) /\ s \in Passes /\ Position(c, b, p, Len(bytes), s)
    BY Ended
  <1>2. Len(bytes) \in Nat
    BY <1>1
  <1>3. StatementText(bytes) =
          IF s.at < Len(bytes) /\ bytes[s.at + 1] = "continuation" THEN WithoutPartial(s.text) ELSE s.text
    BY DEF StatementText
  <1> HIDE DEF s, bytes
  <1>4. PICK k \in 0 .. n, j \in Nat : Within(c, b, p, Len(bytes), s, k, j)
    BY <1>1 DEF Position
  <1>5. n \in Nat /\ MaxLogged \in Nat /\ Displayed(c) \in Seq(Seq(B)) /\ Len(Displayed(c)) = n
    BY TextFacts, LimitsAssumption
  <1>6. \A m \in 0 .. n : p[m] \in Seq(B)
    BY <1>5, Gathered
  <1>7. Len(p[k]) \in Nat /\ Len(p[k]) + j <= MaxLogged
    BY <1>4, <1>6 DEF Within
  <1>8. Len(p[k]) <= MaxLogged
    BY ONLY <1>5, <1>7, j \in Nat
  <1>9. CASE k = n
    <2>1. j = 0 /\ s.at = Len(b[n]) + 0 /\ s.text = p[k] \o SubSeq(c[k + 1], 1, 0)
      BY <1>4, <1>9 DEF Within
    <2>2. s.text = p[k]
      <3>1. SubSeq(c[k + 1], 1, 0) = <<>>
        BY SubSeqEmpty
      <3> QED BY <1>6, <2>1, <3>1, ConcatEmptySeq
    <2>3. ~(s.at < Len(bytes))
      BY <1>2, <2>1 DEF bytes
    <2>4. StatementText(bytes) = p[k]
      BY <1>3, <2>2, <2>3
    <2>5. Max(fitting) = k
      <3>1. fitting \subseteq Int /\ k \in fitting /\ \A y \in fitting : y <= k
        BY <1>5, <1>8, <1>9
      <3> HIDE DEF fitting
      <3> QED BY ONLY <3>1, MaxIs
    <2> QED BY <2>4, <2>5 DEF bytes
  <1>10. CASE k # n
    <2>1. k \in 0 .. Len(c) - 1 /\ k + 1 \in 0 .. n
      BY <1>5, <1>10
    <2> DEFINE ch == c[k + 1]
    <2>2. /\ ch \in Characters /\ Len(b[k]) \in Nat /\ Len(b[k + 1]) = Len(b[k]) + Len(ch)
          /\ Len(b[k + 1]) <= Len(bytes) /\ Holds(bytes, Len(b[k]), ch)
      BY <2>1, NextCharacter DEF bytes
    <2>3. Len(ch) \in 1 .. 4 /\ ch[1] # "continuation" /\ \A m \in 2 .. Len(ch) : ch[m] = "continuation"
      BY <2>2, CharacterFacts
    <2>4. /\ j < Len(ch) /\ s.at = Len(b[k]) + j /\ s.text = p[k] \o SubSeq(ch, 1, j)
          /\ s.stopped => Len(p[k + 1]) > MaxLogged
          /\ ~s.stopped => s.at = Len(bytes)
      BY <1>4, <1>10 DEF Within
    <2> HIDE DEF ch
    <2>5. s.at < Len(bytes) /\ s.at + 1 = Len(b[k]) + (j + 1) /\ j + 1 \in 1 .. Len(ch) /\ (j # 0 => j + 1 \in 2 .. Len(ch))
      <3>1. PICK lb, lb1, lc, lx, at : lb = Len(b[k]) /\ lb1 = Len(b[k + 1]) /\ lc = Len(ch) /\ lx = Len(bytes) /\ at = s.at
        OBVIOUS
      <3>2. /\ lb \in Nat /\ lc \in 1 .. 4 /\ lb1 = lb + lc /\ lb1 <= lx /\ lx \in Nat /\ j \in Nat
            /\ j < lc /\ at = lb + j
        BY ONLY <1>2, <2>2, <2>3, <2>4, <3>1, j \in Nat
      <3>3. at < lx /\ at + 1 = lb + (j + 1) /\ j + 1 \in 1 .. lc /\ (j # 0 => j + 1 \in 2 .. lc)
        BY ONLY <3>2
      <3> QED BY ONLY <3>1, <3>3
    <2>6. bytes[s.at + 1] = ch[j + 1]
      <3>1. bytes[Len(b[k]) + (j + 1)] = ch[j + 1]
        BY ONLY <2>2, <2>5 DEF Holds
      <3> QED BY ONLY <2>5, <3>1, Zenon
    <2>7. StatementText(bytes) = p[k]
      <3>1. CASE j = 0
        <4>1. bytes[s.at + 1] # "continuation"
          <5>1. j + 1 = 1
            BY <3>1
          <5> QED BY ONLY <2>3, <2>6, <5>1
        <4>2. s.text = p[k]
          <5>1. SubSeq(ch, 1, 0) = <<>>
            BY SubSeqEmpty
          <5> QED BY <1>6, <2>4, <3>1, <5>1, ConcatEmptySeq
        <4> QED BY <1>3, <4>1, <4>2
      <3>2. CASE j # 0
        <4>1. bytes[s.at + 1] = "continuation"
          BY ONLY <2>3, <2>5, <2>6, <3>2
        <4>2. j \in 1 .. Len(ch) - 1
          BY ONLY <2>3, <2>5, <3>2, j \in Nat
        <4>3. WithoutPartial(p[k] \o SubSeq(ch, 1, j)) = p[k]
          BY <1>6, <2>2, <4>2, Trimmed
        <4> QED BY <1>3, <2>4, <2>5, <4>1, <4>3
      <3> QED BY <3>1, <3>2
    <2>8. Len(p[k + 1]) > MaxLogged
      <3>1. s.at # Len(bytes)
        <4>1. PICK lx, at : lx = Len(bytes) /\ at = s.at /\ at = Len(b[k]) + j
          BY <2>4
        <4>2. at < lx /\ lx \in Nat
          BY ONLY <1>2, <2>5, <4>1
        <4>3. at # lx
          BY ONLY <4>2
        <4> QED BY ONLY <4>1, <4>3
      <3> QED BY <2>4, <3>1
    <2>9. Max(fitting) = k
      <3>1. fitting \subseteq Int /\ k \in fitting
        BY <1>5, <1>8
      <3>2. ASSUME NEW y \in fitting
            PROVE  y <= k
        <4> SUFFICES ASSUME k + 1 <= y PROVE FALSE
          BY <1>5
        <4>1. y \in 0 .. n /\ Len(p[y]) <= MaxLogged
          OBVIOUS
        <4>2. y \in 0 .. Len(Displayed(c)) /\ k + 1 \in 0 .. Len(Displayed(c))
          BY <1>5, <2>1, <4>1
        <4>3. StartsWith(p[y], p[k + 1])
          BY <1>5, <4>2, Grows
        <4>4. PICK lk, ly : lk = Len(p[k + 1]) /\ ly = Len(p[y])
          OBVIOUS
        <4>5. lk <= ly /\ lk > MaxLogged /\ ly <= MaxLogged
          BY ONLY <2>8, <4>1, <4>3, <4>4 DEF StartsWith
        <4>6. lk \in Nat /\ ly \in Nat
          <5>1. p[k + 1] \in Seq(B) /\ p[y] \in Seq(B)
            BY <1>6, <2>1, <4>1
          <5> QED BY ONLY <4>4, <5>1
        <4> QED BY ONLY <1>5, <4>5, <4>6
      <3>3. \A y \in fitting : y <= k
        BY <3>2
      <3> HIDE DEF fitting
      <3> QED BY ONLY <3>1, <3>3, MaxIs
    <2> QED BY <2>7, <2>9 DEF bytes
  <1> QED BY <1>9, <1>10

\* A record's text is that of the text decided.
Recorded == text \in Texts /\ (logged # None => logged.statement = StatementText(Bytes(text)))

\* For every text and every limit, what a decision's record shows of it is the longest run of whole characters that
\* fits, NULs replaced (audit.cpp, StatementText).
THEOREM LoggedTextIsSound == Spec => []LoggedTextSound
  <1>1. Init => Recorded
    BY DEF Init, Recorded
  <1>2. Recorded /\ [Next]_vars => Recorded'
    <2> SUFFICES ASSUME Recorded, [Next]_vars PROVE Recorded'
      OBVIOUS
    <2>1. CASE CheckStatementText
      BY <2>1 DEF CheckStatementText, Recorded
    <2>2. CASE CheckNode
      BY <2>2 DEF CheckNode, Recorded
    <2>3. CASE Validate
      BY <2>3 DEF Validate, Recorded
    <2>4. CASE Decide
      <3> DEFINE statement == StatementText(Bytes(text))
                 length == Len(Bytes(text))
      <3>1. text' = text /\ \E level \in Levels :
              logged' = IF ShouldLog(level, result.allowed)
                        THEN [kind |-> "decision", code |-> result.code, statement |-> statement, statement_length |-> length]
                        ELSE None
        BY <2>4 DEF Decide
      <3> HIDE DEF statement, length
      <3>2. logged' # None => logged'.statement = statement
        BY <3>1
      <3> QED BY <3>1, <3>2 DEF Recorded, statement
    <2>5. CASE UNCHANGED vars
      BY <2>5 DEF vars, Recorded
    <2> QED BY <2>1, <2>2, <2>3, <2>4, <2>5 DEF Next
  <1>3. Recorded => LoggedTextSound
    <2> SUFFICES ASSUME Recorded, logged # None
                 PROVE  LET Prefix(n) == FlattenSeq(SubSeq(Shown(text), 1, n))
                            n == Max({k \in 0 .. Len(text.characters) : Len(Prefix(k)) <= MaxLogged})
                        IN  logged.statement = Prefix(n)
      BY DEF LoggedTextSound
    <2>1. PICK c : c = text.characters
      OBVIOUS
    <2>2. c \in Seq(Characters)
      BY <2>1, TextsAssumption DEF Recorded
    <2>3. Shown(text) = Displayed(c)
      BY <2>1 DEF Shown, Displayed, Display
    <2>4. c \in Seq(Seq(B)) /\ Displayed(c) \in Seq(Seq(B)) /\ Len(Displayed(c)) = Len(c)
      BY <2>2, TextFacts
    <2>5. PICK b : Prefixed(B, c, b)
      BY <2>4, FlatPrefixes
    <2>6. PICK p : Prefixed(B, Displayed(c), p)
      BY <2>4, FlatPrefixes
    <2>7. Bytes(text) = b[Len(c)]
      BY <2>1, <2>5 DEF Bytes, Prefixed
    <2> DEFINE Prefix(n) == FlattenSeq(SubSeq(Shown(text), 1, n))
               fits == {k \in 0 .. Len(c) : Len(p[k]) <= MaxLogged}
    <2>8. \A k \in 0 .. Len(c) : Prefix(k) = p[k]
      BY <2>3, <2>4, <2>6 DEF Prefixed
    <2>9. Max(fits) \in 0 .. Len(c) /\ StatementText(b[Len(c)]) = p[Max(fits)]
      <3>1. Gathers(B, c, b) /\ Gathers(B, Displayed(c), p)
        BY <2>5, <2>6 DEF Prefixed
      <3> QED BY <2>2, <3>1, LoggedPrefix
    <2> HIDE DEF Prefix
    <2>10. {k \in 0 .. Len(text.characters) : Len(Prefix(k)) <= MaxLogged} = fits
      BY <2>1, <2>8
    <2> HIDE DEF fits
    <2>11. logged.statement = Prefix(Max(fits))
      BY <2>7, <2>8, <2>9 DEF Recorded
    <2>12. logged.statement = Prefix(Max({k \in 0 .. Len(text.characters) : Len(Prefix(k)) <= MaxLogged}))
      BY <2>10, <2>11
    <2> QED BY <2>12 DEF Prefix
  <1> QED BY <1>1, <1>2, <1>3, PTL DEF Spec
-----------------------------------------------------------------------------
(***************************************************************************)
(* The walk (validator.cpp, Walker::Check), for every text, every grammar  *)
(* and every pair of limits.                                               *)
(***************************************************************************)
\* A nonempty set of naturals has a least member, and Min is one of the set.
LEMMA MinIn ==
  ASSUME NEW S \in SUBSET Nat, S # {}
  PROVE  Min(S) \in S
  <1>1. PICK x \in S : \A y \in S : ~(<<y, x>> \in OpToRel(<, Nat))
    BY NatLessThanWellFounded, WFMin
  <1>2. \A y \in S : x <= y
    <2> SUFFICES ASSUME NEW y \in S, ~(x <= y) PROVE FALSE
      OBVIOUS
    <2>1. y < x /\ x \in Nat /\ y \in Nat
      OBVIOUS
    <2>2. <<y, x>> \in OpToRel(<, Nat)
      BY <2>1 DEF OpToRel
    <2> QED BY <1>1, <2>2
  <1> QED BY <1>1, <1>2 DEF Min

\* What a JSON value holds is a JSON value.
LEMMA GetIn ==
  ASSUME NEW value \in Json, NEW name
  PROVE  Get(value, name) \in Json
  <1>0. Missing \in Json
    BY JsonAssumption DEF Closed, Missing
  <1>1. CASE ~Is(value, "object")
    BY <1>0, <1>1 DEF Get
  <1>2. CASE Is(value, "object")
    <2>1. value.fields \in Seq(STRING \X Json)
      BY <1>2, JsonAssumption DEF Closed, Is
    <2> DEFINE I == {i \in 1 .. Len(value.fields) : value.fields[i][1] = name}
    <2>2. I \in SUBSET Nat
      OBVIOUS
    <2>3. CASE I = {}
      <3>1. Get(value, name) = Missing
        BY <1>2, <2>3 DEF Get, SelectInSeq
      <3> QED BY <1>0, <3>1
    <2>4. CASE I # {}
      <3> DEFINE at == Min(I)
      <3>1. at \in I
        BY <2>2, <2>4, MinIn
      <3>2. at \in 1 .. Len(value.fields) /\ at # 0
        BY <3>1, <2>1
      <3>3. Get(value, name) = value.fields[at][2]
        BY <1>2, <2>4, <3>2 DEF Get, SelectInSeq
      <3> HIDE DEF at
      <3> QED BY <2>1, <3>2, <3>3
    <2> QED BY <2>3, <2>4
  <1> QED BY <1>1, <1>2

\* What an array holds is a sequence of JSON values.
LEMMA ItemsIn ==
  ASSUME NEW value \in Json
  PROVE  Items(value) \in Seq(Json)
  BY JsonAssumption DEF Closed, Items, Is

\* The work items of one level, as CheckNode pushes them.
Listing(c, depth) ==
  \E S : c \in Seq(S) /\ \A i \in 1 .. Len(c) : c[i].value \in Json /\ c[i].depth = depth + 1

\* A function over the positions of a sequence is a sequence.
LEMMA SequenceOf ==
  ASSUME NEW n \in Nat, NEW c, c = [i \in 1 .. n |-> c[i]]
  PROVE  c \in Seq({c[i] : i \in 1 .. n}) /\ Len(c) = n
  <1> DEFINE S == {c[i] : i \in 1 .. n}
  <1>1. c \in [1 .. n -> S]
    OBVIOUS
  <1> HIDE DEF S
  <1>2. c \in Seq(S) /\ Len(c) = n
    BY <1>1
  <1> QED BY <1>2 DEF S

\* Two lists of items of one level are one.
LEMMA ListingConcat ==
  ASSUME NEW depth \in Nat, NEW c, NEW d, Listing(c, depth), Listing(d, depth)
  PROVE  Listing(c \o d, depth)
  <1>1. PICK S : c \in Seq(S) /\ \A i \in 1 .. Len(c) : c[i].value \in Json /\ c[i].depth = depth + 1
    BY DEF Listing
  <1>2. PICK T : d \in Seq(T) /\ \A i \in 1 .. Len(d) : d[i].value \in Json /\ d[i].depth = depth + 1
    BY DEF Listing
  <1> DEFINE U == S \union T
  <1>3. c \in Seq(U) /\ d \in Seq(U)
    BY <1>1, <1>2
  <1> HIDE DEF U
  <1>4. c \o d \in Seq(U)
    BY <1>3
  <1>5. ASSUME NEW i \in 1 .. Len(c \o d)
        PROVE  (c \o d)[i].value \in Json /\ (c \o d)[i].depth = depth + 1
    <2>1. CASE i <= Len(c)
      <3>1. (c \o d)[i] = c[i] /\ i \in 1 .. Len(c)
        BY <1>3, <2>1
      <3> QED BY <1>1, <3>1
    <2>2. CASE ~(i <= Len(c))
      <3>1. (c \o d)[i] = d[i - Len(c)] /\ i - Len(c) \in 1 .. Len(d)
        BY <1>3, <2>2
      <3> QED BY <1>2, <3>1
    <2> QED BY <2>1, <2>2
  <1> QED BY <1>4, <1>5 DEF Listing

\* One item is a list of one level.
LEMMA ListingOne ==
  ASSUME NEW depth \in Nat, NEW value \in Json, NEW expected, NEW edge
  PROVE  Listing(<<Work(value, expected, depth + 1, edge)>>, depth)
  <1> DEFINE w == Work(value, expected, depth + 1, edge)
  <1>1. w.value \in Json /\ w.depth = depth + 1
    BY DEF Work
  <1> HIDE DEF w
  <1>2. <<w>> \in Seq({w}) /\ \A i \in 1 .. Len(<<w>>) : <<w>>[i] = w
    OBVIOUS
  <1>3. \A i \in 1 .. Len(<<w>>) : <<w>>[i].value \in Json /\ <<w>>[i].depth = depth + 1
    BY <1>1, <1>2
  <1>4. Listing(<<w>>, depth)
    BY <1>2, <1>3 DEF Listing
  <1> QED BY <1>4 DEF w

\* No item is too.
LEMMA ListingNone ==
  ASSUME NEW depth \in Nat
  PROVE  Listing(<<>>, depth)
  <1>1. <<>> \in Seq({}) /\ Len(<<>>) = 0
    OBVIOUS
  <1> QED BY <1>1 DEF Listing

\* A function over positions to items of one level is a list of them.
LEMMA ListingOf ==
  ASSUME NEW depth \in Nat, NEW n \in Nat, NEW c, c = [i \in 1 .. n |-> c[i]],
         \A i \in 1 .. n : c[i].value \in Json /\ c[i].depth = depth + 1
  PROVE  Listing(c, depth)
  <1>1. c \in Seq({c[i] : i \in 1 .. n}) /\ Len(c) = n
    BY SequenceOf
  <1> QED BY <1>1 DEF Listing

\* The types in a type.
LEMMA TypePartsListing ==
  ASSUME NEW value \in Json, NEW depth \in Nat
  PROVE  Listing(TypeParts(value, depth), depth)
  <1> DEFINE info == Get(value, "type_info")
             Part(part, expected) == IF Present(part) THEN <<Work(part, expected, depth + 1, "type")>> ELSE <<>>
             nested == Items(Get(info, "child_types"))
             c == [i \in DOMAIN nested |-> Work(Get(nested[i], "second"), "logical_type", depth + 1, "type")]
  <1>1. info \in Json
    BY GetIn
  <1>2. \A part \in Json : \A expected : Listing(Part(part, expected), depth)
    <2> SUFFICES ASSUME NEW part \in Json, NEW expected PROVE Listing(Part(part, expected), depth)
      OBVIOUS
    <2> QED BY ListingOne, ListingNone
  <1>3. Listing(c, depth)
    <2>1. nested \in Seq(Json)
      BY <1>1, GetIn, ItemsIn
    <2> HIDE DEF nested
    <2>2. PICK n \in Nat : DOMAIN nested = 1 .. n
      BY <2>1
    <2>3. \A i \in 1 .. n : nested[i] \in Json
      BY <2>1, <2>2
    <2>4. ASSUME NEW i \in 1 .. n
          PROVE  c[i].value \in Json /\ c[i].depth = depth + 1
      <3>1. Get(nested[i], "second") \in Json
        BY <2>3, GetIn
      <3>2. c[i] = Work(Get(nested[i], "second"), "logical_type", depth + 1, "type")
        BY <2>2
      <3> QED BY <3>1, <3>2 DEF Work
    <2>5. c = [i \in 1 .. n |-> c[i]]
      BY <2>2
    <2> HIDE DEF c
    <2> QED BY <2>4, <2>5, ListingOf
  <1>4. Get(info, "expr") \in Json /\ Get(info, "child_type") \in Json
    BY <1>1, GetIn
  <1>5. TypeParts(value, depth) =
          IF Field(value, "id") \in {"UNBOUND", "USER"} THEN Part(Get(info, "expr"), "ParsedExpression")
          ELSE Part(Get(info, "child_type"), "logical_type") \o c
    BY DEF TypeParts
  <1> HIDE DEF info, Part, c
  <1>6. Listing(Part(Get(info, "expr"), "ParsedExpression"), depth)
    BY <1>2, <1>4
  <1>7. Listing(Part(Get(info, "child_type"), "logical_type") \o c, depth)
    BY <1>2, <1>3, <1>4, ListingConcat
  <1> QED BY <1>5, <1>6, <1>7

\* A sequence without one of its members is a sequence.
LEMMA WithoutOne ==
  ASSUME NEW S, NEW s \in Seq(S), NEW k \in 1 .. Len(s)
  PROVE  RemoveAt(s, k) \in Seq(S)
  <1>1. SubSeq(s, 1, k - 1) \in Seq(S) /\ SubSeq(s, k + 1, Len(s)) \in Seq(S)
    OBVIOUS
  <1> QED BY <1>1 DEF RemoveAt

\* What CheckNode pushes for a node the grammar describes is a list of JSON values one level down.
LEMMA ChildrenListing ==
  ASSUME NEW value \in Json, NEW expected, NEW depth \in Nat, ~Unsupported(value, expected)
  PROVE  Listing(Children(value, expected, depth), depth)
  <1>1. CASE expected = "logical_type"
    <2>1. Children(value, expected, depth) = TypeParts(value, depth)
      BY <1>1 DEF Children
    <2> QED BY <2>1, TypePartsListing
  <1>2. CASE expected = "opaque"
    <2>1. \/ Children(value, expected, depth) = <<Work(Get(value, "value"), "logical_type", depth + 1, "type")>>
          \/ Children(value, expected, depth) = <<>>
      BY <1>2 DEF Children
    <2>2. Get(value, "value") \in Json
      BY GetIn
    <2> QED BY <2>1, <2>2, ListingOne, ListingNone
  <1>3. CASE expected \notin {"logical_type", "opaque"} /\ expected \in DOMAIN Elements
    <2> DEFINE c == [i \in DOMAIN value.items |-> Work(value.items[i], Elements[expected], depth + 1, "")]
    <2>1. Children(value, expected, depth) = c
      BY <1>3 DEF Children
    <2>2. value.items \in Seq(Json)
      BY <1>3, JsonAssumption DEF Unsupported, Closed, Is
    <2>3. PICK n \in Nat : DOMAIN value.items = 1 .. n
      BY <2>2
    <2>4. \A i \in 1 .. n : value.items[i] \in Json
      BY <2>2, <2>3
    <2>5. c = [i \in 1 .. n |-> c[i]]
      BY <2>3
    <2>6. \A i \in 1 .. n : c[i].value \in Json /\ c[i].depth = depth + 1
      BY <2>3, <2>4 DEF Work
    <2> HIDE DEF c
    <2> QED BY <2>1, <2>5, <2>6, ListingOf
  <1>4. CASE expected \notin {"logical_type", "opaque"} /\ expected \notin DOMAIN Elements /\ ~Is(value, "object")
    <2>1. Children(value, expected, depth) = <<>>
      BY <1>4 DEF Children
    <2> QED BY <2>1, ListingNone
  <1>5. CASE expected \notin {"logical_type", "opaque"} /\ expected \notin DOMAIN Elements /\ Is(value, "object")
    <2> DEFINE fields == RemoveFirstMatch(value.fields, LAMBDA field : field[1] = "cte_map")
               kinds == Rules[Rule(value, expected)].fields
               entries == CteEntries(value)
               c == [i \in DOMAIN entries |-> Work(entries[i], "cte_entry", depth + 1, "")]
               d == [i \in DOMAIN fields |-> Work(fields[i][2], kinds[fields[i][1]], depth + 1, fields[i][1])]
    <2>1. Children(value, expected, depth) = c \o d
      BY <1>5 DEF Children
    <2>2. Listing(c, depth)
      <3>1. entries \in Seq(Json)
        BY GetIn, ItemsIn DEF CteEntries
      <3> HIDE DEF entries
      <3>2. PICK n \in Nat : DOMAIN entries = 1 .. n
        BY <3>1
      <3>3. \A i \in 1 .. n : entries[i] \in Json
        BY <3>1, <3>2
      <3>4. c = [i \in 1 .. n |-> c[i]]
        BY <3>2
      <3>5. \A i \in 1 .. n : c[i].value \in Json /\ c[i].depth = depth + 1
        BY <3>2, <3>3 DEF Work
      <3> HIDE DEF c
      <3> QED BY <3>4, <3>5, ListingOf
    <2>3. fields \in Seq(STRING \X Json)
      <3>1. value.fields \in Seq(STRING \X Json)
        BY <1>5, JsonAssumption DEF Closed, Is
      <3> DEFINE I == {i \in 1 .. Len(value.fields) : value.fields[i][1] = "cte_map"}
      <3>2. CASE I = {}
        <4>1. fields = value.fields
          BY <3>2 DEF RemoveFirstMatch
        <4> QED BY <3>1, <4>1
      <3>3. CASE I # {}
        <4>1. fields = RemoveAt(value.fields, Min(I))
          BY <3>3 DEF RemoveFirstMatch, SelectInSeq
        <4>2. Min(I) \in I
          <5>1. I \in SUBSET Nat
            OBVIOUS
          <5> HIDE DEF I
          <5> QED BY <3>3, <5>1, MinIn
        <4>3. Min(I) \in 1 .. Len(value.fields)
          BY <4>2
        <4> HIDE DEF I
        <4> QED BY <3>1, <4>1, <4>3, WithoutOne
      <3> QED BY <3>2, <3>3
    <2>4. Listing(d, depth)
      <3> HIDE DEF fields, kinds
      <3>2. PICK n \in Nat : DOMAIN fields = 1 .. n
        BY <2>3
      <3>3. \A i \in 1 .. n : fields[i][2] \in Json
        BY <2>3, <3>2
      <3>4. d = [i \in 1 .. n |-> d[i]]
        BY <3>2
      <3>5. \A i \in 1 .. n : d[i].value \in Json /\ d[i].depth = depth + 1
        BY <3>2, <3>3 DEF Work
      <3> HIDE DEF d
      <3> QED BY <3>4, <3>5, ListingOf
    <2> HIDE DEF c, d
    <2> QED BY <2>1, <2>2, <2>4, ListingConcat
  <1> QED BY <1>1, <1>2, <1>3, <1>4, <1>5

-----------------------------------------------------------------------------
(***************************************************************************)
(* The tree.                                                               *)
(***************************************************************************)
Top(ast) == <<<<>>, Work(ast, "root", 0, "")>>

\* The children of a node, as Offspring lists them.
ChildrenOf(node) ==
  IF Unsupported(node[2].value, node[2].expected) THEN <<>>
  ELSE Children(node[2].value, node[2].expected, node[2].depth)

\* A node of a tree of JSON values.
Node(node) ==
  node = <<node[1], node[2]>> /\ node[1] \in Seq(Nat) /\ node[2].value \in Json /\ node[2].depth \in Nat

\* One more level, and the tree to a level.
Grow(found, d) == found \union UNION {Offspring(node) : node \in {n \in found : n[2].depth = d - 1}}
GrownTo(ast, n, f) ==
  /\ f = [d \in 0 .. n |-> f[d]]
  /\ f[0] = {Top(ast)}
  /\ \A d \in 1 .. n : f[d] = Grow(f[d - 1], d)

\* The tree can be grown to every level.
LEMMA Growing ==
  ASSUME NEW ast, NEW n \in Nat
  PROVE  \E f : GrownTo(ast, n, f)
  <1> DEFINE T == {m \in 0 .. n : \E f : GrownTo(ast, m, f)}
  <1>1. 0 \in T
    <2> DEFINE f == [d \in 0 .. 0 |-> {Top(ast)}]
    <2>1. f = [d \in 0 .. 0 |-> f[d]] /\ f[0] = {Top(ast)}
      OBVIOUS
    <2> HIDE DEF f
    <2>2. GrownTo(ast, 0, f)
      BY <2>1 DEF GrownTo
    <2> QED BY <2>2
  <1>2. ASSUME NEW m \in 0 .. n - 1, m \in T
        PROVE  m + 1 \in T
    <2>1. PICK f : GrownTo(ast, m, f)
      BY <1>2
    <2> DEFINE g == [d \in 0 .. m + 1 |-> IF d = m + 1 THEN Grow(f[m], m + 1) ELSE f[d]]
    <2>2. g = [d \in 0 .. m + 1 |-> g[d]]
      OBVIOUS
    <2>3. g[0] = {Top(ast)}
      BY <2>1 DEF GrownTo
    <2>4. ASSUME NEW d \in 1 .. m + 1
          PROVE  g[d] = Grow(g[d - 1], d)
      <3>1. g[d - 1] = f[d - 1]
        OBVIOUS
      <3>2. CASE d = m + 1
        <4>1. g[d] = Grow(f[m], m + 1) /\ d - 1 = m
          BY <3>2
        <4> HIDE DEF g
        <4> QED BY <3>1, <3>2, <4>1
      <3>3. CASE d \in 1 .. m
        <4>1. g[d] = f[d]
          BY <3>3
        <4>2. f[d] = Grow(f[d - 1], d)
          BY <2>1, <3>3 DEF GrownTo
        <4> HIDE DEF g
        <4> QED BY <3>1, <4>1, <4>2
      <3> QED BY <3>2, <3>3
    <2> HIDE DEF g
    <2>5. GrownTo(ast, m + 1, g)
      BY <2>2, <2>3, <2>4 DEF GrownTo
    <2> QED BY <2>5
  <1> HIDE DEF T
  <1>3. \A m \in 0 .. n - 1 : m \in T => m + 1 \in T
    BY <1>2
  <1>4. n \in T
    BY <1>1, <1>3, UpTo
  <1> QED BY <1>4 DEF T

\* Tree is the tree grown to one level below the limit.
LEMMA TreeGrows ==
  ASSUME NEW ast
  PROVE  \E f : GrownTo(ast, MaxDepth + 1, f) /\ Tree(ast) = f[MaxDepth + 1]
  <1>0. MaxDepth + 1 \in Nat
    BY LimitsAssumption
  <1> DEFINE Body(g) == [d \in 0 .. MaxDepth + 1 |->
                           IF d = 0 THEN {<<<<>>, Work(ast, "root", 0, "")>>}
                           ELSE g[d - 1] \union UNION {Offspring(node) : node \in {n \in g[d - 1] : n[2].depth = d - 1}}]
             grown == CHOOSE g : g = Body(g)
  <1>1. \A f : f = Body(f) <=> GrownTo(ast, MaxDepth + 1, f)
    <2> SUFFICES ASSUME NEW f PROVE f = Body(f) <=> GrownTo(ast, MaxDepth + 1, f)
      OBVIOUS
    <2>1. ASSUME f = Body(f) PROVE GrownTo(ast, MaxDepth + 1, f)
      <3>1. f = [d \in 0 .. MaxDepth + 1 |-> f[d]]
        BY <2>1
      <3>2. f[0] = {Top(ast)}
        <4>1. 0 \in 0 .. MaxDepth + 1
          BY <1>0
        <4>2. Body(f)[0] = {Top(ast)}
          BY <4>1 DEF Top
        <4> QED BY <2>1, <4>2
      <3>3. ASSUME NEW d \in 1 .. MaxDepth + 1 PROVE f[d] = Grow(f[d - 1], d)
        <4>0. d \in 0 .. MaxDepth + 1 /\ d # 0
          BY <1>0
        <4>1. Body(f)[d] = f[d - 1] \union UNION {Offspring(node) : node \in {n \in f[d - 1] : n[2].depth = d - 1}}
          BY <4>0
        <4> HIDE DEF Body
        <4> QED BY <2>1, <4>1 DEF Grow
      <3> HIDE DEF Body
      <3> QED BY <3>1, <3>2, <3>3 DEF GrownTo
    <2>2. ASSUME GrownTo(ast, MaxDepth + 1, f) PROVE f = Body(f)
      <3>1. f = [d \in 0 .. MaxDepth + 1 |-> f[d]] /\ f[0] = {Top(ast)}
            /\ \A d \in 1 .. MaxDepth + 1 : f[d] = Grow(f[d - 1], d)
        BY <2>2 DEF GrownTo
      <3>2. ASSUME NEW d \in 0 .. MaxDepth + 1 PROVE f[d] = Body(f)[d]
        <4>1. CASE d = 0
          BY <3>1, <4>1 DEF Top
        <4>2. CASE d # 0
          <5>1. d \in 1 .. MaxDepth + 1
            BY <1>0, <4>2
          <5> QED BY <3>1, <4>2, <5>1 DEF Grow
        <4> QED BY <4>1, <4>2
      <3>3. Body(f) = [d \in 0 .. MaxDepth + 1 |-> Body(f)[d]]
        OBVIOUS
      <3> HIDE DEF Body
      <3> QED BY <3>1, <3>2, <3>3
    <2> QED BY <2>1, <2>2
  <1>2. \E f : f = Body(f)
    <2>1. \E f : GrownTo(ast, MaxDepth + 1, f)
      BY <1>0, Growing
    <2> HIDE DEF Body
    <2> QED BY <1>1, <2>1
  <1>3. Tree(ast) = grown[MaxDepth + 1]
    BY DEF Tree
  <1> HIDE DEF Body
  <1>4. grown = Body(grown)
    BY <1>2
  <1> HIDE DEF grown
  <1>5. GrownTo(ast, MaxDepth + 1, grown)
    BY <1>1, <1>4
  <1> QED BY <1>3, <1>5

\* The nodes below a node are those its children list, one level down.
LEMMA OffspringIs ==
  ASSUME NEW node, Node(node)
  PROVE  /\ Listing(ChildrenOf(node), node[2].depth)
         /\ Offspring(node) = {<<Append(node[1], i), ChildrenOf(node)[i]>> : i \in 1 .. Len(ChildrenOf(node))}
         /\ \A m \in Offspring(node) : Node(m) /\ m[2].depth = node[2].depth + 1
         /\ IsFiniteSet(Offspring(node))
  <1>0. node[2].value \in Json /\ node[2].depth \in Nat /\ node[1] \in Seq(Nat)
    BY DEF Node
  <1>1. Listing(ChildrenOf(node), node[2].depth)
    BY <1>0, ChildrenListing, ListingNone DEF ChildrenOf
  <1> DEFINE c == ChildrenOf(node)
             depth == node[2].depth
  <1>2. PICK S : c \in Seq(S) /\ \A i \in 1 .. Len(c) : c[i].value \in Json /\ c[i].depth = depth + 1
    BY <1>1 DEF Listing
  <1>3. Offspring(node) = {<<Append(node[1], i), c[i]>> : i \in DOMAIN c}
    BY DEF Offspring, ChildrenOf
  <1> HIDE DEF c, depth
  <1>4. PICK n \in Nat : n = Len(c) /\ DOMAIN c = 1 .. n
    BY <1>2
  <1>5. ASSUME NEW m \in Offspring(node)
        PROVE  Node(m) /\ m[2].depth = depth + 1
    <2>1. PICK i \in 1 .. n : m = <<Append(node[1], i), c[i]>>
      BY <1>3, <1>4
    <2>2. Append(node[1], i) \in Seq(Nat)
      BY <1>0
    <2>3. depth + 1 \in Nat
      BY <1>0 DEF depth
    <2> QED BY <1>2, <1>4, <2>1, <2>2, <2>3 DEF Node
  <1>6. IsFiniteSet(Offspring(node))
    <2> DEFINE f == [i \in 1 .. n |-> <<Append(node[1], i), c[i]>>]
    <2>1. f \in Surjection(1 .. n, Offspring(node))
      BY <1>3, <1>4 DEF Surjection
    <2>2. IsFiniteSet(1 .. n)
      BY FS_Interval
    <2> QED BY <2>1, <2>2, FS_Surjection
  <1> QED BY <1>1, <1>3, <1>4, <1>5, <1>6 DEF c, depth

\* One more level of a finite set of nodes is one, and nothing of it is deeper.
LEMMA GrowKeeps ==
  ASSUME NEW found, NEW d \in Nat \ {0}, IsFiniteSet(found),
         \A m \in found : Node(m) /\ m[2].depth <= d - 1
  PROVE  /\ IsFiniteSet(Grow(found, d))
         /\ \A m \in Grow(found, d) : Node(m) /\ m[2].depth <= d
  <1> DEFINE last == {n \in found : n[2].depth = d - 1}
             sets == {Offspring(node) : node \in last}
  <1>1. IsFiniteSet(UNION sets)
    <2>1. IsFiniteSet(last)
      BY FS_Subset
    <2>2. \A s \in sets : IsFiniteSet(s)
      BY OffspringIs
    <2> HIDE DEF last
    <2>3. IsFiniteSet(sets)
      <3> DEFINE f == [node \in last |-> Offspring(node)]
      <3>1. f \in Surjection(last, sets)
        BY DEF Surjection
      <3> HIDE DEF f, sets
      <3> QED BY <2>1, <3>1, FS_Surjection
    <2> HIDE DEF sets
    <2> QED BY <2>2, <2>3, FS_UNION
  <1>2. Grow(found, d) = found \union UNION sets
    BY DEF Grow
  <1>3. IsFiniteSet(found \union UNION sets)
    <2> HIDE DEF sets
    <2> QED BY <1>1, FS_Union
  <1>4. ASSUME NEW m \in UNION sets
        PROVE  Node(m) /\ m[2].depth <= d
    <2>1. PICK node \in last : m \in Offspring(node)
      OBVIOUS
    <2>2. Node(node) /\ node[2].depth = d - 1
      BY <2>1
    <2>3. Node(m) /\ m[2].depth = (d - 1) + 1
      BY <2>1, <2>2, OffspringIs
    <2> QED BY <2>3
  <1>5. ASSUME NEW m \in found
        PROVE  Node(m) /\ m[2].depth <= d
    <2>1. Node(m) /\ m[2].depth <= d - 1 /\ m[2].depth \in Nat
      BY DEF Node
    <2> QED BY <2>1
  <1> HIDE DEF sets
  <1> QED BY <1>2, <1>3, <1>4, <1>5

\* The tree: finite, rooted at the statement, closed under what lies below its nodes down to the limit, and part of
\* every set with the root that is.
LEMMA TreeIs ==
  ASSUME NEW ast \in Json
  PROVE  /\ IsFiniteSet(Tree(ast)) /\ \A m \in Tree(ast) : Node(m)
         /\ Top(ast) \in Tree(ast)
         /\ \A m \in Tree(ast) : m[2].depth <= MaxDepth => Offspring(m) \subseteq Tree(ast)
         /\ \A V : Top(ast) \in V /\ (\A v \in V : Offspring(v) \subseteq V) => Tree(ast) \subseteq V
  <1>0. MaxDepth \in Nat
    BY LimitsAssumption
  <1>1. PICK f : GrownTo(ast, MaxDepth + 1, f) /\ Tree(ast) = f[MaxDepth + 1]
    BY TreeGrows
  <1> DEFINE N == MaxDepth + 1
             P(d) == /\ IsFiniteSet(f[d]) /\ \A m \in f[d] : Node(m) /\ m[2].depth <= d
                     /\ Top(ast) \in f[d]
                     /\ \A m \in f[d] : m[2].depth < d => Offspring(m) \subseteq f[d]
             T == {d \in 0 .. N : P(d)}
  <1>2. f[0] = {Top(ast)}
    BY <1>1 DEF GrownTo
  <1>3. \A d \in 0 .. N - 1 : f[d + 1] = Grow(f[d], d + 1)
    <2> SUFFICES ASSUME NEW d \in 0 .. N - 1 PROVE f[d + 1] = Grow(f[d], d + 1)
      OBVIOUS
    <2>1. d + 1 \in 1 .. N /\ (d + 1) - 1 = d
      BY <1>0
    <2> HIDE DEF N
    <2>2. f[d + 1] = Grow(f[(d + 1) - 1], d + 1)
      BY <1>1, <2>1 DEF GrownTo, N
    <2> QED BY <2>1, <2>2
  <1>4. 0 \in T
    <2>1. Node(Top(ast)) /\ Top(ast)[2].depth = 0
      <3> DEFINE work == Work(ast, "root", 0, "")
      <3>1. work.value \in Json /\ work.depth = 0
        BY DEF Work
      <3> HIDE DEF work
      <3>2. Top(ast) = <<<<>>, work>>
        BY DEF Top, work
      <3>3. <<>> \in Seq(Nat)
        OBVIOUS
      <3> DEFINE top == Top(ast)
      <3>4. top = <<top[1], top[2]>> /\ top[1] = <<>> /\ top[2] = work
        BY <3>2
      <3> HIDE DEF top
      <3>5. Node(top) /\ top[2].depth = 0
        BY <3>1, <3>3, <3>4 DEF Node
      <3> QED BY <3>5 DEF top
    <2>2. IsFiniteSet({Top(ast)})
      BY FS_Singleton
    <2>3. \A m \in f[0] : Node(m) /\ m[2].depth <= 0 /\ ~(m[2].depth < 0)
      <3>1. \A m \in f[0] : Node(m) /\ m[2].depth = 0
        BY <1>2, <2>1
      <3> QED BY <3>1
    <2>4. P(0)
      BY <1>2, <2>2, <2>3
    <2> HIDE DEF P
    <2> QED BY <1>0, <2>4
  <1>5. ASSUME NEW d \in 0 .. N - 1, d \in T
        PROVE  d + 1 \in T
    <2>0. P(d)
      BY <1>5
    <2>1. f[d + 1] = Grow(f[d], d + 1)
      BY <1>3
    <2>2. d \in Nat /\ d + 1 \in Nat \ {0} /\ (d + 1) - 1 = d /\ d + 1 \in 0 .. N
      BY <1>0
    <2>3. \A m \in f[d] : Node(m) /\ m[2].depth <= (d + 1) - 1
      BY <2>0, <2>2
    <2>4. IsFiniteSet(f[d + 1]) /\ \A m \in f[d + 1] : Node(m) /\ m[2].depth <= d + 1
      BY <2>0, <2>1, <2>2, <2>3, GrowKeeps
    <2>5. \A m : m \in f[d + 1] <=> m \in f[d] \/ \E n \in f[d] : n[2].depth = d /\ m \in Offspring(n)
      BY <2>1, <2>2 DEF Grow
    <2>6. Top(ast) \in f[d + 1]
      BY <2>0, <2>5
    <2>7. ASSUME NEW m \in f[d + 1], m[2].depth < d + 1
          PROVE  Offspring(m) \subseteq f[d + 1]
      <3>0. Node(m) /\ m[2].depth \in Nat
        BY <2>4 DEF Node
      <3>1. m \in f[d]
        <4> SUFFICES ASSUME NEW n \in f[d], n[2].depth = d, m \in Offspring(n) PROVE FALSE
          BY <2>5
        <4>1. m[2].depth = d + 1
          BY <2>0, OffspringIs
        <4> QED BY <2>2, <2>7, <4>1
      <3>2. CASE m[2].depth = d
        BY <2>5, <3>1, <3>2
      <3>3. CASE m[2].depth < d
        <4>1. Offspring(m) \subseteq f[d]
          BY <2>0, <3>1, <3>3
        <4> QED BY <2>5, <4>1
      <3> QED BY <2>2, <2>7, <3>0, <3>2, <3>3
    <2>8. P(d + 1)
      BY <2>4, <2>6, <2>7
    <2> HIDE DEF P
    <2> QED BY <2>2, <2>8
  <1>6. P(N)
    <2> HIDE DEF P, T
    <2>1. \A d \in 0 .. N - 1 : d \in T => d + 1 \in T
      BY <1>5
    <2>2. N \in Nat
      BY <1>0
    <2> HIDE DEF N
    <2>3. N \in T
      BY <1>4, <2>1, <2>2, UpTo
    <2> QED BY <2>3 DEF T
  <1>7. ASSUME NEW m \in Tree(ast), m[2].depth <= MaxDepth
        PROVE  Offspring(m) \subseteq Tree(ast)
    <2>1. m \in f[N] /\ m[2].depth \in Nat
      BY <1>1, <1>6 DEF Node
    <2>2. m[2].depth < N
      BY <1>0, <1>7, <2>1
    <2> QED BY <1>1, <1>6, <2>1, <2>2
  <1>8. ASSUME NEW V, Top(ast) \in V, \A v \in V : Offspring(v) \subseteq V
        PROVE  Tree(ast) \subseteq V
    <2> DEFINE W == {d \in 0 .. N : f[d] \subseteq V}
    <2>1. 0 \in W
      BY <1>0, <1>2, <1>8
    <2>2. ASSUME NEW d \in 0 .. N - 1, d \in W PROVE d + 1 \in W
      <3>1. f[d] \subseteq V /\ d + 1 \in 0 .. N /\ f[d + 1] = Grow(f[d], d + 1)
        BY <1>0, <1>3, <2>2
      <3>2. \A m \in Grow(f[d], d + 1) : m \in f[d] \/ \E n \in f[d] : m \in Offspring(n)
        BY DEF Grow
      <3>3. f[d + 1] \subseteq V
        BY <1>8, <3>1, <3>2
      <3> QED BY <3>1, <3>3
    <2>3. N \in Nat
      BY <1>0
    <2> HIDE DEF W, N
    <2>4. N \in W
      BY <2>1, <2>2, <2>3, UpTo
    <2> QED BY <1>1, <2>4 DEF W, N
  <1>9. IsFiniteSet(Tree(ast)) /\ (\A m \in Tree(ast) : Node(m)) /\ Top(ast) \in Tree(ast)
    BY <1>1, <1>6
  <1> HIDE DEF P, T, N
  <1> QED BY <1>7, <1>8, <1>9

-----------------------------------------------------------------------------
(***************************************************************************)
(* The walk through the tree.                                              *)
(***************************************************************************)
\* Between two turns: V is what has been checked and Q what is pending.  Each path is met once, the root is met, what
\* lies below a checked node is met, nothing else is, and no checked node stopped the walk.
Frontier(ast, V, Q) ==
  /\ V \subseteq Tree(ast) /\ Q \subseteq Tree(ast) /\ V \intersect Q = {}
  /\ \A a, b \in V \union Q : a[1] = b[1] => a = b
  /\ Top(ast) \in V \union Q
  /\ \A v \in V : Offspring(v) \subseteq V \union Q
  /\ \A m \in V \union Q : m = Top(ast) \/ \E v \in V : m \in Offspring(v)
  /\ \A v \in V : v[2].depth <= MaxDepth /\ ~Unsupported(v[2].value, v[2].expected)

\* What lies below a pending node has not been met: its path is new.
LEMMA OffspringNew ==
  ASSUME NEW ast \in Json, NEW V, NEW Q, Frontier(ast, V, Q), NEW n \in Q, NEW m \in Offspring(n), NEW a \in V \union Q
  PROVE  a[1] # m[1]
  <1>1. Node(n) /\ Node(a)
    BY TreeIs DEF Frontier
  <1>2. PICK i \in Nat : m[1] = Append(n[1], i)
    <2>1. PICK k \in 1 .. Len(ChildrenOf(n)) : m = <<Append(n[1], k), ChildrenOf(n)[k]>>
      BY <1>1, OffspringIs
    <2>2. k \in Nat
      <3>1. Listing(ChildrenOf(n), n[2].depth)
        BY <1>1, OffspringIs
      <3>2. Len(ChildrenOf(n)) \in Nat
        BY <3>1 DEF Listing
      <3> QED BY <3>2
    <2> QED BY <2>1, <2>2
  <1> SUFFICES ASSUME a[1] = m[1] PROVE FALSE
    OBVIOUS
  <1>3. a # Top(ast)
    <2>1. n[1] \in Seq(Nat)
      BY <1>1 DEF Node
    <2>2. Append(n[1], i) # <<>>
      BY <2>1
    <2>3. Top(ast)[1] = <<>>
      BY DEF Top
    <2> QED BY <1>2, <2>2, <2>3
  <1>4. PICK v \in V : a \in Offspring(v)
    BY <1>3 DEF Frontier
  <1>5. Node(v)
    BY TreeIs DEF Frontier
  <1>6. PICK j \in Nat : a[1] = Append(v[1], j)
    <2>1. PICK k \in 1 .. Len(ChildrenOf(v)) : a = <<Append(v[1], k), ChildrenOf(v)[k]>>
      BY <1>4, <1>5, OffspringIs
    <2>2. k \in Nat
      <3>1. Listing(ChildrenOf(v), v[2].depth)
        BY <1>5, OffspringIs
      <3>2. Len(ChildrenOf(v)) \in Nat
        BY <3>1 DEF Listing
      <3> QED BY <3>2
    <2> QED BY <2>1, <2>2
  <1>7. n[1] = v[1]
    <2>1. n[1] \in Seq(Nat) /\ v[1] \in Seq(Nat)
      BY <1>1, <1>5 DEF Node
    <2>2. Append(n[1], i) = Append(v[1], j)
      BY <1>2, <1>6
    <2>3. \A s, t \in Seq(Nat), x, y \in Nat : Append(s, x) = Append(t, y) => s = t
      <3> SUFFICES ASSUME NEW s \in Seq(Nat), NEW t \in Seq(Nat), NEW x \in Nat, NEW y \in Nat, Append(s, x) = Append(t, y)
                   PROVE  s = t
        OBVIOUS
      <3> QED BY AppendInjective
    <2> QED BY <2>1, <2>2, <2>3
  <1>8. n = v
    BY <1>7 DEF Frontier
  <1> QED BY <1>8 DEF Frontier

\* Checking a pending node keeps the frontier.
LEMMA FrontierStep ==
  ASSUME NEW ast \in Json, NEW V, NEW Q, Frontier(ast, V, Q), NEW n \in Q,
         n[2].depth <= MaxDepth, ~Unsupported(n[2].value, n[2].expected)
  PROVE  /\ Frontier(ast, V \union {n}, (Q \ {n}) \union Offspring(n))
         /\ (V \union Q) \intersect Offspring(n) = {}
  <1> DEFINE W == V \union {n}
             R == (Q \ {n}) \union Offspring(n)
  <1>0. Node(n) /\ n \in Tree(ast)
    BY TreeIs DEF Frontier
  <1>1. \A m \in Offspring(n), a \in V \union Q : a[1] # m[1]
    BY OffspringNew
  <1>2. (V \union Q) \intersect Offspring(n) = {}
    BY <1>1
  <1>3. W \subseteq Tree(ast) /\ R \subseteq Tree(ast) /\ W \intersect R = {}
    BY <1>0, <1>2, TreeIs DEF Frontier
  <1>4. \A a, b \in Offspring(n) : a[1] = b[1] => a = b
    <2> SUFFICES ASSUME NEW a \in Offspring(n), NEW b \in Offspring(n), a[1] = b[1] PROVE a = b
      OBVIOUS
    <2>1. PICK i \in 1 .. Len(ChildrenOf(n)) : a = <<Append(n[1], i), ChildrenOf(n)[i]>>
      BY <1>0, OffspringIs
    <2>2. PICK j \in 1 .. Len(ChildrenOf(n)) : b = <<Append(n[1], j), ChildrenOf(n)[j]>>
      BY <1>0, OffspringIs
    <2>3. n[1] \in Seq(Nat)
      BY <1>0 DEF Node
    <2>4. Len(ChildrenOf(n)) \in Nat
      BY <1>0, OffspringIs DEF Listing
    <2>5. Append(n[1], i) = Append(n[1], j) /\ i \in Nat /\ j \in Nat
      BY <2>1, <2>2, <2>4
    <2>6. i = j
      BY <2>3, <2>5
    <2> QED BY <2>1, <2>2, <2>6
  <1>5. \A a, b \in W \union R : a[1] = b[1] => a = b
    BY <1>1, <1>4 DEF Frontier
  <1>6. Top(ast) \in W \union R
    BY DEF Frontier
  <1>7. \A v \in W : Offspring(v) \subseteq W \union R
    BY DEF Frontier
  <1>8. \A m \in W \union R : m = Top(ast) \/ \E v \in W : m \in Offspring(v)
    BY DEF Frontier
  <1>9. \A v \in W : v[2].depth <= MaxDepth /\ ~Unsupported(v[2].value, v[2].expected)
    BY DEF Frontier
  <1> HIDE DEF W, R
  <1>10. Frontier(ast, W, R)
    BY <1>3, <1>5, <1>6, <1>7, <1>8, <1>9 DEF Frontier
  <1> QED BY <1>2, <1>10 DEF W, R

\* A list of a set: each member once.
Lists(q, Q) ==
  /\ q \in Seq(Q)
  /\ \A x \in Q : \E i \in 1 .. Len(q) : q[i] = x
  /\ \A i, j \in 1 .. Len(q) : q[i] = q[j] => i = j

\* The list without its last member lists the others.
LEMMA ListsFront ==
  ASSUME NEW Q, NEW q, Lists(q, Q), q # <<>>
  PROVE  q[Len(q)] \in Q /\ Lists(Front(q), Q \ {q[Len(q)]})
  <1>0. q \in Seq(Q)
    BY DEF Lists
  <1>1. PICK n \in Nat : Len(q) = n + 1
    BY <1>0
  <1> DEFINE p == Front(q)
             x == q[n + 1]
  <1>2. p \in Seq(Q) /\ Len(p) = n /\ \A i \in 1 .. n : p[i] = q[i]
    BY <1>0, <1>1 DEF Front
  <1>3. x \in Q
    BY <1>0, <1>1
  <1>4. \A i, j \in 1 .. n + 1 : q[i] = q[j] => i = j
    BY <1>1 DEF Lists
  <1>5. \A y \in Q : \E i \in 1 .. n + 1 : q[i] = y
    BY <1>1 DEF Lists
  <1> HIDE DEF p
  <1>6. \A i \in 1 .. n : p[i] \in Q \ {x}
    <2> SUFFICES ASSUME NEW i \in 1 .. n PROVE p[i] \in Q \ {x}
      OBVIOUS
    <2>1. p[i] \in Q /\ p[i] = q[i]
      BY <1>2
    <2>2. i \in 1 .. n + 1 /\ n + 1 \in 1 .. n + 1 /\ i # n + 1
      OBVIOUS
    <2> QED BY <1>4, <2>1, <2>2
  <1>7. p \in Seq(Q \ {x})
    BY <1>2, <1>6
  <1>8. \A y \in Q \ {x} : \E i \in 1 .. n : p[i] = y
    <2> SUFFICES ASSUME NEW y \in Q \ {x} PROVE \E i \in 1 .. n : p[i] = y
      OBVIOUS
    <2>1. PICK i \in 1 .. n + 1 : q[i] = y
      BY <1>5
    <2>2. i \in 1 .. n
      BY <2>1
    <2> QED BY <1>2, <2>1, <2>2
  <1>9. \A i, j \in 1 .. n : p[i] = p[j] => i = j
    BY <1>2, <1>4
  <1>10. Lists(p, Q \ {x})
    BY <1>2, <1>7, <1>8, <1>9 DEF Lists
  <1> QED BY <1>1, <1>3, <1>10 DEF p

\* Lists of disjoint sets make a list of their union.
LEMMA ListsConcat ==
  ASSUME NEW P, NEW R, NEW p, NEW r, Lists(p, P), Lists(r, R), P \intersect R = {}
  PROVE  Lists(p \o r, P \union R)
  <1> DEFINE U == P \union R
  <1>0. p \in Seq(P) /\ r \in Seq(R)
    BY DEF Lists
  <1>1. p \in Seq(U) /\ r \in Seq(U)
    BY <1>0
  <1>2. PICK m, n \in Nat : m = Len(p) /\ n = Len(r)
    BY <1>0
  <1> DEFINE c == p \o r
  <1>3. c \in Seq(U) /\ Len(c) = m + n
    <2> HIDE DEF U
    <2> QED BY <1>1, <1>2
  <1>4. \A i \in 1 .. m : c[i] = p[i] /\ c[i] \in P
    BY <1>0, <1>2
  <1>5. \A i \in 1 .. n : c[m + i] = r[i] /\ c[m + i] \in R
    BY <1>0, <1>2
  <1> HIDE DEF c
  <1>6. \A x \in U : \E i \in 1 .. m + n : c[i] = x
    <2> SUFFICES ASSUME NEW x \in U PROVE \E i \in 1 .. m + n : c[i] = x
      OBVIOUS
    <2>1. CASE x \in P
      <3>1. PICK i \in 1 .. m : p[i] = x
        BY <1>2, <2>1 DEF Lists
      <3> QED BY <1>4, <3>1
    <2>2. CASE x \in R
      <3>1. PICK i \in 1 .. n : r[i] = x
        BY <1>2, <2>2 DEF Lists
      <3>2. c[m + i] = x /\ m + i \in 1 .. m + n
        BY <1>5, <3>1
      <3> QED BY <3>2
    <2> QED BY <2>1, <2>2
  <1>7. ASSUME NEW i \in 1 .. m + n, NEW j \in 1 .. m + n, c[i] = c[j]
        PROVE  i = j
    <2>1. CASE i <= m /\ j <= m
      <3>1. p[i] = p[j] /\ i \in 1 .. Len(p) /\ j \in 1 .. Len(p)
        BY <1>2, <1>4, <1>7, <2>1
      <3> QED BY <3>1 DEF Lists
    <2>2. CASE ~(i <= m) /\ ~(j <= m)
      <3>1. PICK k \in 1 .. n : i = m + k
        <4>1. i - m \in 1 .. n /\ i = m + (i - m)
          BY <2>2
        <4> QED BY <4>1
      <3>2. PICK l \in 1 .. n : j = m + l
        <4>1. j - m \in 1 .. n /\ j = m + (j - m)
          BY <2>2
        <4> QED BY <4>1
      <3>3. r[k] = r[l]
        BY <1>5, <1>7, <3>1, <3>2
      <3>4. k = l
        BY <1>2, <3>3 DEF Lists
      <3> QED BY <3>1, <3>2, <3>4
    <2>3. CASE i <= m /\ ~(j <= m)
      <3>1. c[i] \in P
        BY <1>4, <2>3
      <3>2. j - m \in 1 .. n /\ j = m + (j - m)
        BY <2>3
      <3>3. c[j] \in R
        BY <1>5, <3>2
      <3> QED BY <1>7, <3>1, <3>3
    <2>4. CASE ~(i <= m) /\ j <= m
      <3>1. c[j] \in P
        BY <1>4, <2>4
      <3>2. i - m \in 1 .. n /\ i = m + (i - m)
        BY <2>4
      <3>3. c[i] \in R
        BY <1>5, <3>2
      <3> QED BY <1>7, <3>1, <3>3
    <2> QED BY <2>1, <2>2, <2>3, <2>4
  <1> HIDE DEF U
  <1>8. Lists(c, U)
    BY <1>3, <1>6, <1>7 DEF Lists
  <1> QED BY <1>8 DEF c, U

\* The children of a node, each with its path.
Kids(node) == [i \in 1 .. Len(ChildrenOf(node)) |-> <<Append(node[1], i), ChildrenOf(node)[i]>>]

\* They list what lies below it.
LEMMA KidsList ==
  ASSUME NEW node, Node(node)
  PROVE  Lists(Kids(node), Offspring(node)) /\ Len(Kids(node)) = Len(ChildrenOf(node))
  <1>0. node[1] \in Seq(Nat)
    BY DEF Node
  <1>1. PICK n \in Nat : n = Len(ChildrenOf(node))
    BY OffspringIs DEF Listing
  <1>2. Offspring(node) = {<<Append(node[1], i), ChildrenOf(node)[i]>> : i \in 1 .. n}
    BY <1>1, OffspringIs
  <1> DEFINE k == Kids(node)
  <1>3. k = [i \in 1 .. n |-> k[i]] /\ \A i \in 1 .. n : k[i] = <<Append(node[1], i), ChildrenOf(node)[i]>>
    BY <1>1 DEF Kids
  <1> HIDE DEF k
  <1>4. \A i \in 1 .. n : k[i] \in Offspring(node)
    BY <1>2, <1>3
  <1>5. k \in Seq(Offspring(node)) /\ Len(k) = n
    <2>1. k \in [1 .. n -> Offspring(node)]
      BY <1>3, <1>4
    <2> QED BY <2>1
  <1>6. \A x \in Offspring(node) : \E i \in 1 .. n : k[i] = x
    BY <1>2, <1>3
  <1>7. \A i, j \in 1 .. n : k[i] = k[j] => i = j
    <2> SUFFICES ASSUME NEW i \in 1 .. n, NEW j \in 1 .. n, k[i] = k[j] PROVE i = j
      OBVIOUS
    <2>1. Append(node[1], i) = Append(node[1], j)
      BY <1>3
    <2> QED BY <1>0, <2>1
  <1>8. Lists(k, Offspring(node))
    BY <1>5, <1>6, <1>7 DEF Lists
  <1> QED BY <1>1, <1>5, <1>8 DEF k

\* What the nodes checked so far have told the later boundaries.
KindOf(node) == Referent(node[2].value, node[2].expected)
NamesOf(V) == UNION {Functions(v[2].value, KindOf(v)) : v \in V}
EntriesOf(V) == UNION {Entries(v[2].value, KindOf(v), v[2].edge) : v \in V}
RejectedOf(V) == UNION {Rejected(v[2].value, KindOf(v), v[2].edge) : v \in V}

\* The walk between two turns: the stack lists what is pending and the rest is the account of what was checked.
Explored(V, Q, q) ==
  /\ Frontier(Ast, V, Q) /\ Lists(q, Q)
  /\ pending = [i \in 1 .. Len(q) |-> q[i][2]]
  /\ IsFiniteSet(V) /\ Cardinality(V) = nodes
  /\ functions = NamesOf(V) /\ binding = EntriesOf(V) /\ violations = RejectedOf(V)

\* The inductive invariant.
WalkInv ==
  /\ text \in Texts
  /\ stage = "text" => nodes = 0 /\ functions = {} /\ binding = {} /\ violations = {}
  /\ stage = "walking" => Screen(text) = None /\ nodes <= MaxNodes /\ \E V, Q, q : Explored(V, Q, q)
  /\ WalkAgrees

\* A text that passes the screens has a statement to walk.
LEMMA Screened ==
  ASSUME NEW t \in Texts, Screen(t) = None
  PROVE  t.statements[1].ast \in Json
  <1>0. t.statements \in Seq([type : STRING, ast : Json, size : Nat])
    BY TextsAssumption
  <1>1. t.statements # <<>>
    <2> SUFFICES ASSUME t.statements = <<>> PROVE FALSE
      OBVIOUS
    <2> DEFINE one == Len(t.statements) = 1
               screens ==
                 <<<<"nul" \in ToSet(Bytes(t)), Result(FALSE, "invalid_input", {})>>,
                   <<Len(Bytes(t)) > MaxBytes, Result(FALSE, "forbidden", {"limit"})>>,
                   <<~t.parses, Result(FALSE, "parser", {})>>,
                   <<t.statements = <<>>, Result(FALSE, "invalid_input", {})>>,
                   <<Len(t.statements) > 1, Result(FALSE, "forbidden", {"limit"})>>,
                   <<one /\ t.statements[1].type \notin {"select", "pivot_enum"}, Result(FALSE, "unsupported", {"unsupported"})>>,
                   <<one /\ t.statements[1].size > MaxBytes, Result(FALSE, "forbidden", {"limit"})>>>>
               I == {i \in 1 .. Len(screens) : screens[i][1]}
    <2>1. Screen(t) = IF (IF I # {} THEN Min(I) ELSE 0) = 0 THEN None ELSE screens[IF I # {} THEN Min(I) ELSE 0][2]
      BY Zenon DEF Screen, SelectInSeq
    <2>2. Len(screens) = 7
      OBVIOUS
    <2>3. 4 \in I
      <3>1. screens[4] = <<t.statements = <<>>, Result(FALSE, "invalid_input", {})>>
        OBVIOUS
      <3>2. screens[4][1] = (t.statements = <<>>)
        BY Zenon, <3>1
      <3>3. screens[4][1]
        BY Zenon, <3>2
      <3> HIDE DEF screens
      <3> QED BY <2>2, <3>3
    <2>4. \A i \in 1 .. 7 : screens[i][2] # None
      <3>1. \A allowed, code, rules : Result(allowed, code, rules) # None
        BY DEF Result, None
      <3>2. screens[1][2] = Result(FALSE, "invalid_input", {})
        OBVIOUS
      <3>3. screens[2][2] = Result(FALSE, "forbidden", {"limit"})
        OBVIOUS
      <3>4. screens[3][2] = Result(FALSE, "parser", {})
        OBVIOUS
      <3>5. screens[4][2] = Result(FALSE, "invalid_input", {})
        OBVIOUS
      <3>6. screens[5][2] = Result(FALSE, "forbidden", {"limit"})
        OBVIOUS
      <3>7. screens[6][2] = Result(FALSE, "unsupported", {"unsupported"})
        OBVIOUS
      <3>8. screens[7][2] = Result(FALSE, "forbidden", {"limit"})
        OBVIOUS
      <3> HIDE DEF screens
      <3>9. \A i \in 1 .. 7 : i = 1 \/ i = 2 \/ i = 3 \/ i = 4 \/ i = 5 \/ i = 6 \/ i = 7
        OBVIOUS
      <3>10. screens[1][2] # None /\ screens[2][2] # None /\ screens[3][2] # None /\ screens[4][2] # None
             /\ screens[5][2] # None /\ screens[6][2] # None /\ screens[7][2] # None
        BY Zenon, <3>1, <3>2, <3>3, <3>4, <3>5, <3>6, <3>7, <3>8
      <3> QED BY Zenon, <3>9, <3>10
    <2> HIDE DEF screens
    <2>5. I \in SUBSET Nat /\ I # {}
      BY <2>2, <2>3
    <2>6. Min(I) \in I
      <3> HIDE DEF I
      <3> QED BY <2>5, MinIn
    <2>7. Min(I) \in 1 .. 7
      BY <2>2, <2>6
    <2>8. Screen(t) = screens[Min(I)][2]
      <3> HIDE DEF I
      <3> QED BY <2>1, <2>5, <2>7
    <2> HIDE DEF I
    <2> QED BY <2>4, <2>7, <2>8
  <1>2. 1 \in DOMAIN t.statements
    BY <1>0, <1>1
  <1>3. t.statements[1] \in [type : STRING, ast : Json, size : Nat]
    <2> DEFINE S == [type : STRING, ast : Json, size : Nat]
    <2>1. t.statements \in Seq(S)
      BY <1>0
    <2> HIDE DEF S
    <2>2. t.statements[1] \in S
      BY <1>2, <2>1
    <2> QED BY <2>2 DEF S
  <1> QED BY <1>3

\* What the later boundaries are told, with one more node.
LEMMA OneMoreNode ==
  ASSUME NEW V, NEW n
  PROVE  /\ NamesOf(V \union {n}) = NamesOf(V) \union Functions(n[2].value, KindOf(n))
         /\ EntriesOf(V \union {n}) = EntriesOf(V) \union Entries(n[2].value, KindOf(n), n[2].edge)
         /\ RejectedOf(V \union {n}) = RejectedOf(V) \union Rejected(n[2].value, KindOf(n), n[2].edge)
  <1>1. NamesOf(V \union {n}) = NamesOf(V) \union Functions(n[2].value, KindOf(n))
    BY DEF NamesOf
  <1>2. EntriesOf(V \union {n}) = EntriesOf(V) \union Entries(n[2].value, KindOf(n), n[2].edge)
    BY DEF EntriesOf
  <1>3. RejectedOf(V \union {n}) = RejectedOf(V) \union Rejected(n[2].value, KindOf(n), n[2].edge)
    BY DEF RejectedOf
  <1> QED BY <1>1, <1>2, <1>3

\* The work item on top of the stack is that of the last pending node.
LEMMA TopOfStack ==
  ASSUME NEW V, NEW Q, NEW q, Explored(V, Q, q), pending # <<>>, Ast \in Json
  PROVE  LET n == q[Len(q)]
         IN  q # <<>> /\ n \in Q /\ Node(n) /\ n \in Tree(Ast) /\ n \notin V /\ Last(pending) = n[2]
  <1>0. q \in Seq(Q) /\ pending = [i \in 1 .. Len(q) |-> q[i][2]]
    BY DEF Explored, Lists
  <1>1. PICK k \in Nat : k = Len(q)
    BY <1>0
  <1>2. k # 0
    <2> SUFFICES ASSUME k = 0 PROVE FALSE
      OBVIOUS
    <2>1. pending = [i \in 1 .. 0 |-> q[i][2]]
      BY <1>0, <1>1
    <2> QED BY <2>1
  <1>3. q # <<>> /\ q[k] \in Q
    BY <1>0, <1>1, <1>2
  <1>4. Len(pending) = k /\ pending[k] = q[k][2]
    BY <1>0, <1>1, <1>2
  <1>5. Last(pending) = q[k][2]
    BY <1>4 DEF Last
  <1>6. q[k] \in Tree(Ast) /\ q[k] \notin V
    BY <1>3 DEF Explored, Frontier
  <1>7. Node(q[k])
    BY <1>6, TreeIs
  <1> QED BY <1>1, <1>3, <1>5, <1>6, <1>7

\* One turn that goes on.
LEMMA ExploredStep ==
  ASSUME NEW V, NEW Q, NEW q, Explored(V, Q, q), pending # <<>>, Ast \in Json, text' = text,
         LET work == Last(pending)
             kind == Referent(work.value, work.expected)
         IN  /\ work.depth <= MaxDepth /\ ~Unsupported(work.value, work.expected)
             /\ nodes' = nodes + 1
             /\ pending' = Front(pending) \o Children(work.value, work.expected, work.depth)
             /\ functions' = functions \union Functions(work.value, kind)
             /\ binding' = binding \union Entries(work.value, kind, work.edge)
             /\ violations' = violations \union Rejected(work.value, kind, work.edge)
  PROVE  \E W, R, r : Explored(W, R, r)'
  <1> DEFINE n == q[Len(q)]
             W == V \union {n}
             R == (Q \ {n}) \union Offspring(n)
             r == Front(q) \o Kids(n)
  <1>1. q # <<>> /\ n \in Q /\ Node(n) /\ n \in Tree(Ast) /\ n \notin V /\ Last(pending) = n[2]
    BY TopOfStack
  <1>2. n[2].depth <= MaxDepth /\ ~Unsupported(n[2].value, n[2].expected)
    BY <1>1
  <1>3. Frontier(Ast, W, R) /\ (V \union Q) \intersect Offspring(n) = {}
    BY <1>1, <1>2, FrontierStep DEF Explored
  <1>4. Lists(Front(q), Q \ {n}) /\ Lists(Kids(n), Offspring(n)) /\ Len(Kids(n)) = Len(ChildrenOf(n))
    BY <1>1, ListsFront, KidsList DEF Explored
  <1>5. Lists(r, R)
    <2>1. (Q \ {n}) \intersect Offspring(n) = {}
      BY <1>3
    <2> HIDE DEF n
    <2> QED BY <1>4, <2>1, ListsConcat
  <1>6. pending' = [i \in 1 .. Len(r) |-> r[i][2]]
    <2>1. pending' = Front(pending) \o ChildrenOf(n)
      BY <1>1, <1>2 DEF ChildrenOf
    <2>2. PICK S : ChildrenOf(n) \in Seq(S)
      BY <1>1, OffspringIs DEF Listing
    <2>3. q \in Seq(Q) /\ pending = [i \in 1 .. Len(q) |-> q[i][2]]
      BY DEF Explored, Lists
    <2>4. PICK k \in Nat : Len(q) = k + 1
      <3>1. q \in Seq(Q) /\ q # <<>>
        BY <1>1, <2>3
      <3>2. Len(q) \in Nat /\ Len(q) # 0
        BY ONLY <3>1
      <3>3. Len(q) - 1 \in Nat /\ Len(q) = (Len(q) - 1) + 1
        BY ONLY <3>2
      <3> QED BY ONLY <3>3
    <2>5. PICK m \in Nat : m = Len(ChildrenOf(n))
      BY <2>2
    <2> DEFINE p == Front(pending)
               c == ChildrenOf(n)
               kids == Kids(n)
               f == Front(q)
    <2>6. Len(f) = k /\ f \in Seq(Q) /\ \A i \in 1 .. k : f[i] = q[i]
      BY <2>3, <2>4 DEF Front
    <2>7. Len(kids) = m /\ kids \in Seq(Offspring(n)) /\ \A i \in 1 .. m : kids[i][2] = c[i]
      BY <1>4, <2>5 DEF Lists, Kids
    <2>8. pending \in Seq({x[2] : x \in Q}) /\ Len(pending) = k + 1 /\ \A i \in 1 .. k + 1 : pending[i] = q[i][2]
      <3>1. \A i \in 1 .. k + 1 : q[i] \in Q
        BY <2>3, <2>4
      <3>2. pending \in [1 .. k + 1 -> {x[2] : x \in Q}]
        BY <2>3, <2>4, <3>1
      <3>3. pending \in Seq({x[2] : x \in Q}) /\ Len(pending) = k + 1
        BY <3>2
      <3> QED BY <2>3, <2>4, <3>3
    <2>9. Len(p) = k /\ p \in Seq({x[2] : x \in Q}) /\ \A i \in 1 .. k : p[i] = q[i][2]
      BY <2>8 DEF Front
    <2> HIDE DEF n, p, c, kids, f
    <2> DEFINE A == {x[2] : x \in Q} \union S
               B2 == Q \union Offspring(n)
    <2>10. p \in Seq(A) /\ c \in Seq(A) /\ Len(c) = m
      BY <2>2, <2>5, <2>9 DEF c
    <2>11. f \in Seq(B2) /\ kids \in Seq(B2)
      BY <2>6, <2>7
    <2> HIDE DEF A, B2
    <2>12. p \o c \in Seq(A) /\ Len(p \o c) = k + m
      BY ONLY <2>9, <2>10
    <2>13. Len(f \o kids) = k + m
      BY ONLY <2>6, <2>7, <2>11
    <2>14. ASSUME NEW i \in 1 .. k + m
           PROVE  (p \o c)[i] = (f \o kids)[i][2]
      <3>1. CASE i <= k
        <4>1. (p \o c)[i] = p[i] /\ (f \o kids)[i] = f[i]
          BY <2>6, <2>9, <2>10, <2>11, <3>1
        <4> QED BY <2>6, <2>9, <3>1, <4>1
      <3>2. CASE ~(i <= k)
        <4>1. (p \o c)[i] = c[i - k] /\ (f \o kids)[i] = kids[i - k] /\ i - k \in 1 .. m
          BY <2>6, <2>7, <2>9, <2>10, <2>11, <3>2
        <4> QED BY <2>7, <4>1
      <3> QED BY <3>1, <3>2
    <2>15. p \o c = [i \in 1 .. k + m |-> (p \o c)[i]]
      <3>1. PICK s : s = p \o c
        OBVIOUS
      <3>2. s \in Seq(A) /\ Len(s) = k + m
        BY ONLY <2>12, <3>1
      <3>3. s \in [1 .. Len(s) -> A]
        BY ONLY <3>2
      <3>4. s = [i \in 1 .. k + m |-> s[i]]
        BY ONLY <3>2, <3>3
      <3> QED BY ONLY <3>1, <3>4
    <2>16. p \o c = [i \in 1 .. Len(f \o kids) |-> (f \o kids)[i][2]]
      BY <2>13, <2>14, <2>15
    <2> QED BY <2>1, <2>16 DEF p, c, f, kids
  <1>7. IsFiniteSet(W) /\ Cardinality(W) = nodes'
    BY <1>1, FS_AddElement DEF Explored
  <1>8. functions' = NamesOf(W) /\ binding' = EntriesOf(W) /\ violations' = RejectedOf(W)
    <2>1. functions = NamesOf(V) /\ binding = EntriesOf(V) /\ violations = RejectedOf(V)
      BY DEF Explored
    <2>2. Referent(Last(pending).value, Last(pending).expected) = KindOf(n)
      BY <1>1 DEF KindOf
    <2>3. /\ functions' = functions \union Functions(n[2].value, KindOf(n))
          /\ binding' = binding \union Entries(n[2].value, KindOf(n), n[2].edge)
          /\ violations' = violations \union Rejected(n[2].value, KindOf(n), n[2].edge)
      BY <1>1, <2>2
    <2> HIDE DEF n
    <2>4. /\ NamesOf(W) = NamesOf(V) \union Functions(n[2].value, KindOf(n))
          /\ EntriesOf(W) = EntriesOf(V) \union Entries(n[2].value, KindOf(n), n[2].edge)
          /\ RejectedOf(W) = RejectedOf(V) \union Rejected(n[2].value, KindOf(n), n[2].edge)
      BY ONLY OneMoreNode
    <2> HIDE DEF W
    <2> QED BY ONLY <2>1, <2>3, <2>4
  <1>9. Ast' = Ast
    BY DEF Ast
  <1> HIDE DEF W, R, r
  <1>10. Explored(W, R, r)'
    BY <1>3, <1>5, <1>6, <1>7, <1>8, <1>9 DEF Explored
  <1> QED BY <1>10

\* One member lists its singleton.
LEMMA ListsOne ==
  ASSUME NEW x
  PROVE  Lists(<<x>>, {x}) /\ Len(<<x>>) = 1 /\ <<x>>[1] = x
  <1> DEFINE q == <<x>>
  <1>1. q \in Seq({x}) /\ Len(q) = 1 /\ q[1] = x
    OBVIOUS
  <1> HIDE DEF q
  <1>2. Lists(q, {x})
    BY <1>1 DEF Lists
  <1> QED BY <1>1, <1>2 DEF q

\* The walk's first item.
LEMMA ExploredStart ==
  ASSUME Ast \in Json, pending' = <<Work(Ast, "root", 0, "")>>, text' = text,
         nodes' = 0, functions' = {}, binding' = {}, violations' = {}
  PROVE  \E V, Q, q : Explored(V, Q, q)'
  <1>0. PICK top, item : top = Top(Ast) /\ item = Work(Ast, "root", 0, "")
    OBVIOUS
  <1>1. Frontier(Ast, {}, {top})
    BY <1>0, TreeIs DEF Frontier
  <1>2. top[2] = item /\ pending' = <<item>>
    BY <1>0 DEF Top
  <1>3. PICK q : q = <<top>>
    OBVIOUS
  <1>4. Lists(q, {top}) /\ Len(q) = 1 /\ q[1] = top
    BY ONLY <1>3, ListsOne
  <1>5. pending' = [i \in 1 .. Len(q) |-> q[i][2]]
    <2>1. [i \in 1 .. Len(q) |-> q[i][2]] = <<item>>
      BY ONLY <1>2, <1>4
    <2> QED BY <1>2, <2>1
  <1>6. IsFiniteSet({}) /\ Cardinality({}) = 0
    BY FS_EmptySet
  <1>7. NamesOf({}) = {} /\ EntriesOf({}) = {} /\ RejectedOf({}) = {}
    BY DEF NamesOf, EntriesOf, RejectedOf
  <1>8. Ast' = Ast
    BY DEF Ast
  <1>9. Explored({}, {top}, q)'
    BY <1>1, <1>4, <1>5, <1>6, <1>7, <1>8 DEF Explored
  <1> QED BY <1>9

\* A walk that ends has checked the whole tree.
LEMMA ExploredAll ==
  ASSUME NEW V, NEW Q, NEW q, Explored(V, Q, q), pending = <<>>, Ast \in Json
  PROVE  V = Tree(Ast)
  <1>0. q \in Seq(Q) /\ pending = [i \in 1 .. Len(q) |-> q[i][2]]
    BY DEF Explored, Lists
  <1>1. Len(q) = 0
    <2>1. PICK k \in Nat : k = Len(q)
      BY <1>0
    <2>2. DOMAIN pending = 1 .. k /\ DOMAIN pending = {}
      BY <1>0, <2>1
    <2>3. k = 0
      BY ONLY <2>2
    <2> QED BY <2>1, <2>3
  <1>2. Q = {}
    BY <1>1 DEF Explored, Lists
  <1>3. Top(Ast) \in V /\ (\A v \in V : Offspring(v) \subseteq V) /\ V \subseteq Tree(Ast)
    BY <1>2 DEF Explored, Frontier
  <1>4. Tree(Ast) \subseteq V
    BY <1>3, TreeIs
  <1> QED BY <1>3, <1>4

\* The walk answers what the tree calls for, for every text, grammar and pair of limits (validator.cpp:739-876): each
\* node is checked once, none of a tree that is admitted is left out, and a stop has its reason in the tree.
THEOREM WalkIsComplete == Spec => []WalkAgrees
  <1>1. Init => WalkInv
    BY DEF Init, WalkInv, WalkAgrees, Walked
  <1>2. WalkInv /\ [Next]_vars => WalkInv'
    <2> SUFFICES ASSUME WalkInv, [Next]_vars PROVE WalkInv'
      OBVIOUS
    <2> USE DEF WalkInv
    <2>1. CASE CheckStatementText
      <3>1. CASE Screen(text) # None /\ stage' = "decided"
        <4>1. ~Walked'
          BY <2>1, <3>1 DEF CheckStatementText, Walked
        <4> QED BY <2>1, <3>1, <4>1 DEF CheckStatementText, WalkAgrees
      <3>2. CASE Screen(text) = None /\ stage' = "walking"
        <4>1. Ast \in Json
          BY <3>2, Screened DEF Ast
        <4>2. /\ text' = text /\ pending' = <<Work(Ast, "root", 0, "")>>
              /\ nodes' = 0 /\ functions' = {} /\ binding' = {} /\ violations' = {}
          BY <2>1, <3>2 DEF CheckStatementText, Decided, Ast
        <4>3. \E V, Q, q : Explored(V, Q, q)'
          BY <4>1, <4>2, ExploredStart
        <4>4. nodes' <= MaxNodes
          <5>1. MaxNodes \in Nat
            BY LimitsAssumption
          <5>2. nodes' = 0
            BY <4>2
          <5> QED BY ONLY <5>1, <5>2
        <4>5. ~Walked'
          BY <3>2 DEF Walked
        <4>6. Screen(text)' = None
          BY <3>2, <4>2
        <4> QED BY <3>2, <4>2, <4>3, <4>4, <4>5, <4>6 DEF WalkAgrees
      <3> QED BY <2>1, <3>1, <3>2 DEF CheckStatementText, Decided
    <2>2. CASE CheckNode
      <3>0. stage = "walking" /\ pending # <<>> /\ text' = text /\ nodes' = nodes + 1 /\ Screen(text) = None
        BY <2>2 DEF CheckNode
      <3>1. Ast \in Json
        BY <3>0, Screened DEF Ast
      <3>2. PICK V, Q, q : Explored(V, Q, q)
        BY <3>0
      <3> DEFINE work == Last(pending)
                 n == q[Len(q)]
      <3>3. n \in Tree(Ast) /\ n \notin V /\ work = n[2] /\ Node(n)
        BY <3>0, <3>1, <3>2, TopOfStack
      <3>4. nodes \in Nat /\ V \subseteq Tree(Ast) /\ IsFiniteSet(V) /\ Cardinality(V) = nodes
        BY <3>2, FS_CardinalityType DEF Explored, Frontier
      <3>5. Ast' = Ast
        BY <3>0 DEF Ast
      <3>6. CASE OverLimit(work) /\ stage' = "decided" /\ result' = Result(FALSE, "forbidden", {"limit"})
        <4>1. Cardinality(Tree(Ast)) > MaxNodes \/ \E node \in Tree(Ast) : node[2].depth > MaxDepth
          <5>1. CASE work.depth > MaxDepth
            BY <3>3, <5>1
          <5>2. CASE nodes + 1 > MaxNodes
            <6>1. IsFiniteSet(V \union {n}) /\ Cardinality(V \union {n}) = nodes + 1
              BY <3>3, <3>4, FS_AddElement
            <6>2. IsFiniteSet(Tree(Ast)) /\ V \union {n} \subseteq Tree(Ast)
              BY <3>1, <3>3, <3>4, TreeIs
            <6> HIDE DEF n
            <6>3. Cardinality(V \union {n}) <= Cardinality(Tree(Ast)) /\ Cardinality(Tree(Ast)) \in Nat
              BY <6>2, FS_Subset, FS_CardinalityType
            <6> QED BY <3>4, <5>2, <6>1, <6>3, LimitsAssumption
          <5> QED BY <3>6, <5>1, <5>2 DEF OverLimit
        <4>2. Answers(Tree(Ast))'
          BY <3>5, <3>6, <4>1 DEF Answers
        <4> QED BY <3>0, <3>5, <3>6, <4>2 DEF WalkAgrees
      <3>7. CASE /\ Unsupported(work.value, work.expected) /\ stage' = "decided"
                 /\ result' = Result(FALSE, "unsupported", {"unsupported"})
        <4>1. \E node \in Tree(Ast) : Unsupported(node[2].value, node[2].expected)
          BY <3>3, <3>7
        <4>2. Answers(Tree(Ast))'
          BY <3>5, <3>7, <4>1 DEF Answers
        <4> QED BY <3>0, <3>5, <3>7, <4>2 DEF WalkAgrees
      <3>8. CASE /\ ~OverLimit(work) /\ ~Unsupported(work.value, work.expected) /\ stage' = stage
                 /\ LET kind == Referent(work.value, work.expected)
                    IN  /\ pending' = Front(pending) \o Children(work.value, work.expected, work.depth)
                        /\ functions' = functions \union Functions(work.value, kind)
                        /\ binding' = binding \union Entries(work.value, kind, work.edge)
                        /\ violations' = violations \union Rejected(work.value, kind, work.edge)
        <4>1. work.depth <= MaxDepth /\ nodes' <= MaxNodes
          <5>1. work.depth \in Nat
            BY <3>3 DEF Node
          <5> QED BY <3>0, <3>4, <3>8, <5>1, LimitsAssumption DEF OverLimit
        <4>2. \E W, R, r : Explored(W, R, r)'
          BY <3>0, <3>1, <3>2, <3>8, <4>1, ExploredStep
        <4>3. ~Walked'
          BY <3>0, <3>8 DEF Walked
        <4>4. Screen(text)' = None
          BY <3>0
        <4> QED BY <3>0, <3>8, <4>1, <4>2, <4>3, <4>4 DEF WalkAgrees
      <3> QED BY <2>2, <3>6, <3>7, <3>8 DEF CheckNode, Decided
    <2>3. CASE Validate
      <3>0. stage = "walking" /\ pending = <<>> /\ text' = text /\ Screen(text) = None /\ nodes <= MaxNodes
        BY <2>3 DEF Validate
      <3>1. Ast \in Json
        BY <3>0, Screened DEF Ast
      <3>2. PICK V, Q, q : Explored(V, Q, q)
        BY <3>0
      <3> DEFINE tree == Tree(Ast)
      <3>3. V = tree
        BY <3>0, <3>1, <3>2, ExploredAll
      <3>4. Ast' = Ast
        BY <3>0 DEF Ast
      <3> HIDE DEF tree
      <3>5. /\ functions = NamesOf(tree) /\ binding = EntriesOf(tree) /\ violations = RejectedOf(tree)
            /\ Cardinality(tree) = nodes /\ nodes \in Nat
        BY <3>2, <3>3, FS_CardinalityType DEF Explored
      <3>6. /\ ~(Cardinality(tree) > MaxNodes)
            /\ \A v \in tree : ~(v[2].depth > MaxDepth) /\ ~Unsupported(v[2].value, v[2].expected)
        <4>1. ~(Cardinality(tree) > MaxNodes)
          BY <3>0, <3>5, LimitsAssumption
        <4>2. ASSUME NEW v \in tree
              PROVE  ~(v[2].depth > MaxDepth) /\ ~Unsupported(v[2].value, v[2].expected)
          <5>1. v[2].depth <= MaxDepth /\ ~Unsupported(v[2].value, v[2].expected)
            BY <3>2, <3>3 DEF Explored, Frontier
          <5>2. v[2].depth \in Nat
            BY <3>1, TreeIs DEF Node, tree
          <5> QED BY <5>1, <5>2, LimitsAssumption
        <4> QED BY <4>1, <4>2
      <3> DEFINE refused == {name \in functions : \E i \in DOMAIN Layers : name \notin Layers[i].eligible}
                 rules == violations \union (IF refused = {} THEN {} ELSE {"function"})
      <3>7. /\ stage' = "decided" /\ result' = Result(rules = {}, IF rules = {} THEN "ok" ELSE "forbidden", rules)
            /\ binding' = binding \union {<<"caller_functions", name>> : name \in functions}
        BY <2>3 DEF Validate, Decided
      <3>8. Answers(tree)'
        <4> HIDE DEF rules
        <4>1. /\ result'.rules = rules /\ (result'.allowed <=> rules = {})
              /\ result'.code = IF rules = {} THEN "ok" ELSE "forbidden"
          BY <3>7 DEF Result
        <4>2. rules = RejectedOf(tree) \union
                (IF {name \in NamesOf(tree) : \E i \in DOMAIN Layers : name \notin Layers[i].eligible} = {} THEN {}
                 ELSE {"function"})
          BY <3>5 DEF rules
        <4>3. binding' = EntriesOf(tree) \union {<<"caller_functions", name>> : name \in NamesOf(tree)}
          BY <3>5, <3>7
        <4>4. tree' = tree
          BY <3>4 DEF tree
        <4> QED BY <3>6, <4>1, <4>2, <4>3, <4>4 DEF Answers, NamesOf, EntriesOf, RejectedOf, KindOf
      <3>9. Answers(Tree(Ast))'
        BY <3>8 DEF tree
      <3> QED BY <3>0, <3>7, <3>9 DEF WalkAgrees
    <2>4. CASE Decide
      <3>1. stage' = "done" /\ text' = text /\ ~Walked'
        BY <2>4 DEF Decide, Walked
      <3> QED BY <3>1 DEF WalkAgrees
    <2>5. CASE UNCHANGED vars
      <3>1. WalkAgrees' = WalkAgrees
        BY <2>5 DEF vars, walk, WalkAgrees, Walked, Answers, Ast
      <3>2. ASSUME NEW V, NEW Q, NEW q PROVE Explored(V, Q, q)' = Explored(V, Q, q)
        BY <2>5 DEF vars, walk, Explored, Ast
      <3> QED BY <2>5, <3>1, <3>2 DEF vars, walk
    <2> QED BY <2>1, <2>2, <2>3, <2>4, <2>5 DEF Next
  <1>3. WalkInv => WalkAgrees
    BY DEF WalkInv
  <1> QED BY <1>1, <1>2, <1>3, PTL DEF Spec

=============================================================================
