--------------------------- MODULE SequenceLemmas ---------------------------
(***************************************************************************)
(* Induction over the places of a sequence, and what a function defined    *)
(* along them gives.  The induction rests on the pigeonhole principle, so  *)
(* that it needs no operator as a parameter.                               *)
(***************************************************************************)
EXTENDS Places, FiniteSetTheorems, TLAPS

-----------------------------------------------------------------------------
(* Induction.                                                              *)

\* A set of numbers that has 0 and the successor of each of its members up to n has
\* n: otherwise k |-> k - 1 would map the missing ones one to one into fewer.
LEMMA SetInduction ==
  ASSUME NEW S, NEW n \in Nat, 0 \in S, \A k \in 0..(n - 1) : k \in S => k + 1 \in S
  PROVE  n \in S
<1> SUFFICES ASSUME n \notin S PROVE FALSE
  OBVIOUS
<1> DEFINE T == {k \in 0..n : k \notin S}
           down == [k \in T |-> k - 1]
<1>1. IsFiniteSet(T) /\ n \in T
  <2>1. IsFiniteSet(0..n)
    BY FS_Interval
  <2> QED
    BY <2>1, FS_Subset
<1>2. IsFiniteSet(T \ {n}) /\ Cardinality(T \ {n}) < Cardinality(T)
  <2>1. IsFiniteSet(T \ {n}) /\ Cardinality(T \ {n}) = Cardinality(T) - 1
    BY <1>1, FS_RemoveElement
  <2>2. Cardinality(T) \in Nat
    BY <1>1, FS_CardinalityType
  <2> QED
    BY <2>1, <2>2
<1>3. down \in [T -> T \ {n}]
  <2>1. ASSUME NEW k \in T PROVE k - 1 \in T \ {n}
    <3>1. k \in 0..n /\ k \notin S /\ k # 0
      OBVIOUS
    <3>2. k - 1 \in 0..(n-1) /\ (k - 1) + 1 = k
      BY <3>1
    <3>3. k - 1 \notin S
      BY <3>1, <3>2
    <3> QED
      BY <3>2, <3>3
  <2> QED
    BY <2>1
<1>4. \A x, y \in T : down[x] = down[y] => x = y
  OBVIOUS
<1> HIDE DEF T, down
<1>5. \E x, y \in T : x # y /\ down[x] = down[y]
  BY <1>1, <1>2, <1>3, FS_PigeonHole
<1> QED
  BY <1>4, <1>5

\* A set of numbers that is not empty has a least one.
LEMMA LeastExists ==
  ASSUME NEW T, T \subseteq Nat, NEW m \in T
  PROVE  \E k \in T : \A j \in T : k <= j
<1> SUFFICES ASSUME \A k \in T : \E j \in T : ~(k <= j) PROVE FALSE
  OBVIOUS
<1> DEFINE S == {k \in Nat : \A j \in 0..k : j \notin T}
<1>1. 0 \in S
  <2>1. 0 \notin T
    OBVIOUS
  <2> QED
    BY <2>1
<1>2. ASSUME NEW k \in 0..(m - 1), k \in S PROVE k + 1 \in S
  <2>1. \A j \in 0..k : j \notin T
    BY <1>2
  <2>2. k + 1 \notin T
    <3> SUFFICES ASSUME k + 1 \in T PROVE FALSE
      OBVIOUS
    <3>1. PICK j \in T : ~(k + 1 <= j)
      OBVIOUS
    <3>2. j \in 0..k
      BY <3>1
    <3> QED
      BY <2>1, <3>2
  <2>3. \A j \in 0..(k + 1) : j \in 0..k \/ j = k + 1
    OBVIOUS
  <2> QED
    BY <2>1, <2>2, <2>3
<1>3. m \in S
  <2>1. m \in Nat
    OBVIOUS
  <2> HIDE DEF S
  <2> QED
    BY <1>1, <1>2, <2>1, SetInduction
<1> QED
  BY <1>3

\* What one step at a time gives: from v0, step k with g[k].
Steps(f, V, n, g, v0) == f \in [0..n -> V] /\ f[0] = v0 /\ \A k \in 1..n : f[k] = g[k][f[k - 1]]

\* It exists.
LEMMA StepsExist ==
  ASSUME NEW V, NEW n \in Nat, NEW g \in [1..n -> [V -> V]], NEW v0 \in V
  PROVE  \E f : Steps(f, V, n, g, v0)
<1> DEFINE Rec(f, m) == f \in [0..m -> V] /\ f[0] = v0 /\ \A k \in 1..m : f[k] = g[k][f[k - 1]]
           Good == {m \in 0..n : \E f : Rec(f, m)}
<1>1. 0 \in Good
  <2> DEFINE f == [k \in 0..0 |-> v0]
  <2>1. Rec(f, 0)
    OBVIOUS
  <2> HIDE DEF f
  <2> QED
    BY <2>1
<1>2. ASSUME NEW m \in 0..(n - 1), m \in Good PROVE m + 1 \in Good
  <2>1. PICK f : Rec(f, m)
    BY <1>2
  <2> DEFINE h == [k \in 0..(m + 1) |-> IF k = m + 1 THEN g[m + 1][f[m]] ELSE f[k]]
  <2>2. f[m] \in V /\ m + 1 \in 1..n
    BY <2>1
  <2>3. g[m + 1][f[m]] \in V
    BY <2>2
  <2>4. \A k \in 0..m : h[k] = f[k]
    OBVIOUS
  <2>5. h[m + 1] = g[m + 1][f[m]] /\ h[m] = f[m]
    OBVIOUS
  <2>6. h \in [0..(m + 1) -> V]
    BY <2>1, <2>3
  <2> HIDE DEF h
  <2>7. h[0] = v0
    BY <2>1, <2>4
  <2>8. ASSUME NEW k \in 1..(m + 1) PROVE h[k] = g[k][h[k - 1]]
    <3>1. CASE k = m + 1
      <4>1. k - 1 = m
        BY <3>1
      <4> QED
        BY <2>5, <3>1, <4>1
    <3>2. CASE k # m + 1
      <4>1. k \in 1..m /\ k \in 0..m /\ k - 1 \in 0..m
        BY <3>2
      <4>2. h[k] = f[k] /\ h[k - 1] = f[k - 1]
        BY <2>4, <4>1
      <4> QED
        BY <2>1, <4>1, <4>2
    <3> QED
      BY <3>1, <3>2
  <2>9. Rec(h, m + 1)
    BY <2>6, <2>7, <2>8
  <2> QED
    BY <2>2, <2>9
<1>3. n \in Good
  <2> HIDE DEF Good
  <2> QED
    BY <1>1, <1>2, SetInduction
<1> QED
  BY <1>3 DEF Steps

\* What one step at a time gives is in V.
LEMMA StepsStay ==
  ASSUME NEW V, NEW n \in Nat, NEW h, h[0] \in V,
         \A k \in 1..n : h[k - 1] \in V => h[k] \in V
  PROVE  h[n] \in V
<1> DEFINE Good == {k \in 0..n : h[k] \in V}
<1>1. 0 \in Good
  OBVIOUS
<1>2. ASSUME NEW k \in 0..(n - 1), k \in Good PROVE k + 1 \in Good
  <2>1. k + 1 \in 1..n /\ k + 1 \in 0..n /\ (k + 1) - 1 = k
    OBVIOUS
  <2>2. h[(k + 1) - 1] \in V
    BY <1>2, <2>1
  <2>3. h[k + 1] \in V
    BY <2>1, <2>2
  <2> QED
    BY <2>1, <2>3
<1>3. n \in Good
  <2> HIDE DEF Good
  <2> QED
    BY <1>1, <1>2, SetInduction
<1> QED
  BY <1>3
-----------------------------------------------------------------------------
(* The operators on sequences.                                             *)

\* What is kept of the first k places, for each k.
Along(h, S, s, places) ==
  /\ h[0] = <<>>
  /\ \A k \in 0..Len(s) : h[k] \in Seq(S)
  /\ \A k \in 1..Len(s) : h[k] = IF k \in places THEN Append(h[k - 1], s[k]) ELSE h[k - 1]

\* At goes along the sequence, one place at a time.
LEMMA AtSteps ==
  ASSUME NEW S, NEW s \in Seq(S), NEW places
  PROVE  \E h : At(s, places) = h[Len(s)] /\ Along(h, S, s, places)
<1> DEFINE n == Len(s)
           Step(k, v) == IF k \in places THEN Append(v, s[k]) ELSE v
           Rec(f) == f = [k \in 0..n |-> IF k = 0 THEN <<>> ELSE IF k \in places THEN Append(f[k - 1], s[k]) ELSE f[k - 1]]
           g == [k \in 1..n |-> [v \in Seq(S) |-> Step(k, v)]]
           h == CHOOSE f : Rec(f)
<1>0. n \in Nat
  OBVIOUS
<1>1. \A k \in 1..n : \A v \in Seq(S) : Step(k, v) \in Seq(S)
  OBVIOUS
<1>2. g \in [1..n -> [Seq(S) -> Seq(S)]] /\ \A k \in 1..n : \A v \in Seq(S) : g[k][v] = Step(k, v)
  BY <1>1
<1>3. At(s, places) = h[n]
  BY DEF At
<1> HIDE DEF g
<1>4. \E f : Rec(f)
  <2>0. <<>> \in Seq(S)
    OBVIOUS
  <2>1. PICK f \in [0..n -> Seq(S)] : f[0] = <<>> /\ \A k \in 1..n : f[k] = g[k][f[k - 1]]
    <3> DEFINE V == Seq(S)
               v0 == <<>>
    <3>1. g \in [1..n -> [V -> V]] /\ v0 \in V
      BY <1>2, <2>0
    <3> HIDE DEF n, V, v0
    <3>2. \E f : Steps(f, V, n, g, v0)
      BY <1>0, <3>1, StepsExist
    <3> QED
      BY <3>2 DEF V, v0, Steps
  <2>2. \A k \in 1..n : f[k - 1] \in Seq(S)
    BY <1>0
  <2>3. \A k \in 0..n : f[k] = IF k = 0 THEN <<>> ELSE IF k \in places THEN Append(f[k - 1], s[k]) ELSE f[k - 1]
    <3> SUFFICES ASSUME NEW k \in 0..n, k # 0 PROVE f[k] = Step(k, f[k - 1])
      BY <2>1
    <3>1. k \in 1..n
      BY <1>0
    <3> QED
      BY <1>2, <2>1, <2>2, <3>1
  <2>4. Rec(f)
    <3>1. f = [k \in 0..n |-> f[k]]
      OBVIOUS
    <3> QED
      BY <2>3, <3>1
  <2> QED
    BY <2>4
<1>5. Rec(h)
  BY <1>4
<1> HIDE DEF h
<1>6. h[0] = <<>>
  <2>1. h[0] = IF 0 = 0 THEN <<>> ELSE IF 0 \in places THEN Append(h[0 - 1], s[0]) ELSE h[0 - 1]
    BY <1>0, <1>5
  <2> QED
    BY <2>1
<1>7. ASSUME NEW k \in 1..n, h[k - 1] \in Seq(S) PROVE h[k] \in Seq(S)
  <2>1. k \in 0..n /\ k # 0
    BY <1>0
  <2>2. h[k] = Step(k, h[k - 1])
    BY <1>5, <2>1
  <2> QED
    BY <1>1, <1>7, <2>2
<1>8. ASSUME NEW m \in 0..n PROVE h[m] \in Seq(S)
  <2>1. h[0] \in Seq(S)
    BY <1>6
  <2>2. \A k \in 1..m : k \in 1..n
    BY <1>0
  <2>3. m \in Nat
    BY <1>0
  <2> HIDE DEF n
  <2> QED
    BY <1>7, <2>1, <2>2, <2>3, StepsStay
<1>9. ASSUME NEW k \in 1..n PROVE h[k] = Step(k, h[k - 1])
  <2>1. k \in 0..n /\ k # 0
    BY <1>0
  <2> QED
    BY <1>5, <2>1
<1> QED
  BY <1>3, <1>6, <1>8, <1>9 DEF Along

\* The places kept of a sequence give a sequence of the same values.
LEMMA AtType ==
  ASSUME NEW S, NEW s \in Seq(S), NEW places
  PROVE  At(s, places) \in Seq(S)
<1>1. PICK h : At(s, places) = h[Len(s)] /\ Along(h, S, s, places)
  BY AtSteps
<1>2. Len(s) \in 0..Len(s)
  OBVIOUS
<1> QED
  BY <1>1, <1>2 DEF Along

\* The values of a sequence, and a sequence without repetition.
Values(s) == {s[k] : k \in 1..Len(s)}
OnceEach(s) == \A j, k \in 1..Len(s) : s[j] = s[k] => j = k

\* A value that is appended.
LEMMA AppendValues ==
  ASSUME NEW S, NEW s \in Seq(S), NEW x \in S
  PROVE  /\ Append(s, x) \in Seq(S) /\ Values(Append(s, x)) = Values(s) \cup {x}
         /\ OnceEach(s) /\ x \notin Values(s) => OnceEach(Append(s, x))
<1> DEFINE t == Append(s, x)
           n == Len(s)
<1>1. t \in Seq(S) /\ Len(t) = n + 1 /\ n \in Nat /\ t[n + 1] = x /\ \A k \in 1..n : t[k] = s[k]
  OBVIOUS
<1>2. \A k : k \in 1..(n + 1) <=> k \in 1..n \/ k = n + 1
  BY <1>1
<1> HIDE DEF t, n
<1>3. Values(t) = Values(s) \cup {x}
  BY <1>1, <1>2 DEF Values, n
<1>4. ASSUME OnceEach(s), x \notin Values(s), NEW j \in 1..(n + 1), NEW k \in 1..(n + 1), t[j] = t[k] PROVE j = k
  <2>1. CASE j \in 1..n /\ k \in 1..n
    BY <1>1, <1>4, <2>1 DEF OnceEach, n
  <2>2. CASE j = n + 1 /\ k = n + 1
    BY <2>2
  <2>3. CASE j \in 1..n /\ k = n + 1
    BY <1>1, <1>4, <2>3 DEF Values, n
  <2>4. CASE j = n + 1 /\ k \in 1..n
    BY <1>1, <1>4, <2>4 DEF Values, n
  <2> QED
    BY <1>2, <2>1, <2>2, <2>3, <2>4
<1> QED
  BY <1>1, <1>3, <1>4 DEF OnceEach, t

\* At keeps the values at the places, and brings none twice.
LEMMA AtSelects ==
  ASSUME NEW S, NEW s \in Seq(S), NEW places
  PROVE  /\ At(s, places) \in Seq(S)
         /\ Values(At(s, places)) = {s[k] : k \in places \cap 1..Len(s)}
         /\ OnceEach(s) => OnceEach(At(s, places))
<1>0. PICK h : At(s, places) = h[Len(s)] /\ Along(h, S, s, places)
  BY AtSteps
<1>1. /\ At(s, places) = h[Len(s)] /\ h[0] = <<>>
      /\ \A k \in 0..Len(s) : h[k] \in Seq(S)
      /\ \A k \in 1..Len(s) : h[k] = IF k \in places THEN Append(h[k - 1], s[k]) ELSE h[k - 1]
  BY <1>0 DEF Along
<1> DEFINE n == Len(s)
           Picked(m) == {s[k] : k \in places \cap 1..m}
           Good == {m \in 0..n : Values(h[m]) = Picked(m) /\ (OnceEach(s) => OnceEach(h[m]))}
<1>2. n \in Nat
  OBVIOUS
<1>3. 0 \in Good
  BY <1>1 DEF Values, OnceEach
<1>4. ASSUME NEW m \in 0..(n - 1), m \in Good PROVE m + 1 \in Good
  <2>1. m + 1 \in 1..n /\ m + 1 \in 0..n /\ m \in 0..n /\ (m + 1) - 1 = m
    BY <1>2
  <2>2. h[m] \in Seq(S) /\ s[m + 1] \in S
    BY <1>1, <2>1
  <2>3. h[m + 1] = IF m + 1 \in places THEN Append(h[m], s[m + 1]) ELSE h[m]
    BY <1>1, <2>1
  <2>4. \A k : k \in 1..(m + 1) <=> k \in 1..m \/ k = m + 1
    BY <2>1
  <2>5. CASE m + 1 \in places
    <3>1. Picked(m + 1) = Picked(m) \cup {s[m + 1]}
      BY <2>4, <2>5
    <3>2. OnceEach(s) => s[m + 1] \notin Picked(m)
      BY <2>1 DEF OnceEach
    <3>3. Values(h[m]) = Picked(m) /\ (OnceEach(s) => OnceEach(h[m])) /\ h[m + 1] = Append(h[m], s[m + 1])
      BY <1>4, <2>3, <2>5
    <3> HIDE DEF Picked
    <3>4. Values(Append(h[m], s[m + 1])) = Picked(m + 1) /\ (OnceEach(s) => OnceEach(Append(h[m], s[m + 1])))
      <4>1. PICK v \in Seq(S), x \in S : v = h[m] /\ x = s[m + 1]
        BY <2>2
      <4>2. /\ Values(Append(v, x)) = Values(v) \cup {x}
            /\ OnceEach(v) /\ x \notin Values(v) => OnceEach(Append(v, x))
        BY AppendValues
      <4> QED
        BY <3>1, <3>2, <3>3, <4>1, <4>2
    <3> QED
      BY <2>1, <3>3, <3>4
  <2>6. CASE m + 1 \notin places
    <3>1. Picked(m + 1) = Picked(m)
      BY <2>4, <2>6
    <3> HIDE DEF Picked
    <3> QED
      BY <1>4, <2>1, <2>3, <2>6, <3>1
  <2> QED
    BY <2>5, <2>6
<1>5. n \in Good
  <2> HIDE DEF Good
  <2> QED
    BY <1>2, <1>3, <1>4, SetInduction
<1> QED
  BY <1>1, <1>2, <1>5

\* Two sequences, one behind the other.
LEMMA ConcatValues ==
  ASSUME NEW S, NEW s \in Seq(S), NEW t \in Seq(S)
  PROVE  /\ s \o t \in Seq(S) /\ Values(s \o t) = Values(s) \cup Values(t)
         /\ OnceEach(s) /\ OnceEach(t) /\ Values(s) \cap Values(t) = {} => OnceEach(s \o t)
<1> DEFINE u == s \o t
           m == Len(s)
           n == Len(t)
<1>1. /\ u \in Seq(S) /\ m \in Nat /\ n \in Nat /\ Len(u) = m + n
      /\ \A k \in 1..m : u[k] = s[k] /\ k \in 1..(m + n)
  OBVIOUS
<1>2. \A k \in 1..n : u[m + k] = t[k] /\ m + k \in 1..(m + n)
  OBVIOUS
<1>3. ASSUME NEW k \in 1..(m + n) PROVE k \in 1..m \/ \E j \in 1..n : k = m + j
  <2>1. CASE k > m
    <3>1. k - m \in 1..n /\ k = m + (k - m)
      BY <1>1, <2>1
    <3> QED
      BY <3>1
  <2> QED
    BY <1>1, <2>1
<1> HIDE DEF u, m, n
<1>4. Values(u) = Values(s) \cup Values(t)
  <2>1. Values(u) = {u[k] : k \in 1..(m + n)} /\ Values(s) = {s[k] : k \in 1..m} /\ Values(t) = {t[k] : k \in 1..n}
    BY <1>1 DEF Values, m, n
  <2>2. ASSUME NEW x \in Values(u) PROVE x \in Values(s) \cup Values(t)
    <3>1. PICK k \in 1..(m + n) : x = u[k]
      BY <2>1
    <3>2. CASE k \in 1..m
      BY <1>1, <2>1, <3>1, <3>2
    <3>3. ASSUME NEW j \in 1..n, k = m + j PROVE x \in Values(t)
      BY <1>2, <2>1, <3>1, <3>3
    <3> QED
      BY <1>3, <3>2, <3>3
  <2>3. ASSUME NEW x \in Values(s) PROVE x \in Values(u)
    BY <1>1, <2>1
  <2>4. ASSUME NEW x \in Values(t) PROVE x \in Values(u)
    <3>1. PICK j \in 1..n : x = t[j]
      BY <2>1
    <3>2. x = u[m + j] /\ m + j \in 1..(m + n)
      BY <1>2, <3>1
    <3> QED
      BY <2>1, <3>2
  <2> QED
    BY <2>2, <2>3, <2>4
<1>5. ASSUME OnceEach(s), OnceEach(t), Values(s) \cap Values(t) = {}, NEW j \in 1..(m + n), NEW k \in 1..(m + n), u[j] = u[k]
      PROVE  j = k
  <2>0. /\ \A x \in 1..m : s[x] \in Values(s)
        /\ \A x \in 1..n : t[x] \in Values(t)
    BY DEF Values, m, n
  <2>1. CASE j \in 1..m /\ k \in 1..m
    BY <1>1, <1>5, <2>1 DEF OnceEach, m
  <2>2. ASSUME NEW x \in 1..n, NEW y \in 1..n, j = m + x, k = m + y PROVE j = k
    <3>1. t[x] = t[y]
      BY <1>2, <1>5, <2>2
    <3> QED
      BY <1>5, <2>2, <3>1 DEF OnceEach, n
  <2>3. ASSUME NEW y \in 1..n, j \in 1..m, k = m + y PROVE FALSE
    BY <1>1, <1>2, <1>5, <2>0, <2>3
  <2>4. ASSUME NEW x \in 1..n, k \in 1..m, j = m + x PROVE FALSE
    BY <1>1, <1>2, <1>5, <2>0, <2>4
  <2> QED
    BY <1>3, <2>1, <2>2, <2>3, <2>4
<1> QED
  BY <1>1, <1>4, <1>5 DEF OnceEach, u

\* The values of a sequence, each made into another value.
Mapped(s, f) == [k \in DOMAIN s |-> f[s[k]]]
LEMMA MapValues ==
  ASSUME NEW S, NEW T, NEW s \in Seq(S), NEW f \in [S -> T]
  PROVE  /\ Mapped(s, f) \in Seq(T) /\ Values(Mapped(s, f)) = {f[x] : x \in Values(s)}
         /\ OnceEach(s) /\ (\A x, y \in S : f[x] = f[y] => x = y) => OnceEach(Mapped(s, f))
<1> DEFINE t == [k \in DOMAIN s |-> f[s[k]]]
<1>1. DOMAIN s = 1..Len(s) /\ Len(s) \in Nat /\ \A k \in 1..Len(s) : s[k] \in S
  OBVIOUS
<1>2. t \in Seq(T) /\ Len(t) = Len(s) /\ \A k \in 1..Len(s) : t[k] = f[s[k]]
  OBVIOUS
<1> HIDE DEF t
<1>3. Values(t) = {f[x] : x \in Values(s)}
  BY <1>1, <1>2 DEF Values
<1>4. OnceEach(s) /\ (\A x, y \in S : f[x] = f[y] => x = y) => OnceEach(t)
  BY <1>1, <1>2 DEF OnceEach
<1> QED
  BY <1>2, <1>3, <1>4 DEF t, Mapped
=============================================================================
