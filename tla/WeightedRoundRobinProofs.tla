---------------------- MODULE WeightedRoundRobinProofs ----------------------
(***************************************************************************)
(* Proofs about WeightedRoundRobin, for lists of any length, any weights   *)
(* that are not negative and any lifetime of a picker: Share and Known.    *)
(*                                                                         *)
(* The argument about Share is arithmetic.  k picks into a round, a node   *)
(* of weight w that r of them answered has the current weight              *)
(* w * (k + 1) - r * t, where t is what the weights add up to; the current *)
(* weights add up to t as well.  The heaviest is then a node with r < w.   *)
(***************************************************************************)
EXTENDS WeightedRoundRobin, SequenceTheorems, FiniteSetTheorems, WellFoundedInduction, TLAPS
-----------------------------------------------------------------------------
(* Induction *)

\* A set of numbers has a least one: the intervals from 0 to them are ordered by
\* inclusion, which is well-founded.
LEMMA Least ==
  ASSUME NEW T \in SUBSET Nat, T # {}
  PROVE  \E m \in T : \A k \in T : m <= k
<1> DEFINE U == {0..m : m \in T}
           F == FiniteSubsetsOf(Nat)
           R == StrictSubsetOrdering(Nat)
<1>1. U \subseteq F /\ U # {}
  <2>1. ASSUME NEW m \in T PROVE 0..m \in F
    BY FS_Interval, 0..m \subseteq Nat DEF FiniteSubsetsOf
  <2> QED
    BY <2>1
<1>2. IsWellFoundedOn(R, F)
  BY FS_StrictSubsetOrderingWellFounded
<1>3. PICK x \in U : \A y \in U : ~(<<y, x>> \in R)
  <2> HIDE DEF U, F, R
  <2> QED
    BY <1>1, <1>2, WFMin
<1>4. PICK m \in T : x = 0..m
  OBVIOUS
<1>5. ASSUME NEW k \in T, k < m PROVE FALSE
  <2>1. 0..k \in U /\ 0..k \subseteq 0..m /\ m \in 0..m /\ m \notin 0..k
    BY <1>5
  <2>2. <<0..k, x>> \in R
    BY <1>4, <2>1 DEF StrictSubsetOrdering
  <2> QED
    BY <1>3, <2>1, <2>2
<1> QED
  BY <1>5

\* Induction, for a property given as the set of numbers that have it.
LEMMA Induction ==
  ASSUME NEW S \in SUBSET Nat, 0 \in S, \A n \in S : n + 1 \in S
  PROVE  S = Nat
<1> SUFFICES ASSUME Nat \ S # {} PROVE FALSE
  OBVIOUS
<1>1. PICK m \in Nat \ S : \A k \in Nat \ S : m <= k
  BY Least
<1>2. m # 0 /\ m - 1 \in Nat
  BY <1>1
<1>3. m - 1 \in S
  BY <1>1, <1>2
<1> QED
  BY <1>1, <1>2, <1>3

\* Running is the function its recursive definition describes.
LEMMA RunningSum ==
  ASSUME NEW f \in Seq(Int)
  PROVE  /\ Running(f) \in [0..Len(f) -> Int]
         /\ Running(f)[0] = 0
         /\ \A n \in 1..Len(f) : Running(f)[n] = Running(f)[n - 1] + f[n]
<1> DEFINE Sums(n) == {g \in [0..n -> Int] : g[0] = 0 /\ \A k \in 1..n : g[k] = g[k - 1] + f[k]}
           S == {n \in Nat : n <= Len(f) => Sums(n) # {}}
<1>0. Len(f) \in Nat /\ \A k \in 1..Len(f) : f[k] \in Int
  BY LenProperties, ElementOfSeq
<1>1. 0 \in S
  <2>1. [k \in 0..0 |-> 0] \in Sums(0)
    OBVIOUS
  <2> QED
    BY <2>1
<1>2. ASSUME NEW n \in S PROVE n + 1 \in S
  <2>1. ASSUME n + 1 <= Len(f) PROVE Sums(n + 1) # {}
    <3>0. Sums(n) # {}
      <4>1. n \in Nat /\ n <= Len(f) /\ (n <= Len(f) => Sums(n) # {})
        <5> HIDE DEF Sums
        <5> QED
          BY <1>0, <1>2, <2>1
      <4> HIDE DEF Sums
      <4> QED
        BY <4>1
    <3>1. PICK g \in [0..n -> Int] : g[0] = 0 /\ \A k \in 1..n : g[k] = g[k - 1] + f[k]
      BY <3>0
    <3>2. n + 1 \in 1..Len(f) /\ f[n + 1] \in Int
      BY <1>0, <2>1
    <3> DEFINE h == [k \in 0..(n + 1) |-> IF k = n + 1 THEN g[n] + f[n + 1] ELSE g[k]]
    <3>3. h \in [0..(n + 1) -> Int] /\ h[0] = 0
      BY <3>1, <3>2
    <3>4. ASSUME NEW k \in 1..(n + 1) PROVE h[k] = h[k - 1] + f[k]
      <4>1. h[k - 1] = g[k - 1]
        OBVIOUS
      <4>2. CASE k = n + 1
        BY <4>1, <4>2
      <4>3. CASE k # n + 1
        <5>1. k \in 1..n /\ h[k] = g[k]
          BY <4>3
        <5> QED
          BY <3>1, <4>1, <5>1
      <4> QED
        BY <4>2, <4>3
    <3> QED
      BY <3>3, <3>4
  <2>2. n + 1 \in Nat
    OBVIOUS
  <2> HIDE DEF Sums
  <2> QED
    BY <2>1, <2>2
<1>3. Len(f) \in S
  <2> HIDE DEF S
  <2>1. S = Nat
    <3>1. S \in SUBSET Nat
      BY DEF S
    <3> QED
      BY <1>1, <1>2, <3>1, Induction
  <2> QED
    BY <1>0, <2>1
<1>4. PICK g \in [0..Len(f) -> Int] :
        g[0] = 0 /\ \A k \in 1..Len(f) : g[k] = g[k - 1] + f[k]
  BY <1>0, <1>3
<1> DEFINE R(h) == [n \in 0..Len(f) |-> IF n = 0 THEN 0 ELSE h[n - 1] + f[n]]
<1>5. g = R(g)
  BY <1>0, <1>4
<1>6. Running(f) = R(Running(f))
  BY <1>5 DEF Running
<1>7. ASSUME NEW r, r = R(r)
      PROVE  /\ r[0] = 0 /\ DOMAIN r = 0..Len(f)
             /\ \A n \in 1..Len(f) : r[n] = r[n - 1] + f[n]
  <2>1. DOMAIN R(r) = 0..Len(f) /\ R(r)[0] = 0
    BY <1>0
  <2>2. \A n \in 1..Len(f) : R(r)[n] = r[n - 1] + f[n]
    BY <1>0
  <2> HIDE DEF R
  <2> QED
    BY <1>7, <2>1, <2>2
<1> DEFINE r == Running(f)
<1>8. /\ r[0] = 0 /\ DOMAIN r = 0..Len(f) /\ r = [n \in 0..Len(f) |-> r[n]]
      /\ \A n \in 1..Len(f) : r[n] = r[n - 1] + f[n]
  <2> HIDE DEF R
  <2>1. /\ r[0] = 0 /\ DOMAIN r = 0..Len(f)
        /\ \A n \in 1..Len(f) : r[n] = r[n - 1] + f[n]
    BY <1>6, <1>7
  <2>2. DOMAIN r = 0..Len(f) => r = [n \in 0..Len(f) |-> r[n]]
    BY <1>6 DEF R
  <2> QED
    BY <2>1, <2>2
<1> HIDE DEF r
<1>9. \A n \in 0..Len(f) : r[n] \in Int
  <2> DEFINE V == {n \in Nat : n <= Len(f) => r[n] \in Int}
  <2>1. 0 \in V
    BY <1>8
  <2>2. ASSUME NEW n \in V PROVE n + 1 \in V
    <3>1. ASSUME n + 1 <= Len(f) PROVE r[n + 1] \in Int
      <4>1. n \in Nat /\ n + 1 \in 1..Len(f) /\ (n + 1) - 1 = n /\ n <= Len(f)
        BY <1>0, <3>1
      <4>2. r[n + 1] = r[n] + f[n + 1] /\ f[n + 1] \in Int /\ r[n] \in Int
        BY <1>0, <1>8, <4>1
      <4> QED
        BY <4>2
    <3> QED
      BY <3>1
  <2>3. V \in SUBSET Nat
    OBVIOUS
  <2> HIDE DEF V
  <2>4. V = Nat
    BY <2>1, <2>2, <2>3, Induction
  <2> QED
    BY <1>0, <2>4 DEF V
<1> QED
  BY <1>8, <1>9 DEF r
-----------------------------------------------------------------------------
(* Sums *)

\* What Total is of the weights of a list.
SumOf(f) == Running(f)[Len(f)]

\* Induction along a sequence.
LEMMA Along ==
  ASSUME NEW n \in Nat, NEW S, 0 \in S, \A k \in 0..(n - 1) : k \in S => k + 1 \in S
  PROVE  n \in S
<1> DEFINE V == {k \in Nat : k <= n => k \in S}
<1>1. 0 \in V
  OBVIOUS
<1>2. ASSUME NEW k \in V PROVE k + 1 \in V
  <2>1. k \in Nat /\ k + 1 \in Nat
    OBVIOUS
  <2>2. k + 1 <= n => k \in 0..(n - 1) /\ k \in S
    BY <2>1
  <2> QED
    BY <2>1, <2>2
<1>3. V \in SUBSET Nat
  OBVIOUS
<1>4. V = Nat
  <2> HIDE DEF V
  <2> QED
    BY <1>1, <1>2, <1>3, Induction
<1> QED
  BY <1>4

\* Integers add up to an integer.
LEMMA SumType == ASSUME NEW f \in Seq(Int) PROVE SumOf(f) \in Int
<1>1. Len(f) \in 0..Len(f)
  BY LenProperties
<1> QED
  BY <1>1, RunningSum DEF SumOf

\* The sum of two sequences is the sum of their sums.
LEMMA SumPlus ==
  ASSUME NEW f \in Seq(Int), NEW g \in Seq(Int), NEW h \in Seq(Int),
         Len(f) = Len(h), Len(g) = Len(h), \A i \in 1..Len(h) : h[i] = f[i] + g[i]
  PROVE  SumOf(h) = SumOf(f) + SumOf(g)
<1>1. Len(h) \in Nat
  BY LenProperties
<1> PICK n \in Nat : n = Len(h)
  BY <1>1
<1> PICK p, q, r : p = Running(f) /\ q = Running(g) /\ r = Running(h)
  OBVIOUS
<1>2. /\ p \in [0..n -> Int] /\ q \in [0..n -> Int] /\ r \in [0..n -> Int]
      /\ p[0] = 0 /\ q[0] = 0 /\ r[0] = 0
      /\ \A k \in 1..n : p[k] = p[k - 1] + f[k] /\ q[k] = q[k - 1] + g[k] /\ r[k] = r[k - 1] + h[k]
  BY RunningSum
<1>3. \A k \in 1..n : f[k] \in Int /\ g[k] \in Int /\ h[k] = f[k] + g[k]
  BY ElementOfSeq
<1> DEFINE S == {k \in 0..n : r[k] = p[k] + q[k]}
<1>4. 0 \in S
  BY <1>2
<1>5. ASSUME NEW k \in 0..(n - 1), k \in S PROVE k + 1 \in S
  <2>1. k + 1 \in 1..n /\ (k + 1) - 1 = k /\ k \in 0..n
    OBVIOUS
  <2>2. /\ p[k + 1] = p[k] + f[k + 1] /\ q[k + 1] = q[k] + g[k + 1]
        /\ r[k + 1] = r[k] + (f[k + 1] + g[k + 1])
    BY <1>2, <1>3, <2>1
  <2>3. p[k] \in Int /\ q[k] \in Int /\ f[k + 1] \in Int /\ g[k + 1] \in Int
    BY <1>2, <1>3, <2>1
  <2>4. r[k] = p[k] + q[k]
    BY <1>5
  <2>5. PICK a, b, c, d \in Int : a = p[k] /\ b = q[k] /\ c = f[k + 1] /\ d = g[k + 1]
    BY <2>3
  <2>6. p[k + 1] = a + c /\ q[k + 1] = b + d /\ r[k + 1] = (a + b) + (c + d)
    BY <2>2, <2>4, <2>5
  <2>7. (a + b) + (c + d) = (a + c) + (b + d)
    OBVIOUS
  <2> QED
    BY <2>1, <2>6, <2>7
<1>6. n \in S
  <2> HIDE DEF S
  <2> QED
    BY <1>4, <1>5, Along
<1> QED
  BY <1>6 DEF SumOf

\* Sums keep the order of their summands, and strictly if one is less.
LEMMA SumOrder ==
  ASSUME NEW f \in Seq(Int), NEW g \in Seq(Int), Len(f) = Len(g),
         \A i \in 1..Len(g) : f[i] <= g[i]
  PROVE  /\ SumOf(f) <= SumOf(g)
         /\ (\E i \in 1..Len(g) : f[i] < g[i]) => SumOf(f) < SumOf(g)
<1>1. Len(g) \in Nat
  BY LenProperties
<1> PICK n \in Nat : n = Len(g)
  BY <1>1
<1> PICK p, q : p = Running(f) /\ q = Running(g)
  OBVIOUS
<1>2. /\ p \in [0..n -> Int] /\ q \in [0..n -> Int]
      /\ p[0] = 0 /\ q[0] = 0
      /\ \A k \in 1..n : p[k] = p[k - 1] + f[k] /\ q[k] = q[k - 1] + g[k]
  BY RunningSum
<1>3. \A k \in 1..n : f[k] \in Int /\ g[k] \in Int /\ f[k] <= g[k]
  BY ElementOfSeq
<1> DEFINE S == {k \in 0..n : /\ p[k] <= q[k]
                              /\ (\E i \in 1..k : f[i] < g[i]) => p[k] < q[k]}
<1>4. 0 \in S
  BY <1>2
<1>5. ASSUME NEW k \in 0..(n - 1), k \in S PROVE k + 1 \in S
  <2>1. k + 1 \in 1..n /\ (k + 1) - 1 = k /\ k \in 0..n /\ k + 1 \in 0..n
    OBVIOUS
  <2>2. p[k + 1] = p[k] + f[k + 1] /\ q[k + 1] = q[k] + g[k + 1] /\ f[k + 1] <= g[k + 1]
    BY <1>2, <1>3, <2>1
  <2>3. p[k] \in Int /\ q[k] \in Int /\ f[k + 1] \in Int /\ g[k + 1] \in Int
    BY <1>2, <1>3, <2>1
  <2>4. p[k] <= q[k] /\ ((\E i \in 1..k : f[i] < g[i]) => p[k] < q[k])
    BY <1>5
  <2>5. p[k + 1] <= q[k + 1]
    BY <2>2, <2>3, <2>4
  <2>6. ASSUME NEW i \in 1..(k + 1), f[i] < g[i] PROVE p[k + 1] < q[k + 1]
    <3>1. CASE i = k + 1
      BY <2>2, <2>3, <2>4, <2>6, <3>1
    <3>2. CASE i # k + 1
      <4>1. i \in 1..k
        BY <3>2
      <4>2. p[k] < q[k]
        BY <2>4, <2>6, <4>1
      <4> QED
        BY <2>2, <2>3, <4>2
    <3> QED
      BY <3>1, <3>2
  <2>7. (\E i \in 1..(k + 1) : f[i] < g[i]) => p[k + 1] < q[k + 1]
    BY <2>6
  <2> QED
    BY <2>1, <2>5, <2>7
<1>6. n \in S
  <2> HIDE DEF S
  <2> QED
    BY <1>4, <1>5, Along
<1> QED
  BY <1>6 DEF SumOf

\* One summand changes.
LEMMA SumChange ==
  ASSUME NEW f \in Seq(Int), NEW h \in Seq(Int), Len(h) = Len(f),
         NEW j \in 1..Len(f), NEW d \in Int, h[j] = f[j] + d,
         \A i \in 1..Len(f) : i # j => h[i] = f[i]
  PROVE  SumOf(h) = SumOf(f) + d
<1>1. Len(f) \in Nat
  BY LenProperties
<1> PICK n \in Nat : n = Len(f)
  BY <1>1
<1>4. \A i \in 1..n : f[i] \in Int /\ h[i] = IF i = j THEN f[i] + d ELSE f[i]
  BY ElementOfSeq
<1> PICK p, q : p = Running(f) /\ q = Running(h)
  OBVIOUS
<1>5. /\ p \in [0..n -> Int] /\ q \in [0..n -> Int]
      /\ p[0] = 0 /\ q[0] = 0
      /\ \A k \in 1..n : p[k] = p[k - 1] + f[k] /\ q[k] = q[k - 1] + h[k]
  BY RunningSum
<1> DEFINE S == {k \in 0..n : q[k] = IF j <= k THEN p[k] + d ELSE p[k]}
<1>6. 0 \in S
  BY <1>5
<1>7. ASSUME NEW k \in 0..(n - 1), k \in S PROVE k + 1 \in S
  <2>1. k + 1 \in 1..n /\ (k + 1) - 1 = k /\ k \in 0..n /\ k + 1 \in 0..n
    OBVIOUS
  <2>2. p[k + 1] = p[k] + f[k + 1] /\ q[k + 1] = q[k] + h[k + 1]
    BY <1>5, <2>1
  <2>3. p[k] \in Int /\ f[k + 1] \in Int /\ h[k + 1] = IF k + 1 = j THEN f[k + 1] + d ELSE f[k + 1]
    BY <1>4, <1>5, <2>1
  <2>4. q[k] = IF j <= k THEN p[k] + d ELSE p[k]
    BY <1>7
  <2>5. CASE k + 1 = j
    <3>1. j <= k + 1 /\ ~(j <= k)
      BY <2>5
    <3>2. q[k + 1] = p[k] + (f[k + 1] + d) /\ p[k + 1] + d = (p[k] + f[k + 1]) + d
      BY <2>2, <2>3, <2>4, <2>5, <3>1
    <3>3. q[k + 1] = p[k + 1] + d
      BY <2>3, <3>2
    <3> QED
      BY <2>1, <3>1, <3>3
  <2>6. CASE k + 1 # j
    <3>1. j <= k + 1 <=> j <= k
      BY <2>6
    <3>2. q[k + 1] = (IF j <= k THEN p[k] + d ELSE p[k]) + f[k + 1] /\ p[k + 1] = p[k] + f[k + 1]
      BY <2>2, <2>3, <2>4, <2>6
    <3>3. q[k + 1] = IF j <= k THEN p[k + 1] + d ELSE p[k + 1]
      BY <2>3, <3>2
    <3> QED
      BY <2>1, <3>1, <3>3
  <2> QED
    BY <2>5, <2>6
<1>8. n \in S
  <2> HIDE DEF S
  <2> QED
    BY <1>6, <1>7, Along
<1> QED
  BY <1>8 DEF SumOf

\* Nothing adds up to nothing.
LEMMA SumZeros ==
  ASSUME NEW f \in Seq(Int), \A i \in 1..Len(f) : f[i] = 0 PROVE SumOf(f) = 0
<1>1. SumOf(f) = SumOf(f) + SumOf(f)
  BY SumPlus
<1> QED
  BY <1>1, SumType
-----------------------------------------------------------------------------
(* Picking *)

\* Among numbers there is a first one that no other exceeds.
LEMMA FirstMaximum ==
  ASSUME NEW f \in Seq(Int), Len(f) # 0
  PROVE  \E i \in 1..Len(f) : \A j \in 1..Len(f) : f[j] <= f[i] /\ (j < i => f[j] < f[i])
<1>1. Len(f) \in Nat
  BY LenProperties
<1> PICK n \in Nat : n = Len(f)
  BY <1>1
<1>2. \A i \in 1..n : f[i] \in Int
  BY ElementOfSeq
<1> DEFINE First(k, i) == \A j \in 1..k : f[j] <= f[i] /\ (j < i => f[j] < f[i])
           S == {k \in 0..n : k # 0 => \E i \in 1..k : First(k, i)}
<1>3. 0 \in S
  OBVIOUS
<1>4. ASSUME NEW k \in 0..(n - 1), k \in S PROVE k + 1 \in S
  <2>1. k + 1 \in 1..n /\ k + 1 \in 0..n /\ f[k + 1] \in Int
    BY <1>2
  <2>2. CASE k = 0
    <3>1. First(k + 1, k + 1)
      BY <2>1, <2>2
    <3> QED
      BY <2>1, <3>1
  <2>3. CASE k # 0
    <3>1. PICK i \in 1..k : First(k, i)
      BY <1>4, <2>3
    <3>2. f[i] \in Int /\ i \in 1..(k + 1)
      BY <1>2
    <3>3. CASE f[k + 1] <= f[i]
      <4>1. First(k + 1, i)
        <5> SUFFICES ASSUME NEW j \in 1..(k + 1)
                     PROVE  f[j] <= f[i] /\ (j < i => f[j] < f[i])
          OBVIOUS
        <5> QED
          BY <3>1, <3>2, <3>3
      <4> QED
        BY <2>1, <3>2, <4>1
    <3>4. CASE f[k + 1] > f[i]
      <4>1. First(k + 1, k + 1)
        <5> SUFFICES ASSUME NEW j \in 1..(k + 1)
                     PROVE  f[j] <= f[k + 1] /\ (j < k + 1 => f[j] < f[k + 1])
          OBVIOUS
        <5>1. CASE j = k + 1
          BY <2>1, <5>1
        <5>2. CASE j # k + 1
          <6>1. j \in 1..k /\ f[j] \in Int
            BY <1>2, <5>2
          <6>2. f[j] <= f[i]
            BY <3>1, <6>1
          <6> QED
            BY <2>1, <3>2, <3>4, <6>1, <6>2
        <5> QED
          BY <5>1, <5>2
      <4> QED
        BY <2>1, <4>1
    <3> QED
      BY <2>1, <3>2, <3>3, <3>4
  <2> QED
    BY <2>2, <2>3
<1>5. n \in S
  <2> HIDE DEF S
  <2> QED
    BY <1>3, <1>4, Along
<1> QED
  BY <1>5

\* The loop of pick ends with the index of a greatest number, if one is positive.
LEMMA HeaviestIsGreatest ==
  ASSUME NEW f \in Seq(Int), Len(f) # 0
  PROVE  /\ Heaviest(f) \in 1..Len(f)
         /\ (\E i \in 1..Len(f) : f[i] > 0) => \A j \in 1..Len(f) : f[j] <= f[Heaviest(f)]
<1>1. Len(f) \in Nat /\ DOMAIN f = 1..Len(f) /\ \A i \in 1..Len(f) : f[i] \in Int
  BY LenProperties, ElementOfSeq
<1>2. \E i \in DOMAIN f : \A j \in DOMAIN f : f[j] <= f[i] /\ (j < i => f[j] < f[i])
  BY <1>1, FirstMaximum
<1> DEFINE h == CHOOSE i \in DOMAIN f : \A j \in DOMAIN f : f[j] <= f[i] /\ (j < i => f[j] < f[i])
<1>3. h \in DOMAIN f /\ \A j \in DOMAIN f : f[j] <= f[h]
  BY <1>2
<1>4. Heaviest(f) = IF \A i \in DOMAIN f : f[i] <= 0 THEN 1 ELSE h
  BY DEF Heaviest
<1> HIDE DEF h
<1>5. 1 \in 1..Len(f)
  BY <1>1
<1>6. CASE \A i \in DOMAIN f : f[i] <= 0
  <2>1. ~(\E i \in 1..Len(f) : f[i] > 0)
    BY <1>1, <1>6
  <2> QED
    BY <1>4, <1>5, <1>6, <2>1
<1>7. CASE ~(\A i \in DOMAIN f : f[i] <= 0)
  BY <1>1, <1>3, <1>4, <1>7
<1> QED
  BY <1>6, <1>7

\* The current weight of a node that has the weight w, after k picks of which r
\* were its own, when the total weight is t.
Balanced(c, w, k, r, t) == c = w * (k + 1) - r * t

\* A pick keeps that account: of the nodes it does not answer, and of the one it
\* does.
LEMMA Accounts ==
  ASSUME NEW c \in Int, NEW w \in Int, NEW k \in Int, NEW r \in Int, NEW t \in Int,
         Balanced(c, w, k, r, t)
  PROVE  /\ Balanced(c + w, w, k + 1, r, t)
         /\ Balanced((c + w) - t, w, k + 1, r + 1, t)
         /\ k + 1 = t /\ r = w => c + w = w
         /\ k + 1 = t /\ r + 1 = w => (c + w) - t = w
BY DEF Balanced

\* So it stands before the first pick.
LEMMA Fresh ==
  \A w, t \in Int : Balanced(w, w, 0, 0, t) /\ (t = 0 => \A k \in Int : Balanced(0, 0, k, 0, t))
BY DEF Balanced

\* A node that has had its share is not the heaviest: the rest of the round is
\* somebody else's.
LEMMA Spent ==
  ASSUME NEW c \in Int, NEW w \in Nat, NEW k \in Nat, NEW r \in Int, NEW t \in Nat,
         Balanced(c, w, k, r, t), k < t, r >= w
  PROVE  c + w > 0 => k + 1 = t /\ c + w <= w
<1>1. c + w = w * (k + 2) - r * t
  BY DEF Balanced
<1>2. r * t >= w * t
  OBVIOUS
<1>3. c + w <= w * (k + 2) - w * t
  BY <1>1, <1>2
<1>4. w * (k + 2) - w * t = w * ((k + 2) - t)
  OBVIOUS
<1>5. k + 1 < t => w * ((k + 2) - t) <= 0
  OBVIOUS
<1>6. k + 1 = t => w * ((k + 2) - t) = w
  OBVIOUS
<1> QED
  BY <1>3, <1>4, <1>5, <1>6

\* A node that has not is heavier than the total at the end of the round.
LEMMA Due ==
  ASSUME NEW c \in Int, NEW w \in Nat, NEW k \in Nat, NEW r \in Nat, NEW t \in Nat,
         Balanced(c, w, k, r, t), k + 1 = t, r < w
  PROVE  c + w > t
<1>1. c + w = w * (t + 1) - r * t
  BY DEF Balanced
<1>2. w * (t + 1) = w * t + w
  OBVIOUS
<1>3. r * t <= (w - 1) * t
  OBVIOUS
<1>4. (w - 1) * t = w * t - t
  OBVIOUS
<1> QED
  BY <1>1, <1>2, <1>3, <1>4

\* No summand exceeds the sum, if none is negative.
LEMMA SummandAtMost ==
  ASSUME NEW f \in Seq(Int), \A i \in 1..Len(f) : f[i] >= 0, NEW j \in 1..Len(f)
  PROVE  f[j] <= SumOf(f) /\ SumOf(f) >= 0
<1>1. Len(f) \in Nat /\ DOMAIN f = 1..Len(f) /\ \A i \in 1..Len(f) : f[i] \in Int
  BY LenProperties, ElementOfSeq
<1> DEFINE z == [i \in 1..Len(f) |-> 0]
<1>2. z \in Seq(Int) /\ Len(z) = Len(f) /\ \A i \in 1..Len(f) : z[i] = 0
  <2>1. z \in [1..Len(f) -> Int]
    OBVIOUS
  <2> QED
    BY <1>1, <2>1, LenProperties
<1> HIDE DEF z
<1>3. SumOf(z) = 0
  BY <1>2, SumZeros
<1> PICK d \in Int : d = 0 - f[j]
  BY <1>1
<1> PICK g : g = [f EXCEPT ![j] = f[j] + d]
  OBVIOUS
<1>4. g \in Seq(Int) /\ Len(g) = Len(f) /\ SumOf(g) = SumOf(f) + d
  <2>1. f[j] + d \in Int
    BY <1>1
  <2>2. g \in Seq(Int) /\ Len(g) = Len(f)
    BY <2>1, ExceptSeq
  <2>3. g[j] = f[j] + d /\ \A i \in 1..Len(f) : i # j => g[i] = f[i]
    BY <1>1
  <2> QED
    BY <2>2, <2>3, SumChange
<1>5. \A i \in 1..Len(g) : z[i] <= g[i]
  <2> SUFFICES ASSUME NEW i \in 1..Len(g) PROVE z[i] <= g[i]
    OBVIOUS
  <2>1. i \in DOMAIN f /\ z[i] = 0 /\ f[i] >= 0 /\ f[i] \in Int
    BY <1>1, <1>2, <1>4
  <2>2. CASE i = j
    <3>1. g[i] = 0
      BY <2>1, <2>2
    <3> QED
      BY <2>1, <3>1
  <2>3. CASE i # j
    <3>1. g[i] = f[i]
      BY <2>1, <2>3
    <3> QED
      BY <2>1, <3>1
  <2> QED
    BY <2>2, <2>3
<1>6. SumOf(z) <= SumOf(g) /\ SumOf(z) <= SumOf(f)
  BY <1>1, <1>2, <1>4, <1>5, SumOrder
<1> QED
  BY <1>1, <1>3, <1>4, <1>6, SumType

\* The lists the balancer keeps.
LEMMA ListWeights ==
  ASSUME NEW ns \in Seq([node : Node, weight : Nat])
  PROVE  /\ Len(ns) \in Nat /\ DOMAIN ns = 1..Len(ns)
         /\ WeightsOf(ns) \in Seq(Int) /\ Len(WeightsOf(ns)) = Len(ns)
         /\ \A i \in 1..Len(ns) : WeightsOf(ns)[i] = ns[i].weight /\ ns[i].weight \in Nat
         /\ Total(ns) = SumOf(WeightsOf(ns))
         /\ Total(ns) \in Int
<1> DEFINE Weighted == [node : Node, weight : Nat]
<1>1. Len(ns) \in Nat /\ DOMAIN ns = 1..Len(ns) /\ \A i \in 1..Len(ns) : ns[i].weight \in Nat
  <2>1. \A x \in Weighted : x.weight \in Nat
    OBVIOUS
  <2>2. ns \in Seq(Weighted)
    OBVIOUS
  <2> HIDE DEF Weighted
  <2> QED
    BY <2>1, <2>2, LenProperties, ElementOfSeq
<1>2. WeightsOf(ns) \in [1..Len(ns) -> Int]
  BY <1>1 DEF WeightsOf
<1>3. WeightsOf(ns) \in Seq(Int) /\ Len(WeightsOf(ns)) = Len(ns)
  BY <1>1, <1>2, LenProperties
<1>4. \A i \in 1..Len(ns) : WeightsOf(ns)[i] = ns[i].weight
  BY <1>1 DEF WeightsOf
<1>5. Total(ns) = SumOf(WeightsOf(ns))
  BY <1>3 DEF Total, SumOf
<1> QED
  BY <1>1, <1>3, <1>4, <1>5, SumType

\* A picker in the midst of a round: the current weights add up to the total, no
\* node has had more than its share, and its current weight says how much.
Round(ns, cw, rd) ==
  /\ ns \in Seq([node : Node, weight : Nat]) /\ Len(ns) # 0
  /\ cw \in Seq(Int) /\ Len(cw) = Len(ns) /\ SumOf(cw) = Total(ns)
  /\ rd \in Seq(Int) /\ Len(rd) = Len(ns)
  /\ \A i \in 1..Len(ns) :
       /\ rd[i] \in 0..ns[i].weight
       /\ Balanced(cw[i], ns[i].weight, SumOf(rd), rd[i], Total(ns))
  /\ Total(ns) > 0 => SumOf(rd) < Total(ns)

\* The counts a round begins with.
LEMMA ZerosAre ==
  ASSUME NEW ns \in Seq([node : Node, weight : Nat])
  PROVE  /\ Zeros(ns) \in Seq(Int) /\ Len(Zeros(ns)) = Len(ns)
         /\ \A i \in 1..Len(ns) : Zeros(ns)[i] = 0
         /\ SumOf(Zeros(ns)) = 0
<1>1. Len(ns) \in Nat /\ DOMAIN ns = 1..Len(ns)
  BY LenProperties
<1>2. Zeros(ns) \in [1..Len(ns) -> Int] /\ \A i \in 1..Len(ns) : Zeros(ns)[i] = 0
  BY <1>1 DEF Zeros
<1>3. Zeros(ns) \in Seq(Int) /\ Len(Zeros(ns)) = Len(ns)
  BY <1>1, <1>2, LenProperties
<1> QED
  BY <1>2, <1>3, SumZeros

\* A round begins with the weights themselves.
LEMMA RoundBegins ==
  ASSUME NEW ns \in Seq([node : Node, weight : Nat]), Len(ns) # 0
  PROVE  Round(ns, WeightsOf(ns), Zeros(ns))
<1>1. \A i \in 1..Len(ns) : /\ Zeros(ns)[i] \in 0..ns[i].weight
                            /\ Balanced(WeightsOf(ns)[i], ns[i].weight, 0, Zeros(ns)[i], Total(ns))
  <2> SUFFICES ASSUME NEW i \in 1..Len(ns)
               PROVE  /\ Zeros(ns)[i] \in 0..ns[i].weight
                      /\ Balanced(WeightsOf(ns)[i], ns[i].weight, 0, Zeros(ns)[i], Total(ns))
    OBVIOUS
  <2>1. WeightsOf(ns)[i] = ns[i].weight /\ ns[i].weight \in Nat /\ Total(ns) \in Int
    BY ListWeights
  <2>2. Zeros(ns)[i] = 0
    BY ZerosAre
  <2> QED
    BY <2>1, <2>2, Fresh
<1> QED
  BY <1>1, ListWeights, ZerosAre DEF Round

\* The node that pick answers has not had its share.
LEMMA PicksDue ==
  ASSUME NEW ns, NEW cw, NEW rd, Round(ns, cw, rd), Total(ns) > 0,
         NEW raised \in Seq(Int), Len(raised) = Len(ns),
         \A i \in 1..Len(ns) : raised[i] = cw[i] + ns[i].weight
  PROVE  /\ SumOf(raised) = Total(ns) + Total(ns)
         /\ rd[Heaviest(raised)] < ns[Heaviest(raised)].weight
<1> DEFINE w == WeightsOf(ns)
           t == Total(ns)
           k == SumOf(rd)
           m == Heaviest(raised)
<1>1. /\ ns \in Seq([node : Node, weight : Nat]) /\ Len(ns) # 0
      /\ cw \in Seq(Int) /\ Len(cw) = Len(ns) /\ SumOf(cw) = t
      /\ rd \in Seq(Int) /\ Len(rd) = Len(ns)
  BY DEF Round
<1>2. /\ w \in Seq(Int) /\ Len(w) = Len(ns) /\ t = SumOf(w) /\ t \in Int
      /\ \A i \in 1..Len(ns) : w[i] = ns[i].weight /\ w[i] \in Nat
  BY <1>1, ListWeights
<1>3. \A i \in 1..Len(ns) :
        rd[i] \in 0..w[i] /\ Balanced(cw[i], w[i], k, rd[i], t) /\ raised[i] = cw[i] + w[i]
  BY <1>2 DEF Round
<1>4. k < t
  BY DEF Round
<1>5. \A i \in 1..Len(ns) : cw[i] \in Int
  BY <1>1, ElementOfSeq
<1> HIDE DEF w, t, k, m
<1>6. SumOf(raised) = t + t
  BY <1>1, <1>2, <1>3, SumPlus
<1>7. Len(ns) \in Nat /\ k \in Nat /\ t \in Nat
  <2>1. \A i \in 1..Len(rd) : rd[i] >= 0
    BY <1>1, <1>2, <1>3
  <2>2. Len(ns) \in Nat /\ 1 \in 1..Len(rd)
    BY <1>1, LenProperties
  <2>3. k >= 0 /\ k \in Int
    BY <1>1, <2>1, <2>2, SummandAtMost, SumType DEF k
  <2> QED
    BY <1>2, <1>4, <2>2, <2>3
<1>8. \E i \in 1..Len(raised) : raised[i] > 0
  <2> SUFFICES ASSUME \A i \in 1..Len(raised) : ~(raised[i] > 0) PROVE FALSE
    OBVIOUS
  <2>1. /\ Zeros(ns) \in Seq(Int) /\ Len(Zeros(ns)) = Len(ns) /\ SumOf(Zeros(ns)) = 0
        /\ \A i \in 1..Len(ns) : Zeros(ns)[i] = 0
    BY <1>1, ZerosAre
  <2>2. \A i \in 1..Len(raised) : raised[i] \in Int
    BY ElementOfSeq
  <2>3. \A i \in 1..Len(Zeros(ns)) : raised[i] <= Zeros(ns)[i]
    BY <2>1, <2>2
  <2>4. SumOf(raised) <= 0
    BY <2>1, <2>3, SumOrder
  <2> QED
    BY <1>4, <1>6, <1>7, <2>4
<1>9. /\ m \in 1..Len(ns) /\ raised[m] > 0
      /\ \A j \in 1..Len(ns) : raised[j] <= raised[m]
  <2>1. m \in 1..Len(raised) /\ \A j \in 1..Len(raised) : raised[j] <= raised[m]
    BY <1>1, <1>8, HeaviestIsGreatest DEF m
  <2>2. \A i \in 1..Len(raised) : raised[i] \in Int
    BY ElementOfSeq
  <2> QED
    BY <1>8, <2>1, <2>2
<1>10. rd[m] < w[m]
  <2> SUFFICES ASSUME rd[m] >= w[m] PROVE FALSE
    BY <1>2, <1>3, <1>9
  <2>1. k + 1 = t /\ raised[m] <= w[m]
    <3>1. cw[m] \in Int /\ w[m] \in Nat /\ rd[m] \in Int /\ raised[m] = cw[m] + w[m]
      BY <1>2, <1>3, <1>5, <1>9
    <3>2. Balanced(cw[m], w[m], k, rd[m], t)
      BY <1>3, <1>9
    <3>3. cw[m] + w[m] > 0 => k + 1 = t /\ cw[m] + w[m] <= w[m]
      BY <1>4, <1>7, <3>1, <3>2, Spent
    <3> QED
      BY <1>9, <3>1, <3>3
  <2>2. PICK j \in 1..Len(ns) : rd[j] < w[j]
    <3> SUFFICES ASSUME \A j \in 1..Len(ns) : ~(rd[j] < w[j]) PROVE FALSE
      OBVIOUS
    <3>1. ASSUME NEW j \in 1..Len(rd) PROVE w[j] <= rd[j]
      <4>1. ~(rd[j] < w[j]) /\ rd[j] \in Int /\ w[j] \in Nat
        BY <1>1, <1>2, <1>3
      <4> QED
        BY <4>1
    <3>2. t <= k
      BY <1>1, <1>2, <3>1, SumOrder DEF k
    <3> QED
      BY <1>4, <1>7, <3>2
  <2>3. raised[j] > t
    <3>1. cw[j] \in Int /\ w[j] \in Nat /\ rd[j] \in Nat /\ raised[j] = cw[j] + w[j]
      BY <1>2, <1>3, <1>5
    <3>2. Balanced(cw[j], w[j], k, rd[j], t)
      BY <1>3
    <3> QED
      BY <1>7, <2>1, <2>2, <3>1, <3>2, Due
  <2>4. w[m] <= t
    <3>1. m \in 1..Len(w) /\ \A i \in 1..Len(w) : w[i] >= 0
      BY <1>2, <1>9
    <3> QED
      BY <1>2, <3>1, SummandAtMost
  <2>5. raised[j] <= raised[m] /\ raised[j] \in Int /\ raised[m] \in Int /\ w[m] \in Int
    BY <1>2, <1>3, <1>5, <1>9
  <2> QED
    BY <1>7, <2>1, <2>3, <2>4, <2>5
<1> QED
  BY <1>2, <1>6, <1>9, <1>10 DEF m, t

\* The current weights and the counts that a pick leaves, element by element.
Raised(ns, cw, raised) ==
  /\ raised \in Seq(Int) /\ Len(raised) = Len(ns)
  /\ \A i \in 1..Len(ns) : raised[i] = cw[i] + ns[i].weight
Charged(ns, raised, m, next) ==
  /\ next \in Seq(Int) /\ Len(next) = Len(ns)
  /\ \A i \in 1..Len(ns) : next[i] = IF i = m THEN raised[i] - Total(ns) ELSE raised[i]
Counted(ns, rd, m, turn) ==
  /\ turn \in Seq(Int) /\ Len(turn) = Len(ns)
  /\ \A i \in 1..Len(ns) : turn[i] = IF i = m THEN rd[i] + 1 ELSE rd[i]
RoundAfter(ns, turn) == IF Total(ns) = 0 \/ turn = WeightsOf(ns) THEN Zeros(ns) ELSE turn

\* A pick keeps a round a round, or ends it and begins the next.
LEMMA RoundGoesOn ==
  ASSUME NEW ns, NEW cw, NEW rd, Round(ns, cw, rd),
         NEW raised, Raised(ns, cw, raised),
         NEW m, m = Heaviest(raised),
         NEW next, Charged(ns, raised, m, next),
         NEW turn, Counted(ns, rd, m, turn)
  PROVE  Round(ns, next, RoundAfter(ns, turn))
<1> DEFINE w == WeightsOf(ns)
           t == Total(ns)
           k == SumOf(rd)
<1>0. /\ raised \in Seq(Int) /\ Len(raised) = Len(ns)
      /\ \A i \in 1..Len(ns) : raised[i] = cw[i] + ns[i].weight
      /\ next \in Seq(Int) /\ Len(next) = Len(ns)
      /\ \A i \in 1..Len(ns) : next[i] = IF i = m THEN raised[i] - Total(ns) ELSE raised[i]
      /\ turn \in Seq(Int) /\ Len(turn) = Len(ns)
      /\ \A i \in 1..Len(ns) : turn[i] = IF i = m THEN rd[i] + 1 ELSE rd[i]
  BY DEF Raised, Charged, Counted
<1>1. /\ ns \in Seq([node : Node, weight : Nat]) /\ Len(ns) # 0
      /\ cw \in Seq(Int) /\ Len(cw) = Len(ns) /\ SumOf(cw) = t
      /\ rd \in Seq(Int) /\ Len(rd) = Len(ns)
  BY DEF Round
<1>2. /\ w \in Seq(Int) /\ Len(w) = Len(ns) /\ t = SumOf(w) /\ t \in Int
      /\ DOMAIN ns = 1..Len(ns) /\ Len(ns) \in Nat
      /\ \A i \in 1..Len(ns) : w[i] = ns[i].weight /\ w[i] \in Nat
  BY <1>1, ListWeights
<1>3. \A i \in 1..Len(ns) : rd[i] \in 0..w[i] /\ Balanced(cw[i], w[i], k, rd[i], t)
  BY <1>2 DEF Round
<1>4. \A i \in 1..Len(ns) : cw[i] \in Int /\ rd[i] \in Int
  BY <1>1, ElementOfSeq
<1> HIDE DEF w, t, k
<1>5. \A i \in 1..Len(ns) : raised[i] = cw[i] + w[i] /\ raised[i] \in Int
  BY <1>0, <1>2, <1>4
<1>6. m \in 1..Len(ns)
  BY <1>0, <1>1, HeaviestIsGreatest
<1>7. k \in Nat /\ t \in Nat
  <2>0. \A i \in 1..Len(rd) : rd[i] >= 0
    <3> SUFFICES ASSUME NEW i \in 1..Len(rd) PROVE rd[i] >= 0
      OBVIOUS
    <3>1. rd[i] \in 0..w[i] /\ w[i] \in Nat
      BY <1>1, <1>2, <1>3
    <3> QED
      BY <3>1
  <2>1. (\A i \in 1..Len(rd) : rd[i] >= 0) /\ (\A i \in 1..Len(w) : w[i] >= 0)
    BY <1>2, <2>0
  <2>2. 1 \in 1..Len(rd) /\ 1 \in 1..Len(w)
    BY <1>1, <1>2
  <2>3. k >= 0 /\ k \in Int /\ t >= 0
    BY <1>1, <1>2, <2>1, <2>2, SummandAtMost, SumType DEF k
  <2> QED
    BY <1>2, <2>3
<1>8. SumOf(raised) = t + t
  BY <1>0, <1>1, <1>2, <1>5, SumPlus
<1>9. /\ SumOf(next) = t
      /\ \A i \in 1..Len(ns) : next[i] = IF i = m THEN (cw[i] + w[i]) - t ELSE cw[i] + w[i]
  <2>1. /\ next[m] = raised[m] + (0 - t)
        /\ \A i \in 1..Len(raised) : i # m => next[i] = raised[i]
    <3>1. next[m] = raised[m] - t /\ raised[m] \in Int /\ t \in Int
      BY <1>0, <1>2, <1>5, <1>6 DEF t
    <3>2. next[m] = raised[m] + (0 - t)
      BY <3>1
    <3>3. \A i \in 1..Len(raised) : i # m => next[i] = raised[i]
      BY <1>0
    <3> QED
      BY <3>2, <3>3
  <2>2. SumOf(next) = (t + t) + (0 - t)
    <3>1. 0 - t \in Int /\ m \in 1..Len(raised) /\ Len(next) = Len(raised)
      BY <1>0, <1>2, <1>6
    <3> QED
      BY <1>0, <1>8, <2>1, <3>1, SumChange
  <2>3. SumOf(next) = t
    BY <1>2, <2>2
  <2> QED
    BY <1>0, <1>2, <1>5, <2>3 DEF t
<1>10. CASE t = 0
  <2>1. ASSUME NEW i \in 1..Len(ns)
        PROVE  /\ Zeros(ns)[i] \in 0..w[i]
               /\ Balanced(next[i], w[i], 0, Zeros(ns)[i], t)
    <3>1. w[i] = 0
      <4>1. i \in 1..Len(w) /\ \A j \in 1..Len(w) : w[j] >= 0
        BY <1>2
      <4>2. w[i] <= SumOf(w)
        BY <1>2, <4>1, SummandAtMost
      <4> QED
        BY <1>2, <1>10, <4>2
    <3>2. rd[i] = 0
      BY <1>3, <3>1
    <3>3. cw[i] = 0
      <4>1. Balanced(cw[i], 0, k, 0, 0)
        BY <1>3, <1>10, <3>1, <3>2
      <4>2. \A x, y \in Int : Balanced(x, 0, y, 0, 0) => x = 0
        BY DEF Balanced
      <4> QED
        BY <1>4, <1>7, <4>1, <4>2
    <3>4. next[i] = 0
      BY <1>9, <1>10, <3>1, <3>3
    <3>5. Zeros(ns)[i] = 0
      BY <1>1, ZerosAre
    <3> QED
      BY <1>10, <3>1, <3>4, <3>5 DEF Balanced
  <2> QED
    BY <1>0, <1>1, <1>2, <1>6, <1>9, <1>10, <2>1, ZerosAre DEF Round, RoundAfter, t, w, k
<1>11. CASE t # 0
  <2>1. t > 0 /\ k < t
    BY <1>7, <1>11 DEF Round, t, k
  <2>2. rd[m] < w[m]
    <3>1. rd[m] < ns[m].weight
      BY <1>0, <2>1, PicksDue DEF t
    <3> QED
      BY <1>2, <1>6, <3>1
  <2>3. SumOf(turn) = k + 1
    <3>1. m \in 1..Len(rd) /\ Len(turn) = Len(rd) /\ 1 \in Int
      BY <1>0, <1>1, <1>6
    <3>2. turn[m] = rd[m] + 1 /\ \A i \in 1..Len(rd) : i # m => turn[i] = rd[i]
      BY <1>0, <1>1, <1>6
    <3> QED
      BY <1>0, <1>1, <3>1, <3>2, SumChange DEF k
  <2>4. ASSUME NEW i \in 1..Len(ns)
        PROVE  turn[i] \in 0..w[i] /\ Balanced(next[i], w[i], k + 1, turn[i], t)
    <3>1. /\ cw[i] \in Int /\ w[i] \in Int /\ rd[i] \in Int /\ rd[i] \in 0..w[i]
          /\ w[i] \in Nat /\ t \in Int /\ k \in Int
          /\ Balanced(cw[i], w[i], k, rd[i], t)
      BY <1>2, <1>3, <1>4, <1>7
    <3>2. /\ Balanced(cw[i] + w[i], w[i], k + 1, rd[i], t)
          /\ Balanced((cw[i] + w[i]) - t, w[i], k + 1, rd[i] + 1, t)
      BY <3>1, Accounts
    <3>3. CASE i = m
      <4>1. turn[i] = rd[i] + 1 /\ next[i] = (cw[i] + w[i]) - t
        BY <1>0, <1>9, <3>3
      <4>2. rd[i] + 1 \in 0..w[i]
        BY <2>2, <3>1, <3>3
      <4> QED
        BY <3>2, <4>1, <4>2
    <3>4. CASE i # m
      <4>1. turn[i] = rd[i] /\ next[i] = cw[i] + w[i]
        BY <1>0, <1>9, <3>4
      <4> QED
        BY <3>1, <3>2, <4>1
    <3> QED
      BY <3>3, <3>4
  <2>5. CASE turn = w
    <3>1. k + 1 = t
      BY <1>2, <2>3, <2>5
    <3>2. ASSUME NEW i \in 1..Len(ns)
          PROVE  /\ Zeros(ns)[i] \in 0..w[i]
                 /\ Balanced(next[i], w[i], 0, Zeros(ns)[i], t)
      <4>1. next[i] = w[i] * ((k + 1) + 1) - w[i] * t /\ w[i] \in Nat
        BY <1>2, <2>4, <2>5 DEF Balanced
      <4>2. \A x, y \in Int : x * (y + 1) - x * y = x
        OBVIOUS
      <4>3. next[i] = w[i]
        <5>1. next[i] = w[i] * (t + 1) - w[i] * t /\ w[i] \in Int
          BY <3>1, <4>1
        <5> QED
          BY <1>2, <4>2, <5>1
      <4>4. Zeros(ns)[i] = 0
        BY <1>1, ZerosAre
      <4> QED
        BY <1>2, <4>1, <4>3, <4>4, Fresh
    <3> QED
      BY <1>0, <1>1, <1>2, <1>6, <1>9, <2>1, <2>5, <3>2, ZerosAre DEF Round, RoundAfter, t, w, k
  <2>6. CASE turn # w
    <3>1. \E i \in 1..Len(ns) : turn[i] # w[i]
      <4>1. turn = [i \in 1..Len(ns) |-> turn[i]] /\ w = [i \in 1..Len(ns) |-> w[i]]
        BY <1>0, <1>2, LenProperties
      <4> QED
        BY <2>6, <4>1
    <3>2. PICK i \in 1..Len(ns) : turn[i] < w[i]
      BY <1>2, <2>4, <3>1
    <3>3. \A j \in 1..Len(w) : turn[j] <= w[j]
      BY <1>2, <2>4
    <3>4. k + 1 < t
      BY <1>0, <1>2, <2>3, <3>2, <3>3, SumOrder
    <3> QED
      BY <1>0, <1>1, <1>2, <1>6, <1>9, <1>11, <2>3, <2>4, <2>6, <3>4 DEF Round, RoundAfter, t, w, k
  <2> QED
    BY <2>5, <2>6
<1> QED
  BY <1>10, <1>11
-----------------------------------------------------------------------------
(* Steps *)

\* What the weights and bounds are.
Proper == Weights \subseteq Nat /\ MaxNodes \in Nat /\ Duration \in Nat

\* A picker that has been used is in a round.
InRound ==
  /\ nodes \in Seq([node : Node, weight : Nat])
  /\ nodes # <<>> => Round(nodes, current, picked)

\* The nodes of a picker were listed when it was made, or later.
Listed ==
  /\ age \in Nat /\ unseen \in [Node -> Nat]
  /\ \A i \in DOMAIN nodes : unseen[nodes[i].node] <= age

Inv == InRound /\ Listed /\ Known

\* The lists callers come with are lists the balancer may keep.
LEMMA ListIs ==
  ASSUME Proper, NEW list \in Lists
  PROVE  /\ list \in Seq([node : Node, weight : Nat])
         /\ \A i \in DOMAIN list : list[i].node \in Node
<1> DEFINE Listing == [node : Node, weight : Weights]
           Weighted == [node : Node, weight : Nat]
<1>1. PICK n \in 0..MaxNodes : list \in [1..n -> Listing]
  BY DEF Lists
<1>2. n \in Nat
  BY DEF Proper
<1>3. Listing \subseteq Weighted /\ \A x \in Listing : x.node \in Node
  BY DEF Proper
<1> HIDE DEF Listing, Weighted
<1>4. list \in [1..n -> Weighted] /\ \A i \in 1..n : list[i].node \in Node
  BY <1>1, <1>3
<1>5. list \in Seq(Weighted)
  BY <1>2, <1>4
<1>6. DOMAIN list = 1..n
  BY <1>1
<1> QED
  BY <1>4, <1>5, <1>6 DEF Weighted

\* pick answers one of the nodes it is given and leaves a picker in a round.
LEMMA PickStep ==
  ASSUME NEW ns, NEW cw, NEW rd, Round(ns, cw, rd), Pick(ns, cw, rd)
  PROVE  /\ Round(ns, current', picked')
         /\ \E i \in DOMAIN ns : answer' = ns[i].node
<1> PICK raised : raised = [i \in DOMAIN ns |-> cw[i] + ns[i].weight]
  OBVIOUS
<1> PICK m : m = Heaviest(raised)
  OBVIOUS
<1> PICK t : t = Total(ns)
  OBVIOUS
<1> PICK next : next = [raised EXCEPT ![m] = raised[m] - t]
  OBVIOUS
<1> PICK turn : turn = [rd EXCEPT ![m] = rd[m] + 1]
  OBVIOUS
<1>1. /\ current' = next
      /\ picked' = RoundAfter(ns, turn)
      /\ answer' = ns[m].node
  BY DEF Pick, Cost, RoundAfter
<1>2. /\ ns \in Seq([node : Node, weight : Nat]) /\ Len(ns) # 0
      /\ cw \in Seq(Int) /\ Len(cw) = Len(ns)
      /\ rd \in Seq(Int) /\ Len(rd) = Len(ns)
  BY DEF Round
<1>3. /\ DOMAIN ns = 1..Len(ns) /\ Len(ns) \in Nat /\ t \in Int
      /\ \A i \in 1..Len(ns) : ns[i].weight \in Int
  <2>1. /\ DOMAIN ns = 1..Len(ns) /\ Len(ns) \in Nat /\ Total(ns) \in Int
        /\ \A i \in 1..Len(ns) : ns[i].weight \in Nat
    BY <1>2, ListWeights
  <2> QED
    BY <2>1
<1>4. DOMAIN rd = 1..Len(ns) /\ \A i \in 1..Len(ns) : cw[i] \in Int /\ rd[i] \in Int
  BY <1>2, LenProperties, ElementOfSeq
<1>5. /\ raised \in Seq(Int) /\ Len(raised) = Len(ns) /\ DOMAIN raised = 1..Len(ns)
      /\ \A i \in 1..Len(ns) : raised[i] = cw[i] + ns[i].weight /\ raised[i] \in Int
  <2>1. /\ DOMAIN raised = 1..Len(ns)
        /\ \A i \in 1..Len(ns) : raised[i] = cw[i] + ns[i].weight /\ raised[i] \in Int
    BY <1>3, <1>4
  <2>2. raised \in [1..Len(ns) -> Int]
    BY <1>3, <2>1
  <2>3. raised \in Seq(Int)
    BY <1>3, <2>2
  <2> QED
    BY <1>3, <2>1, <2>3, LenProperties
<1>6. m \in 1..Len(raised)
  BY <1>2, <1>5, HeaviestIsGreatest
<1>7. /\ next \in Seq(Int) /\ Len(next) = Len(ns)
      /\ \A i \in 1..Len(ns) : next[i] = IF i = m THEN raised[i] - t ELSE raised[i]
  <2>1. raised[m] - t \in Int
    BY <1>3, <1>5, <1>6
  <2>2. next \in Seq(Int) /\ Len(next) = Len(raised)
    BY <1>5, <1>6, <2>1, ExceptSeq
  <2>3. \A i \in 1..Len(ns) : next[i] = IF i = m THEN raised[i] - t ELSE raised[i]
    BY <1>5, <1>6
  <2> QED
    BY <1>5, <2>2, <2>3
<1>8. /\ turn \in Seq(Int) /\ Len(turn) = Len(ns)
      /\ \A i \in 1..Len(ns) : turn[i] = IF i = m THEN rd[i] + 1 ELSE rd[i]
  <2>1. rd[m] + 1 \in Int /\ m \in 1..Len(rd)
    BY <1>2, <1>4, <1>5, <1>6
  <2>2. turn \in Seq(Int) /\ Len(turn) = Len(rd)
    BY <1>2, <2>1, ExceptSeq
  <2>3. \A i \in 1..Len(ns) : turn[i] = IF i = m THEN rd[i] + 1 ELSE rd[i]
    BY <1>4
  <2> QED
    BY <1>2, <2>2, <2>3
<1>9. Round(ns, next, RoundAfter(ns, turn))
  <2>1. Raised(ns, cw, raised)
    BY <1>5 DEF Raised
  <2>2. Charged(ns, raised, m, next)
    BY <1>7 DEF Charged
  <2>3. Counted(ns, rd, m, turn)
    BY <1>8 DEF Counted
  <2> QED
    BY <2>1, <2>2, <2>3, RoundGoesOn
<1> QED
  BY <1>1, <1>3, <1>5, <1>6, <1>9

\* Balance keeps the invariant: it picks from the nodes it keeps, or from the list.
LEMMA BalanceStep ==
  ASSUME Proper, Inv, NEW list \in Lists, Balance(list)
  PROVE  Inv'
<1> DEFINE Weighted == [node : Node, weight : Nat]
<1> PICK seen : seen = [n \in Node |->
                         IF \E i \in DOMAIN list : list[i].node = n THEN 0 ELSE unseen[n]]
  OBVIOUS
<1>1. InRound /\ Listed
  BY DEF Inv
<1>2. list \in Seq(Weighted) /\ \A i \in DOMAIN list : list[i].node \in Node
  BY ListIs
<1>3. unseen' = seen
  BY DEF Balance
<1>4. /\ seen \in [Node -> Nat]
      /\ \A n \in Node : seen[n] <= unseen[n]
      /\ \A i \in DOMAIN list : seen[list[i].node] = 0
  <2>1. unseen \in [Node -> Nat] /\ \A i \in DOMAIN list : list[i].node \in Node
    BY <1>1, <1>2 DEF Listed
  <2>2. \A n \in Node :
          seen[n] = IF \E i \in DOMAIN list : list[i].node = n THEN 0 ELSE unseen[n]
    OBVIOUS
  <2>3. ASSUME NEW n \in Node PROVE seen[n] \in Nat /\ seen[n] <= unseen[n]
    <3>1. (seen[n] = 0 \/ seen[n] = unseen[n]) /\ unseen[n] \in Nat
      BY <2>1, <2>2
    <3> QED
      BY <3>1
  <2>4. seen \in [Node -> Nat]
    BY <2>3
  <2>5. \A i \in DOMAIN list : seen[list[i].node] = 0
    BY <2>1, <2>2
  <2> QED
    BY <2>3, <2>4, <2>5
<1>5. nodes \in Seq(Weighted) /\ \A i \in DOMAIN nodes : nodes[i].node \in Node
  <2>1. nodes \in Seq(Weighted) /\ \A x \in Weighted : x.node \in Node
    BY <1>1 DEF InRound
  <2> HIDE DEF Weighted
  <2> QED
    BY <2>1, LenProperties, ElementOfSeq
<1>6. CASE list = <<>>
  <2>1. answer' = None /\ UNCHANGED <<nodes, current, age, picked>>
    BY <1>6 DEF Balance
  <2>2. InRound'
    BY <1>1, <2>1 DEF InRound, Round
  <2>3. Listed'
    <3>1. ASSUME NEW i \in DOMAIN nodes PROVE seen[nodes[i].node] <= age
      <4>1. nodes[i].node \in Node /\ unseen[nodes[i].node] <= age
        BY <1>1, <1>5 DEF Listed
      <4>2. /\ seen[nodes[i].node] \in Nat /\ unseen[nodes[i].node] \in Nat /\ age \in Nat
            /\ seen[nodes[i].node] <= unseen[nodes[i].node]
        BY <1>1, <1>4, <4>1 DEF Listed
      <4> QED
        BY <4>1, <4>2
    <3> QED
      BY <1>1, <1>3, <1>4, <2>1, <3>1 DEF Listed
  <2> QED
    BY <2>1, <2>2, <2>3 DEF Inv, Known
<1>7. CASE list # <<>> /\ Stale(list)
  <2>1. nodes' = list /\ age' = 0 /\ Pick(list, WeightsOf(list), Zeros(list))
    BY <1>7 DEF Balance
  <2>2. Len(list) # 0
    BY <1>2, <1>7, EmptySeq
  <2>3. Round(list, WeightsOf(list), Zeros(list))
    BY <1>2, <2>2, RoundBegins
  <2>4. Round(list, current', picked') /\ \E i \in DOMAIN list : answer' = list[i].node
    BY <2>1, <2>3, PickStep
  <2>5. InRound'
    BY <1>2, <2>1, <2>4 DEF InRound, Round
  <2>6. Listed'
    BY <1>3, <1>4, <2>1 DEF Listed
  <2>7. Known'
    BY <1>3, <1>4, <2>4 DEF Known, Proper
  <2> QED
    BY <2>5, <2>6, <2>7 DEF Inv
<1>8. CASE list # <<>> /\ ~Stale(list)
  <2>1. UNCHANGED <<nodes, age>> /\ Pick(nodes, current, picked)
    BY <1>8 DEF Balance
  <2>2. age <= Duration /\ Len(list) = Len(nodes)
    BY <1>1, <1>8 DEF Stale, Listed, Proper
  <2>3. nodes # <<>>
    BY <1>2, <1>8, <2>2, EmptySeq
  <2>4. Round(nodes, current', picked') /\ \E i \in DOMAIN nodes : answer' = nodes[i].node
    BY <1>1, <2>1, <2>3, PickStep DEF InRound
  <2>5. InRound'
    BY <1>1, <2>1, <2>4 DEF InRound, Round
  <2>6. ASSUME NEW i \in DOMAIN nodes
        PROVE  seen[nodes[i].node] <= age /\ seen[nodes[i].node] <= Duration
    <3>1. nodes[i].node \in Node /\ unseen[nodes[i].node] <= age
      BY <1>1, <1>5 DEF Listed
    <3>2. seen[nodes[i].node] \in Nat /\ unseen[nodes[i].node] \in Nat
      BY <1>1, <1>4, <3>1 DEF Listed
    <3>3. seen[nodes[i].node] <= unseen[nodes[i].node]
      BY <1>4, <3>1
    <3>4. age \in Nat /\ Duration \in Nat
      BY <1>1 DEF Listed, Proper
    <3> QED
      BY <2>2, <3>1, <3>2, <3>3, <3>4
  <2>7. Listed'
    BY <1>1, <1>3, <1>4, <2>1, <2>6 DEF Listed
  <2>8. Known'
    BY <1>3, <2>4, <2>6 DEF Known
  <2> QED
    BY <2>5, <2>7, <2>8 DEF Inv
<1> QED
  BY <1>6, <1>7, <1>8

\* Time passes for the picker and for the nodes callers no longer list alike.
LEMMA TickStep ==
  ASSUME Proper, Inv, Tick
  PROVE  Inv'
<1>1. InRound /\ Listed
  BY DEF Inv
<1>2. /\ age' = Later(age) /\ unseen' = [n \in Node |-> Later(unseen[n])]
      /\ answer' = None /\ UNCHANGED <<nodes, current, picked>>
  BY DEF Tick
<1>3. \A a, b \in Nat : Later(a) \in Nat /\ (a <= b => Later(a) <= Later(b))
  BY DEF Later, Proper
<1>4. \A i \in DOMAIN nodes : nodes[i].node \in Node
  <2> DEFINE Weighted == [node : Node, weight : Nat]
  <2>1. nodes \in Seq(Weighted) /\ \A x \in Weighted : x.node \in Node
    BY <1>1 DEF InRound
  <2> HIDE DEF Weighted
  <2> QED
    BY <2>1, LenProperties, ElementOfSeq
<1>5. Listed'
  <2>1. age' \in Nat /\ unseen' \in [Node -> Nat]
    BY <1>1, <1>2, <1>3 DEF Listed
  <2>2. ASSUME NEW i \in DOMAIN nodes PROVE unseen'[nodes[i].node] <= age'
    BY <1>1, <1>2, <1>3, <1>4 DEF Listed
  <2> QED
    BY <1>2, <2>1, <2>2 DEF Listed
<1>6. InRound'
  BY <1>1, <1>2 DEF InRound, Round
<1> QED
  BY <1>2, <1>5, <1>6 DEF Inv, Known

LEMMA InitInv == Proper /\ Init => Inv
<1> SUFFICES ASSUME Proper, Init PROVE Inv
  OBVIOUS
<1> DEFINE Weighted == [node : Node, weight : Nat]
<1>1. nodes = <<>> /\ age = 0 /\ unseen = [n \in Node |-> Duration + 1] /\ answer = None
  BY DEF Init
<1>2. <<>> \in Seq(Weighted) /\ DOMAIN <<>> = {}
  OBVIOUS
<1>3. unseen \in [Node -> Nat]
  BY <1>1 DEF Proper
<1> QED
  BY <1>1, <1>2, <1>3 DEF Inv, InRound, Listed, Known

\* The invariant holds for lists of any length and any weights that are not
\* negative.
THEOREM WeightedInvariant == ASSUME Proper PROVE Spec => []Inv
<1>1. Inv /\ [Next]_vars => Inv'
  <2> SUFFICES ASSUME Inv, [Next]_vars PROVE Inv'
    OBVIOUS
  <2>1. CASE Next
    BY <2>1, BalanceStep, TickStep DEF Next
  <2>2. CASE UNCHANGED vars
    BY <2>2 DEF vars, Inv, InRound, Round, Listed, Known
  <2> QED
    BY <2>1, <2>2
<1> QED
  BY <1>1, InitInv, PTL DEF Spec

\* In every round no node is picked more often than its weight says.
THEOREM SharesAreKept == ASSUME Proper PROVE Spec => []Share
<1>1. Inv => Share
  <2> SUFFICES ASSUME Inv, Total(nodes) > 0, NEW i \in DOMAIN nodes
               PROVE  picked[i] <= nodes[i].weight
    BY DEF Share
  <2>1. nodes \in Seq([node : Node, weight : Nat])
    BY DEF Inv, InRound
  <2>2. DOMAIN nodes = 1..Len(nodes)
    BY <2>1, ListWeights
  <2>3. nodes # <<>>
    BY DOMAIN <<>> = {}
  <2>4. picked[i] \in 0..nodes[i].weight /\ nodes[i].weight \in Nat
    BY <2>1, <2>2, <2>3, ListWeights DEF Inv, InRound, Round
  <2> QED
    BY <2>4
<1> QED
  BY <1>1, WeightedInvariant, PTL

\* A node that callers no longer list is answered no longer than a picker lives.
THEOREM NodesAreKnown == ASSUME Proper PROVE Spec => []Known
<1>1. Inv => Known
  BY DEF Inv
<1> QED
  BY <1>1, WeightedInvariant, PTL
=============================================================================
