--------------------------- MODULE ReadingProofs ---------------------------
(***************************************************************************)
(* Proofs about Reading, as Texts composes it, for every value of the      *)
(* constants.                                                              *)
(***************************************************************************)
EXTENDS Texts, FiniteSetTheorems, SequenceTheorems, WellFoundedInduction, TLAPS

-----------------------------------------------------------------------------
(* Numbers.                                                                *)

\* A set of natural numbers that is not empty has a least member.
LEMMA LeastOf ==
    ASSUME NEW S, S \subseteq Nat, S # {}
    PROVE  Min(S) \in S /\ \A y \in S : Min(S) <= y
<1> DEFINE R == OpToRel(<, Nat)
<1>1. IsWellFoundedOn(R, Nat)
  BY NatLessThanWellFounded
<1>2. \A x, y \in Nat : <<x, y>> \in R <=> x < y
  BY DEF OpToRel
<1> HIDE DEF R
<1>3. PICK x \in S : \A y \in S : ~(<<y, x>> \in R)
  BY <1>1, WFMin
<1>4. ASSUME NEW y \in S PROVE x <= y
  <2>1. x \in Nat /\ y \in Nat /\ ~(<<y, x>> \in R)
    BY <1>3
  <2>2. ~(y < x)
    BY <1>2, <2>1
  <2> QED
    BY <2>1, <2>2
<1>5. \E z \in S : \A y \in S : z <= y
  BY <1>4
<1> QED
  BY <1>5 DEF Min

\* A bounded one has a greatest.
LEMMA GreatestOf ==
    ASSUME NEW S, S \subseteq Nat, S # {}, NEW n \in Nat, \A x \in S : x <= n
    PROVE  Max(S) \in S /\ \A y \in S : Max(S) >= y
<1> DEFINE T == {m \in 0 .. n : n - m \in S}
<1>1. PICK x \in S : TRUE
  OBVIOUS
<1>2. n - x \in T
  <2>1. x \in Nat /\ x <= n
    OBVIOUS
  <2>2. n - x \in 0 .. n /\ n - (n - x) = x
    BY <2>1
  <2> QED
    BY <2>2
<1>3. T \subseteq Nat
  OBVIOUS
<1>4. \A m \in T : m \in 0 .. n /\ n - m \in S
  OBVIOUS
<1>5. \A y \in S : n - y \in T
  <2> TAKE y \in S
  <2>1. y \in Nat /\ y <= n
    OBVIOUS
  <2>2. n - y \in 0 .. n /\ n - (n - y) = y
    BY <2>1
  <2> QED
    BY <2>2
<1> HIDE DEF T
<1>6. Min(T) \in T /\ \A y \in T : Min(T) <= y
  BY <1>2, <1>3, LeastOf
<1>7. n - Min(T) \in S
  BY <1>4, <1>6
<1>8. \A y \in S : n - Min(T) >= y
  <2> TAKE y \in S
  <2>1. Min(T) <= n - y
    BY <1>5, <1>6
  <2>2. y \in Nat /\ Min(T) \in Nat
    BY <1>3, <1>6
  <2> QED
    BY <2>1, <2>2
<1>9. \E z \in S : \A y \in S : z >= y
  BY <1>7, <1>8
<1> QED
  BY <1>9 DEF Max

\* Induction up to a number, over a set.
LEMMA UpTo ==
    ASSUME NEW n \in Nat, NEW P, 0 \in P,
           \A i \in 0 .. n : i < n /\ i \in P => i + 1 \in P
    PROVE  \A i \in 0 .. n : i \in P
<1> SUFFICES ASSUME \E i \in 0 .. n : i \notin P PROVE FALSE
  OBVIOUS
<1> DEFINE S == {i \in 0 .. n : i \notin P}
           m == Min(S)
<1>1. S \subseteq Nat /\ S # {}
  OBVIOUS
<1>2. \A i \in S : i \in 0 .. n /\ i \notin P
  OBVIOUS
<1>3. \A i \in 0 .. n : i \notin S => i \in P
  OBVIOUS
<1> HIDE DEF S
<1>4. m \in S /\ \A y \in S : m <= y
  BY <1>1, LeastOf
<1>5. m \in 0 .. n /\ m \notin P
  BY <1>2, <1>4
<1>6. m # 0
  BY <1>5
<1> HIDE DEF m
<1>7. m - 1 \in 0 .. n /\ m - 1 < n /\ (m - 1) + 1 = m
  BY <1>5, <1>6
<1>8. m - 1 \notin S
  <2> SUFFICES ASSUME m - 1 \in S PROVE FALSE
    OBVIOUS
  <2>1. m <= m - 1
    BY <1>4
  <2> QED
    BY <1>5, <2>1
<1> QED
  BY <1>3, <1>5, <1>7, <1>8

\* The same, from every smaller number at once.
LEMMA UpToAll ==
    ASSUME NEW n \in Nat, NEW P,
           \A i \in 0 .. n : (\A j \in 0 .. i - 1 : j \in P) => i \in P
    PROVE  \A i \in 0 .. n : i \in P
<1> SUFFICES ASSUME \E i \in 0 .. n : i \notin P PROVE FALSE
  OBVIOUS
<1> DEFINE S == {i \in 0 .. n : i \notin P}
           m == Min(S)
<1>1. S \subseteq Nat /\ S # {}
  OBVIOUS
<1>2. \A i \in S : i \in 0 .. n /\ i \notin P
  OBVIOUS
<1>3. \A i \in 0 .. n : i \notin S => i \in P
  OBVIOUS
<1> HIDE DEF S
<1>4. m \in S /\ \A y \in S : m <= y
  BY <1>1, LeastOf
<1>5. m \in 0 .. n /\ m \notin P
  BY <1>2, <1>4
<1> HIDE DEF m
<1>6. ASSUME NEW j \in 0 .. m - 1 PROVE j \in P
  <2>1. j \in 0 .. n /\ ~(m <= j)
    BY <1>5
  <2> QED
    BY <1>3, <1>4, <2>1
<1> QED
  BY <1>5, <1>6

\* What a function defined by recursion on a number computes: there is one such
\* function, and it meets its equation.
Recurs(f, n, b, step) ==
    f = [i \in 0 .. n |-> IF i = 0 THEN b ELSE step[<<f[i - 1], i>>]]

LEMMA Recursion ==
    ASSUME NEW n \in Nat, NEW V, NEW b \in V, NEW step \in [V \X (1 .. n) -> V]
    PROVE  \E f \in [0 .. n -> V] : Recurs(f, n, b, step)
<1> DEFINE P == {m \in 0 .. n : \E f \in [0 .. m -> V] : Recurs(f, m, b, step)}
<1>1. 0 \in P
  <2> DEFINE f == [i \in 0 .. 0 |-> b]
  <2>1. f \in [0 .. 0 -> V]
    OBVIOUS
  <2>2. Recurs(f, 0, b, step)
    BY DEF Recurs
  <2> HIDE DEF f
  <2>3. 0 \in 0 .. n
    OBVIOUS
  <2> QED
    BY <2>1, <2>2, <2>3
<1>2. ASSUME NEW m \in 0 .. n, m < n, m \in P PROVE m + 1 \in P
  <2>1. PICK f \in [0 .. m -> V] : Recurs(f, m, b, step)
    BY <1>2
  <2> DEFINE g == [i \in 0 .. m + 1 |->
                      IF i = m + 1 THEN step[<<f[m], m + 1>>] ELSE f[i]]
  <2>2. m + 1 \in 1 .. n /\ m + 1 \in 0 .. n /\ m \in 0 .. m
    BY <1>2
  <2>3. f[m] \in V
    BY <2>2
  <2>4. step[<<f[m], m + 1>>] \in V
    BY <2>2, <2>3
  <2>5. g \in [0 .. m + 1 -> V]
    BY <2>4
  <2>6. ASSUME NEW i \in 0 .. m + 1
        PROVE  g[i] = IF i = 0 THEN b ELSE step[<<g[i - 1], i>>]
    <3>1. CASE i = m + 1
      <4>1. i # 0 /\ i - 1 = m /\ m \in 0 .. m + 1 /\ m # m + 1
        BY <3>1
      <4>2. g[m] = f[m]
        BY <4>1
      <4> QED
        BY <3>1, <4>1, <4>2
    <3>2. CASE i # m + 1
      <4>1. i \in 0 .. m
        BY <3>2
      <4>2. g[i] = f[i]
        BY <3>2
      <4>3. f[i] = IF i = 0 THEN b ELSE step[<<f[i - 1], i>>]
        BY <2>1, <4>1 DEF Recurs
      <4>4. i # 0 => g[i - 1] = f[i - 1]
        BY <4>1
      <4> QED
        BY <4>2, <4>3, <4>4
    <3> QED
      BY <3>1, <3>2
  <2>7. g = [i \in 0 .. m + 1 |-> g[i]]
    OBVIOUS
  <2> HIDE DEF g
  <2>8. Recurs(g, m + 1, b, step)
    BY <2>6, <2>7 DEF Recurs
  <2> QED
    BY <2>2, <2>5, <2>8
<1> HIDE DEF P
<1>3. n \in P
  <2>1. \A i \in 0 .. n : i < n /\ i \in P => i + 1 \in P
    BY <1>2
  <2>2. \A i \in 0 .. n : i \in P
    BY <1>1, <2>1, UpTo
  <2> QED
    BY <2>2
<1> QED
  BY <1>3 DEF P

-----------------------------------------------------------------------------
(* Numbers in order.                                                       *)

\* A function that takes no value twice, into as many values as it has
\* arguments, takes each of them.
LEMMA Onto ==
    ASSUME NEW S, IsFiniteSet(S), NEW f \in [S -> 1 .. Cardinality(S)],
           \A x, y \in S : f[x] = f[y] => x = y
    PROVE  \A n \in 1 .. Cardinality(S) : \E x \in S : f[x] = n
<1> DEFINE T == 1 .. Cardinality(S)
<1>1. Cardinality(S) \in Nat
  BY FS_CardinalityType
<1>2. IsFiniteSet(T) /\ Cardinality(T) = Cardinality(S)
  BY <1>1, FS_Interval
<1>3. f \in Injection(S, T)
  BY DEF Injection, IsInjective
<1>4. f \in Surjection(S, T)
  BY <1>2, <1>3, FS_Injection
<1> QED
  BY <1>4 DEF Surjection

\* A part that leaves something out is smaller.
LEMMA Nested ==
    ASSUME NEW S, NEW T, IsFiniteSet(T), S \subseteq T, NEW x \in T, x \notin S
    PROVE  IsFiniteSet(S) /\ Cardinality(S) < Cardinality(T)
<1>1. IsFiniteSet(S) /\ Cardinality(S) <= Cardinality(T)
      /\ (Cardinality(T) = Cardinality(S) => T = S)
  BY FS_Subset
<1>2. Cardinality(S) \in Nat /\ Cardinality(T) \in Nat
  BY <1>1, FS_CardinalityType
<1> QED
  BY <1>1, <1>2

\* The n numbers of S in ascending order.
Ascends(s, S, n) ==
    /\ n \in Nat /\ s \in [1 .. n -> S]
    /\ \A x \in S : \E i \in 1 .. n : s[i] = x
    /\ \A i, j \in 1 .. n : i < j => s[i] < s[j]

LEMMA AscendsFinite ==
    ASSUME NEW S, S \subseteq Int, NEW s, NEW n, Ascends(s, S, n)
    PROVE  IsFiniteSet(S) /\ Cardinality(S) = n
<1> DEFINE T == 1 .. n
<1>1. n \in Nat /\ s \in [T -> S]
  BY DEF Ascends
<1>2. \A x \in S : \E i \in T : s[i] = x
  BY DEF Ascends
<1>3. \A i, j \in T : i < j => s[i] < s[j]
  BY DEF Ascends
<1>4. \A i, j \in T : s[i] = s[j] => i = j
  <2> SUFFICES ASSUME NEW i \in T, NEW j \in T, s[i] = s[j], i # j PROVE FALSE
    OBVIOUS
  <2>1. i < j \/ j < i
    BY <1>1
  <2>2. s[i] \in Int /\ s[j] \in Int
    BY <1>1
  <2>3. i < j => s[i] < s[j]
    BY <1>3
  <2>4. j < i => s[j] < s[i]
    BY <1>3
  <2> QED
    BY <2>1, <2>2, <2>3, <2>4
<1>5. IsFiniteSet(T) /\ Cardinality(T) = n
  BY <1>1, FS_Interval
<1> HIDE DEF T
<1>6. s \in Injection(T, S)
  BY <1>1, <1>4 DEF Injection, IsInjective
<1>7. s \in Surjection(T, S)
  BY <1>1, <1>2 DEF Surjection
<1>8. s \in Bijection(T, S)
  BY <1>6, <1>7 DEF Bijection
<1>9. ExistsBijection(T, S)
  BY <1>8 DEF ExistsBijection
<1> QED
  BY <1>5, <1>9, FS_Bijection

\* There is one ascending order.
LEMMA AscendsOnce ==
    ASSUME NEW S, S \subseteq Int, NEW s, NEW t, NEW m, NEW n,
           Ascends(s, S, m), Ascends(t, S, n)
    PROVE  m = n /\ s = t
<1>1. m = n
  <2>1. Cardinality(S) = m
    BY AscendsFinite
  <2>2. Cardinality(S) = n
    BY AscendsFinite
  <2> QED
    BY <2>1, <2>2
<1>2. n \in Nat /\ s \in [1 .. n -> S] /\ t \in [1 .. n -> S]
  BY <1>1 DEF Ascends
<1>3. /\ \A x \in S : (\E i \in 1 .. n : s[i] = x) /\ (\E i \in 1 .. n : t[i] = x)
      /\ \A i, j \in 1 .. n : i < j => s[i] < s[j] /\ t[i] < t[j]
  BY <1>1 DEF Ascends
<1> DEFINE P == {i \in 0 .. n : i = 0 \/ s[i] = t[i]}
<1>4. ASSUME NEW i \in 0 .. n, \A j \in 0 .. i - 1 : j \in P PROVE i \in P
  <2>1. CASE i = 0
    BY <2>1
  <2>2. CASE i # 0
    <3>1. i \in 1 .. n /\ s[i] \in S /\ t[i] \in S
      BY <1>2, <2>2
    <3>2. PICK k \in 1 .. n : s[k] = t[i]
      BY <1>3, <3>1
    <3>3. PICK l \in 1 .. n : t[l] = s[i]
      BY <1>3, <3>1
    <3>4. \A j \in 1 .. n : j < i => s[j] = t[j]
      <4> TAKE j \in 1 .. n
      <4> SUFFICES ASSUME j < i PROVE s[j] = t[j]
        OBVIOUS
      <4>1. j \in 0 .. i - 1 /\ j # 0
        BY <3>1
      <4>2. j \in P
        BY <1>4, <4>1
      <4> QED
        BY <4>1, <4>2
    <3> HIDE DEF P
    <3>5. s[i] \in Int /\ t[i] \in Int
      BY <3>1
    <3>6. ~(k < i)
      <4> SUFFICES ASSUME k < i PROVE FALSE
        OBVIOUS
      <4>1. t[k] = t[i] /\ t[k] < t[i]
        BY <1>3, <3>1, <3>2, <3>4
      <4> QED
        BY <3>5, <4>1
    <3>7. ~(l < i)
      <4> SUFFICES ASSUME l < i PROVE FALSE
        OBVIOUS
      <4>1. s[l] = s[i] /\ s[l] < s[i]
        BY <1>3, <3>1, <3>3, <3>4
      <4> QED
        BY <3>5, <4>1
    <3>8. t[i] >= s[i]
      <4>1. k = i \/ i < k
        BY <3>1, <3>2, <3>6
      <4>2. i < k => s[i] < s[k]
        BY <1>3, <3>1
      <4> QED
        BY <3>2, <3>5, <4>1, <4>2
    <3>9. s[i] >= t[i]
      <4>1. l = i \/ i < l
        BY <3>1, <3>3, <3>7
      <4>2. i < l => t[i] < t[l]
        BY <1>3, <3>1
      <4> QED
        BY <3>3, <3>5, <4>1, <4>2
    <3> QED
      BY <3>1, <3>5, <3>8, <3>9 DEF P
  <2> QED
    BY <2>1, <2>2
<1> HIDE DEF P
<1>5. \A i \in 0 .. n : i \in P
  BY <1>2, <1>4, UpToAll
<1>6. \A i \in 1 .. n : s[i] = t[i]
  <2> TAKE i \in 1 .. n
  <2>1. i \in 0 .. n /\ i # 0
    BY <1>2
  <2> QED
    BY <1>5, <2>1 DEF P
<1> QED
  BY <1>1, <1>2, <1>6

\* Sorted is that order.
LEMMA SortedAscends ==
    ASSUME NEW S, S \subseteq Int, IsFiniteSet(S)
    PROVE  Ascends(Sorted(S), S, Cardinality(S))
<1> DEFINE n == Cardinality(S)
           below(x) == {y \in S : y < x}
           f == [x \in S |-> Cardinality(below(x)) + 1]
<1>1. n \in Nat
  BY FS_CardinalityType
<1>2. \A x \in S : /\ IsFiniteSet(below(x)) /\ Cardinality(below(x)) \in Nat
                   /\ Cardinality(below(x)) < n
  <2> TAKE x \in S
  <2>1. x \notin below(x) /\ below(x) \subseteq S
    OBVIOUS
  <2> HIDE DEF below
  <2>2. IsFiniteSet(below(x)) /\ Cardinality(below(x)) < n
    BY <2>1, Nested
  <2> QED
    BY <2>2, FS_CardinalityType
<1>3. \A x, y \in S : x < y => Cardinality(below(x)) < Cardinality(below(y))
  <2> SUFFICES ASSUME NEW x \in S, NEW y \in S, x < y
               PROVE  Cardinality(below(x)) < Cardinality(below(y))
    OBVIOUS
  <2>1. below(x) \subseteq below(y) /\ x \in below(y) /\ x \notin below(x)
    <3>1. \A z \in S : z \in Int
      OBVIOUS
    <3>2. ~(x < x) /\ \A z \in S : z < x => z < y
      BY <3>1
    <3> QED
      BY <3>2
  <2> HIDE DEF below
  <2> QED
    BY <1>2, <2>1, Nested
<1>4. f \in [S -> 1 .. n]
  <2> SUFFICES ASSUME NEW x \in S PROVE Cardinality(below(x)) + 1 \in 1 .. n
    OBVIOUS
  <2> HIDE DEF below
  <2> QED
    BY <1>1, <1>2
<1>5. \A x \in S : f[x] = Cardinality(below(x)) + 1
  OBVIOUS
<1>6. Sorted(S) = [i \in 1 .. n |-> CHOOSE x \in S : Cardinality(below(x)) = i - 1]
  BY DEF Sorted
<1> HIDE DEF below, f
<1>7. \A x, y \in S : x < y => f[x] < f[y]
  BY <1>2, <1>3, <1>5
<1>8. \A x, y \in S : f[x] = f[y] => x = y
  <2> SUFFICES ASSUME NEW x \in S, NEW y \in S, f[x] = f[y], x # y PROVE FALSE
    OBVIOUS
  <2>1. x < y \/ y < x
    OBVIOUS
  <2>2. f[x] \in Int /\ f[y] \in Int
    BY <1>4
  <2> QED
    BY <1>7, <2>1, <2>2
<1>9. \A i \in 1 .. n : \E x \in S : f[x] = i
  BY <1>4, <1>8, Onto
<1>10. \A i \in 1 .. n : \E x \in S : Cardinality(below(x)) = i - 1
  <2> TAKE i \in 1 .. n
  <2>1. PICK x \in S : f[x] = i
    BY <1>9
  <2>2. Cardinality(below(x)) = i - 1
    BY <1>2, <1>5, <2>1
  <2> QED
    BY <2>2
<1>11. \A i \in 1 .. n : /\ Sorted(S)[i] \in S
                         /\ Cardinality(below(Sorted(S)[i])) = i - 1
  BY <1>6, <1>10
<1>12. \A i \in 1 .. n : Sorted(S)[i] \in S /\ f[Sorted(S)[i]] = i
  <2> TAKE i \in 1 .. n
  <2>1. Sorted(S)[i] \in S /\ Cardinality(below(Sorted(S)[i])) = i - 1
    BY <1>11
  <2>2. f[Sorted(S)[i]] = (i - 1) + 1
    BY <1>5, <2>1
  <2> QED
    BY <2>1, <2>2
<1>13. Sorted(S) \in [1 .. n -> S]
  BY <1>6, <1>12
<1>14. \A x \in S : \E i \in 1 .. n : Sorted(S)[i] = x
  <2> TAKE x \in S
  <2>1. f[x] \in 1 .. n
    BY <1>4
  <2>2. Sorted(S)[f[x]] \in S /\ f[Sorted(S)[f[x]]] = f[x]
    BY <1>12, <2>1
  <2>3. Sorted(S)[f[x]] = x
    BY <1>8, <2>2
  <2> QED
    BY <2>1, <2>3
<1>15. ASSUME NEW i \in 1 .. n, NEW j \in 1 .. n, i < j
       PROVE  Sorted(S)[i] < Sorted(S)[j]
  <2> DEFINE x == Sorted(S)[i]
             y == Sorted(S)[j]
  <2>1. x \in S /\ y \in S /\ f[x] = i /\ f[y] = j
    BY <1>12
  <2> HIDE DEF x, y
  <2>2. x # y /\ ~(y < x)
    <3>1. y < x => f[y] < f[x]
      BY <1>7, <2>1
    <3> QED
      BY <1>15, <2>1, <3>1
  <2>3. x < y
    BY <2>1, <2>2
  <2> QED
    BY <2>3 DEF x, y
<1> QED
  BY <1>1, <1>13, <1>14, <1>15 DEF Ascends

\* So Sorted is whatever ascends through the set.
LEMMA SortedIs ==
    ASSUME NEW S, S \subseteq Int, NEW s, NEW n, Ascends(s, S, n)
    PROVE  Sorted(S) = s /\ Cardinality(S) = n
<1>1. IsFiniteSet(S) /\ Cardinality(S) = n
  BY AscendsFinite
<1>2. Ascends(Sorted(S), S, n)
  BY <1>1, SortedAscends
<1> QED
  BY <1>1, <1>2, AscendsOnce

-----------------------------------------------------------------------------
(* Texts.                                                                  *)

\* A function on the first n numbers is a sequence of length n.
LEMMA FunctionSeq ==
    ASSUME NEW S, NEW n \in Nat, NEW f \in [1 .. n -> S]
    PROVE  f \in Seq(S) /\ Len(f) = n /\ DOMAIN f = 1 .. n
<1>1. f \in Seq(S)
  BY SeqDef
<1>2. Len(f) \in Nat /\ DOMAIN f = 1 .. Len(f) /\ DOMAIN f = 1 .. n
  BY <1>1, LenProperties
<1>3. Len(f) = n
  <2>1. \A m, k \in Nat : 1 .. m = 1 .. k => m <= k
    <3> SUFFICES ASSUME NEW m \in Nat, NEW k \in Nat, 1 .. m = 1 .. k PROVE m <= k
      OBVIOUS
    <3>1. m = 0 \/ m \in 1 .. m
      OBVIOUS
    <3>2. m = 0 \/ m \in 1 .. k
      BY <3>1
    <3> QED
      BY <3>2
  <2> QED
    BY <1>2, <2>1
<1> QED
  BY <1>1, <1>2, <1>3

LEMMA TextFacts ==
    ASSUME NEW t \in AnyText
    PROVE  /\ Len(t) \in Nat /\ DOMAIN t = 1 .. Len(t)
           /\ \A i \in 1 .. Len(t) : t[i] \in Character
BY LenProperties, ElementOfSeq DEF AnyText

LEMMA SameText ==
    ASSUME NEW s \in AnyText, NEW t \in AnyText, Len(s) = Len(t),
           \A k \in 0 .. Len(s) - 1 : s[k + 1] = t[k + 1]
    PROVE  s = t
<1>1. Len(s) \in Nat
  BY TextFacts
<1>2. \A i \in 1 .. Len(s) : s[i] = t[i]
  <2> TAKE i \in 1 .. Len(s)
  <2>1. i - 1 \in 0 .. Len(s) - 1 /\ (i - 1) + 1 = i
    BY <1>1
  <2>2. s[(i - 1) + 1] = t[(i - 1) + 1]
    BY <2>1
  <2> QED
    BY <2>1, <2>2
<1> QED
  BY <1>2, SeqEqual DEF AnyText

LEMMA CutFacts ==
    ASSUME NEW t \in AnyText, NEW a \in Nat, NEW b \in Nat, a <= b, b <= Len(t)
    PROVE  /\ Cut(t, a, b) \in AnyText /\ Len(Cut(t, a, b)) = b - a
           /\ \A k \in 0 .. b - a - 1 : Cut(t, a, b)[k + 1] = t[a + k + 1]
<1>1. Len(t) \in Nat /\ \A i \in 1 .. Len(t) : t[i] \in Character
  BY TextFacts
<1> DEFINE m == a + 1
<1>2. m \in Int /\ b \in Int /\ \A i \in m .. b : t[i] \in Character
  BY <1>1
<1>3. /\ SubSeq(t, m, b) \in Seq(Character)
      /\ Len(SubSeq(t, m, b)) = IF m <= b THEN b - m + 1 ELSE 0
      /\ \A i \in 1 .. b - m + 1 : SubSeq(t, m, b)[i] = t[m + i - 1]
  <2> HIDE DEF m
  <2> QED
    BY <1>2, SubSeqProperties
<1>4. (IF m <= b THEN b - m + 1 ELSE 0) = b - a
  OBVIOUS
<1>5. ASSUME NEW k \in 0 .. b - a - 1
      PROVE  SubSeq(t, m, b)[k + 1] = t[a + k + 1]
  <2>1. k + 1 \in 1 .. b - m + 1 /\ m + (k + 1) - 1 = a + k + 1
    OBVIOUS
  <2> HIDE DEF m
  <2>2. SubSeq(t, m, b)[k + 1] = t[m + (k + 1) - 1]
    BY <1>3, <2>1
  <2> QED
    BY <2>1, <2>2
<1> QED
  BY <1>3, <1>4, <1>5 DEF Cut, AnyText

LEMMA JoinFacts ==
    ASSUME NEW s \in AnyText, NEW t \in AnyText
    PROVE  /\ s \o t \in AnyText /\ Len(s \o t) = Len(s) + Len(t)
           /\ \A k \in 0 .. Len(s) - 1 : (s \o t)[k + 1] = s[k + 1]
           /\ \A k \in 0 .. Len(t) - 1 : (s \o t)[Len(s) + k + 1] = t[k + 1]
<1>1. Len(s) \in Nat /\ Len(t) \in Nat
  BY TextFacts
<1>2. /\ s \o t \in AnyText /\ Len(s \o t) = Len(s) + Len(t)
      /\ \A i \in 1 .. Len(s) + Len(t) :
            (s \o t)[i] = IF i <= Len(s) THEN s[i] ELSE t[i - Len(s)]
  BY ConcatProperties DEF AnyText
<1> DEFINE m == Len(s)
           n == Len(t)
           u == s \o t
<1> HIDE DEF m, n, u
<1>3. ASSUME NEW k \in 0 .. m - 1 PROVE u[k + 1] = s[k + 1]
  <2>1. k + 1 \in 1 .. m + n /\ k + 1 <= m
    BY <1>1 DEF m, n
  <2> QED
    BY <1>2, <2>1 DEF m, n, u
<1>4. ASSUME NEW k \in 0 .. n - 1 PROVE u[m + k + 1] = t[k + 1]
  <2>1. m + k + 1 \in 1 .. m + n /\ ~(m + k + 1 <= m) /\ m + k + 1 - m = k + 1
    BY <1>1 DEF m, n
  <2>2. u[m + k + 1] = t[m + k + 1 - m]
    BY <1>2, <2>1 DEF m, n, u
  <2> QED
    BY <2>1, <2>2
<1> QED
  BY <1>2, <1>3, <1>4 DEF m, n, u

LEMMA LettersOf ==
    ASSUME NEW t \in AnyText
    PROVE  /\ Len(t) \in Nat
           /\ \A k \in Int : k \in Letters(t) <=>
                 0 <= k /\ k < Len(t) /\ t[k + 1] \notin Blank
           /\ Letters(t) \subseteq Nat /\ Letters(t) \subseteq Int
           /\ IsFiniteSet(Letters(t))
<1>1. Len(t) \in Nat
  BY TextFacts
<1>2. \A k \in Int : k \in Letters(t) <=>
         0 <= k /\ k < Len(t) /\ t[k + 1] \notin Blank
  BY <1>1 DEF Letters, Offsets
<1>3. Letters(t) \subseteq Nat
  BY <1>1 DEF Letters, Offsets
<1>4. Letters(t) \in SUBSET Offsets(t)
  BY DEF Letters
<1>5. IsFiniteSet(Offsets(t))
  <2>1. 0 \in Int /\ Len(t) - 1 \in Int
    BY <1>1
  <2> QED
    BY <2>1, FS_Interval DEF Offsets
<1>6. IsFiniteSet(Letters(t))
  BY <1>4, <1>5, FS_Subset
<1> QED
  BY <1>1, <1>2, <1>3, <1>6

-----------------------------------------------------------------------------
(* Words.                                                                  *)

\* The letters from a up to b are a word: there is no letter on either side.
IsWord(t, a, b) ==
    /\ a \in Nat /\ b \in Nat /\ a < b /\ b <= Len(t)
    /\ a - 1 \notin Letters(t) /\ b \notin Letters(t)
    /\ \A k \in a .. b - 1 : k \in Letters(t)

\* Where the word around a letter begins and ends.
WordFrom(t, k) == Min({m \in 0 .. k : \A l \in m .. k : l \in Letters(t)})
WordTo(t, k) == Min({m \in k + 1 .. Len(t) : m \notin Letters(t)})

LEMMA WordAround ==
    ASSUME NEW t \in AnyText, NEW k \in Letters(t)
    PROVE  /\ IsWord(t, WordFrom(t, k), WordTo(t, k))
           /\ WordFrom(t, k) <= k /\ k < WordTo(t, k)
<1> DEFINE n == Len(t)
           ls == Letters(t)
           A == {m \in 0 .. k : \A l \in m .. k : l \in ls}
           B == {m \in k + 1 .. n : m \notin ls}
           a == Min(A)
           b == Min(B)
<1>1. /\ n \in Nat /\ ls \subseteq Nat
      /\ \A x \in Int : x \in ls => 0 <= x /\ x < n
  BY LettersOf
<1>2. k \in Nat /\ k < n
  BY <1>1
<1> HIDE DEF ls, n
<1>3. k \in A /\ A \subseteq Nat
  <2>1. \A l \in k .. k : l = k
    BY <1>2
  <2> QED
    BY <1>2, <2>1 DEF ls
<1>4. n \in B /\ B \subseteq Nat
  BY <1>1, <1>2
<1>5. \A m \in A : m \in 0 .. k /\ \A l \in m .. k : l \in ls
  OBVIOUS
<1>6. \A m \in B : m \in k + 1 .. n /\ m \notin ls
  OBVIOUS
<1>7. \A m \in 0 .. k : (\A l \in m .. k : l \in ls) => m \in A
  OBVIOUS
<1>8. \A m \in k + 1 .. n : m \notin ls => m \in B
  OBVIOUS
<1> HIDE DEF A, B
<1>9. a \in A /\ \A y \in A : a <= y
  BY <1>3, LeastOf
<1>10. b \in B /\ \A y \in B : b <= y
  BY <1>4, LeastOf
<1>11. WordFrom(t, k) = a /\ WordTo(t, k) = b
  BY DEF WordFrom, WordTo, A, B, n, ls
<1> HIDE DEF a, b
<1>12. a \in Nat /\ a <= k /\ b \in Nat /\ k < b /\ b <= n
  BY <1>2, <1>5, <1>6, <1>9, <1>10, <1>1
<1>13. b \notin ls
  BY <1>6, <1>10
<1>14. a - 1 \notin ls
  <2> SUFFICES ASSUME a - 1 \in ls PROVE FALSE
    OBVIOUS
  <2>1. a - 1 \in 0 .. k
    BY <1>1, <1>2, <1>12
  <2>2. \A l \in a - 1 .. k : l \in ls
    <3> TAKE l \in a - 1 .. k
    <3>1. l = a - 1 \/ l \in a .. k
      BY <1>12
    <3> QED
      BY <1>5, <1>9, <3>1
  <2>3. a <= a - 1
    BY <1>7, <1>9, <2>1, <2>2
  <2> QED
    BY <1>12, <2>3
<1>15. \A x \in a .. b - 1 : x \in ls
  <2> TAKE x \in a .. b - 1
  <2>1. CASE x <= k
    <3>1. x \in a .. k
      BY <1>2, <1>12, <2>1
    <3> QED
      BY <1>5, <1>9, <3>1
  <2>2. CASE k < x
    <3>1. x \in k + 1 .. n /\ ~(b <= x)
      BY <1>1, <1>2, <1>12, <2>2
    <3> QED
      BY <1>8, <1>10, <3>1
  <2> QED
    BY <1>2, <1>12, <2>1, <2>2
<1>16. IsWord(t, a, b)
  <2>1. a \in Nat /\ b \in Nat /\ a < b /\ b <= Len(t)
    BY <1>2, <1>12 DEF n
  <2>2. a - 1 \notin Letters(t) /\ b \notin Letters(t)
    BY <1>13, <1>14 DEF ls
  <2>3. \A x \in a .. b - 1 : x \in Letters(t)
    BY <1>15 DEF ls
  <2> QED
    BY <2>1, <2>2, <2>3 DEF IsWord
<1> QED
  BY <1>11, <1>12, <1>16

\* Two words are apart.
LEMMA WordsApart ==
    ASSUME NEW t, NEW a, NEW b, NEW c, NEW d, IsWord(t, a, b), IsWord(t, c, d),
           a < d
    PROVE  (a = c /\ b = d) \/ b < c
<1>1. a \in Nat /\ b \in Nat /\ c \in Nat /\ d \in Nat /\ a < b /\ c < d
  BY DEF IsWord
<1>2. /\ a - 1 \notin Letters(t) /\ b \notin Letters(t)
      /\ c - 1 \notin Letters(t) /\ d \notin Letters(t)
      /\ \A k \in a .. b - 1 : k \in Letters(t)
      /\ \A k \in c .. d - 1 : k \in Letters(t)
  BY DEF IsWord
<1> SUFFICES ASSUME ~(b < c) PROVE a = c /\ b = d
  OBVIOUS
<1>3. ~(a - 1 \in c .. d - 1) /\ ~(c - 1 \in a .. b - 1)
  BY <1>2
<1>4. a = c
  BY <1>1, <1>3
<1>5. ~(b \in c .. d - 1) /\ ~(d \in a .. b - 1)
  BY <1>2
<1> QED
  BY <1>1, <1>4, <1>5

\* A list of all the words of a text, in order.
ListsWords(ws, t) ==
    /\ Len(ws) \in Nat /\ DOMAIN ws = 1 .. Len(ws) /\ ws \in Seq(Nat \X Nat)
    /\ \A i \in 1 .. Len(ws) : IsWord(t, ws[i][1], ws[i][2])
    /\ \A a, b : IsWord(t, a, b) =>
          \E i \in 1 .. Len(ws) : ws[i][1] = a /\ ws[i][2] = b
    /\ \A i, j \in 1 .. Len(ws) : i < j => ws[i][2] < ws[j][1]

LEMMA WordsListed ==
    ASSUME NEW t \in AnyText
    PROVE  ListsWords(Words(t), t)
<1> DEFINE ls == Letters(t)
           K == {k \in ls : k - 1 \notin ls}
           ks == Sorted(K)
           ws == Words(t)
           n == Cardinality(K)
<1>1. ls \subseteq Int /\ IsFiniteSet(ls) /\ ls \subseteq Nat
  BY LettersOf
<1>2. K \subseteq Int /\ IsFiniteSet(K)
  <2>1. K \in SUBSET ls
    OBVIOUS
  <2> HIDE DEF ls, K
  <2> QED
    BY <1>1, <2>1, FS_Subset
<1>3. \A k \in K : k \in ls /\ k - 1 \notin ls
  OBVIOUS
<1>4. ws = [i \in DOMAIN ks |-> <<ks[i], WordTo(t, ks[i])>>]
  BY DEF Words, WordTo
<1>5. \A k \in ls : k - 1 \notin ls => k \in K
  OBVIOUS
<1> HIDE DEF K, ks, ws, ls
<1>6. Ascends(ks, K, n)
  BY <1>2, SortedAscends DEF ks
<1> HIDE DEF n
<1>7. /\ n \in Nat /\ DOMAIN ks = 1 .. n /\ \A i \in 1 .. n : ks[i] \in K
      /\ \A x \in K : \E i \in 1 .. n : ks[i] = x
      /\ \A i, j \in 1 .. n : i < j => ks[i] < ks[j]
  BY <1>6 DEF Ascends
<1>8. \A k \in K : IsWord(t, k, WordTo(t, k))
  <2> TAKE k \in K
  <2>1. k \in Letters(t) /\ k - 1 \notin Letters(t) /\ k \in Nat
    BY <1>1, <1>3 DEF ls
  <2>2. /\ IsWord(t, WordFrom(t, k), WordTo(t, k))
        /\ WordFrom(t, k) <= k /\ k < WordTo(t, k)
    BY <2>1, WordAround
  <2> DEFINE a == WordFrom(t, k)
             b == WordTo(t, k)
  <2> HIDE DEF a, b
  <2>3. a = k
    <3>1. a \in Nat /\ b \in Nat /\ \A x \in a .. b - 1 : x \in Letters(t)
      BY <2>2 DEF IsWord, a, b
    <3>2. ~(k - 1 \in a .. b - 1)
      BY <2>1, <3>1
    <3> QED
      BY <2>1, <2>2, <3>1, <3>2 DEF a, b
  <2> QED
    BY <2>2, <2>3 DEF a, b
<1>9. /\ ws \in [1 .. n -> Nat \X Nat]
      /\ \A i \in 1 .. n : ws[i][1] = ks[i] /\ ws[i][2] = WordTo(t, ks[i])
  <2>1. \A i \in 1 .. n : ws[i] = <<ks[i], WordTo(t, ks[i])>>
    BY <1>4, <1>7
  <2>2. \A i \in 1 .. n : ks[i] \in Nat /\ WordTo(t, ks[i]) \in Nat
    BY <1>7, <1>8 DEF IsWord
  <2> QED
    BY <1>4, <1>7, <2>1, <2>2
<1>10. ws \in Seq(Nat \X Nat) /\ Len(ws) = n /\ DOMAIN ws = 1 .. n
  BY <1>7, <1>9, FunctionSeq
<1>11. \A i \in 1 .. n : IsWord(t, ws[i][1], ws[i][2])
  BY <1>7, <1>8, <1>9
<1>12. ASSUME NEW a, NEW b, IsWord(t, a, b)
       PROVE  \E i \in 1 .. n : ws[i][1] = a /\ ws[i][2] = b
  <2>1. a \in Nat /\ b \in Nat /\ a < b /\ a \in ls /\ a - 1 \notin ls
    BY <1>12 DEF IsWord, ls
  <2>2. a \in K
    BY <1>5, <2>1
  <2>3. PICK i \in 1 .. n : ks[i] = a
    BY <1>7, <2>2
  <2>4. IsWord(t, a, ws[i][2]) /\ ws[i][1] = a
    BY <1>9, <1>11, <2>3
  <2>5. ws[i][2] = b
    <3>1. ws[i][2] \in Nat /\ a < ws[i][2]
      BY <2>4 DEF IsWord
    <3>2. b = ws[i][2] \/ ws[i][2] < a
      BY <1>12, <2>1, <2>4, WordsApart
    <3> QED
      BY <2>1, <3>1, <3>2
  <2> QED
    BY <2>4, <2>5
<1>13. ASSUME NEW i \in 1 .. n, NEW j \in 1 .. n, i < j
       PROVE  ws[i][2] < ws[j][1]
  <2>1. IsWord(t, ws[i][1], ws[i][2]) /\ IsWord(t, ws[j][1], ws[j][2])
    BY <1>11
  <2>2. ws[i][1] < ws[j][1]
    BY <1>7, <1>9, <1>13
  <2> DEFINE a == ws[i][1]
             b == ws[i][2]
             c == ws[j][1]
             d == ws[j][2]
  <2> HIDE DEF a, b, c, d
  <2>3. a \in Nat /\ c \in Nat /\ d \in Nat /\ c < d /\ a < c
    BY <2>1, <2>2 DEF IsWord, a, b, c, d
  <2>4. a < d /\ a # c
    BY <2>3
  <2>5. b < c
    BY <2>1, <2>4, WordsApart DEF a, b, c, d
  <2> QED
    BY <2>5 DEF b, c
<1> QED
  BY <1>7, <1>10, <1>11, <1>12, <1>13 DEF ListsWords, ws

\* A list of the words of a text is the list of them.
LEMMA WordsUnique ==
    ASSUME NEW t \in AnyText, NEW ws, ListsWords(ws, t)
    PROVE  ws = Words(t)
<1> DEFINE vs == Words(t)
           K == {k \in Letters(t) : k - 1 \notin Letters(t)}
           first(s) == [i \in 1 .. Len(s) |-> s[i][1]]
<1>1. ListsWords(vs, t)
  BY WordsListed
<1>2. K \subseteq Int
  BY LettersOf
<1>3. ASSUME NEW s, ListsWords(s, t)
      PROVE  Ascends(first(s), K, Len(s))
  <2> DEFINE n == Len(s)
             f == first(s)
  <2>1. /\ n \in Nat /\ s \in Seq(Nat \X Nat) /\ DOMAIN s = 1 .. n
        /\ \A i \in 1 .. n : IsWord(t, s[i][1], s[i][2])
        /\ \A i, j \in 1 .. n : i < j => s[i][2] < s[j][1]
        /\ \A a, b : IsWord(t, a, b) =>
              \E i \in 1 .. n : s[i][1] = a /\ s[i][2] = b
    BY <1>3 DEF ListsWords
  <2>2. \A i \in 1 .. n : f[i] = s[i][1]
    OBVIOUS
  <2>3. DOMAIN f = 1 .. n /\ f = [i \in 1 .. n |-> f[i]]
    OBVIOUS
  <2> HIDE DEF n, f, K
  <2>4. \A i \in 1 .. n : s[i][1] \in K
    <3> TAKE i \in 1 .. n
    <3>1. IsWord(t, s[i][1], s[i][2])
      BY <2>1
    <3> DEFINE a == s[i][1]
               b == s[i][2]
    <3> HIDE DEF a, b
    <3>2. a \in Nat /\ b \in Nat /\ a < b /\ a - 1 \notin Letters(t)
          /\ \A k \in a .. b - 1 : k \in Letters(t)
      BY <3>1 DEF IsWord, a, b
    <3>3. a \in a .. b - 1
      BY <3>2
    <3> QED
      BY <3>2, <3>3 DEF K, a
  <2>5. f \in [1 .. n -> K]
    BY <2>2, <2>3, <2>4
  <2>6. ASSUME NEW k \in K PROVE \E i \in 1 .. n : f[i] = k
    <3>1. k \in Letters(t) /\ k - 1 \notin Letters(t) /\ k \in Nat
      BY LettersOf DEF K
    <3>2. /\ IsWord(t, WordFrom(t, k), WordTo(t, k))
          /\ WordFrom(t, k) <= k /\ k < WordTo(t, k)
      BY <3>1, WordAround
    <3> DEFINE a == WordFrom(t, k)
               b == WordTo(t, k)
    <3> HIDE DEF a, b
    <3>3. a \in Nat /\ b \in Nat /\ \A x \in a .. b - 1 : x \in Letters(t)
      BY <3>2 DEF IsWord, a, b
    <3>4. ~(k - 1 \in a .. b - 1)
      BY <3>1, <3>3
    <3>5. a = k
      BY <3>1, <3>2, <3>3, <3>4 DEF a, b
    <3>6. PICK i \in 1 .. n : s[i][1] = a
      BY <2>1, <3>2 DEF a, b
    <3> QED
      BY <2>2, <3>5, <3>6
  <2>7. ASSUME NEW i \in 1 .. n, NEW j \in 1 .. n, i < j PROVE f[i] < f[j]
    <3>1. s[i][2] < s[j][1]
      BY <2>1, <2>7
    <3>2. s[i][1] \in Nat /\ s[i][2] \in Nat /\ s[i][1] < s[i][2]
      BY <2>1 DEF IsWord
    <3>3. s[j][1] \in Nat
      BY <2>1 DEF IsWord
    <3> QED
      BY <2>2, <3>1, <3>2, <3>3
  <2>8. Ascends(f, K, n)
    BY <2>1, <2>5, <2>6, <2>7 DEF Ascends
  <2> QED
    BY <2>8 DEF f, n
<1> HIDE DEF first, K
<1>4. Len(ws) = Len(vs) /\ first(ws) = first(vs)
  <2>1. Ascends(first(ws), K, Len(ws))
    BY <1>3
  <2>2. Ascends(first(vs), K, Len(vs))
    BY <1>1, <1>3
  <2> QED
    BY <1>2, <2>1, <2>2, AscendsOnce
<1> DEFINE n == Len(vs)
<1>5. /\ n \in Nat /\ ws \in Seq(Nat \X Nat) /\ vs \in Seq(Nat \X Nat)
      /\ Len(ws) = n /\ Len(vs) = n
      /\ \A i \in 1 .. n : /\ IsWord(t, ws[i][1], ws[i][2])
                           /\ IsWord(t, vs[i][1], vs[i][2])
  BY <1>1, <1>4 DEF ListsWords
<1> HIDE DEF vs, n
<1>6. ASSUME NEW i \in 1 .. n PROVE ws[i] = vs[i]
  <2>1. first(ws)[i] = ws[i][1] /\ first(vs)[i] = vs[i][1]
    BY <1>5 DEF first
  <2>2. ws[i][1] = vs[i][1]
    BY <1>4, <2>1
  <2>3. /\ IsWord(t, ws[i][1], ws[i][2])
        /\ IsWord(t, ws[i][1], vs[i][2])
    BY <1>5, <2>2
  <2> DEFINE a == ws[i][1]
             b == ws[i][2]
             d == vs[i][2]
  <2> HIDE DEF a, b, d
  <2>4. a \in Nat /\ b \in Nat /\ d \in Nat /\ a < b /\ a < d
    BY <2>3 DEF IsWord, a, b, d
  <2>5. (a = a /\ b = d) \/ b < a
    BY <2>3, <2>4, WordsApart DEF a, b, d
  <2>6. ws[i][2] = vs[i][2]
    BY <2>4, <2>5 DEF b, d
  <2>7. ws[i] \in Nat \X Nat /\ vs[i] \in Nat \X Nat
    BY <1>5, ElementOfSeq
  <2> QED
    BY <2>2, <2>6, <2>7
<1> QED
  BY <1>5, <1>6, SeqEqual DEF vs

-----------------------------------------------------------------------------
(* Texts end to end.                                                       *)

\* No word goes across from the end of u to the beginning of v.
Apart(u, v) == ~(Len(u) - 1 \in Letters(u) /\ 0 \in Letters(v))

LEMMA LettersJoin ==
    ASSUME NEW u \in AnyText, NEW v \in AnyText
    PROVE  \A k \in Int : k \in Letters(u \o v) <=>
              k \in Letters(u) \/ k - Len(u) \in Letters(v)
<1> DEFINE m == Len(u)
           n == Len(v)
           t == u \o v
<1>1. m \in Nat /\ n \in Nat
  BY TextFacts
<1>2. /\ t \in AnyText /\ Len(t) = m + n
      /\ \A k \in 0 .. m - 1 : t[k + 1] = u[k + 1]
      /\ \A k \in 0 .. n - 1 : t[m + k + 1] = v[k + 1]
  BY JoinFacts
<1> HIDE DEF m, n, t
<1>3. \A k \in Int : k \in Letters(t) <=>
         0 <= k /\ k < m + n /\ t[k + 1] \notin Blank
  BY <1>2, LettersOf
<1>4. \A k \in Int : k \in Letters(u) <=>
         0 <= k /\ k < m /\ u[k + 1] \notin Blank
  BY LettersOf DEF m
<1>5. \A k \in Int : k \in Letters(v) <=>
         0 <= k /\ k < n /\ v[k + 1] \notin Blank
  BY LettersOf DEF n
<1>6. ASSUME NEW k \in Int
      PROVE  k \in Letters(t) <=> k \in Letters(u) \/ k - m \in Letters(v)
  <2>1. CASE k < m
    <3>1. k - m \notin Letters(v)
      BY <1>1, <1>5, <2>1
    <3>2. 0 <= k => t[k + 1] = u[k + 1]
      BY <1>1, <1>2, <2>1
    <3> QED
      BY <1>1, <1>3, <1>4, <2>1, <3>1, <3>2
  <2>2. CASE m <= k
    <3>1. k \notin Letters(u)
      BY <1>1, <1>4, <2>2
    <3>2. k < m + n => t[k + 1] = v[k - m + 1]
      <4> SUFFICES ASSUME k < m + n PROVE t[k + 1] = v[k - m + 1]
        OBVIOUS
      <4>1. k - m \in 0 .. n - 1 /\ m + (k - m) + 1 = k + 1
        BY <1>1, <2>2
      <4>2. t[m + (k - m) + 1] = v[(k - m) + 1]
        BY <1>2, <4>1
      <4> QED
        BY <4>1, <4>2
    <3> QED
      BY <1>1, <1>3, <1>5, <2>2, <3>1, <3>2
  <2> QED
    BY <1>1, <2>1, <2>2
<1> QED
  BY <1>6 DEF m, t

LEMMA WordsJoin ==
    ASSUME NEW u \in AnyText, NEW v \in AnyText, Apart(u, v),
           NEW a \in Int, NEW b \in Int
    PROVE  IsWord(u \o v, a, b) <=>
              \/ IsWord(u, a, b)
              \/ IsWord(v, a - Len(u), b - Len(u))
<1> DEFINE m == Len(u)
           n == Len(v)
           t == u \o v
<1>1. m \in Nat /\ n \in Nat /\ Len(t) = m + n
  BY TextFacts, JoinFacts
<1>2. \A k \in Int : k \in Letters(t) <=> k \in Letters(u) \/ k - m \in Letters(v)
  BY LettersJoin
<1>3. /\ \A k \in Int : k \in Letters(u) => 0 <= k /\ k < m
      /\ \A k \in Int : k \in Letters(v) => 0 <= k /\ k < n
  BY LettersOf
<1>4. ~(m - 1 \in Letters(u) /\ 0 \in Letters(v))
  BY DEF Apart
<1> HIDE DEF m, n, t
<1>5. ASSUME IsWord(u, a, b) PROVE IsWord(t, a, b)
  <2>1. /\ a \in Nat /\ b \in Nat /\ a < b /\ b <= m
        /\ a - 1 \notin Letters(u) /\ b \notin Letters(u)
        /\ \A k \in a .. b - 1 : k \in Letters(u)
    BY <1>5 DEF IsWord, m
  <2>2. a - 1 - m \notin Letters(v)
    BY <1>1, <1>3, <2>1
  <2>3. b - m \notin Letters(v)
    <3> SUFFICES ASSUME b - m \in Letters(v) PROVE FALSE
      OBVIOUS
    <3>1. b = m
      BY <1>1, <1>3, <2>1
    <3>2. m - 1 \in a .. b - 1 /\ b - m = 0
      BY <1>1, <2>1, <3>1
    <3> QED
      BY <1>4, <2>1, <3>2
  <2>4. a - 1 \notin Letters(t) /\ b \notin Letters(t)
    BY <1>2, <2>1, <2>2, <2>3
  <2>5. \A k \in a .. b - 1 : k \in Letters(t)
    BY <1>2, <2>1
  <2>6. b <= Len(t)
    BY <1>1, <2>1
  <2> QED
    BY <2>1, <2>4, <2>5, <2>6 DEF IsWord
<1>6. ASSUME IsWord(v, a - m, b - m) PROVE IsWord(t, a, b)
  <2>1. /\ a - m \in Nat /\ b - m \in Nat /\ a - m < b - m /\ b - m <= n
        /\ a - m - 1 \notin Letters(v) /\ b - m \notin Letters(v)
        /\ \A k \in a - m .. b - m - 1 : k \in Letters(v)
    BY <1>6 DEF IsWord, n
  <2>2. b \notin Letters(u)
    BY <1>1, <1>3, <2>1
  <2>3. a - 1 \notin Letters(u)
    <3> SUFFICES ASSUME a - 1 \in Letters(u) PROVE FALSE
      OBVIOUS
    <3>1. a = m
      BY <1>1, <1>3, <2>1
    <3>2. 0 \in a - m .. b - m - 1
      BY <1>1, <2>1, <3>1
    <3> QED
      BY <1>4, <2>1, <3>1, <3>2
  <2>4. a - 1 - m = a - m - 1
    BY <1>1
  <2>5. a - 1 \notin Letters(t) /\ b \notin Letters(t)
    BY <1>1, <1>2, <2>1, <2>2, <2>3, <2>4
  <2>6. \A k \in a .. b - 1 : k \in Letters(t)
    <3> TAKE k \in a .. b - 1
    <3>1. k - m \in a - m .. b - m - 1
      BY <1>1
    <3> QED
      BY <1>2, <2>1, <3>1
  <2>7. b <= Len(t) /\ a \in Nat /\ b \in Nat /\ a < b
    BY <1>1, <2>1
  <2> QED
    BY <2>5, <2>6, <2>7 DEF IsWord
<1>7. ASSUME IsWord(t, a, b)
      PROVE  IsWord(u, a, b) \/ IsWord(v, a - m, b - m)
  <2>1. /\ a \in Nat /\ b \in Nat /\ a < b /\ b <= m + n
        /\ a - 1 \notin Letters(t) /\ b \notin Letters(t)
        /\ \A k \in a .. b - 1 : k \in Letters(t)
    BY <1>1, <1>7 DEF IsWord
  <2>2. CASE b <= m
    <3>1. \A k \in a .. b - 1 : k \in Letters(u)
      <4> TAKE k \in a .. b - 1
      <4>1. k - m \notin Letters(v)
        BY <1>1, <1>3, <2>1, <2>2
      <4> QED
        BY <1>2, <2>1, <4>1
    <3>2. a - 1 \notin Letters(u) /\ b \notin Letters(u)
      BY <1>2, <2>1
    <3> QED
      BY <2>1, <2>2, <3>1, <3>2 DEF IsWord, m
  <2>3. CASE m <= a
    <3>1. \A k \in a - m .. b - m - 1 : k \in Letters(v)
      <4> TAKE k \in a - m .. b - m - 1
      <4>1. k + m \in a .. b - 1 /\ (k + m) - m = k /\ ~(k + m < m)
        BY <1>1, <2>1, <2>3
      <4>2. k + m \in Letters(t) /\ k + m \notin Letters(u)
        BY <1>1, <1>3, <2>1, <4>1
      <4> QED
        BY <1>1, <1>2, <4>1, <4>2
    <3>2. a - m - 1 \notin Letters(v) /\ b - m \notin Letters(v)
      <4>1. a - m - 1 = a - 1 - m
        BY <1>1, <2>1
      <4> QED
        BY <1>1, <1>2, <2>1, <4>1
    <3>3. a - m \in Nat /\ b - m \in Nat /\ a - m < b - m /\ b - m <= n
      BY <1>1, <2>1, <2>3
    <3> QED
      BY <3>1, <3>2, <3>3 DEF IsWord, n
  <2>4. CASE a < m /\ m < b
    <3>1. m - 1 \in a .. b - 1 /\ m \in a .. b - 1
      BY <1>1, <2>1, <2>4
    <3>2. m - 1 \in Letters(t) /\ m \in Letters(t)
      BY <2>1, <3>1
    <3>3. m - 1 \in Letters(u)
      <4>1. m - 1 - m \notin Letters(v)
        BY <1>1, <1>3
      <4> QED
        BY <1>1, <1>2, <3>2, <4>1
    <3>4. 0 \in Letters(v)
      <4>1. m \notin Letters(u) /\ m - m = 0
        BY <1>1, <1>3
      <4> QED
        BY <1>1, <1>2, <3>2, <4>1
    <3> QED
      BY <1>4, <3>3, <3>4
  <2> QED
    BY <1>1, <2>1, <2>2, <2>3, <2>4
<1> QED
  BY <1>5, <1>6, <1>7 DEF m, t

\* Words further on by d.
Moved(ws, d) == [i \in 1 .. Len(ws) |-> <<ws[i][1] + d, ws[i][2] + d>>]

LEMMA MovedFacts ==
    ASSUME NEW ws \in Seq(Nat \X Nat), NEW d \in Nat
    PROVE  /\ Moved(ws, d) \in Seq(Nat \X Nat) /\ Len(Moved(ws, d)) = Len(ws)
           /\ \A i \in 1 .. Len(ws) : /\ Moved(ws, d)[i][1] = ws[i][1] + d
                                      /\ Moved(ws, d)[i][2] = ws[i][2] + d
<1> DEFINE n == Len(ws)
<1>1. n \in Nat
  BY LenProperties
<1>2. \A i \in 1 .. n : ws[i][1] \in Nat /\ ws[i][2] \in Nat
  <2> TAKE i \in 1 .. n
  <2>1. ws[i] \in Nat \X Nat
    BY ElementOfSeq
  <2> QED
    BY <2>1
<1>3. \A i \in 1 .. n : Moved(ws, d)[i] = <<ws[i][1] + d, ws[i][2] + d>>
  BY DEF Moved
<1>4. \A i \in 1 .. n : <<ws[i][1] + d, ws[i][2] + d>> \in Nat \X Nat
  BY <1>2
<1>5. Moved(ws, d) = [i \in 1 .. n |-> Moved(ws, d)[i]]
  BY DEF Moved
<1> HIDE DEF n
<1>6. Moved(ws, d) \in [1 .. n -> Nat \X Nat]
  BY <1>3, <1>4, <1>5
<1>7. Moved(ws, d) \in Seq(Nat \X Nat) /\ Len(Moved(ws, d)) = n
  BY <1>1, <1>6, FunctionSeq
<1> QED
  BY SMTT(30), <1>3, <1>7 DEF n

\* The words of two texts that are apart are those of the one and the other.
LEMMA WordsOfJoin ==
    ASSUME NEW u \in AnyText, NEW v \in AnyText, Apart(u, v)
    PROVE  Words(u \o v) = Words(u) \o Moved(Words(v), Len(u))
<1> DEFINE d == Len(u)
           ps == Words(u)
           qs == Words(v)
           ms == Moved(qs, d)
           ws == ps \o ms
           m == Len(ps)
           n == Len(qs)
           t == u \o v
<1>1. /\ d \in Nat /\ t \in AnyText
      /\ ListsWords(ps, u) /\ ListsWords(qs, v)
  BY TextFacts, JoinFacts, WordsListed
<1>2. /\ m \in Nat /\ ps \in Seq(Nat \X Nat)
      /\ n \in Nat /\ qs \in Seq(Nat \X Nat)
  BY <1>1 DEF ListsWords
<1>3. \A a \in Int, b \in Int :
         IsWord(t, a, b) <=> IsWord(u, a, b) \/ IsWord(v, a - d, b - d)
  BY WordsJoin
<1> HIDE DEF d, ps, qs, ms, ws, m, n, t
<1>4. /\ ms \in Seq(Nat \X Nat) /\ Len(ms) = n
      /\ \A i \in 1 .. n : ms[i][1] = qs[i][1] + d /\ ms[i][2] = qs[i][2] + d
  BY <1>1, <1>2, MovedFacts DEF ms, n
<1>5. /\ ws \in Seq(Nat \X Nat) /\ Len(ws) = m + n
      /\ \A i \in 1 .. m + n : ws[i] = IF i <= m THEN ps[i] ELSE ms[i - m]
  BY <1>2, <1>4, ConcatProperties DEF ws, m
<1>6. /\ \A i \in 1 .. m : IsWord(u, ps[i][1], ps[i][2])
      /\ \A a, b : IsWord(u, a, b) =>
            \E i \in 1 .. m : ps[i][1] = a /\ ps[i][2] = b
      /\ \A i, j \in 1 .. m : i < j => ps[i][2] < ps[j][1]
  BY <1>1 DEF ListsWords, m
<1>7. /\ \A i \in 1 .. n : IsWord(v, qs[i][1], qs[i][2])
      /\ \A a, b : IsWord(v, a, b) =>
            \E i \in 1 .. n : qs[i][1] = a /\ qs[i][2] = b
      /\ \A i, j \in 1 .. n : i < j => qs[i][2] < qs[j][1]
  BY <1>1 DEF ListsWords, n
<1>8. /\ \A i \in 1 .. m : ps[i][1] \in Nat /\ ps[i][2] \in Nat /\ ps[i][1] < ps[i][2]
                           /\ ps[i][2] <= d
      /\ \A i \in 1 .. n : qs[i][1] \in Nat /\ qs[i][2] \in Nat /\ qs[i][1] < qs[i][2]
  BY <1>6, <1>7 DEF IsWord, d
<1>9. \A i \in 1 .. m + n : IsWord(t, ws[i][1], ws[i][2])
  <2> TAKE i \in 1 .. m + n
  <2>1. CASE i <= m
    <3>1. i \in 1 .. m /\ ws[i] = ps[i]
      BY <1>2, <1>5, <2>1
    <3>2. IsWord(u, ws[i][1], ws[i][2]) /\ ws[i][1] \in Int /\ ws[i][2] \in Int
      BY <1>6, <1>8, <3>1
    <3> QED
      BY <1>3, <3>2
  <2>2. CASE m < i
    <3>1. i - m \in 1 .. n /\ ws[i] = ms[i - m]
      BY <1>2, <1>5, <2>2
    <3>2. ws[i][1] = qs[i - m][1] + d /\ ws[i][2] = qs[i - m][2] + d
      BY <1>4, <3>1
    <3>3. qs[i - m][1] \in Nat /\ qs[i - m][2] \in Nat
          /\ IsWord(v, qs[i - m][1], qs[i - m][2])
      BY <1>7, <1>8, <3>1
    <3>4. ws[i][1] \in Int /\ ws[i][2] \in Int
          /\ ws[i][1] - d = qs[i - m][1] /\ ws[i][2] - d = qs[i - m][2]
      BY <1>1, <3>2, <3>3
    <3> QED
      BY <1>3, <3>3, <3>4
  <2> QED
    BY <1>2, <2>1, <2>2
<1>10. ASSUME NEW a, NEW b, IsWord(t, a, b)
       PROVE  \E i \in 1 .. m + n : ws[i][1] = a /\ ws[i][2] = b
  <2>1. a \in Int /\ b \in Int
    BY <1>10 DEF IsWord
  <2>2. CASE IsWord(u, a, b)
    <3>1. PICK i \in 1 .. m : ps[i][1] = a /\ ps[i][2] = b
      BY <1>6, <2>2
    <3>2. i \in 1 .. m + n /\ ws[i] = ps[i]
      BY <1>2, <1>5
    <3> QED
      BY <3>1, <3>2
  <2>3. CASE IsWord(v, a - d, b - d)
    <3>1. PICK i \in 1 .. n : qs[i][1] = a - d /\ qs[i][2] = b - d
      BY <1>7, <2>3
    <3>2. i + m \in 1 .. m + n /\ ~(i + m <= m) /\ (i + m) - m = i
      BY <1>2
    <3>3. ws[i + m] = ms[i]
      BY <1>5, <3>2
    <3>4. ws[i + m][1] = a /\ ws[i + m][2] = b
      BY <1>1, <1>4, <2>1, <3>1, <3>3
    <3> QED
      BY <3>2, <3>4
  <2> QED
    BY <1>3, <1>10, <2>1, <2>2, <2>3
<1>11. ASSUME NEW i \in 1 .. m + n, NEW j \in 1 .. m + n, i < j
       PROVE  ws[i][2] < ws[j][1]
  <2>1. CASE j <= m
    <3>1. i \in 1 .. m /\ j \in 1 .. m /\ i <= m
      BY <1>2, <1>11, <2>1
    <3> QED
      BY <1>5, <1>6, <1>11, <2>1, <3>1
  <2>2. CASE i <= m /\ m < j
    <3>1. i \in 1 .. m /\ j - m \in 1 .. n /\ ~(j <= m)
      BY <1>2, <2>2
    <3>2. ws[i][2] = ps[i][2] /\ ws[j][1] = qs[j - m][1] + d
      BY <1>4, <1>5, <2>2, <3>1
    <3>3. ps[i][2] \in Nat /\ ps[i][2] <= d /\ qs[j - m][1] \in Nat
      BY <1>8, <3>1
    <3>4. ps[i][2] # d \/ qs[j - m][1] # 0
      <4> SUFFICES ASSUME ps[i][2] = d, qs[j - m][1] = 0 PROVE FALSE
        OBVIOUS
      <4> DEFINE a == ps[i][1]
                 b == qs[j - m][2]
      <4>1. IsWord(u, a, d) /\ IsWord(v, 0, b)
        BY <1>6, <1>7, <3>1
      <4> HIDE DEF a, b
      <4>2. d - 1 \in Letters(u)
        <5>1. a \in Nat /\ a < d /\ \A k \in a .. d - 1 : k \in Letters(u)
          BY <4>1 DEF IsWord
        <5>2. d - 1 \in a .. d - 1
          BY <1>1, <5>1
        <5> QED
          BY <5>1, <5>2
      <4>3. 0 \in Letters(v)
        <5>1. b \in Nat /\ 0 < b /\ \A k \in 0 .. b - 1 : k \in Letters(v)
          BY <4>1 DEF IsWord
        <5> QED
          BY <5>1
      <4> QED
        BY <4>2, <4>3 DEF Apart, d
    <3> QED
      BY <1>1, <3>2, <3>3, <3>4
  <2>3. CASE m < i
    <3>1. i - m \in 1 .. n /\ j - m \in 1 .. n /\ i - m < j - m
          /\ ~(i <= m) /\ ~(j <= m)
      BY <1>2, <1>11, <2>3
    <3>2. ws[i][2] = qs[i - m][2] + d /\ ws[j][1] = qs[j - m][1] + d
      BY <1>4, <1>5, <3>1
    <3>3. qs[i - m][2] \in Nat /\ qs[j - m][1] \in Nat
      BY <1>8, <3>1
    <3>4. qs[i - m][2] < qs[j - m][1]
      BY <1>7, <3>1
    <3> QED
      BY <1>1, <3>2, <3>3, <3>4
  <2> QED
    BY <1>2, <2>1, <2>2, <2>3
<1>12. Len(ws) \in Nat /\ DOMAIN ws = 1 .. Len(ws)
  BY <1>5, LenProperties
<1>13. ListsWords(ws, t)
  BY <1>5, <1>9, <1>10, <1>11, <1>12 DEF ListsWords
<1>14. ws = Words(t)
  BY <1>1, <1>13, WordsUnique
<1> QED
  BY <1>14 DEF ws, t, ps, ms, qs, d

\* The words of a text, as texts.
LEMMA WordsOfFacts ==
    ASSUME NEW t \in AnyText
    PROVE  /\ WordsOf(t) \in Seq(AnyText)
           /\ Len(WordsOf(t)) = Len(Words(t)) /\ Len(Words(t)) \in Nat
           /\ DOMAIN Words(t) = 1 .. Len(Words(t))
           /\ DOMAIN WordsOf(t) = 1 .. Len(Words(t))
           /\ \A i \in 1 .. Len(Words(t)) :
                 WordsOf(t)[i] = Cut(t, Words(t)[i][1], Words(t)[i][2])
<1> DEFINE ws == Words(t)
           n == Len(ws)
           f == WordsOf(t)
<1>1. ListsWords(ws, t)
  BY WordsListed
<1>2. n \in Nat /\ DOMAIN ws = 1 .. n
      /\ \A i \in 1 .. n : IsWord(t, ws[i][1], ws[i][2])
  BY <1>1 DEF ListsWords
<1>3. f = [i \in DOMAIN ws |-> Cut(t, ws[i][1], ws[i][2])]
  BY DEF WordsOf, WordAt
<1> HIDE DEF ws, n, f
<1>4. \A i \in 1 .. n : f[i] = Cut(t, ws[i][1], ws[i][2]) /\ f[i] \in AnyText
  <2> TAKE i \in 1 .. n
  <2>1. f[i] = Cut(t, ws[i][1], ws[i][2])
    BY <1>2, <1>3
  <2>2. ws[i][1] \in Nat /\ ws[i][2] \in Nat /\ ws[i][1] <= ws[i][2]
        /\ ws[i][2] <= Len(t)
    BY <1>2 DEF IsWord
  <2> QED
    BY <2>1, <2>2, CutFacts
<1>5. DOMAIN f = 1 .. n /\ f = [i \in 1 .. n |-> f[i]]
  BY <1>2, <1>3
<1>6. f \in [1 .. n -> AnyText]
  BY <1>4, <1>5
<1>7. f \in Seq(AnyText) /\ Len(f) = n
  BY <1>2, <1>6, FunctionSeq
<1> QED
  BY <1>2, <1>4, <1>5, <1>7 DEF ws, n, f

\* A part of a text that lies in one of two joined texts.
LEMMA CutOfJoin ==
    ASSUME NEW u \in AnyText, NEW v \in AnyText, NEW a \in Nat, NEW b \in Nat,
           a <= b
    PROVE  /\ b <= Len(u) => Cut(u \o v, a, b) = Cut(u, a, b)
           /\ b <= Len(v) => Cut(u \o v, a + Len(u), b + Len(u)) = Cut(v, a, b)
<1> DEFINE m == Len(u)
           n == Len(v)
           t == u \o v
<1>1. m \in Nat /\ n \in Nat
  BY TextFacts
<1>2. /\ t \in AnyText /\ Len(t) = m + n
      /\ \A k \in 0 .. m - 1 : t[k + 1] = u[k + 1]
      /\ \A k \in 0 .. n - 1 : t[m + k + 1] = v[k + 1]
  BY JoinFacts
<1> HIDE DEF t
<1>3. ASSUME b <= m PROVE Cut(t, a, b) = Cut(u, a, b)
  <2>1. /\ Cut(t, a, b) \in AnyText /\ Len(Cut(t, a, b)) = b - a
        /\ \A k \in 0 .. b - a - 1 : Cut(t, a, b)[k + 1] = t[a + k + 1]
    <3>1. b <= Len(t)
      BY <1>1, <1>2, <1>3
    <3> QED
      BY <1>2, <3>1, CutFacts
  <2>2. /\ Cut(u, a, b) \in AnyText /\ Len(Cut(u, a, b)) = b - a
        /\ \A k \in 0 .. b - a - 1 : Cut(u, a, b)[k + 1] = u[a + k + 1]
    BY <1>3, CutFacts
  <2>3. \A k \in 0 .. b - a - 1 : t[a + k + 1] = u[a + k + 1]
    <3> TAKE k \in 0 .. b - a - 1
    <3>1. a + k \in 0 .. m - 1
      BY <1>1, <1>3
    <3> QED
      BY <1>2, <3>1
  <2> QED
    BY <2>1, <2>2, <2>3, SameText
<1>4. ASSUME b <= n PROVE Cut(t, a + m, b + m) = Cut(v, a, b)
  <2> DEFINE c == a + m
             d == b + m
  <2>1. c \in Nat /\ d \in Nat /\ c <= d /\ d <= Len(t) /\ d - c = b - a
    BY <1>1, <1>2, <1>4
  <2> HIDE DEF c, d
  <2>2. /\ Cut(t, c, d) \in AnyText /\ Len(Cut(t, c, d)) = d - c
        /\ \A k \in 0 .. d - c - 1 : Cut(t, c, d)[k + 1] = t[c + k + 1]
    BY <1>2, <2>1, CutFacts
  <2>3. /\ Cut(v, a, b) \in AnyText /\ Len(Cut(v, a, b)) = b - a
        /\ \A k \in 0 .. b - a - 1 : Cut(v, a, b)[k + 1] = v[a + k + 1]
    BY <1>4, CutFacts
  <2>4. \A k \in 0 .. b - a - 1 : t[c + k + 1] = v[a + k + 1]
    <3> TAKE k \in 0 .. b - a - 1
    <3>1. a + k \in 0 .. n - 1 /\ c + k + 1 = m + (a + k) + 1
      BY <1>1, <1>4 DEF c
    <3>2. t[m + (a + k) + 1] = v[(a + k) + 1]
      BY <1>2, <3>1
    <3> QED
      BY <3>1, <3>2
  <2>5. Cut(t, c, d) = Cut(v, a, b)
    BY <2>1, <2>2, <2>3, <2>4, SameText
  <2> QED
    BY <2>5 DEF c, d
<1> QED
  BY <1>3, <1>4 DEF t

LEMMA WordTextsJoin ==
    ASSUME NEW u \in AnyText, NEW v \in AnyText, Apart(u, v)
    PROVE  WordsOf(u \o v) = WordsOf(u) \o WordsOf(v)
<1> DEFINE t == u \o v
           d == Len(u)
           m == Len(Words(u))
           n == Len(Words(v))
           ws == Words(t)
<1>1. t \in AnyText /\ d \in Nat
  BY TextFacts, JoinFacts
<1>2. /\ WordsOf(u) \in Seq(AnyText) /\ Len(WordsOf(u)) = m /\ m \in Nat
      /\ \A i \in 1 .. m : WordsOf(u)[i] = Cut(u, Words(u)[i][1], Words(u)[i][2])
  BY WordsOfFacts
<1>3. /\ WordsOf(v) \in Seq(AnyText) /\ Len(WordsOf(v)) = n /\ n \in Nat
      /\ \A i \in 1 .. n : WordsOf(v)[i] = Cut(v, Words(v)[i][1], Words(v)[i][2])
  BY WordsOfFacts
<1>4. /\ ListsWords(Words(u), u) /\ ListsWords(Words(v), v)
  BY WordsListed
<1>5. /\ Words(u) \in Seq(Nat \X Nat) /\ Words(v) \in Seq(Nat \X Nat)
      /\ \A i \in 1 .. m : IsWord(u, Words(u)[i][1], Words(u)[i][2])
      /\ \A i \in 1 .. n : IsWord(v, Words(v)[i][1], Words(v)[i][2])
  BY <1>4 DEF ListsWords
<1>6. ws = Words(u) \o Moved(Words(v), d)
  BY WordsOfJoin
<1> HIDE DEF ws, m, n, t
<1>7. /\ Moved(Words(v), d) \in Seq(Nat \X Nat) /\ Len(Moved(Words(v), d)) = n
      /\ \A i \in 1 .. n : /\ Moved(Words(v), d)[i][1] = Words(v)[i][1] + d
                           /\ Moved(Words(v), d)[i][2] = Words(v)[i][2] + d
  <2> HIDE DEF d
  <2> QED
    BY <1>1, <1>5, MovedFacts DEF n
<1>8. /\ Len(ws) = m + n
      /\ \A i \in 1 .. m + n :
            ws[i] = IF i <= m THEN Words(u)[i] ELSE Moved(Words(v), d)[i - m]
  <2> HIDE DEF d
  <2> QED
    BY <1>5, <1>6, <1>7, ConcatProperties DEF m
<1>9. /\ WordsOf(t) \in Seq(AnyText) /\ Len(WordsOf(t)) = m + n
      /\ \A i \in 1 .. m + n : WordsOf(t)[i] = Cut(t, ws[i][1], ws[i][2])
  BY <1>1, <1>8, WordsOfFacts DEF ws
<1>10. /\ WordsOf(u) \o WordsOf(v) \in Seq(AnyText)
       /\ Len(WordsOf(u) \o WordsOf(v)) = m + n
       /\ \A i \in 1 .. m + n : (WordsOf(u) \o WordsOf(v))[i] =
             IF i <= m THEN WordsOf(u)[i] ELSE WordsOf(v)[i - m]
  BY <1>2, <1>3, ConcatProperties
<1>11. ASSUME NEW i \in 1 .. m + n
       PROVE  WordsOf(t)[i] = (WordsOf(u) \o WordsOf(v))[i]
  <2>1. CASE i <= m
    <3>1. i \in 1 .. m
      BY <1>2, <1>3, <2>1
    <3> DEFINE a == Words(u)[i][1]
               b == Words(u)[i][2]
    <3>2. IsWord(u, a, b)
      BY <1>5, <3>1
    <3>3. WordsOf(t)[i] = Cut(t, a, b) /\ WordsOf(u)[i] = Cut(u, a, b)
      BY <1>2, <1>8, <1>9, <2>1, <3>1
    <3> HIDE DEF a, b, d
    <3>4. a \in Nat /\ b \in Nat /\ a <= b /\ b <= Len(u)
      BY <3>2 DEF IsWord
    <3>5. Cut(t, a, b) = Cut(u, a, b)
      BY <3>4, CutOfJoin DEF t
    <3> QED
      BY <1>10, <2>1, <3>3, <3>5
  <2>2. CASE m < i
    <3>1. i - m \in 1 .. n /\ ~(i <= m)
      BY <1>2, <1>3, <2>2
    <3> DEFINE a == Words(v)[i - m][1]
               b == Words(v)[i - m][2]
    <3>2. IsWord(v, a, b)
      BY <1>5, <3>1
    <3>3. WordsOf(t)[i] = Cut(t, a + d, b + d) /\ WordsOf(v)[i - m] = Cut(v, a, b)
      BY <1>3, <1>7, <1>8, <1>9, <3>1
    <3> HIDE DEF a, b
    <3>4. a \in Nat /\ b \in Nat /\ a <= b /\ b <= Len(v)
      BY <3>2 DEF IsWord
    <3>5. Cut(t, a + d, b + d) = Cut(v, a, b)
      BY <3>4, CutOfJoin DEF t
    <3> QED
      BY <1>10, <3>1, <3>3, <3>5
  <2> QED
    BY <1>2, <1>3, <2>1, <2>2
<1> QED
  BY <1>9, <1>10, <1>11, SeqEqual DEF t

-----------------------------------------------------------------------------
(* What the providers return.                                              *)

\* A text with the offsets that are doubted.
Part == {r \in [text : AnyText, doubts : SUBSET Nat] :
            r.doubts \subseteq Offsets(r.text)}

LEMMA PartIs ==
    ASSUME NEW t \in AnyText, NEW D, D \subseteq Offsets(t)
    PROVE  [text |-> t, doubts |-> D] \in Part
<1>1. Offsets(t) \subseteq Nat
  BY TextFacts DEF Offsets
<1> QED
  BY <1>1 DEF Part

LEMMA PartFacts ==
    ASSUME NEW r \in Part
    PROVE  /\ r.text \in AnyText /\ r.doubts \subseteq Offsets(r.text)
           /\ r.doubts \subseteq Nat
           /\ \A k \in r.doubts : 0 <= k /\ k < Len(r.text)
           /\ r = [text |-> r.text, doubts |-> r.doubts]
<1>1. /\ r.text \in AnyText /\ r.doubts \subseteq Offsets(r.text)
      /\ r.doubts \subseteq Nat
      /\ r = [text |-> r.text, doubts |-> r.doubts]
  BY DEF Part
<1>2. Len(r.text) \in Nat
  BY <1>1, TextFacts
<1> QED
  BY <1>1, <1>2 DEF Offsets

LEMMA TrimmedOffsets ==
    ASSUME NEW t \in AnyText, NEW K, K \subseteq Int
    PROVE  Trimmed(t, K) \subseteq Offsets(t)
<1>1. /\ Len(t) \in Nat
      /\ \A k \in Int : k \in Letters(t) => 0 <= k /\ k < Len(t)
      /\ Letters(t) \subseteq Int
  BY LettersOf
<1>2. ASSUME NEW k \in Trimmed(t, K) PROVE k \in Offsets(t)
  <2>1. k \in K /\ \E l, m \in K \cap Letters(t) : l <= k /\ k <= m
    BY DEF Trimmed
  <2>2. PICK l \in K \cap Letters(t), m \in K \cap Letters(t) : l <= k /\ k <= m
    BY <2>1
  <2>3. k \in Int /\ l \in Int /\ m \in Int
    BY <2>1
  <2>4. 0 <= l /\ m < Len(t)
    BY <1>1, <2>3
  <2> QED
    BY <1>1, <2>2, <2>3, <2>4 DEF Offsets
<1> QED
  BY <1>2

\* The elements of a sequence at some of its positions.
LEMMA ElementsFacts ==
    ASSUME NEW A, NEW s \in Seq(A), NEW I, I \subseteq 1 .. Len(s)
    PROVE  /\ IsFiniteSet(I) /\ Cardinality(I) \in Nat
           /\ Elements(s, I) \in Seq(A) /\ Len(Elements(s, I)) = Cardinality(I)
           /\ DOMAIN Elements(s, I) = 1 .. Cardinality(I)
           /\ Ascends(Sorted(I), I, Cardinality(I))
           /\ \A n \in 1 .. Cardinality(I) :
                 Sorted(I)[n] \in I /\ Elements(s, I)[n] = s[Sorted(I)[n]]
<1> DEFINE n == Cardinality(I)
           is == Sorted(I)
           f == Elements(s, I)
           k == Len(s)
<1>1. k \in Nat /\ \A i \in 1 .. k : s[i] \in A
  BY LenProperties, ElementOfSeq
<1>2. IsFiniteSet(1 .. k)
  BY <1>1, FS_Interval
<1>3. IsFiniteSet(I) /\ n \in Nat
  <2>1. I \in SUBSET (1 .. k)
    OBVIOUS
  <2>2. IsFiniteSet(I)
    BY <1>2, <2>1, FS_Subset
  <2> QED
    BY <2>2, FS_CardinalityType
<1>4. Ascends(is, I, n)
  <2>1. I \subseteq Int
    BY <1>1
  <2> QED
    BY <1>3, <2>1, SortedAscends
<1>5. is \in [1 .. n -> I]
  BY <1>4 DEF Ascends
<1>6. f = [i \in DOMAIN is |-> s[is[i]]]
  BY DEF Elements
<1> HIDE DEF n, is, f, k
<1>7. f = [i \in 1 .. n |-> s[is[i]]]
  BY <1>5, <1>6
<1>8. \A i \in 1 .. n : is[i] \in I /\ f[i] = s[is[i]] /\ f[i] \in A
  <2> TAKE i \in 1 .. n
  <2>1. is[i] \in I /\ f[i] = s[is[i]]
    BY <1>5, <1>7
  <2>2. is[i] \in 1 .. k
    BY <2>1 DEF k
  <2> QED
    BY <1>1, <2>1, <2>2
<1>9. f \in [1 .. n -> A]
  BY <1>7, <1>8
<1>10. f \in Seq(A) /\ Len(f) = n /\ DOMAIN f = 1 .. n
  BY <1>3, <1>9, FunctionSeq
<1> QED
  BY <1>3, <1>4, <1>8, <1>10 DEF n, is, f

LEMMA CleanFacts ==
    ASSUME NEW raw \in AnyText
    PROVE  /\ Clean(raw) \in AnyText
           /\ Unmarked(raw) \subseteq 1 .. Len(raw)
           /\ \A k : Kept(raw, k) \in Nat
<1>1. Len(raw) \in Nat /\ DOMAIN raw = 1 .. Len(raw)
  BY TextFacts
<1>2. Unmarked(raw) \subseteq 1 .. Len(raw)
  BY <1>1 DEF Unmarked
<1>3. Clean(raw) \in Seq(Character)
  BY <1>2, ElementsFacts DEF Clean, AnyText
<1>4. IsFiniteSet(1 .. Len(raw))
  BY <1>1, FS_Interval
<1>5. ASSUME NEW k PROVE Kept(raw, k) \in Nat
  <2>1. Unmarked(raw) \cap 1 .. k \in SUBSET (1 .. Len(raw))
    BY <1>2
  <2>2. IsFiniteSet(Unmarked(raw) \cap 1 .. k)
    BY <1>4, <2>1, FS_Subset
  <2> QED
    BY <2>2, FS_CardinalityType DEF Kept
<1> QED
  BY <1>2, <1>3, <1>5 DEF AnyText

LEMMA ReflowedFacts ==
    ASSUME NEW t \in AnyText
    PROVE  /\ Reflowed(t) \in AnyText /\ Len(Reflowed(t)) = Len(t)
           /\ \A i \in 1 .. Len(t) :
                \/ Reflowed(t)[i] = t[i]
                \/ t[i] = "/" /\ Reflowed(t)[i] = " "
<1> DEFINE n == Len(t)
           alone(i) == /\ t[i] = "/"
                       /\ \A j \in {i - 1, i + 1} \cap DOMAIN t : t[j] # "/"
<1>1. n \in Nat /\ DOMAIN t = 1 .. n /\ \A i \in 1 .. n : t[i] \in Character
  BY TextFacts
<1>2. Reflowed(t) = [i \in DOMAIN t |-> IF alone(i) THEN " " ELSE t[i]]
  BY DEF Reflowed
<1>3. \A i : alone(i) => t[i] = "/"
  OBVIOUS
<1> HIDE DEF n, alone
<1>4. \A i \in 1 .. n : Reflowed(t)[i] = IF alone(i) THEN " " ELSE t[i]
  BY <1>1, <1>2
<1>5. Reflowed(t) \in [1 .. n -> Character]
  <2>1. ASSUME NEW i \in 1 .. n PROVE (IF alone(i) THEN " " ELSE t[i]) \in Character
    <3>1. " " \in Character /\ t[i] \in Character
      BY <1>1 DEF Character, Blank
    <3> QED
      BY <3>1, Zenon
  <2>2. Reflowed(t) = [i \in 1 .. n |-> IF alone(i) THEN " " ELSE t[i]]
    BY <1>1, <1>2
  <2> QED
    BY <2>1, <2>2
<1>6. Reflowed(t) \in AnyText /\ Len(Reflowed(t)) = n
  BY <1>1, <1>5, FunctionSeq DEF AnyText
<1> QED
  BY <1>3, <1>4, <1>6 DEF n

LEMMA PageTyped ==
    ASSUME NEW raw \in AnyText, NEW provider
    PROVE  /\ PageResult(provider, raw) \in Part
           /\ PageResult(provider, raw).doubts = MarkedOffsets(raw)
           /\ PageResult(provider, raw).text =
                 IF provider = "gemini" THEN Reflowed(Clean(raw)) ELSE Clean(raw)
<1> DEFINE t == IF provider = "gemini" THEN Reflowed(Clean(raw)) ELSE Clean(raw)
<1>1. Clean(raw) \in AnyText /\ \A k : Kept(raw, k) \in Nat
  BY CleanFacts
<1>2. t \in AnyText /\ Len(t) = Len(Clean(raw))
  BY <1>1, ReflowedFacts
<1>3. Offsets(t) = Offsets(Clean(raw))
  BY <1>2 DEF Offsets
<1>4. ASSUME NEW p \in Pairs(raw)
      PROVE  Trimmed(Clean(raw), Kept(raw, p[1]) .. Kept(raw, p[2]) - 1)
                \subseteq Offsets(t)
  <2>1. Kept(raw, p[1]) .. Kept(raw, p[2]) - 1 \subseteq Int
    BY <1>1
  <2> QED
    BY <1>1, <1>3, <2>1, TrimmedOffsets
<1>5. MarkedOffsets(raw) \subseteq Offsets(t)
  BY <1>4 DEF MarkedOffsets
<1>6. PageResult(provider, raw) = [text |-> t, doubts |-> MarkedOffsets(raw)]
  BY DEF PageResult
<1> HIDE DEF t
<1>7. [text |-> t, doubts |-> MarkedOffsets(raw)] \in Part
  BY <1>2, <1>5, PartIs
<1> QED
  BY <1>6, <1>7 DEF t

\* A recording as a model hears it.
AnyTake == [text : AnyText, tokens : Seq([size : Nat, low : BOOLEAN]),
            phrases : SUBSET AnyText]

LEMMA TakeTyped ==
    ASSUME NEW take \in AnyTake
    PROVE  TakeResult(take) \in Part /\ TakeResult(take).text = take.text
<1> DEFINE t == take.text
           end == TokenEnds(take.tokens)
           low == {k \in DOMAIN take.tokens : take.tokens[k].low /\ end[k] <= Len(t)}
           piece(k) == Trimmed(t, end[k - 1] .. end[k] - 1)
           heard == UNION {piece(k) : k \in low}
           found(p) == {k \in 0 .. Len(t) - Len(p) : Cut(t, k, k + Len(p)) = p}
           ps == {q \in take.phrases : q # <<>> /\ found(q) # {}}
           around == UNION {Around(t, k) : k \in heard \cap Letters(t)}
           phrase(p) == Min(found(p)) .. Min(found(p)) + Len(p) - 1
<1>1. t \in AnyText /\ take.phrases \subseteq AnyText /\ Len(t) \in Nat
  BY TextFacts DEF AnyTake
<1>2. LowOffsets(t, take.tokens) = heard \cup around
  BY DEF LowOffsets
<1>3. PhraseOffsets(t, take.phrases) = UNION {phrase(p) : p \in ps}
  BY DEF PhraseOffsets
<1>4. \A p \in ps : p \in take.phrases /\ found(p) # {}
  OBVIOUS
<1> HIDE DEF low, heard, ps, around, end
<1>5. heard \subseteq Offsets(t)
  <2>1. ASSUME NEW k \in low PROVE piece(k) \subseteq Offsets(t)
    <3>1. end[k - 1] .. end[k] - 1 \subseteq Int
      OBVIOUS
    <3> QED
      BY <1>1, <3>1, TrimmedOffsets
  <2> QED
    BY <2>1 DEF heard
<1>6. around \subseteq Offsets(t)
  BY DEF around, Around, Letters
<1>7. ASSUME NEW p \in ps PROVE phrase(p) \subseteq Offsets(t)
  <2>1. p \in AnyText /\ Len(p) \in Nat /\ found(p) # {} /\ found(p) \subseteq Nat
    BY <1>1, <1>4, TextFacts
  <2>2. \A k \in found(p) : k \in Nat /\ k + Len(p) <= Len(t)
    BY <1>1, <2>1
  <2> HIDE DEF found, t
  <2>3. Min(found(p)) \in found(p)
    BY <2>1, LeastOf
  <2>4. Min(found(p)) \in Nat /\ Min(found(p)) + Len(p) <= Len(t)
    BY <2>2, <2>3
  <2> QED
    BY <1>1, <2>1, <2>4 DEF Offsets
<1>8. TakeResult(take) = [text |-> t, doubts |-> LowOffsets(t, take.tokens)
                                        \cup PhraseOffsets(t, take.phrases)]
  BY DEF TakeResult
<1> HIDE DEF phrase, t, found
<1>9. UNION {phrase(p) : p \in ps} \subseteq Offsets(t)
  BY <1>7
<1>10. LowOffsets(t, take.tokens) \cup PhraseOffsets(t, take.phrases)
          \subseteq Offsets(t)
  BY <1>2, <1>3, <1>5, <1>6, <1>9
<1>11. TakeResult(take) \in Part
  BY <1>1, <1>8, <1>10, PartIs
<1> QED
  BY <1>8, <1>11 DEF t

-----------------------------------------------------------------------------
(* Alignments.                                                             *)

\* The parts of Alignment, by name.
Windows(p, s) == (0 .. Len(p)) \X (0 .. Len(p)) \X (0 .. Len(s)) \X (0 .. Len(s))
RunsIn(p, s, w) ==
    {r \in (w[1] .. w[2]) \X (w[3] .. w[4]) \X (1 .. Len(p)) :
        /\ r[1] + r[3] <= w[2] /\ r[2] + r[3] <= w[4]
        /\ \A k \in 1 .. r[3] : p[r[1] + k] = s[r[2] + k]}
BestOf(R) == CHOOSE r \in R : \A q \in R :
                \/ r[3] > q[3]
                \/ r[3] = q[3] /\ r[1] < q[1]
                \/ r[3] = q[3] /\ r[1] = q[1] /\ r[2] <= q[2]
RunOf(r) == {<<r[1] + k, r[2] + k>> : k \in 1 .. r[3]}
HeadOf(w, r) == <<w[1], r[1], w[3], r[2]>>
TailOf(w, r) == <<r[1] + r[3], w[2], r[2] + r[3], w[4]>>
AlignedIn(p, s, f, w) ==
    IF RunsIn(p, s, w) = {} THEN {}
    ELSE f[HeadOf(w, BestOf(RunsIn(p, s, w)))] \cup RunOf(BestOf(RunsIn(p, s, w)))
            \cup f[TailOf(w, BestOf(RunsIn(p, s, w)))]
Aligned(p, s, f) == [w \in Windows(p, s) |-> AlignedIn(p, s, f, w)]

LEMMA AlignmentChosen ==
    ASSUME NEW p, NEW s
    PROVE  Alignment(p, s) =
              (CHOOSE f : f = Aligned(p, s, f))[<<0, Len(p), 0, Len(s)>>]
BY DEF Alignment, Aligned, AlignedIn, Windows, RunsIn, BestOf, RunOf, HeadOf, TailOf

\* Of the runs in a window there is a best one.
LEMMA BestRun ==
    ASSUME NEW R, R \subseteq Nat \X Nat \X Nat, R # {}, NEW n \in Nat,
           \A r \in R : r[3] <= n
    PROVE  /\ BestOf(R) \in R
           /\ \A q \in R : \/ BestOf(R)[3] > q[3]
                           \/ BestOf(R)[3] = q[3] /\ BestOf(R)[1] < q[1]
                           \/ /\ BestOf(R)[3] = q[3] /\ BestOf(R)[1] = q[1]
                              /\ BestOf(R)[2] <= q[2]
<1> DEFINE A == {r[3] : r \in R}
           a == Max(A)
           B == {r[1] : r \in {q \in R : q[3] = a}}
           b == Min(B)
           C == {r[2] : r \in {q \in R : q[3] = a /\ q[1] = b}}
           c == Min(C)
<1>1. \A r \in R : r[1] \in Nat /\ r[2] \in Nat /\ r[3] \in Nat
  OBVIOUS
<1>2. A \subseteq Nat /\ A # {} /\ \A x \in A : x <= n
  BY <1>1
<1>3. \A r \in R : r[3] \in A
  OBVIOUS
<1>4. \A x \in A : \E r \in R : r[3] = x
  OBVIOUS
<1> HIDE DEF A
<1>5. a \in A /\ \A y \in A : a >= y
  BY <1>2, GreatestOf
<1> HIDE DEF a
<1>6. B \subseteq Nat /\ B # {}
  BY <1>1, <1>4, <1>5
<1>7. \A r \in R : r[3] = a => r[1] \in B
  OBVIOUS
<1>8. \A x \in B : \E r \in R : r[3] = a /\ r[1] = x
  OBVIOUS
<1> HIDE DEF B
<1>9. b \in B /\ \A y \in B : b <= y
  BY <1>6, LeastOf
<1> HIDE DEF b
<1>10. C \subseteq Nat /\ C # {}
  BY <1>1, <1>8, <1>9
<1>11. \A r \in R : r[3] = a /\ r[1] = b => r[2] \in C
  OBVIOUS
<1>12. \A x \in C : \E r \in R : r[3] = a /\ r[1] = b /\ r[2] = x
  OBVIOUS
<1> HIDE DEF C
<1>13. c \in C /\ \A y \in C : c <= y
  BY <1>10, LeastOf
<1> HIDE DEF c
<1>14. PICK r \in R : r[3] = a /\ r[1] = b /\ r[2] = c
  BY <1>12, <1>13
<1>15. ASSUME NEW q \in R
       PROVE  \/ r[3] > q[3]
              \/ r[3] = q[3] /\ r[1] < q[1]
              \/ r[3] = q[3] /\ r[1] = q[1] /\ r[2] <= q[2]
  <2>1. a >= q[3] /\ a \in Nat /\ q[3] \in Nat /\ q[1] \in Nat /\ q[2] \in Nat
    BY <1>1, <1>2, <1>3, <1>5
  <2>2. q[3] = a => b <= q[1] /\ b \in Nat
    BY <1>6, <1>7, <1>9
  <2>3. q[3] = a /\ q[1] = b => c <= q[2]
    BY <1>11, <1>13
  <2> QED
    BY <1>14, <2>1, <2>2, <2>3
<1> QED
  BY <1>15 DEF BestOf

LEMMA RunsFacts ==
    ASSUME NEW A, NEW p \in Seq(A), NEW s \in Seq(A), NEW w \in Windows(p, s),
           RunsIn(p, s, w) # {}, NEW r, r = BestOf(RunsIn(p, s, w))
    PROVE  /\ w[1] \in Nat /\ w[2] \in Nat /\ w[3] \in Nat /\ w[4] \in Nat
           /\ r[1] \in Nat /\ r[2] \in Nat /\ r[3] \in Nat \ {0}
           /\ w[1] <= r[1] /\ r[1] + r[3] <= w[2]
           /\ w[3] <= r[2] /\ r[2] + r[3] <= w[4]
           /\ w[2] <= Len(p) /\ w[4] <= Len(s)
           /\ \A k \in 1 .. r[3] : p[r[1] + k] = s[r[2] + k]
           /\ HeadOf(w, r) \in Windows(p, s) /\ TailOf(w, r) \in Windows(p, s)
           /\ \A q \in RunsIn(p, s, w) :
                \/ r[3] > q[3]
                \/ r[3] = q[3] /\ r[1] < q[1]
                \/ r[3] = q[3] /\ r[1] = q[1] /\ r[2] <= q[2]
<1> DEFINE R == RunsIn(p, s, w)
           m == Len(p)
           n == Len(s)
<1>1. m \in Nat /\ n \in Nat
  BY LenProperties
<1>2. /\ w[1] \in 0 .. m /\ w[2] \in 0 .. m /\ w[3] \in 0 .. n /\ w[4] \in 0 .. n
      /\ w = <<w[1], w[2], w[3], w[4]>>
  BY DEF Windows
<1> HIDE DEF m, n
<1>3. \A q \in R : /\ q[1] \in w[1] .. w[2] /\ q[2] \in w[3] .. w[4] /\ q[3] \in 1 .. m
                   /\ q \in (w[1] .. w[2]) \X (w[3] .. w[4]) \X (1 .. m)
                   /\ q[1] + q[3] <= w[2] /\ q[2] + q[3] <= w[4]
                   /\ \A k \in 1 .. q[3] : p[q[1] + k] = s[q[2] + k]
  BY DEF RunsIn, m
<1> HIDE DEF R
<1>4. R \subseteq Nat \X Nat \X Nat
  BY <1>1, <1>2, <1>3
<1>5. R # {} /\ \A q \in R : q[3] <= m
  BY <1>1, <1>3 DEF R
<1>6. /\ r \in R
      /\ \A q \in R : \/ r[3] > q[3]
                      \/ r[3] = q[3] /\ r[1] < q[1]
                      \/ r[3] = q[3] /\ r[1] = q[1] /\ r[2] <= q[2]
  <2>1. BestOf(R) = r
    BY DEF R
  <2>2. /\ BestOf(R) \in R
        /\ \A q \in R : \/ BestOf(R)[3] > q[3]
                        \/ BestOf(R)[3] = q[3] /\ BestOf(R)[1] < q[1]
                        \/ /\ BestOf(R)[3] = q[3] /\ BestOf(R)[1] = q[1]
                           /\ BestOf(R)[2] <= q[2]
    BY <1>1, <1>4, <1>5, BestRun
  <2> QED
    BY <2>1, <2>2
<1>7. /\ r[1] \in w[1] .. w[2] /\ r[2] \in w[3] .. w[4] /\ r[3] \in 1 .. m
      /\ r[1] + r[3] <= w[2] /\ r[2] + r[3] <= w[4]
      /\ \A k \in 1 .. r[3] : p[r[1] + k] = s[r[2] + k]
  BY <1>3, <1>6
<1>71. /\ w[1] \in Nat /\ w[2] \in Nat /\ w[3] \in Nat /\ w[4] \in Nat
       /\ w[2] <= m /\ w[4] <= n
       /\ r[1] \in Nat /\ r[2] \in Nat /\ r[3] \in Nat
  BY SMTT(30), <1>1, <1>2, <1>7
<1>8. HeadOf(w, r) \in Windows(p, s)
  <2>1. /\ w[1] \in 0 .. m /\ r[1] \in 0 .. m /\ w[3] \in 0 .. n /\ r[2] \in 0 .. n
    BY SMTT(30), <1>1, <1>2, <1>7
  <2> QED
    BY <2>1 DEF Windows, HeadOf, m, n
<1>9. TailOf(w, r) \in Windows(p, s)
  <2>1. /\ r[1] + r[3] \in 0 .. m /\ w[2] \in 0 .. m
        /\ r[2] + r[3] \in 0 .. n /\ w[4] \in 0 .. n
    <3>1. r[1] + r[3] <= w[2] /\ r[2] + r[3] <= w[4]
      BY <1>7
    <3>2. \A i, j, k, l \in Nat : i + j <= k /\ k <= l => i + j \in 0 .. l
      OBVIOUS
    <3>3. r[1] + r[3] \in 0 .. m
      BY <1>1, <1>71, <3>1, <3>2
    <3>4. r[2] + r[3] \in 0 .. n
      BY <1>1, <1>71, <3>1, <3>2
    <3> QED
      BY <1>2, <3>3, <3>4
  <2> QED
    BY <2>1 DEF Windows, TailOf, m, n
<1> QED
  BY SMTT(30), <1>1, <1>2, <1>6, <1>7, <1>8, <1>9 DEF R, m, n

LEMMA AlignedTyped ==
    ASSUME NEW A, NEW p \in Seq(A), NEW s \in Seq(A),
           NEW f \in [Windows(p, s) -> SUBSET (Nat \X Nat)]
    PROVE  Aligned(p, s, f) \in [Windows(p, s) -> SUBSET (Nat \X Nat)]
<1>1. ASSUME NEW w \in Windows(p, s)
      PROVE  AlignedIn(p, s, f, w) \in SUBSET (Nat \X Nat)
  <2>1. CASE RunsIn(p, s, w) = {}
    BY <2>1 DEF AlignedIn
  <2>2. CASE RunsIn(p, s, w) # {}
    <3> DEFINE r == BestOf(RunsIn(p, s, w))
    <3>1. /\ r[1] \in Nat /\ r[2] \in Nat /\ r[3] \in Nat \ {0}
          /\ HeadOf(w, r) \in Windows(p, s) /\ TailOf(w, r) \in Windows(p, s)
      BY <2>2, RunsFacts
    <3>2. AlignedIn(p, s, f, w) = f[HeadOf(w, r)] \cup RunOf(r) \cup f[TailOf(w, r)]
      BY <2>2 DEF AlignedIn
    <3> HIDE DEF r
    <3>3. RunOf(r) \subseteq Nat \X Nat
      BY <3>1 DEF RunOf
    <3>4. f[HeadOf(w, r)] \subseteq Nat \X Nat /\ f[TailOf(w, r)] \subseteq Nat \X Nat
      BY <3>1
    <3> QED
      BY <3>2, <3>3, <3>4
  <2> QED
    BY <2>1, <2>2
<1> QED
  BY <1>1 DEF Aligned

\* There is a function as Alignment defines it: a window smaller than m is the
\* same from the m-th approximation on.
LEMMA AlignmentFunction ==
    ASSUME NEW A, NEW p \in Seq(A), NEW s \in Seq(A)
    PROVE  \E f \in [Windows(p, s) -> SUBSET (Nat \X Nat)] : f = Aligned(p, s, f)
<1> DEFINE W == Windows(p, s)
           V == [W -> SUBSET (Nat \X Nat)]
           b == [w \in W |-> {}]
           n == Len(p) + 2
           step == [x \in V \X (1 .. n) |-> Aligned(p, s, x[1])]
<1>1. n \in Nat /\ Len(p) \in Nat
  BY LenProperties
<1>2. b \in V
  OBVIOUS
<1>3. \A g \in V : Aligned(p, s, g) \in V
  BY AlignedTyped
<1>4. \A g \in V, i \in 1 .. n : step[<<g, i>>] = Aligned(p, s, g)
  OBVIOUS
<1> HIDE DEF V
<1>5. step \in [V \X (1 .. n) -> V]
  BY <1>3
<1> HIDE DEF b, step, n
<1>6. PICK F \in [0 .. n -> V] : Recurs(F, n, b, step)
  BY <1>1, <1>2, <1>5, Recursion
<1>7. F[0] = b /\ \A i \in 1 .. n : F[i - 1] \in V /\ F[i] = Aligned(p, s, F[i - 1])
  <2>1. F[0] = b
    BY <1>1, <1>6 DEF Recurs
  <2>2. ASSUME NEW i \in 1 .. n
        PROVE  F[i - 1] \in V /\ F[i] = Aligned(p, s, F[i - 1])
    <3>1. i \in 0 .. n /\ i # 0 /\ i - 1 \in 0 .. n
      BY <1>1
    <3>2. F[i] = step[<<F[i - 1], i>>]
      BY <1>6, <3>1 DEF Recurs
    <3> QED
      BY <1>4, <1>6, <3>1, <3>2
  <2> QED
    BY <2>1, <2>2
<1> DEFINE k == Len(p) + 1
           P == {m \in 0 .. k : \A w \in W : w[2] - w[1] < m => F[m + 1][w] = F[m][w]}
<1>8. k \in Nat /\ n = k + 1
  BY <1>1 DEF n
<1> HIDE DEF k
<1>9. \A m \in 1 .. n, w \in W : F[m][w] = AlignedIn(p, s, F[m - 1], w)
  BY <1>7 DEF Aligned
<1>10. 0 \in P
  <2>1. ASSUME NEW w \in W, w[2] - w[1] < 0 PROVE F[0 + 1][w] = F[0][w]
    <3>1. RunsIn(p, s, w) = {}
      <4>1. ASSUME RunsIn(p, s, w) # {} PROVE FALSE
        <5> DEFINE r == BestOf(RunsIn(p, s, w))
        <5>1. /\ w[1] \in Nat /\ w[2] \in Nat /\ r[1] \in Nat /\ r[3] \in Nat
              /\ w[1] <= r[1] /\ r[1] + r[3] <= w[2]
          BY <4>1, RunsFacts
        <5> HIDE DEF r
        <5> QED
          BY <2>1, <5>1
      <4> QED
        BY <4>1
    <3>2. 1 \in 1 .. n /\ 0 + 1 = 1
      BY <1>8
    <3>3. F[1][w] = {}
      BY <1>9, <3>1, <3>2 DEF AlignedIn
    <3> QED
      BY <1>7, <3>2, <3>3 DEF b
  <2> QED
    BY <1>8, <2>1
<1>11. ASSUME NEW m \in 0 .. k, m < k, m \in P PROVE m + 1 \in P
  <2>1. \A w \in W : w[2] - w[1] < m => F[m + 1][w] = F[m][w]
    BY <1>11
  <2>2. /\ m + 1 \in 1 .. n /\ m + 1 + 1 \in 1 .. n /\ m + 1 \in 0 .. k
        /\ m + 1 - 1 = m /\ m + 1 + 1 - 1 = m + 1
    BY <1>8, <1>11
  <2>3. ASSUME NEW w \in W, w[2] - w[1] < m + 1
        PROVE  F[m + 1 + 1][w] = F[m + 1][w]
    <3>1. /\ F[m + 1 + 1][w] = AlignedIn(p, s, F[m + 1], w)
          /\ F[m + 1][w] = AlignedIn(p, s, F[m], w)
      BY <1>9, <2>2
    <3>2. CASE RunsIn(p, s, w) = {}
      BY <3>1, <3>2 DEF AlignedIn
    <3>3. CASE RunsIn(p, s, w) # {}
      <4> DEFINE r == BestOf(RunsIn(p, s, w))
      <4>1. /\ w[1] \in Nat /\ w[2] \in Nat /\ r[1] \in Nat /\ r[3] \in Nat \ {0}
            /\ w[1] <= r[1] /\ r[1] + r[3] <= w[2]
            /\ HeadOf(w, r) \in W /\ TailOf(w, r) \in W
        BY <3>3, RunsFacts
      <4>2. /\ F[m + 1 + 1][w] = F[m + 1][HeadOf(w, r)] \cup RunOf(r)
                                    \cup F[m + 1][TailOf(w, r)]
            /\ F[m + 1][w] = F[m][HeadOf(w, r)] \cup RunOf(r) \cup F[m][TailOf(w, r)]
        BY <3>1, <3>3 DEF AlignedIn
      <4>3. /\ HeadOf(w, r)[1] = w[1] /\ HeadOf(w, r)[2] = r[1]
            /\ TailOf(w, r)[1] = r[1] + r[3] /\ TailOf(w, r)[2] = w[2]
        BY DEF HeadOf, TailOf
      <4> HIDE DEF r
      <4>4. /\ HeadOf(w, r)[2] - HeadOf(w, r)[1] < m
            /\ TailOf(w, r)[2] - TailOf(w, r)[1] < m
        BY SMTT(30), <2>3, <4>1, <4>3
      <4> QED
        BY <2>1, <4>1, <4>2, <4>4
    <3> QED
      BY <3>2, <3>3
  <2> QED
    BY <2>2, <2>3
<1> HIDE DEF P
<1>12. k \in P
  <2>1. \A m \in 0 .. k : m \in P
    BY <1>8, <1>10, <1>11, UpTo
  <2> QED
    BY <1>8, <2>1
<1>13. ASSUME NEW w \in W PROVE F[n][w] = F[k][w]
  <2>1. w[1] \in 0 .. Len(p) /\ w[2] \in 0 .. Len(p)
    BY DEF Windows
  <2>2. w[2] - w[1] < k
    BY <1>1, <2>1 DEF k
  <2> QED
    BY <1>8, <1>12, <2>2 DEF P
<1>14. F[k] \in V /\ F[n] \in V
  BY <1>6, <1>8
<1>15. F[n] = F[k]
  BY <1>13, <1>14 DEF V
<1>16. F[n] = Aligned(p, s, F[k])
  <2>1. n \in 1 .. n /\ n - 1 = k
    BY <1>8
  <2> QED
    BY <1>7, <2>1
<1> QED
  BY <1>14, <1>15, <1>16 DEF V

\* What Alignment pairs: equal words, each of them once, in the order of both.
PairedIn(p, s, w, ms) ==
    /\ ms \subseteq Nat \X Nat
    /\ \A x \in ms : /\ w[1] < x[1] /\ x[1] <= w[2] /\ w[3] < x[2] /\ x[2] <= w[4]
                     /\ p[x[1]] = s[x[2]]
    /\ \A x, y \in ms : x[1] < y[1] <=> x[2] < y[2]

LEMMA AlignedPairs ==
    ASSUME NEW A, NEW p \in Seq(A), NEW s \in Seq(A), NEW f, f = Aligned(p, s, f)
    PROVE  \A w \in Windows(p, s) : PairedIn(p, s, w, f[w])
<1> DEFINE W == Windows(p, s)
           n == Len(p)
           P == {m \in 0 .. n : \A w \in W : w[2] - w[1] = m => PairedIn(p, s, w, f[w])}
<1>1. n \in Nat
  BY LenProperties
<1>2. \A w \in W : f[w] = AlignedIn(p, s, f, w)
  BY DEF Aligned
<1>3. ASSUME NEW w \in W, RunsIn(p, s, w) = {} PROVE PairedIn(p, s, w, f[w])
  BY <1>2, <1>3 DEF AlignedIn, PairedIn
<1>4. ASSUME NEW m \in 0 .. n, \A l \in 0 .. m - 1 : l \in P PROVE m \in P
  <2>1. ASSUME NEW w \in W, w[2] - w[1] = m, RunsIn(p, s, w) # {}
        PROVE  PairedIn(p, s, w, f[w])
    <3> DEFINE r == BestOf(RunsIn(p, s, w))
               b == HeadOf(w, r)
               a == TailOf(w, r)
    <3>1. /\ w[1] \in Nat /\ w[2] \in Nat /\ w[3] \in Nat /\ w[4] \in Nat
          /\ r[1] \in Nat /\ r[2] \in Nat /\ r[3] \in Nat \ {0}
          /\ w[1] <= r[1] /\ r[1] + r[3] <= w[2]
          /\ w[3] <= r[2] /\ r[2] + r[3] <= w[4]
          /\ \A k \in 1 .. r[3] : p[r[1] + k] = s[r[2] + k]
          /\ b \in W /\ a \in W
      BY <2>1, RunsFacts
    <3>2. f[w] = f[b] \cup RunOf(r) \cup f[a]
      BY <1>2, <2>1 DEF AlignedIn
    <3>3. /\ b[1] = w[1] /\ b[2] = r[1] /\ b[3] = w[3] /\ b[4] = r[2]
          /\ a[1] = r[1] + r[3] /\ a[2] = w[2] /\ a[3] = r[2] + r[3] /\ a[4] = w[4]
      BY DEF HeadOf, TailOf
    <3> HIDE DEF r, b, a
    <3> DEFINE w1 == w[1]
               w2 == w[2]
               w3 == w[3]
               w4 == w[4]
               r1 == r[1]
               r2 == r[2]
               r3 == r[3]
    <3>31. /\ w1 \in Nat /\ w2 \in Nat /\ w3 \in Nat /\ w4 \in Nat
           /\ r1 \in Nat /\ r2 \in Nat /\ r3 \in Nat \ {0}
           /\ w1 <= r1 /\ r1 + r3 <= w2 /\ w3 <= r2 /\ r2 + r3 <= w4
           /\ w2 - w1 = m
      BY <2>1, <3>1
    <3>32. /\ b[1] = w1 /\ b[2] = r1 /\ b[3] = w3 /\ b[4] = r2
           /\ a[1] = r1 + r3 /\ a[2] = w2 /\ a[3] = r2 + r3 /\ a[4] = w4
      BY <3>3
    <3> HIDE DEF w1, w2, w3, w4, r1, r2, r3
    <3>4. b[2] - b[1] \in 0 .. m - 1 /\ a[2] - a[1] \in 0 .. m - 1
      BY <3>31, <3>32
    <3>5. PairedIn(p, s, b, f[b]) /\ PairedIn(p, s, a, f[a])
      BY <1>4, <3>1, <3>4
    <3>6. /\ RunOf(r) \subseteq Nat \X Nat
          /\ \A x \in RunOf(r) : /\ r1 < x[1] /\ x[1] <= r1 + r3
                                 /\ r2 < x[2] /\ x[2] <= r2 + r3
                                 /\ p[x[1]] = s[x[2]]
                                 /\ x[1] - r1 = x[2] - r2
      <4>1. ASSUME NEW x \in RunOf(r)
            PROVE  /\ x \in Nat \X Nat
                   /\ r1 < x[1] /\ x[1] <= r1 + r3
                   /\ r2 < x[2] /\ x[2] <= r2 + r3
                   /\ p[x[1]] = s[x[2]]
                   /\ x[1] - r1 = x[2] - r2
        <5>1. PICK k \in 1 .. r3 : x = <<r1 + k, r2 + k>>
          BY DEF RunOf, r1, r2, r3
        <5>12. p[r1 + k] = s[r2 + k]
          BY <3>1, <5>1 DEF r1, r2, r3
        <5>2. x[1] = r1 + k /\ x[2] = r2 + k
          BY <5>1
        <5> QED
          BY <3>31, <5>1, <5>12, <5>2
      <4> QED
        BY <4>1
    <3>7. /\ f[b] \subseteq Nat \X Nat
          /\ \A x \in f[b] : /\ w1 < x[1] /\ x[1] <= r1
                             /\ w3 < x[2] /\ x[2] <= r2
                             /\ p[x[1]] = s[x[2]]
          /\ \A x, y \in f[b] : x[1] < y[1] <=> x[2] < y[2]
      BY <3>32, <3>5 DEF PairedIn
    <3>8. /\ f[a] \subseteq Nat \X Nat
          /\ \A x \in f[a] : /\ r1 + r3 < x[1] /\ x[1] <= w2
                             /\ r2 + r3 < x[2] /\ x[2] <= w4
                             /\ p[x[1]] = s[x[2]]
          /\ \A x, y \in f[a] : x[1] < y[1] <=> x[2] < y[2]
      BY <3>32, <3>5 DEF PairedIn
    <3>9. f[w] \subseteq Nat \X Nat /\ \A x \in f[w] : x[1] \in Nat /\ x[2] \in Nat
      BY <3>2, <3>6, <3>7, <3>8
    <3>10. ASSUME NEW x \in f[w]
           PROVE  /\ w1 < x[1] /\ x[1] <= w2 /\ w3 < x[2] /\ x[2] <= w4
                  /\ p[x[1]] = s[x[2]]
      <4>1. x[1] \in Nat /\ x[2] \in Nat
        BY <3>9
      <4>2. CASE x \in f[b]
        BY <3>31, <3>7, <4>1, <4>2
      <4>3. CASE x \in RunOf(r)
        BY <3>31, <3>6, <4>1, <4>3
      <4>4. CASE x \in f[a]
        BY <3>31, <3>8, <4>1, <4>4
      <4> QED
        BY <3>2, <4>2, <4>3, <4>4
    <3>11. ASSUME NEW x \in f[w], NEW y \in f[w] PROVE x[1] < y[1] <=> x[2] < y[2]
      <4>1. x[1] \in Nat /\ x[2] \in Nat /\ y[1] \in Nat /\ y[2] \in Nat
        BY <3>9
      <4>2. CASE x \in f[b]
        <5>1. x[1] <= r1 /\ x[2] <= r2
          BY <3>7, <4>2
        <5>2. CASE y \in f[b]
          BY <3>7, <4>2, <5>2
        <5>3. CASE y \in RunOf(r)
          BY <3>31, <3>6, <4>1, <5>1, <5>3
        <5>4. CASE y \in f[a]
          BY <3>31, <3>8, <4>1, <5>1, <5>4
        <5> QED
          BY <3>2, <5>2, <5>3, <5>4
      <4>3. CASE x \in RunOf(r)
        <5>1. /\ r1 < x[1] /\ x[1] <= r1 + r3
              /\ r2 < x[2] /\ x[2] <= r2 + r3
              /\ x[1] - r1 = x[2] - r2
          BY <3>6, <4>3
        <5>2. CASE y \in f[b]
          BY SMTT(30), <3>31, <3>7, <4>1, <5>1, <5>2
        <5>3. CASE y \in RunOf(r)
          BY <3>31, <3>6, <4>1, <5>1, <5>3
        <5>4. CASE y \in f[a]
          BY SMTT(30), <3>31, <3>8, <4>1, <5>1, <5>4
        <5> QED
          BY <3>2, <5>2, <5>3, <5>4
      <4>4. CASE x \in f[a]
        <5>1. r1 + r3 < x[1] /\ r2 + r3 < x[2]
          BY <3>8, <4>4
        <5>2. CASE y \in f[b]
          BY <3>31, <3>7, <4>1, <5>1, <5>2
        <5>3. CASE y \in RunOf(r)
          BY <3>31, <3>6, <4>1, <5>1, <5>3
        <5>4. CASE y \in f[a]
          BY <3>8, <4>4, <5>4
        <5> QED
          BY <3>2, <5>2, <5>3, <5>4
      <4> QED
        BY <3>2, <4>2, <4>3, <4>4
    <3> QED
      BY <3>9, <3>10, <3>11 DEF PairedIn, w1, w2, w3, w4
  <2> QED
    BY <1>3, <2>1
<1> HIDE DEF P
<1>5. \A m \in 0 .. n : m \in P
  BY <1>1, <1>4, UpToAll
<1>6. ASSUME NEW w \in W, RunsIn(p, s, w) # {} PROVE PairedIn(p, s, w, f[w])
  <2> DEFINE r == BestOf(RunsIn(p, s, w))
  <2>1. /\ w[1] \in Nat /\ w[2] \in Nat /\ r[1] \in Nat /\ r[3] \in Nat
        /\ w[1] <= r[1] /\ r[1] + r[3] <= w[2] /\ w[2] <= Len(p)
    BY <1>6, RunsFacts
  <2> HIDE DEF r
  <2>2. w[2] - w[1] \in 0 .. n
    BY <1>1, <2>1
  <2> QED
    BY <1>5, <2>2 DEF P
<1> QED
  BY <1>3, <1>6

LEMMA AlignmentFacts ==
    ASSUME NEW A, NEW p \in Seq(A), NEW s \in Seq(A)
    PROVE  /\ PairedIn(p, s, <<0, Len(p), 0, Len(s)>>, Alignment(p, s))
           /\ \E f : /\ f = Aligned(p, s, f)
                     /\ Alignment(p, s) = f[<<0, Len(p), 0, Len(s)>>]
<1> DEFINE f == CHOOSE f : f = Aligned(p, s, f)
           w == <<0, Len(p), 0, Len(s)>>
<1>1. \E g : g = Aligned(p, s, g)
  BY AlignmentFunction
<1>2. f = Aligned(p, s, f)
  BY <1>1
<1>3. Alignment(p, s) = f[w]
  BY AlignmentChosen
<1>4. w \in Windows(p, s)
  <2>1. Len(p) \in Nat /\ Len(s) \in Nat
    BY LenProperties
  <2> QED
    BY <2>1 DEF Windows
<1> HIDE DEF f, w
<1>5. PairedIn(p, s, w, f[w])
  BY <1>2, <1>4, AlignedPairs
<1> QED
  BY <1>2, <1>3, <1>5 DEF w

-----------------------------------------------------------------------------
(* Two readings of a page.                                                 *)

LEMMA ExtendedTyped ==
    ASSUME NEW out \in Part, NEW t \in AnyText, NEW D, D \subseteq Offsets(t)
    PROVE  /\ Extended(out, t, D) \in Part
           /\ Extended(out, t, D).text = out.text \o t
           /\ Extended(out, t, D).doubts =
                 out.doubts \cup {Len(out.text) + k : k \in D}
<1> DEFINE u == out.text
           both == out.doubts \cup {Len(u) + k : k \in D}
<1>1. /\ u \in AnyText /\ Len(u) \in Nat /\ Len(t) \in Nat
      /\ out.doubts \subseteq Offsets(u)
  BY PartFacts, TextFacts
<1>2. u \o t \in AnyText /\ Len(u \o t) = Len(u) + Len(t)
  BY <1>1, JoinFacts
<1>3. Extended(out, t, D) = [text |-> u \o t, doubts |-> both]
  BY DEF Extended
<1>4. both \subseteq Offsets(u \o t)
  <2>1. out.doubts \subseteq Offsets(u \o t)
    BY <1>1, <1>2 DEF Offsets
  <2>2. \A k \in D : Len(u) + k \in Offsets(u \o t)
    BY <1>1, <1>2 DEF Offsets
  <2> QED
    BY <2>1, <2>2
<1> HIDE DEF u, both
<1>5. [text |-> u \o t, doubts |-> both] \in Part
  BY <1>2, <1>4, PartIs
<1> QED
  BY <1>3, <1>5 DEF u, both

\* The words that are paired, in order.
Firsts(both) == Sorted({m[1] : m \in both})
PairingOf(both) ==
    [n \in DOMAIN Firsts(both) |-> CHOOSE m \in both : m[1] = Firsts(both)[n]]

Pairing(ms, m, n) ==
    /\ ms \in Seq(Nat \X Nat) /\ Len(ms) \in Nat
    /\ \A k \in 1 .. Len(ms) : ms[k][1] \in 1 .. m /\ ms[k][2] \in 1 .. n
    /\ \A k, l \in 1 .. Len(ms) : k < l => ms[k][1] < ms[l][1] /\ ms[k][2] < ms[l][2]

LEMMA PairingFacts ==
    ASSUME NEW p, NEW s, Len(p) \in Nat, Len(s) \in Nat, NEW both,
           PairedIn(p, s, <<0, Len(p), 0, Len(s)>>, both)
    PROVE  /\ Pairing(PairingOf(both), Len(p), Len(s))
           /\ \A n \in 1 .. Len(PairingOf(both)) : PairingOf(both)[n] \in both
           /\ \A m \in both : \E n \in 1 .. Len(PairingOf(both)) : PairingOf(both)[n] = m
<1> DEFINE S == {m[1] : m \in both}
           is == Firsts(both)
           ms == PairingOf(both)
           n == Cardinality(S)
<1>1. /\ both \subseteq Nat \X Nat
      /\ \A x \in both : x[1] \in 1 .. Len(p) /\ x[2] \in 1 .. Len(s)
      /\ \A x, y \in both : x[1] < y[1] <=> x[2] < y[2]
  <2>1. /\ both \subseteq Nat \X Nat
        /\ \A x \in both : 0 < x[1] /\ x[1] <= Len(p) /\ 0 < x[2] /\ x[2] <= Len(s)
        /\ \A x, y \in both : x[1] < y[1] <=> x[2] < y[2]
    BY DEF PairedIn
  <2> QED
    BY <2>1
<1>2. \A m \in both : m[1] \in S
  OBVIOUS
<1>3. \A x \in S : \E m \in both : m[1] = x
  OBVIOUS
<1>4. S \in SUBSET (1 .. Len(p))
  BY <1>1
<1>5. is = Sorted(S)
  BY DEF Firsts
<1>6. ms = [i \in DOMAIN is |-> CHOOSE m \in both : m[1] = is[i]]
  BY DEF PairingOf
<1> HIDE DEF S, is, ms, n
<1>7. Ascends(is, S, n)
  <2>1. IsFiniteSet(1 .. Len(p))
    BY FS_Interval
  <2>2. IsFiniteSet(S)
    BY <1>4, <2>1, FS_Subset
  <2>3. S \subseteq Int
    BY <1>4
  <2> QED
    BY <1>5, <2>2, <2>3, SortedAscends DEF n
<1>8. /\ n \in Nat /\ is \in [1 .. n -> S]
      /\ \A x \in S : \E i \in 1 .. n : is[i] = x
      /\ \A i, j \in 1 .. n : i < j => is[i] < is[j]
  BY <1>7 DEF Ascends
<1>9. ASSUME NEW i \in 1 .. n PROVE ms[i] \in both /\ ms[i][1] = is[i]
  <2>1. is[i] \in S
    BY <1>8
  <2>2. \E m \in both : m[1] = is[i]
    BY <1>3, <2>1
  <2>3. ms[i] = CHOOSE m \in both : m[1] = is[i]
    BY <1>6, <1>8
  <2> QED
    BY <2>2, <2>3
<1>10. ms = [i \in 1 .. n |-> ms[i]]
  BY <1>6, <1>8
<1>11. ms \in [1 .. n -> both]
  BY <1>9, <1>10
<1>12. ms \in [1 .. n -> Nat \X Nat]
  BY <1>1, <1>11
<1>13. ms \in Seq(Nat \X Nat) /\ Len(ms) = n
  BY <1>8, <1>12, FunctionSeq
<1>14. \A k \in 1 .. n : ms[k][1] \in 1 .. Len(p) /\ ms[k][2] \in 1 .. Len(s)
  BY <1>1, <1>9
<1>15. \A k, l \in 1 .. n : k < l => ms[k][1] < ms[l][1] /\ ms[k][2] < ms[l][2]
  <2> TAKE k, l \in 1 .. n
  <2> HAVE k < l
  <2>1. ms[k] \in both /\ ms[l] \in both /\ ms[k][1] < ms[l][1]
    BY <1>8, <1>9
  <2> QED
    BY <1>1, <2>1
<1>16. ASSUME NEW m \in both PROVE \E k \in 1 .. n : ms[k] = m
  <2>1. PICK k \in 1 .. n : is[k] = m[1]
    BY <1>2, <1>8
  <2>2. ms[k] \in both /\ ms[k][1] = m[1]
    BY <1>9, <2>1
  <2>3. ms[k][2] = m[2]
    <3>1. ~(ms[k][2] < m[2]) /\ ~(m[2] < ms[k][2])
      BY <1>1, <2>2
    <3>2. ms[k][2] \in Nat /\ m[2] \in Nat
      BY <1>1, <2>2
    <3> QED
      BY <3>1, <3>2
  <2>4. ms[k] \in Nat \X Nat /\ m \in Nat \X Nat
    BY <1>1, <2>2
  <2>5. ms[k] = m
    BY <2>2, <2>3, <2>4
  <2> QED
    BY <2>5
<1> QED
  BY <1>8, <1>9, <1>13, <1>14, <1>15, <1>16 DEF Pairing, ms

\* The parts of Reconciled, by name.
Place(ms, n) == IF n = 0 THEN <<0, 0>> ELSE ms[n]
Consumed(t, i) == IF i = 0 THEN 0 ELSE Words(t)[i][2]
Gap(out, pri, sec, i1, i2, j1, j2) ==
    Disagreement(out, Consumed(pri.text, i1), pri, sec, i1, i2, j1, j2)
Widened(pri, sec, ms, out, n) ==
    Gap(out, pri, sec, Place(ms, n - 1)[1], ms[n][1] - 1,
        Place(ms, n - 1)[2], ms[n][2] - 1)
Rejoined(pri, sec, ms, out, n) ==
    Agreement(Widened(pri, sec, ms, out, n), Consumed(pri.text, ms[n][1] - 1),
              pri, sec, ms[n][1], ms[n][2])
RejoinedBy(f, pri, sec, ms) ==
    f = [n \in 0 .. Len(ms) |->
            IF n = 0 THEN Sure(<<>>) ELSE Rejoined(pri, sec, ms, f[n - 1], n)]
BodyOf(pri, sec, ms, f) ==
    Gap(f[Len(ms)], pri, sec, Place(ms, Len(ms))[1], Len(Words(pri.text)),
        Place(ms, Len(ms))[2], Len(Words(sec.text)))
PairsOf(pri, sec) == PairingOf(Alignment(WordsOf(pri.text), WordsOf(sec.text)))

LEMMA ReconciledChosen ==
    ASSUME NEW pri, NEW sec, Words(pri.text) # <<>>
    PROVE  Reconciled(pri, sec) =
              Extended(BodyOf(pri, sec, PairsOf(pri, sec),
                              CHOOSE f : RejoinedBy(f, pri, sec, PairsOf(pri, sec))),
                       Cut(pri.text, Consumed(pri.text, Len(Words(pri.text))),
                           Len(pri.text)), {})
BY DEF Reconciled, BodyOf, RejoinedBy, Rejoined, Widened, Gap, Consumed, Place,
       PairsOf, PairingOf, Firsts

LEMMA ReconciledBlank ==
    ASSUME NEW pri, NEW sec, Words(pri.text) = <<>>
    PROVE  Reconciled(pri, sec) = pri
BY DEF Reconciled

\* The words of a text, as offsets.
LEMMA WordOffsets ==
    ASSUME NEW t \in AnyText
    PROVE  /\ Len(t) \in Nat /\ Len(Words(t)) \in Nat
           /\ \A i \in 1 .. Len(Words(t)) :
                /\ IsWord(t, Words(t)[i][1], Words(t)[i][2])
                /\ Words(t)[i][1] \in Nat /\ Words(t)[i][2] \in Nat
                /\ Words(t)[i][1] < Words(t)[i][2] /\ Words(t)[i][2] <= Len(t)
                /\ Consumed(t, i) = Words(t)[i][2]
                /\ Consumed(t, i - 1) \in Nat /\ Consumed(t, i - 1) <= Words(t)[i][1]
           /\ \A i, j \in 1 .. Len(Words(t)) : i < j => Words(t)[i][2] < Words(t)[j][1]
           /\ \A i \in 0 .. Len(Words(t)) : Consumed(t, i) \in Nat
                                            /\ Consumed(t, i) <= Len(t)
<1> DEFINE ws == Words(t)
           n == Len(ws)
<1>1. /\ n \in Nat
      /\ \A i \in 1 .. n : IsWord(t, ws[i][1], ws[i][2])
      /\ \A i, j \in 1 .. n : i < j => ws[i][2] < ws[j][1]
  BY WordsListed DEF ListsWords
<1>2. Len(t) \in Nat
  BY TextFacts
<1> HIDE DEF n, ws
<1>3. \A i \in 1 .. n : /\ ws[i][1] \in Nat /\ ws[i][2] \in Nat
                        /\ ws[i][1] < ws[i][2] /\ ws[i][2] <= Len(t)
  BY <1>1 DEF IsWord
<1>4. \A i \in 1 .. n : Consumed(t, i) = ws[i][2]
  BY DEF Consumed, ws
<1>5. Consumed(t, 0) = 0
  BY DEF Consumed
<1>6. \A i \in 0 .. n : Consumed(t, i) \in Nat /\ Consumed(t, i) <= Len(t)
  <2> TAKE i \in 0 .. n
  <2>1. CASE i = 0
    BY <1>2, <1>5, <2>1
  <2>2. CASE i # 0
    <3>1. i \in 1 .. n
      BY <1>1, <2>2
    <3> QED
      BY <1>3, <1>4, <3>1
  <2> QED
    BY <2>1, <2>2
<1>7. \A i \in 1 .. n : Consumed(t, i - 1) \in Nat /\ Consumed(t, i - 1) <= ws[i][1]
  <2> TAKE i \in 1 .. n
  <2>1. CASE i = 1
    BY <1>3, <1>5, <2>1
  <2>2. CASE i # 1
    <3>1. i - 1 \in 1 .. n /\ i - 1 < i
      BY <1>1, <2>2
    <3>2. Consumed(t, i - 1) = ws[i - 1][2] /\ ws[i - 1][2] < ws[i][1]
      BY <1>1, <1>4, <3>1
    <3>3. ws[i - 1][2] \in Nat /\ ws[i][1] \in Nat
      BY <1>3, <3>1
    <3> QED
      BY <3>2, <3>3
  <2> QED
    BY <2>1, <2>2
<1> QED
  BY <1>1, <1>2, <1>3, <1>4, <1>6, <1>7 DEF n, ws

LEMMA GapTyped ==
    ASSUME NEW pri \in Part, NEW sec \in Part, NEW out \in Part,
           NEW i1 \in Nat, NEW i2 \in Int, i2 <= Len(Words(pri.text)),
           NEW j1 \in Nat, NEW j2 \in Int, j2 <= Len(Words(sec.text))
    PROVE  Gap(out, pri, sec, i1, i2, j1, j2) \in Part
<1> DEFINE pw == Words(pri.text)
           sw == Words(sec.text)
           cursor == Consumed(pri.text, i1)
           start == pw[i1 + 1][1]
           end == pw[i2][2]
           read == j1 < j2
           secStart == sw[j1 + 1][1]
           secEnd == sw[j2][2]
           unsure == pri.doubts \cap start .. end - 1 # {}
           secUnsure == read /\ sec.doubts \cap secStart .. secEnd - 1 # {}
           space == Cut(pri.text, cursor, start)
           spaced == Extended(out, space, {})
           mine == Cut(pri.text, start, end)
           theirs == Cut(sec.text, secStart, secEnd)
<1>1. CASE i1 >= i2
  BY <1>1 DEF Gap, Disagreement
<1>2. CASE ~(i1 >= i2)
  <2>1. i1 + 1 \in 1 .. Len(pw) /\ i2 \in 1 .. Len(pw) /\ i1 + 1 <= i2 /\ i1 + 1 - 1 = i1
    BY <1>2, PartFacts, WordOffsets
  <2>2. pri.text \in AnyText /\ sec.text \in AnyText
    BY PartFacts
  <2>3. /\ start \in Nat /\ end \in Nat /\ cursor \in Nat
        /\ cursor <= start /\ start < end /\ end <= Len(pri.text)
        /\ Len(pri.text) \in Nat
    <3>1. /\ pw[i1 + 1][1] \in Nat /\ pw[i1 + 1][2] \in Nat
          /\ pw[i1 + 1][1] < pw[i1 + 1][2]
          /\ Consumed(pri.text, i1 + 1 - 1) \in Nat
          /\ Consumed(pri.text, i1 + 1 - 1) <= pw[i1 + 1][1]
      BY SMTT(30), <2>1, <2>2, WordOffsets
    <3>2. pw[i2][1] \in Nat /\ pw[i2][2] \in Nat /\ pw[i2][2] <= Len(pri.text)
          /\ Len(pri.text) \in Nat /\ pw[i2][1] < pw[i2][2]
      BY <2>1, <2>2, WordOffsets
    <3>3. CASE i1 + 1 = i2
      BY <2>1, <3>1, <3>2, <3>3
    <3>4. CASE i1 + 1 < i2
      <4>1. pw[i1 + 1][2] < pw[i2][1]
        BY <2>1, <2>2, <3>4, WordOffsets
      <4> QED
        BY SMTT(30), <2>1, <3>1, <3>2, <4>1
    <3> QED
      BY <2>1, <3>3, <3>4
  <2>4. space \in AnyText /\ mine \in AnyText
    <3> HIDE DEF start, end, cursor
    <3>1. space \in AnyText
      BY <2>2, <2>3, CutFacts
    <3>2. mine \in AnyText
      BY <2>2, <2>3, CutFacts
    <3> QED
      BY <3>1, <3>2
  <2>5. ASSUME read PROVE theirs \in AnyText
    <3>1. j1 + 1 \in 1 .. Len(sw) /\ j2 \in 1 .. Len(sw) /\ j1 + 1 <= j2
      BY <2>2, <2>5, WordOffsets
    <3>2. /\ sw[j1 + 1][1] \in Nat /\ sw[j1 + 1][2] \in Nat
          /\ sw[j1 + 1][1] < sw[j1 + 1][2]
      BY <2>2, <3>1, WordOffsets
    <3>3. /\ sw[j2][1] \in Nat /\ sw[j2][2] \in Nat /\ sw[j2][2] <= Len(sec.text)
          /\ sw[j2][1] < sw[j2][2]
      BY <2>2, <3>1, WordOffsets
    <3>4. secStart \in Nat /\ secEnd \in Nat /\ secStart < secEnd
          /\ secEnd <= Len(sec.text)
      <4>1. CASE j1 + 1 = j2
        BY <3>2, <3>3, <4>1
      <4>2. CASE j1 + 1 < j2
        <5>1. sw[j1 + 1][2] < sw[j2][1]
          BY <2>2, <3>1, <4>2, WordOffsets
        <5> QED
          BY SMTT(30), <3>2, <3>3, <5>1
      <4> QED
        BY <3>1, <4>1, <4>2
    <3> HIDE DEF secStart, secEnd
    <3> QED
      BY <2>2, <3>4, CutFacts
  <2> HIDE DEF space, mine, theirs
  <2>6. spaced \in Part
    BY <2>4, ExtendedTyped
  <2>7. Gap(out, pri, sec, i1, i2, j1, j2) =
           IF unsure /\ ~secUnsure /\ read
           THEN Extended(spaced, theirs, Offsets(theirs))
           ELSE IF unsure \/ secUnsure THEN Extended(spaced, mine, Offsets(mine))
           ELSE Extended(spaced, mine, {})
    BY <1>2 DEF Gap, Disagreement, space, mine, theirs
  <2> HIDE DEF spaced, unsure, secUnsure, read
  <2>8. ASSUME read PROVE Extended(spaced, theirs, Offsets(theirs)) \in Part
    BY <2>5, <2>6, <2>8, ExtendedTyped
  <2>9. Extended(spaced, mine, Offsets(mine)) \in Part
    BY <2>4, <2>6, ExtendedTyped
  <2>10. Extended(spaced, mine, {}) \in Part
    BY <2>4, <2>6, ExtendedTyped
  <2> QED
    BY <2>7, <2>8, <2>9, <2>10
<1> QED
  BY <1>1, <1>2

LEMMA AgreementTyped ==
    ASSUME NEW pri \in Part, NEW sec \in Part, NEW out \in Part,
           NEW i \in 1 .. Len(Words(pri.text)), NEW j
    PROVE  Agreement(out, Consumed(pri.text, i - 1), pri, sec, i, j) \in Part
<1> DEFINE p == Words(pri.text)[i]
           s == Words(sec.text)[j]
           cursor == Consumed(pri.text, i - 1)
           carried == {k - cursor : k \in pri.doubts \cap cursor .. p[2] - 1}
           whole == IF sec.doubts \cap s[1] .. s[2] - 1 = {} THEN {}
                    ELSE p[1] - cursor .. p[2] - 1 - cursor
           t == Cut(pri.text, cursor, p[2])
<1>1. pri.text \in AnyText /\ pri.doubts \subseteq Nat
  BY PartFacts
<1>2. /\ p[1] \in Nat /\ p[2] \in Nat /\ p[1] < p[2] /\ p[2] <= Len(pri.text)
      /\ cursor \in Nat /\ cursor <= p[1]
  BY <1>1, WordOffsets
<1>3. Agreement(out, cursor, pri, sec, i, j) = Extended(out, t, carried \cup whole)
  BY DEF Agreement
<1> HIDE DEF p, cursor, s
<1>4. t \in AnyText /\ Len(t) = p[2] - cursor
  <2>1. cursor <= p[2]
    BY <1>2
  <2> QED
    BY <1>1, <1>2, <2>1, CutFacts
<1>5. carried \subseteq Offsets(t)
  BY <1>1, <1>2, <1>4 DEF Offsets
<1>6. whole \subseteq Offsets(t)
  BY <1>2, <1>4 DEF Offsets
<1> HIDE DEF carried, whole, t
<1>7. Extended(out, t, carried \cup whole) \in Part
  BY <1>4, <1>5, <1>6, ExtendedTyped
<1> QED
  BY <1>3, <1>7 DEF cursor

LEMMA NothingYet == <<>> \in AnyText /\ Sure(<<>>) \in Part
<1>1. <<>> \in AnyText
  BY EmptySeq DEF AnyText
<1> QED
  BY <1>1, PartIs DEF Sure

LEMMA RejoinedTyped ==
    ASSUME NEW pri \in Part, NEW sec \in Part, NEW ms,
           Pairing(ms, Len(Words(pri.text)), Len(Words(sec.text))),
           NEW out \in Part, NEW n \in 1 .. Len(ms)
    PROVE  /\ Widened(pri, sec, ms, out, n) \in Part
           /\ Rejoined(pri, sec, ms, out, n) \in Part
           /\ Place(ms, n - 1)[1] \in Nat /\ Place(ms, n - 1)[2] \in Nat
           /\ Place(ms, n - 1)[1] < ms[n][1] /\ Place(ms, n - 1)[2] < ms[n][2]
<1> DEFINE pn == Len(Words(pri.text))
           sn == Len(Words(sec.text))
           b == Place(ms, n - 1)
           m == ms[n]
<1>1. /\ Len(ms) \in Nat
      /\ \A k \in 1 .. Len(ms) : ms[k][1] \in 1 .. pn /\ ms[k][2] \in 1 .. sn
      /\ \A k, l \in 1 .. Len(ms) : k < l => ms[k][1] < ms[l][1] /\ ms[k][2] < ms[l][2]
  BY DEF Pairing
<1>2. pn \in Nat /\ sn \in Nat
  BY PartFacts, WordOffsets
<1> HIDE DEF pn, sn
<1>3. m[1] \in 1 .. pn /\ m[2] \in 1 .. sn
  BY <1>1
<1>4. b[1] \in Nat /\ b[2] \in Nat /\ b[1] < m[1] /\ b[2] < m[2]
  <2>1. CASE n = 1
    <3>1. b = <<0, 0>>
      BY <2>1 DEF Place
    <3> QED
      BY <1>3, <3>1
  <2>2. CASE n # 1
    <3>1. n - 1 \in 1 .. Len(ms) /\ n - 1 < n
      BY <1>1, <2>2
    <3>2. b = ms[n - 1]
      BY <3>1 DEF Place
    <3> HIDE DEF m, b
    <3>3. b[1] < m[1] /\ b[2] < m[2]
      BY <1>1, <3>1, <3>2 DEF m
    <3>4. b[1] \in 1 .. pn /\ b[2] \in 1 .. sn
      BY <1>1, <3>1, <3>2
    <3> QED
      BY <3>3, <3>4
  <2> QED
    BY <2>1, <2>2
<1> HIDE DEF b, m
<1>5. m[1] - 1 \in Int /\ m[1] - 1 <= pn /\ m[2] - 1 \in Int /\ m[2] - 1 <= sn
  BY <1>2, <1>3
<1>6. Widened(pri, sec, ms, out, n) = Gap(out, pri, sec, b[1], m[1] - 1, b[2], m[2] - 1)
  BY DEF Widened, b, m
<1>7. Widened(pri, sec, ms, out, n) \in Part
  <2> DEFINE i == m[1] - 1
             j == m[2] - 1
  <2>1. i \in Int /\ i <= Len(Words(pri.text)) /\ j \in Int /\ j <= Len(Words(sec.text))
    BY <1>5 DEF pn, sn
  <2> HIDE DEF i, j
  <2>2. Gap(out, pri, sec, b[1], i, b[2], j) \in Part
    BY <1>4, <2>1, GapTyped
  <2> QED
    BY <1>6, <2>2 DEF i, j
<1>8. Rejoined(pri, sec, ms, out, n) =
         Agreement(Widened(pri, sec, ms, out, n), Consumed(pri.text, m[1] - 1),
                   pri, sec, m[1], m[2])
  BY DEF Rejoined, m
<1>9. Rejoined(pri, sec, ms, out, n) \in Part
  BY <1>3, <1>7, <1>8, AgreementTyped DEF pn
<1> QED
  BY <1>4, <1>7, <1>9 DEF b, m

LEMMA RejoinedFunction ==
    ASSUME NEW pri \in Part, NEW sec \in Part, NEW ms,
           Pairing(ms, Len(Words(pri.text)), Len(Words(sec.text))),
           NEW f, f = CHOOSE g : RejoinedBy(g, pri, sec, ms)
    PROVE  /\ RejoinedBy(f, pri, sec, ms)
           /\ f[0] = Sure(<<>>)
           /\ \A i \in 1 .. Len(ms) : f[i] = Rejoined(pri, sec, ms, f[i - 1], i)
           /\ \A i \in 0 .. Len(ms) : f[i] \in Part
<1> DEFINE n == Len(ms)
           step == [x \in Part \X (1 .. n) |-> Rejoined(pri, sec, ms, x[1], x[2])]
<1>1. n \in Nat
  BY DEF Pairing
<1>2. \A r \in Part, i \in 1 .. n : Rejoined(pri, sec, ms, r, i) \in Part
  BY RejoinedTyped
<1>3. \A r \in Part, i \in 1 .. n : step[<<r, i>>] = Rejoined(pri, sec, ms, r, i)
  OBVIOUS
<1>4. step \in [Part \X (1 .. n) -> Part]
  BY <1>2
<1> HIDE DEF step, n
<1>5. PICK g \in [0 .. n -> Part] : Recurs(g, n, Sure(<<>>), step)
  BY <1>1, <1>4, NothingYet, Recursion
<1>6. RejoinedBy(g, pri, sec, ms)
  <2>1. g = [i \in 0 .. n |-> IF i = 0 THEN Sure(<<>>) ELSE step[<<g[i - 1], i>>]]
    BY <1>5 DEF Recurs
  <2>2. \A i \in 0 .. n : i # 0 =>
           step[<<g[i - 1], i>>] = Rejoined(pri, sec, ms, g[i - 1], i)
    <3> TAKE i \in 0 .. n
    <3> HAVE i # 0
    <3>1. i \in 1 .. n /\ i - 1 \in 0 .. n
      BY <1>1
    <3> QED
      BY <1>3, <1>5, <3>1
  <2>3. g = [i \in 0 .. n |-> IF i = 0 THEN Sure(<<>>)
                              ELSE Rejoined(pri, sec, ms, g[i - 1], i)]
    BY <2>1, <2>2
  <2> QED
    BY <2>3 DEF RejoinedBy, n
<1>7. RejoinedBy(f, pri, sec, ms)
  BY <1>6
<1> DEFINE h == [i \in 0 .. n |-> IF i = 0 THEN Sure(<<>>)
                                  ELSE Rejoined(pri, sec, ms, f[i - 1], i)]
<1>8. f = h
  BY <1>7 DEF RejoinedBy, n
<1>81. h[0] = Sure(<<>>) /\ \A i \in 1 .. n : h[i] = Rejoined(pri, sec, ms, f[i - 1], i)
  BY <1>1
<1> HIDE DEF h
<1>9. f[0] = Sure(<<>>)
  BY <1>8, <1>81
<1>10. \A i \in 1 .. n : f[i] = Rejoined(pri, sec, ms, f[i - 1], i)
  BY <1>8, <1>81
<1> DEFINE P == {i \in 0 .. n : f[i] \in Part}
<1>11. 0 \in P
  BY <1>1, <1>9, NothingYet
<1>12. ASSUME NEW i \in 0 .. n, i < n, i \in P PROVE i + 1 \in P
  <2>1. i + 1 \in 1 .. n /\ i + 1 - 1 = i /\ f[i] \in Part /\ i + 1 \in 0 .. n
    BY <1>1, <1>12
  <2>2. f[i + 1] = Rejoined(pri, sec, ms, f[i], i + 1)
    BY <1>10, <2>1
  <2> QED
    BY <1>2, <2>1, <2>2
<1>13. \A i \in 0 .. n : i \in P
  <2> HIDE DEF P
  <2> QED
    BY <1>1, <1>11, <1>12, UpTo
<1> QED
  BY <1>7, <1>9, <1>10, <1>13 DEF n

LEMMA PairsOfFacts ==
    ASSUME NEW pri \in Part, NEW sec \in Part
    PROVE  /\ Pairing(PairsOf(pri, sec), Len(Words(pri.text)), Len(Words(sec.text)))
           /\ \A n \in 1 .. Len(PairsOf(pri, sec)) :
                 WordsOf(pri.text)[PairsOf(pri, sec)[n][1]] =
                     WordsOf(sec.text)[PairsOf(pri, sec)[n][2]]
<1> DEFINE p == WordsOf(pri.text)
           s == WordsOf(sec.text)
           both == Alignment(p, s)
           ms == PairingOf(both)
<1>1. pri.text \in AnyText /\ sec.text \in AnyText
  BY PartFacts
<1>2. p \in Seq(AnyText) /\ Len(p) = Len(Words(pri.text)) /\ Len(p) \in Nat
  BY <1>1, WordsOfFacts
<1>3. s \in Seq(AnyText) /\ Len(s) = Len(Words(sec.text)) /\ Len(s) \in Nat
  BY <1>1, WordsOfFacts
<1>4. PairsOf(pri, sec) = ms
  BY DEF PairsOf
<1> HIDE DEF p, s
<1>5. PairedIn(p, s, <<0, Len(p), 0, Len(s)>>, both)
  BY <1>2, <1>3, AlignmentFacts
<1> HIDE DEF both
<1>6. Pairing(ms, Len(p), Len(s)) /\ \A n \in 1 .. Len(ms) : ms[n] \in both
  BY <1>2, <1>3, <1>5, PairingFacts
<1>7. \A x \in both : p[x[1]] = s[x[2]]
  BY <1>5 DEF PairedIn
<1> QED
  BY <1>2, <1>3, <1>4, <1>6, <1>7 DEF p, s

LEMMA ReconciledTyped ==
    ASSUME NEW pri \in Part, NEW sec \in Part
    PROVE  Reconciled(pri, sec) \in Part
<1> DEFINE ms == PairsOf(pri, sec)
           f == CHOOSE g : RejoinedBy(g, pri, sec, ms)
           pn == Len(Words(pri.text))
           sn == Len(Words(sec.text))
           b == Place(ms, Len(ms))
           rest == Cut(pri.text, Consumed(pri.text, pn), Len(pri.text))
<1>1. CASE Words(pri.text) = <<>>
  BY <1>1, ReconciledBlank
<1>2. CASE Words(pri.text) # <<>>
  <2>1. Pairing(ms, pn, sn)
    BY PairsOfFacts
  <2>2. pri.text \in AnyText /\ pn \in Nat /\ sn \in Nat
    BY PartFacts, WordOffsets
  <2>3. /\ Len(ms) \in Nat
        /\ \A k \in 1 .. Len(ms) : ms[k][1] \in 1 .. pn /\ ms[k][2] \in 1 .. sn
    BY <2>1 DEF Pairing
  <2> HIDE DEF ms
  <2>4. f[Len(ms)] \in Part
    <3>1. \A i \in 0 .. Len(ms) : f[i] \in Part
      BY <2>1, RejoinedFunction
    <3> QED
      BY <2>3, <3>1
  <2>5. b[1] \in Nat /\ b[2] \in Nat
    <3>1. CASE Len(ms) = 0
      BY <3>1 DEF Place
    <3>2. CASE Len(ms) # 0
      <4>1. Len(ms) \in 1 .. Len(ms) /\ b = ms[Len(ms)]
        BY <2>3, <3>2 DEF Place
      <4> QED
        BY <2>3, <4>1
    <3> QED
      BY <3>1, <3>2
  <2>6. Reconciled(pri, sec) = Extended(BodyOf(pri, sec, ms, f), rest, {})
    BY <1>2, ReconciledChosen DEF ms
  <2> HIDE DEF f
  <2>7. BodyOf(pri, sec, ms, f) = Gap(f[Len(ms)], pri, sec, b[1], pn, b[2], sn)
    BY DEF BodyOf
  <2> HIDE DEF b
  <2>8. BodyOf(pri, sec, ms, f) \in Part
    <3>1. pn \in Int /\ pn <= Len(Words(pri.text)) /\ sn \in Int
          /\ sn <= Len(Words(sec.text))
      BY <2>2
    <3> DEFINE o == f[Len(ms)]
    <3> HIDE DEF pn, sn, o
    <3>2. o \in Part
      BY <2>4 DEF o
    <3>3. Gap(o, pri, sec, b[1], pn, b[2], sn) \in Part
      BY <2>5, <3>1, <3>2, GapTyped
    <3> QED
      BY <2>7, <3>3 DEF o
  <2>9. rest \in AnyText
    <3>1. /\ Consumed(pri.text, pn) \in Nat /\ Consumed(pri.text, pn) <= Len(pri.text)
          /\ Len(pri.text) \in Nat
      BY <2>2, WordOffsets
    <3> QED
      BY <2>2, <3>1, CutFacts
  <2> HIDE DEF rest
  <2> QED
    BY <2>6, <2>8, <2>9, ExtendedTyped
<1> QED
  BY <1>1, <1>2

-----------------------------------------------------------------------------
(* Entries from parts.                                                     *)

\* Stripping cuts from the first letter to the last.
LEMMA StrippedFacts ==
    ASSUME NEW t \in AnyText
    PROVE  /\ Leading(t) \in Nat /\ Leading(t) <= Len(t)
           /\ IsBlank(t) => Stripped(t) = <<>> /\ Leading(t) = Len(t)
           /\ ~IsBlank(t) =>
                \E b \in Nat :
                    /\ Stripped(t) = Cut(t, Leading(t), b)
                    /\ Leading(t) < b /\ b <= Len(t)
                    /\ Leading(t) \in Letters(t) /\ b - 1 \in Letters(t)
                    /\ \A k \in Letters(t) : Leading(t) <= k /\ k < b
           /\ Stripped(t) \in AnyText
<1> DEFINE ls == Letters(t)
           n == Len(t)
           kept == Trimmed(t, Offsets(t))
<1>1. /\ n \in Nat /\ ls \subseteq Nat /\ \A k \in ls : 0 <= k /\ k < n
  BY LettersOf
<1>2. kept = {k \in 0 .. n - 1 : \E l, m \in (0 .. n - 1) \cap ls : l <= k /\ k <= m}
  BY DEF Trimmed, Offsets
<1>3. CASE ls = {}
  <2>1. IsBlank(t) /\ kept = {}
    BY <1>2, <1>3 DEF IsBlank
  <2>2. Stripped(t) = <<>> /\ Leading(t) = n
    BY <2>1 DEF Stripped, Leading
  <2>3. <<>> \in AnyText
    BY NothingYet
  <2> QED
    BY <1>1, <2>1, <2>2, <2>3
<1>4. CASE ls # {}
  <2> DEFINE a == Min(ls)
             c == Max(ls)
  <2>1. a \in ls /\ \A y \in ls : a <= y
    BY <1>1, <1>4, LeastOf
  <2>2. c \in ls /\ \A y \in ls : c >= y
    <3>1. \A y \in ls : y <= n
      BY <1>1
    <3> HIDE DEF ls
    <3> QED
      BY <1>1, <1>4, <3>1, GreatestOf
  <2>3. ~IsBlank(t) /\ Leading(t) = a
    BY <1>4 DEF IsBlank, Leading
  <2> HIDE DEF ls, n, a, c
  <2>4. kept \subseteq Nat /\ a \in kept /\ c \in kept
        /\ \A k \in kept : a <= k /\ k <= c
    <3>1. a \in Nat /\ c \in Nat /\ a < n /\ c < n /\ a <= c
      BY <1>1, <2>1, <2>2
    <3>2. \A k \in kept : a <= k /\ k <= c
      <4> TAKE k \in kept
      <4>1. k \in 0 .. n - 1 /\ \E l, m \in (0 .. n - 1) \cap ls : l <= k /\ k <= m
        BY <1>2
      <4>2. PICK l \in ls, m \in ls : l <= k /\ k <= m
        BY <4>1
      <4>3. a <= l /\ m <= c /\ l \in Nat /\ m \in Nat /\ k \in Nat
        BY <1>1, <2>1, <2>2, <4>1
      <4> QED
        BY <3>1, <4>2, <4>3
    <3>3. a \in kept /\ c \in kept
      BY <1>1, <1>2, <2>1, <2>2, <3>1
    <3>4. kept \subseteq Nat
      BY <1>2
    <3> QED
      BY <3>2, <3>3, <3>4
  <2>5. Stripped(t) = IF kept = {} THEN <<>> ELSE SubSeq(t, Min(kept) + 1, Max(kept) + 1)
    BY DEF Stripped
  <2>6. c \in Nat /\ a \in Nat /\ c < n /\ a <= c
    BY <1>1, <2>1, <2>2
  <2> HIDE DEF kept
  <2>7. Min(kept) = a
    <3>1. Min(kept) \in kept /\ \A y \in kept : Min(kept) <= y
      BY <2>4, LeastOf
    <3>2. Min(kept) <= a /\ a <= Min(kept) /\ Min(kept) \in Nat
      BY <2>4, <3>1
    <3> QED
      BY <2>6, <3>2
  <2>8. Max(kept) = c
    <3>1. \A k \in kept : k <= n
      BY <1>1, <2>4, <2>6
    <3>2. Max(kept) \in kept /\ \A y \in kept : Max(kept) >= y
      BY <1>1, <2>4, <3>1, GreatestOf
    <3>3. Max(kept) >= c /\ Max(kept) <= c /\ Max(kept) \in Nat
      BY <2>4, <3>2
    <3> QED
      BY <2>6, <3>3
  <2> DEFINE b == c + 1
  <2>9. Stripped(t) = Cut(t, a, b)
    BY <2>4, <2>5, <2>7, <2>8 DEF Cut
  <2>10. b \in Nat /\ a < b /\ b <= n /\ b - 1 = c
    BY <1>1, <2>6
  <2> HIDE DEF b
  <2>11. Cut(t, a, b) \in AnyText
    BY <2>6, <2>10, CutFacts DEF n
  <2>12. \A k \in ls : a <= k /\ k < b
    BY <1>1, <2>1, <2>2, <2>6, <2>10
  <2> QED
    BY <2>1, <2>2, <2>3, <2>6, <2>9, <2>10, <2>11, <2>12 DEF ls, n
<1> QED
  BY <1>3, <1>4

LEMMA ShiftedTyped ==
    ASSUME NEW r \in Part, NEW base \in Nat
    PROVE  \A k \in Shifted(r, base) :
              k \in Nat /\ base <= k /\ k < base + Len(Stripped(r.text))
<1> DEFINE lead == Leading(r.text)
           size == Len(Stripped(r.text))
<1>1. r.text \in AnyText /\ r.doubts \subseteq Nat
  BY PartFacts
<1>2. lead \in Nat /\ size \in Nat
  BY <1>1, StrippedFacts, TextFacts
<1>3. Shifted(r, base) = {base + k - lead : k \in r.doubts \cap lead .. lead + size - 1}
  BY DEF Shifted
<1> HIDE DEF lead, size
<1>4. ASSUME NEW x \in Shifted(r, base)
      PROVE  x \in Nat /\ base <= x /\ x < base + size
  <2>1. PICK k \in r.doubts \cap lead .. lead + size - 1 : x = base + k - lead
    BY <1>3
  <2>2. k \in Nat /\ lead <= k /\ k <= lead + size - 1
    BY <1>1, <1>2, <2>1
  <2> QED
    BY <1>2, <2>1, <2>2
<1> QED
  BY <1>4 DEF size

\* The parts of Joined, by name.
JoinStep(ps, separator, r, i) ==
    LET gap == IF i = 1 THEN <<>> ELSE separator
        before == r.text \o gap
    IN [text |-> before \o Stripped(ps[i].text),
        doubts |-> r.doubts \cup Shifted(ps[i], Len(before))]
JoinedBy(f, ps, separator) ==
    f = [i \in 0 .. Len(ps) |-> IF i = 0 THEN Sure(<<>>)
                                ELSE JoinStep(ps, separator, f[i - 1], i)]

LEMMA JoinedChosen ==
    ASSUME NEW ps, NEW separator
    PROVE  Joined(ps, separator) =
              IF Len(ps) = 1 THEN ps[1]
              ELSE (CHOOSE f : JoinedBy(f, ps, separator))[Len(ps)]
BY DEF Joined, JoinedBy, JoinStep

LEMMA JoinStepTyped ==
    ASSUME NEW ps \in Seq(Part), NEW separator \in AnyText, NEW r \in Part,
           NEW i \in 1 .. Len(ps)
    PROVE  JoinStep(ps, separator, r, i) \in Part
<1> DEFINE gap == IF i = 1 THEN <<>> ELSE separator
           before == r.text \o gap
           more == Stripped(ps[i].text)
           D == Shifted(ps[i], Len(before))
<1>1. ps[i] \in Part
  BY ElementOfSeq
<1>2. /\ r.text \in AnyText /\ r.doubts \subseteq Offsets(r.text)
      /\ ps[i].text \in AnyText
  BY <1>1, PartFacts
<1>3. gap \in AnyText /\ more \in AnyText
  BY <1>2, NothingYet, StrippedFacts
<1>4. JoinStep(ps, separator, r, i) = [text |-> before \o more, doubts |-> r.doubts \cup D]
  BY DEF JoinStep
<1> HIDE DEF gap, more
<1>5. before \in AnyText /\ Len(before) = Len(r.text) + Len(gap)
      /\ Len(before) \in Nat /\ Len(r.text) \in Nat /\ Len(gap) \in Nat
  BY <1>2, <1>3, JoinFacts, TextFacts
<1> HIDE DEF before
<1>6. before \o more \in AnyText /\ Len(before \o more) = Len(before) + Len(more)
      /\ Len(more) \in Nat
  BY <1>3, <1>5, JoinFacts, TextFacts
<1>7. D \subseteq Offsets(before \o more)
  <2>1. \A k \in D : k \in Nat /\ Len(before) <= k /\ k < Len(before) + Len(more)
    BY <1>1, <1>5, ShiftedTyped DEF more
  <2> QED
    BY <1>5, <1>6, <2>1 DEF Offsets
<1>8. r.doubts \subseteq Offsets(before \o more)
  BY <1>2, <1>5, <1>6 DEF Offsets
<1> HIDE DEF D
<1>9. r.doubts \cup D \subseteq Offsets(before \o more)
  BY <1>7, <1>8
<1>10. [text |-> before \o more, doubts |-> r.doubts \cup D] \in Part
  BY <1>6, <1>9, PartIs
<1> QED
  BY <1>4, <1>10

LEMMA JoinedFunction ==
    ASSUME NEW ps \in Seq(Part), NEW separator \in AnyText,
           NEW f, f = CHOOSE g : JoinedBy(g, ps, separator)
    PROVE  /\ f[0] = Sure(<<>>)
           /\ \A i \in 1 .. Len(ps) : f[i] = JoinStep(ps, separator, f[i - 1], i)
           /\ \A i \in 0 .. Len(ps) : f[i] \in Part
<1> DEFINE n == Len(ps)
           step == [x \in Part \X (1 .. n) |-> JoinStep(ps, separator, x[1], x[2])]
<1>1. n \in Nat
  BY LenProperties
<1>2. \A r \in Part, i \in 1 .. n : JoinStep(ps, separator, r, i) \in Part
  BY JoinStepTyped
<1>3. \A r \in Part, i \in 1 .. n : step[<<r, i>>] = JoinStep(ps, separator, r, i)
  OBVIOUS
<1>4. step \in [Part \X (1 .. n) -> Part]
  BY <1>2
<1> HIDE DEF step, n
<1>5. PICK g \in [0 .. n -> Part] : Recurs(g, n, Sure(<<>>), step)
  BY <1>1, <1>4, NothingYet, Recursion
<1>6. JoinedBy(g, ps, separator)
  <2>1. g = [i \in 0 .. n |-> IF i = 0 THEN Sure(<<>>) ELSE step[<<g[i - 1], i>>]]
    BY <1>5 DEF Recurs
  <2>2. \A i \in 0 .. n : i # 0 =>
           step[<<g[i - 1], i>>] = JoinStep(ps, separator, g[i - 1], i)
    <3> TAKE i \in 0 .. n
    <3> HAVE i # 0
    <3>1. i \in 1 .. n /\ i - 1 \in 0 .. n
      BY <1>1
    <3> QED
      BY <1>3, <1>5, <3>1
  <2>3. g = [i \in 0 .. n |-> IF i = 0 THEN Sure(<<>>)
                              ELSE JoinStep(ps, separator, g[i - 1], i)]
    BY <2>1, <2>2
  <2> QED
    BY <2>3 DEF JoinedBy, n
<1>7. JoinedBy(f, ps, separator)
  BY <1>6
<1> DEFINE h == [i \in 0 .. n |-> IF i = 0 THEN Sure(<<>>)
                                  ELSE JoinStep(ps, separator, f[i - 1], i)]
<1>8. f = h
  BY <1>7 DEF JoinedBy, n
<1>81. h[0] = Sure(<<>>) /\ \A i \in 1 .. n : h[i] = JoinStep(ps, separator, f[i - 1], i)
  BY <1>1
<1> HIDE DEF h
<1>9. f[0] = Sure(<<>>)
  BY <1>8, <1>81
<1>10. \A i \in 1 .. n : f[i] = JoinStep(ps, separator, f[i - 1], i)
  BY <1>8, <1>81
<1> DEFINE P == {i \in 0 .. n : f[i] \in Part}
<1>11. 0 \in P
  BY <1>1, <1>9, NothingYet
<1>12. ASSUME NEW i \in 0 .. n, i < n, i \in P PROVE i + 1 \in P
  <2>1. i + 1 \in 1 .. n /\ i + 1 - 1 = i /\ f[i] \in Part /\ i + 1 \in 0 .. n
    BY <1>1, <1>12
  <2>2. f[i + 1] = JoinStep(ps, separator, f[i], i + 1)
    BY <1>10, <2>1
  <2> QED
    BY <1>2, <2>1, <2>2
<1>13. \A i \in 0 .. n : i \in P
  <2> HIDE DEF P
  <2> QED
    BY <1>1, <1>11, <1>12, UpTo
<1> QED
  BY <1>9, <1>10, <1>13 DEF n

LEMMA JoinedTyped ==
    ASSUME NEW ps \in Seq(Part), NEW separator \in AnyText
    PROVE  Joined(ps, separator) \in Part
<1>1. Len(ps) \in Nat
  BY LenProperties
<1>2. CASE Len(ps) = 1
  <2>1. ps[1] \in Part
    BY <1>2, ElementOfSeq
  <2> QED
    BY <1>2, <2>1, JoinedChosen
<1>3. CASE Len(ps) # 1
  <2> DEFINE f == CHOOSE g : JoinedBy(g, ps, separator)
  <2>1. \A i \in 0 .. Len(ps) : f[i] \in Part
    BY JoinedFunction
  <2>2. Joined(ps, separator) = f[Len(ps)]
    BY <1>3, JoinedChosen
  <2> HIDE DEF f
  <2> QED
    BY <1>1, <2>1, <2>2
<1> QED
  BY <1>2, <1>3

\* What is left of a text from an offset on.
LEMMA TailFacts ==
    ASSUME NEW t \in AnyText, NEW a \in Nat, a <= Len(t)
    PROVE  /\ Len(t) \in Nat
           /\ Cut(t, a, Len(t)) \in AnyText /\ Len(Cut(t, a, Len(t))) = Len(t) - a
           /\ \A k \in 0 .. Len(t) - a - 1 : Cut(t, a, Len(t))[k + 1] = t[a + k + 1]
<1>1. Len(t) \in Nat
  BY TextFacts
<1>2. ASSUME NEW b \in Nat, b = Len(t)
      PROVE  /\ Cut(t, a, b) \in AnyText /\ Len(Cut(t, a, b)) = b - a
             /\ \A k \in 0 .. b - a - 1 : Cut(t, a, b)[k + 1] = t[a + k + 1]
  <2>1. a <= b /\ b <= Len(t)
    BY <1>1, <1>2
  <2> QED
    BY <2>1, CutFacts
<1> QED
  BY <1>1, <1>2

\* Taking a heading away cuts off a beginning and the blanks after it.
LEMMA UnheadedFacts ==
    ASSUME NEW t \in AnyText, NEW n \in Nat, n <= Len(t) - Leading(t)
    PROVE  \E a \in Nat : /\ a <= Len(t) /\ Unheaded(t, n) = Cut(t, a, Len(t))
                          /\ Unheaded(t, n) \in AnyText
<1> DEFINE l == Leading(t)
           size == Len(t)
           begun == Cut(t, l, size)
           rest == Cut(begun, n, Len(begun))
           r == Leading(rest)
           a == l + n + r
<1>1. l \in Nat /\ l <= size /\ size \in Nat
  BY StrippedFacts, TextFacts
<1>2. /\ begun \in AnyText /\ Len(begun) = size - l
      /\ \A k \in 0 .. size - l - 1 : begun[k + 1] = t[l + k + 1]
  <2> HIDE DEF l
  <2> QED
    BY <1>1, TailFacts
<1>3. Unheaded(t, n) = IF n = 0 THEN t ELSE Cut(rest, r, Len(rest))
  BY DEF Unheaded
<1>4. t = Cut(t, 0, size)
  <2>1. /\ Cut(t, 0, size) \in AnyText /\ Len(Cut(t, 0, size)) = size - 0
        /\ \A k \in 0 .. size - 0 - 1 : Cut(t, 0, size)[k + 1] = t[0 + k + 1]
    BY <1>1, TailFacts
  <2>2. \A k \in 0 .. size - 1 : t[k + 1] = Cut(t, 0, size)[k + 1]
    BY <1>1, <2>1
  <2>3. Len(t) = Len(Cut(t, 0, size))
    BY <1>1, <2>1
  <2> HIDE DEF size
  <2> QED
    BY <2>1, <2>2, <2>3, SameText DEF size
<1>5. CASE n = 0
  BY <1>1, <1>3, <1>4, <1>5
<1>6. CASE n # 0
  <2>1. n <= Len(begun) /\ Len(begun) \in Nat
    BY <1>1, <1>2
  <2> DEFINE m == Len(begun)
  <2>2. /\ rest \in AnyText /\ Len(rest) = m - n
        /\ \A k \in 0 .. m - n - 1 : rest[k + 1] = begun[n + k + 1]
    <3> HIDE DEF begun
    <3> QED
      BY <1>2, <2>1, TailFacts
  <2>3. r \in Nat /\ r <= Len(rest)
    <3> HIDE DEF rest
    <3> QED
      BY <2>2, StrippedFacts
  <2> HIDE DEF r, rest, begun, l, size
  <2> DEFINE q == Len(rest)
             u == Cut(rest, r, q)
             v == Cut(t, a, size)
  <2>4. q \in Nat /\ q = size - l - n
    BY <1>1, <1>2, <2>1, <2>2
  <2>5. u \in AnyText /\ Len(u) = q - r /\ \A k \in 0 .. q - r - 1 : u[k + 1] = rest[r + k + 1]
    BY <2>2, <2>3, <2>4, TailFacts
  <2>6. a \in Nat /\ a <= size
    BY <1>1, <2>3, <2>4
  <2>7. v \in AnyText /\ Len(v) = size - a /\ \A k \in 0 .. size - a - 1 : v[k + 1] = t[a + k + 1]
    <3> HIDE DEF a
    <3> QED
      BY <1>1, <2>6, TailFacts DEF size
  <2>8. ASSUME NEW k \in 0 .. q - r - 1 PROVE u[k + 1] = v[k + 1]
    <3>1. /\ r + k \in 0 .. m - n - 1 /\ n + (r + k) \in 0 .. size - l - 1
          /\ k \in 0 .. size - a - 1 /\ l + (n + (r + k)) = a + k
      BY <1>1, <1>2, <2>2, <2>3, <2>4
    <3>2. u[k + 1] = rest[(r + k) + 1]
      BY <2>5
    <3>3. rest[(r + k) + 1] = begun[(n + (r + k)) + 1]
      <4>1. rest[(r + k) + 1] = begun[n + (r + k) + 1]
        BY <2>2, <3>1
      <4> QED
        BY <4>1
    <3>4. begun[(n + (r + k)) + 1] = t[(l + (n + (r + k))) + 1]
      <4>1. begun[(n + (r + k)) + 1] = t[l + (n + (r + k)) + 1]
        BY <1>2, <3>1
      <4> QED
        BY <4>1
    <3>5. v[k + 1] = t[a + k + 1]
      BY <2>7, <3>1
    <3> QED
      BY <3>1, <3>2, <3>3, <3>4, <3>5
  <2>9. Len(u) = Len(v)
    BY <1>1, <2>3, <2>4, <2>5, <2>7
  <2>10. \A k \in 0 .. Len(u) - 1 : u[k + 1] = v[k + 1]
    BY <2>5, <2>8
  <2> HIDE DEF u, v
  <2>11. u = v
    BY <2>5, <2>7, <2>9, <2>10, SameText
  <2>12. Unheaded(t, n) = u
    BY <1>3, <1>6 DEF u
  <2> QED
    BY <2>5, <2>6, <2>11, <2>12 DEF v, size
<1> QED
  BY <1>5, <1>6

\* Flattening, from the left.
FlatBy(f, ss, A) ==
    /\ f \in [0 .. Len(ss) -> Seq(A)] /\ f[0] = <<>>
    /\ \A i \in 1 .. Len(ss) : f[i] = f[i - 1] \o ss[i]
FlattensBy(f, ss) ==
    f = [i \in 1 .. Len(ss) |-> IF i = 1 THEN ss[i] ELSE f[i - 1] \o ss[i]]

LEMMA FlattenChosen ==
    ASSUME NEW ss
    PROVE  FlattenSeq(ss) = IF Len(ss) = 0 THEN ss
                            ELSE (CHOOSE f : FlattensBy(f, ss))[Len(ss)]
BY DEF FlattenSeq, FlattensBy

LEMMA FlattenFacts ==
    ASSUME NEW A, NEW ss \in Seq(Seq(A))
    PROVE  \E f : FlatBy(f, ss, A) /\ FlattenSeq(ss) = f[Len(ss)]
<1> DEFINE n == Len(ss)
           V == Seq(A)
           step == [x \in V \X (1 .. n) |-> x[1] \o ss[x[2]]]
<1>1. n \in Nat /\ \A i \in 1 .. n : ss[i] \in V
  BY LenProperties, ElementOfSeq
<1>2. <<>> \in V
  BY EmptySeq
<1>3. \A r \in V, i \in 1 .. n : r \o ss[i] \in V
  BY <1>1, ConcatProperties
<1>4. \A r \in V, i \in 1 .. n : step[<<r, i>>] = r \o ss[i]
  OBVIOUS
<1> HIDE DEF V
<1>5. step \in [V \X (1 .. n) -> V]
  BY <1>3
<1> HIDE DEF step, n
<1>6. PICK g \in [0 .. n -> V] : Recurs(g, n, <<>>, step)
  BY <1>1, <1>2, <1>5, Recursion
<1>7. g[0] = <<>> /\ \A i \in 1 .. n : g[i] = g[i - 1] \o ss[i]
  <2>1. g[0] = <<>>
    BY <1>1, <1>6 DEF Recurs
  <2>2. ASSUME NEW i \in 1 .. n PROVE g[i] = g[i - 1] \o ss[i]
    <3>1. i \in 0 .. n /\ i # 0 /\ i - 1 \in 0 .. n
      BY <1>1
    <3>2. g[i] = step[<<g[i - 1], i>>]
      BY <1>6, <3>1 DEF Recurs
    <3> QED
      BY <1>4, <1>6, <3>1, <3>2
  <2> QED
    BY <2>1, <2>2
<1>8. FlatBy(g, ss, A)
  BY <1>6, <1>7 DEF FlatBy, n, V
<1>9. CASE n = 0
  <2>1. ss = <<>>
    BY <1>9, EmptySeq DEF n
  <2>2. FlattenSeq(ss) = ss
    BY <1>9, FlattenChosen DEF n
  <2> QED
    BY <1>7, <1>8, <1>9, <2>1, <2>2 DEF n
<1>10. CASE n # 0
  <2> DEFINE f == CHOOSE h : FlattensBy(h, ss)
             e == [i \in 1 .. n |-> g[i]]
             d == [i \in 1 .. n |-> IF i = 1 THEN ss[i] ELSE e[i - 1] \o ss[i]]
  <2>1. ASSUME NEW i \in 1 .. n PROVE e[i] = d[i]
    <3>1. CASE i = 1
      <4>1. g[1] = g[0] \o ss[1]
        <5>1. 1 \in 1 .. n /\ 1 - 1 = 0
          BY <1>1, <1>10
        <5> QED
          BY <1>7, <5>1
      <4>2. g[1] = ss[1]
        BY <1>1, <1>7, <3>1, <4>1, ConcatEmptySeq DEF V
      <4> QED
        BY <3>1, <4>2
    <3>2. CASE i # 1
      <4>1. i - 1 \in 1 .. n
        BY <1>1, <3>2
      <4>2. e[i] = g[i] /\ e[i - 1] = g[i - 1]
        BY <4>1
      <4>3. d[i] = e[i - 1] \o ss[i]
        BY <3>2
      <4> QED
        BY <1>7, <4>2, <4>3
    <3> QED
      BY <3>1, <3>2
  <2>2. e = d
    BY <2>1
  <2>3. FlattensBy(e, ss)
    BY <2>2 DEF FlattensBy, n
  <2> HIDE DEF e, d
  <2>4. FlattensBy(f, ss)
    BY <2>3
  <2> HIDE DEF f
  <2> DEFINE h == [i \in 1 .. n |-> IF i = 1 THEN ss[i] ELSE f[i - 1] \o ss[i]]
  <2>5. f = h
    BY <2>4 DEF FlattensBy, n
  <2>6. \A i \in 1 .. n : h[i] = IF i = 1 THEN ss[i] ELSE f[i - 1] \o ss[i]
    OBVIOUS
  <2> HIDE DEF h
  <2>7. \A i \in 1 .. n : f[i] = IF i = 1 THEN ss[i] ELSE f[i - 1] \o ss[i]
    BY <2>5, <2>6
  <2> DEFINE P == {i \in 0 .. n : i = 0 \/ f[i] = g[i]}
  <2>8. 0 \in P
    BY <1>1
  <2>9. ASSUME NEW i \in 0 .. n, i < n, i \in P PROVE i + 1 \in P
    <3>1. i + 1 \in 1 .. n /\ i + 1 \in 0 .. n /\ i + 1 - 1 = i
      BY <1>1, <2>9
    <3>2. g[i + 1] = g[i] \o ss[i + 1]
      <4>1. ASSUME NEW j \in 1 .. n, j = i + 1 PROVE g[j] = g[i] \o ss[j]
        <5>1. j - 1 = i
          BY <4>1
        <5> QED
          BY <1>7, <5>1
      <4> QED
        BY <3>1, <4>1
    <3>3. CASE i = 0
      <4>1. f[i + 1] = ss[i + 1]
        BY <2>7, <3>1, <3>3
      <4>2. <<>> \o ss[i + 1] = ss[i + 1]
        BY <1>1, <3>1, ConcatEmptySeq DEF V
      <4> QED
        BY <1>7, <3>1, <3>2, <3>3, <4>1, <4>2
    <3>4. CASE i # 0
      <4>1. f[i + 1] = f[i] \o ss[i + 1]
        <5>1. i + 1 # 1
          BY <3>4
        <5>2. ASSUME NEW j \in 1 .. n, j = i + 1 PROVE f[j] = f[i] \o ss[j]
          <6>1. j - 1 = i /\ j # 1
            BY <5>1, <5>2
          <6> QED
            BY <2>7, <6>1
        <5> QED
          BY <3>1, <5>2
      <4>2. f[i] = g[i]
        BY <2>9, <3>4
      <4> QED
        BY <3>1, <3>2, <4>1, <4>2
    <3> QED
      BY <3>3, <3>4
  <2>10. n \in P
    <3> HIDE DEF P
    <3>1. \A i \in 0 .. n : i \in P
      BY <1>1, <2>8, <2>9, UpTo
    <3> QED
      BY <1>1, <3>1
  <2>11. f[n] = g[n]
    BY <1>10, <2>10
  <2>12. FlattenSeq(ss) = f[n]
    BY <1>10, FlattenChosen DEF f, n
  <2> QED
    BY <1>8, <2>11, <2>12 DEF n
<1> QED
  BY <1>9, <1>10

LEMMA FlattenTyped ==
    ASSUME NEW A, NEW ss \in Seq(Seq(A))
    PROVE  FlattenSeq(ss) \in Seq(A)
<1>1. Len(ss) \in Nat
  BY LenProperties
<1>2. PICK f : FlatBy(f, ss, A) /\ FlattenSeq(ss) = f[Len(ss)]
  BY FlattenFacts
<1>3. f \in [0 .. Len(ss) -> Seq(A)]
  BY <1>2 DEF FlatBy
<1> QED
  BY <1>1, <1>2, <1>3

LEMMA ReformattingsTyped ==
    ASSUME NEW t \in AnyText, t # <<>>, NEW reply \in Reformattings(t)
    PROVE  reply \in AnyText
<1> DEFINE ss == [i \in DOMAIN t |-> IF t[i] = " " THEN BlankLine ELSE <<t[i]>>]
           n == Len(t)
<1>1. n \in Nat \ {0} /\ DOMAIN t = 1 .. n /\ \A i \in 1 .. n : t[i] \in Character
  BY EmptySeq, TextFacts DEF AnyText
<1>2. reply = FlattenSeq(ss) \/ reply = SubSeq(t, 1, n - 1)
  BY DEF Reformattings
<1> HIDE DEF n
<1>3. \A i \in 1 .. n : (IF t[i] = " " THEN BlankLine ELSE <<t[i]>>) \in AnyText
  <2> TAKE i \in 1 .. n
  <2>1. "/" \in Character /\ t[i] \in Character
    BY <1>1 DEF Character, Blank
  <2>2. BlankLine \in AnyText /\ <<t[i]>> \in AnyText
    BY <2>1 DEF BlankLine, AnyText
  <2> QED
    BY <2>2
<1>4. ss \in [1 .. n -> AnyText]
  BY <1>1, <1>3
<1> HIDE DEF ss
<1>5. ss \in Seq(AnyText)
  BY <1>1, <1>4, FunctionSeq
<1>6. FlattenSeq(ss) \in AnyText
  BY <1>5, FlattenTyped DEF AnyText
<1>7. SubSeq(t, 1, n - 1) \in AnyText
  <2>1. Cut(t, 0, n - 1) \in AnyText
    <3>1. n - 1 \in Nat /\ 0 <= n - 1 /\ n - 1 <= Len(t)
      BY <1>1 DEF n
    <3> QED
      BY <3>1, CutFacts
  <2>2. Cut(t, 0, n - 1) = SubSeq(t, 1, n - 1)
    BY DEF Cut
  <2> QED
    BY <2>1, <2>2
<1> QED
  BY <1>2, <1>6, <1>7

-----------------------------------------------------------------------------
(* The invariant: what is read and returned has its type, a part is what   *)
(* its provider makes of the answers, and an entry is made of its parts.   *)

\* What is made of the answers for a part.
ResultOf(u, heard) ==
    IF u.kind = "voice" THEN TakeResult(heard[1])
    ELSE IF u.reader = "dual"
         THEN Reconciled(PageResult("anthropic", heard[1]),
                         PageResult("gemini", heard[2]))
    ELSE PageResult(u.reader, heard[1])

\* How many answers a part takes.
Readers(u) == IF u.kind = "image" /\ u.reader = "dual" THEN 2 ELSE 1

Separator(u) == IF u.kind = "image" THEN Break ELSE BlankLine

CallInv ==
    /\ call \in [tries : 0 .. MaxAttempts,
                main : {"idle", "primary", "backup", "answered", "raised"},
                shadow : {"off", "asking", "ended"},
                heard : Seq(Replies[request.replies])]
    /\ call.main = "primary" => call.tries < MaxAttempts
    /\ call.main = "answered" =>
          \E take \in Replies[request.replies] : call.heard = <<take>>
    /\ Reading /\ call # Idle => request.kind = "voice" /\ Len(said) < request.wanted

SaidInv ==
    /\ said \in Seq(Seq(Replies[request.replies])) /\ parts \in Seq(Part)
    /\ request.kind = "text" => said = <<>> /\ parts = <<>>
    /\ Len(said) <= request.wanted /\ Len(parts) <= Len(said)
    /\ Reading => Len(parts) = Len(said)
    /\ \A i \in 1 .. Len(said) : Len(said[i]) = Readers(request)
    /\ \A i \in 1 .. Len(parts) : /\ parts[i] = ResultOf(request, said[i])
                                  /\ ~IsBlank(parts[i].text)

\* What a heading or the formatter may leave of the text.
FinalOf(t, final) ==
    \E n \in Nat : /\ n <= Len(t) - Leading(t)
                   /\ \/ final = Unheaded(t, n)
                      \/ \E reply \in AnyText : final = Formatted(Unheaded(t, n), reply)

EntryInv ==
    /\ entry.state \in {"reading", "stored", "failed"}
    /\ entry.text \in AnyText /\ entry.final \in AnyText
    /\ entry.doubts \subseteq Offsets(entry.text)
    /\ entry.state = "stored" /\ request.kind = "text" =>
          entry.final = entry.text /\ entry.doubts = {}
    /\ entry.state = "stored" /\ request.kind # "text" =>
          /\ Len(parts) = Len(said) /\ Len(parts) = request.wanted
          /\ [text |-> entry.text, doubts |-> entry.doubts] =
                Joined(parts, Separator(request))
          /\ FinalOf(entry.text, entry.final)

ReadInv == request \in Uploads /\ CallInv /\ SaidInv /\ EntryInv

USE ReadingAssumption

LEMMA UploadFacts ==
    ASSUME request \in Uploads
    PROVE  /\ request.kind \in {"image", "voice", "text"}
           /\ request.wanted \in Nat \ {0}
           /\ request.kind = "image" => Replies[request.replies] \subseteq AnyText
           /\ request.kind # "image" => Replies[request.replies] \subseteq AnyTake
<1>1. Replies[request.replies] \subseteq
         IF request.kind = "image" THEN AnyText ELSE AnyTake
  BY DEF ReadingAssumption, AnyTake
<1>2. request.kind \in {"image", "voice", "text"} /\ request.wanted \in Nat \ {0}
  BY DEF ReadingAssumption
<1> QED
  BY <1>1, <1>2

LEMMA ReadInit == Init => ReadInv
<1> SUFFICES ASSUME Init PROVE ReadInv
  OBVIOUS
<1>1. /\ request \in Uploads /\ call = Idle /\ said = <<>> /\ parts = <<>>
      /\ entry = NoEntry
  BY DEF Init, ReadingInit
<1>2. CallInv
  BY <1>1, EmptySeq DEF CallInv, Idle, ReadingAssumption
<1>3. SaidInv
  <2>1. request.wanted \in Nat
    BY <1>1, UploadFacts
  <2>2. /\ said \in Seq(Seq(Replies[request.replies])) /\ Len(said) = 0
        /\ parts \in Seq(Part) /\ Len(parts) = 0
    BY <1>1, EmptySeq
  <2> QED
    BY <1>1, <2>1, <2>2 DEF SaidInv
<1>4. EntryInv
  BY <1>1, NothingYet DEF EntryInv, NoEntry
<1> QED
  BY <1>1, <1>2, <1>3, <1>4 DEF ReadInv

\* A provider of parts is asked while there are some to read.
LEMMA MissingFacts ==
    ASSUME ReadInv, Missing
    PROVE  /\ Reading /\ Len(said) \in Nat /\ Len(parts) = Len(said)
           /\ Len(said) < request.wanted /\ request.wanted \in Nat
BY UploadFacts, LenProperties DEF Missing, ReadInv, SaidInv

LEMMA ResultTyped ==
    ASSUME request \in Uploads, request.kind # "text",
           NEW heard \in Seq(Replies[request.replies]), Len(heard) = Readers(request)
    PROVE  ResultOf(request, heard) \in Part
<1>1. /\ request.kind \in {"image", "voice"}
      /\ request.kind = "image" => Replies[request.replies] \subseteq AnyText
      /\ request.kind # "image" => Replies[request.replies] \subseteq AnyTake
  BY UploadFacts
<1>2. heard[1] \in Replies[request.replies]
  BY ElementOfSeq DEF Readers
<1>3. CASE request.kind = "voice"
  <2>1. heard[1] \in AnyTake
    BY <1>1, <1>2, <1>3
  <2> QED
    BY <1>3, <2>1, TakeTyped DEF ResultOf
<1>4. CASE request.kind = "image" /\ request.reader = "dual"
  <2>1. heard[2] \in Replies[request.replies]
    <3>1. 2 \in 1 .. Len(heard)
      BY <1>4 DEF Readers
    <3> QED
      BY <3>1, ElementOfSeq
  <2>2. PageResult("anthropic", heard[1]) \in Part /\ PageResult("gemini", heard[2]) \in Part
    BY <1>1, <1>2, <1>4, <2>1, PageTyped
  <2> QED
    BY <1>4, <2>2, ReconciledTyped DEF ResultOf
<1>5. CASE request.kind = "image" /\ request.reader # "dual"
  BY <1>1, <1>2, <1>5, PageTyped DEF ResultOf
<1> QED
  BY <1>1, <1>3, <1>4, <1>5

\* The answers for a part are taken.
LEMMA AcceptedKeeps ==
    ASSUME ReadInv, Reading, Len(said) < request.wanted, request.kind # "text",
           NEW heard \in Seq(Replies[request.replies]), Len(heard) = Readers(request),
           said' = Append(said, heard), request' = request,
           Accepted(ResultOf(request, heard))
    PROVE  SaidInv' /\ EntryInv'
<1> DEFINE A == Seq(Replies[request.replies])
           n == Len(said)
           r == ResultOf(request, heard)
<1>1. /\ said \in Seq(A) /\ n \in Nat /\ parts \in Seq(Part) /\ Len(parts) = n
      /\ request.wanted \in Nat
      /\ \A i \in 1 .. n : Len(said[i]) = Readers(request)
      /\ \A i \in 1 .. n : parts[i] = ResultOf(request, said[i]) /\ ~IsBlank(parts[i].text)
  BY UploadFacts, LenProperties DEF ReadInv, SaidInv
<1>2. r \in Part
  BY ResultTyped DEF ReadInv
<1> HIDE DEF r
<1>3. Replies[request.replies]' = Replies[request.replies]
  OBVIOUS
<1> HIDE DEF A
<1>4. heard \in A
  BY DEF A
<1>5. /\ said' \in Seq(A) /\ Len(said') = n + 1
      /\ \A i \in 1 .. n : said'[i] = said[i]
      /\ said'[n + 1] = heard
  BY <1>1, <1>4, AppendProperties
<1>6. Accepted(r)
  BY DEF r
<1>7. \A i \in 1 .. n + 1 : Len(said'[i]) = Readers(request')
  <2> TAKE i \in 1 .. n + 1
  <2>1. CASE i \in 1 .. n
    BY <1>1, <1>5, <2>1
  <2>2. CASE i = n + 1
    BY <1>5, <2>2
  <2> QED
    BY <1>1, <2>1, <2>2
<1>8. Readers(request') = Readers(request) /\ request.kind # "text"
  OBVIOUS
<1>9. CASE IsBlank(r.text) /\ entry' = Failed /\ UNCHANGED parts
  <2>1. /\ entry'.state = "failed" /\ entry'.text = <<>> /\ entry'.final = <<>>
        /\ entry'.doubts = {}
    BY <1>9 DEF Failed, NoEntry
  <2>2. EntryInv'
    BY <2>1, NothingYet DEF EntryInv
  <2>3. ~Reading'
    BY <2>1 DEF Reading
  <2>4. \A i \in 1 .. Len(parts') : /\ parts'[i] = ResultOf(request', said'[i])
                                    /\ ~IsBlank(parts'[i].text)
    BY <1>1, <1>5, <1>9
  <2>5. said' \in Seq(Seq(Replies[request.replies]))' /\ parts' \in Seq(Part)
        /\ Len(said') <= request'.wanted /\ Len(parts') <= Len(said')
    BY <1>1, <1>5, <1>9 DEF A, n
  <2>6. SaidInv'
    BY <1>1, <1>5, <1>7, <2>3, <2>4, <2>5 DEF SaidInv
  <2> QED
    BY <2>2, <2>6
<1>10. CASE ~IsBlank(r.text) /\ parts' = Append(parts, r) /\ UNCHANGED entry
  <2>1. /\ parts' \in Seq(Part) /\ Len(parts') = n + 1
        /\ \A i \in 1 .. n : parts'[i] = parts[i]
        /\ parts'[n + 1] = r
    BY <1>1, <1>2, <1>10, AppendProperties
  <2>2. \A i \in 1 .. n + 1 : /\ parts'[i] = ResultOf(request', said'[i])
                              /\ ~IsBlank(parts'[i].text)
    <3> TAKE i \in 1 .. n + 1
    <3>1. CASE i \in 1 .. n
      BY <1>1, <1>5, <2>1, <3>1
    <3>2. CASE i = n + 1
      BY <1>5, <1>10, <2>1, <3>2 DEF r
    <3> QED
      BY <1>1, <3>1, <3>2
  <2>3. EntryInv'
    <3>1. EntryInv /\ entry.state = "reading"
      BY DEF ReadInv, Reading
    <3> QED
      BY <1>10, <3>1 DEF EntryInv
  <2>4. said' \in Seq(Seq(Replies[request.replies]))' /\ Len(said') <= request'.wanted
        /\ Len(parts') = Len(said')
    BY <1>1, <1>5, <2>1 DEF A, n
  <2>5. SaidInv'
    BY <1>1, <1>5, <1>7, <2>1, <2>2, <2>4 DEF SaidInv
  <2> QED
    BY <2>3, <2>5
<1> QED
  BY <1>6, <1>9, <1>10 DEF Accepted

\* The upload fails, and nothing else changes.
LEMMA FailedKeeps ==
    ASSUME ReadInv, entry' = Failed, UNCHANGED <<request, said, parts>>
    PROVE  SaidInv' /\ EntryInv' /\ ~Reading'
<1>1. /\ entry'.state = "failed" /\ entry'.text = <<>> /\ entry'.final = <<>>
      /\ entry'.doubts = {}
  BY DEF Failed, NoEntry
<1>2. EntryInv'
  BY <1>1, NothingYet DEF EntryInv
<1>3. ~Reading'
  BY <1>1 DEF Reading
<1>4. SaidInv'
  BY <1>3 DEF ReadInv, SaidInv
<1> QED
  BY <1>2, <1>3, <1>4

LEMMA PageReadKeeps ==
    ASSUME ReadInv, PageRead
    PROVE  ReadInv'
<1>1. /\ Reading /\ Len(said) < request.wanted /\ request \in Uploads
      /\ request.kind = "image" /\ request' = request /\ call' = call
  BY MissingFacts DEF PageRead, ReadInv
<1>2. call = Idle
  BY <1>1 DEF PageRead, ReadInv, CallInv
<1>3. CallInv'
  BY <1>1, <1>2, EmptySeq DEF CallInv, Idle, ReadingAssumption
<1> DEFINE A == Replies[request.replies]
<1>4. \E heard \in Seq(A) : /\ Len(heard) = Readers(request)
                            /\ said' = Append(said, heard)
                            /\ Accepted(ResultOf(request, heard))
  <2>1. PICK raw \in A :
          \/ /\ request.reader # "dual"
             /\ said' = Append(said, <<raw>>)
             /\ Accepted(PageResult(request.reader, raw))
          \/ /\ request.reader = "dual"
             /\ \E other \in A :
                  /\ said' = Append(said, <<raw, other>>)
                  /\ Accepted(Reconciled(PageResult("anthropic", raw),
                                         PageResult("gemini", other)))
    BY DEF PageRead, Answerable
  <2>2. CASE request.reader # "dual"
    <3>1. said' = Append(said, <<raw>>) /\ Accepted(PageResult(request.reader, raw))
      BY <2>1, <2>2
    <3>2. <<raw>> \in Seq(A) /\ Len(<<raw>>) = 1 /\ <<raw>>[1] = raw
      <4> HIDE DEF A
      <4> QED
        OBVIOUS
    <3>3. ResultOf(request, <<raw>>) = PageResult(request.reader, raw)
      BY <1>1, <2>2, <3>2 DEF ResultOf
    <3> QED
      BY <1>1, <2>2, <3>1, <3>2, <3>3 DEF Readers
  <2>3. CASE request.reader = "dual"
    <3>1. PICK other \in A :
            /\ said' = Append(said, <<raw, other>>)
            /\ Accepted(Reconciled(PageResult("anthropic", raw),
                                   PageResult("gemini", other)))
      BY <2>1, <2>3
    <3>2. /\ <<raw, other>> \in Seq(A) /\ Len(<<raw, other>>) = 2
          /\ <<raw, other>>[1] = raw /\ <<raw, other>>[2] = other
      <4> HIDE DEF A
      <4> QED
        OBVIOUS
    <3>3. ResultOf(request, <<raw, other>>) =
             Reconciled(PageResult("anthropic", raw), PageResult("gemini", other))
      BY <1>1, <2>3, <3>2 DEF ResultOf
    <3> QED
      BY <1>1, <2>3, <3>1, <3>2, <3>3 DEF Readers
  <2> QED
    BY <2>2, <2>3
<1>5. PICK heard \in Seq(A) : /\ Len(heard) = Readers(request)
                              /\ said' = Append(said, heard)
                              /\ Accepted(ResultOf(request, heard))
  BY <1>4
<1>6. SaidInv' /\ EntryInv'
  BY <1>1, <1>5, AcceptedKeeps
<1> QED
  BY <1>1, <1>3, <1>6 DEF ReadInv

LEMMA CallKeeps ==
    ASSUME ReadInv, CallStarts \/ Answers("primary") \/ Answers("backup")
                    \/ PrimaryFails \/ BackupFails \/ ShadowEnds
    PROVE  ReadInv'
<1> DEFINE A == Replies[request.replies]
<1>1. /\ Reading /\ UNCHANGED <<request, said, parts, entry>>
  BY DEF CallStarts, Missing, Answers, PrimaryFails, BackupFails, ShadowEnds
<1>2. SaidInv' /\ EntryInv' /\ request' \in Uploads
  BY <1>1 DEF ReadInv, SaidInv, EntryInv, Reading
<1>3. MaxAttempts \in Nat \ {0}
  BY DEF ReadingAssumption
<1>4. /\ call \in [tries : 0 .. MaxAttempts,
                   main : {"idle", "primary", "backup", "answered", "raised"},
                   shadow : {"off", "asking", "ended"}, heard : Seq(A)]
      /\ call.main = "primary" => call.tries < MaxAttempts
      /\ call.main = "answered" => \E take \in A : call.heard = <<take>>
      /\ call # Idle => request.kind = "voice" /\ Len(said) < request.wanted
  BY <1>1 DEF ReadInv, CallInv
<1>5. A' = A
  BY <1>1
<1> HIDE DEF A
<1>6. ASSUME /\ call' \in [tries : 0 .. MaxAttempts,
                           main : {"idle", "primary", "backup", "answered", "raised"},
                           shadow : {"off", "asking", "ended"}, heard : Seq(A)]
             /\ call'.main = "primary" => call'.tries < MaxAttempts
             /\ call'.main = "answered" => \E take \in A : call'.heard = <<take>>
             /\ request.kind = "voice" /\ Len(said) < request.wanted
      PROVE  ReadInv'
  <2>1. CallInv'
    BY <1>1, <1>5, <1>6 DEF CallInv, A
  <2> QED
    BY <1>2, <2>1 DEF ReadInv
<1>7. CASE CallStarts
  <2>1. request.kind = "voice" /\ Len(said) < request.wanted
    BY <1>7, MissingFacts DEF CallStarts
  <2>2. \/ call' = [tries |-> 0, main |-> "primary", shadow |-> "asking", heard |-> <<>>]
        \/ call' = [tries |-> 0, main |-> "primary", shadow |-> "off", heard |-> <<>>]
    BY <1>7 DEF CallStarts, Idle
  <2>3. <<>> \in Seq(A) /\ 0 \in 0 .. MaxAttempts /\ 0 < MaxAttempts
    BY <1>3, EmptySeq
  <2>4. /\ call' \in [tries : 0 .. MaxAttempts,
                      main : {"idle", "primary", "backup", "answered", "raised"},
                      shadow : {"off", "asking", "ended"}, heard : Seq(A)]
        /\ call'.main = "primary" /\ call'.tries = 0
    <3>1. CASE call' = [tries |-> 0, main |-> "primary", shadow |-> "asking", heard |-> <<>>]
      BY <2>3, <3>1
    <3>2. CASE call' = [tries |-> 0, main |-> "primary", shadow |-> "off", heard |-> <<>>]
      BY <2>3, <3>2
    <3> QED
      BY <2>2, <3>1, <3>2
  <2> QED
    BY <1>6, <2>1, <2>3, <2>4
<1>8. ASSUME call.main \in {"primary", "backup"} \/ call.shadow = "asking"
      PROVE  request.kind = "voice" /\ Len(said) < request.wanted
  BY <1>4, <1>8 DEF Idle
<1>9. ASSUME NEW who \in {"primary", "backup"}, Answers(who) PROVE ReadInv'
  <2>1. PICK take \in A : call' = [call EXCEPT !.main = "answered", !.heard = <<take>>]
    BY <1>9 DEF Answers, Answerable, A
  <2>2. request.kind = "voice" /\ Len(said) < request.wanted
    BY <1>8, <1>9 DEF Answers
  <2>3. <<take>> \in Seq(A)
    OBVIOUS
  <2>4. /\ call' \in [tries : 0 .. MaxAttempts,
                      main : {"idle", "primary", "backup", "answered", "raised"},
                      shadow : {"off", "asking", "ended"}, heard : Seq(A)]
        /\ call'.main = "answered" /\ call'.heard = <<take>>
    BY <1>4, <2>1, <2>3
  <2> QED
    BY <1>6, <2>2, <2>4
<1>10. CASE PrimaryFails
  <2>1. call.main = "primary" /\ call.tries \in Nat /\ call.tries < MaxAttempts
    BY <1>3, <1>4, <1>10 DEF PrimaryFails
  <2>2. \/ call' = [call EXCEPT !.tries = call.tries + 1] /\ call.tries + 1 < MaxAttempts
        \/ call' = [call EXCEPT !.tries = call.tries + 1, !.main = "backup"]
        \/ call' = [call EXCEPT !.main = "raised"]
    BY <1>10 DEF PrimaryFails, Retried
  <2>3. call.tries + 1 \in 0 .. MaxAttempts
    BY <1>3, <2>1
  <2>4. /\ call' \in [tries : 0 .. MaxAttempts,
                      main : {"idle", "primary", "backup", "answered", "raised"},
                      shadow : {"off", "asking", "ended"}, heard : Seq(A)]
        /\ call'.main = "primary" => call'.tries < MaxAttempts
        /\ call'.main # "answered"
    BY <1>4, <2>1, <2>2, <2>3
  <2> QED
    BY <1>6, <1>8, <2>1, <2>4
<1>11. CASE BackupFails
  <2>1. call.main = "backup" /\ call' = [call EXCEPT !.main = "raised"]
    BY <1>11 DEF BackupFails
  <2>2. /\ call' \in [tries : 0 .. MaxAttempts,
                      main : {"idle", "primary", "backup", "answered", "raised"},
                      shadow : {"off", "asking", "ended"}, heard : Seq(A)]
        /\ call'.main = "raised"
    BY <1>4, <2>1
  <2> QED
    BY <1>6, <1>8, <2>1, <2>2
<1>12. CASE ShadowEnds
  <2>1. call.shadow = "asking" /\ call' = [call EXCEPT !.shadow = "ended"]
    BY <1>12 DEF ShadowEnds
  <2>2. /\ call' \in [tries : 0 .. MaxAttempts,
                      main : {"idle", "primary", "backup", "answered", "raised"},
                      shadow : {"off", "asking", "ended"}, heard : Seq(A)]
        /\ call'.main = call.main /\ call'.tries = call.tries
        /\ call'.heard = call.heard
    BY <1>4, <2>1
  <2> QED
    BY <1>4, <1>6, <1>8, <2>1, <2>2
<1> QED
  BY <1>7, <1>9, <1>10, <1>11, <1>12

LEMMA CallEndsKeeps ==
    ASSUME ReadInv, CallEnds
    PROVE  ReadInv'
<1> DEFINE A == Replies[request.replies]
<1>1. /\ Reading /\ request' = request /\ call' = Idle /\ request \in Uploads
      /\ call.main \in {"answered", "raised"}
  BY DEF CallEnds, ReadInv
<1>2. request.kind = "voice" /\ Len(said) < request.wanted
      /\ (call.main = "answered" => \E take \in A : call.heard = <<take>>)
  <2>1. call # Idle
    BY <1>1 DEF Idle
  <2> QED
    BY <1>1, <2>1 DEF ReadInv, CallInv
<1>3. CallInv'
  BY <1>1, EmptySeq DEF CallInv, Idle, ReadingAssumption
<1>4. CASE /\ call.main = "answered"
           /\ said' = Append(said, call.heard)
           /\ \E result \in {TakeResult(call.heard[1])} : Accepted(result)
  <2>1. PICK take \in A : call.heard = <<take>>
    BY <1>2, <1>4
  <2>2. call.heard \in Seq(A) /\ Len(call.heard) = Readers(request)
    BY <1>2, <2>1 DEF Readers
  <2>3. Accepted(ResultOf(request, call.heard))
    BY <1>2, <1>4 DEF ResultOf
  <2>4. SaidInv' /\ EntryInv'
    BY <1>1, <1>2, <1>4, <2>2, <2>3, AcceptedKeeps
  <2> QED
    BY <1>1, <1>3, <2>4 DEF ReadInv
<1>5. CASE call.main = "raised" /\ entry' = Failed /\ UNCHANGED <<said, parts>>
  <2>1. SaidInv' /\ EntryInv'
    BY <1>1, <1>5, FailedKeeps
  <2> QED
    BY <1>1, <1>3, <2>1 DEF ReadInv
<1> QED
  BY <1>4, <1>5 DEF CallEnds

LEMMA PageFailsKeeps ==
    ASSUME ReadInv, PageFails
    PROVE  ReadInv'
<1>1. /\ entry' = Failed /\ UNCHANGED <<request, call, said, parts>>
      /\ request \in Uploads /\ CallInv
  BY DEF PageFails, ReadInv
<1>2. SaidInv' /\ EntryInv' /\ ~Reading'
  BY <1>1, FailedKeeps
<1>3. CallInv'
  BY <1>1, <1>2 DEF CallInv
<1> QED
  BY <1>1, <1>2, <1>3 DEF ReadInv

\* An entry is stored, and nothing else changes.
LEMMA StoredKeeps ==
    ASSUME ReadInv, Reading, UNCHANGED <<request, call, said, parts>>,
           entry'.state # "reading"
    PROVE  request' \in Uploads /\ CallInv' /\ SaidInv'
<1>1. ~Reading'
  BY DEF Reading
<1>2. CallInv'
  BY <1>1 DEF ReadInv, CallInv
<1>3. SaidInv'
  BY <1>1 DEF ReadInv, SaidInv
<1> QED
  BY <1>2, <1>3 DEF ReadInv

LEMMA EntryStoredKeeps ==
    ASSUME ReadInv, EntryStored
    PROVE  ReadInv'
<1> DEFINE whole == Joined(parts, Separator(request))
           t == whole.text
           ns == 0 .. Min({Window, Len(t) - Leading(t)})
<1>1. /\ Reading /\ request.kind # "text" /\ Len(parts) = request.wanted
      /\ UNCHANGED <<request, call, said, parts>>
  BY DEF EntryStored
<1>2. PICK n \in ns :
        \/ entry' = Stored(t, whole.doubts, Unheaded(t, n))
        \/ /\ Unheaded(t, n) # <<>>
           /\ \E reply \in Reformattings(Unheaded(t, n)) :
                entry' = Stored(t, whole.doubts, Formatted(Unheaded(t, n), reply))
  BY DEF EntryStored, Separator
<1>3. Separator(request) \in AnyText
  <2>1. "/" \in Character
    BY DEF Character, Blank
  <2> QED
    BY <2>1 DEF Separator, Break, BlankLine, AnyText
<1>4. whole \in Part
  BY <1>3, JoinedTyped DEF ReadInv, SaidInv
<1> HIDE DEF whole
<1>5. t \in AnyText /\ whole.doubts \subseteq Offsets(t)
      /\ whole = [text |-> t, doubts |-> whole.doubts]
  BY <1>4, PartFacts
<1> HIDE DEF t
<1>6. Leading(t) \in Nat /\ Leading(t) <= Len(t) /\ Len(t) \in Nat
  BY <1>5, StrippedFacts, TextFacts
<1>7. n \in Nat /\ n <= Len(t) - Leading(t)
  <2> DEFINE S == {Window, Len(t) - Leading(t)}
  <2>1. S \subseteq Nat /\ S # {} /\ Len(t) - Leading(t) \in S
    BY <1>6 DEF ReadingAssumption
  <2> HIDE DEF S
  <2>2. Min(S) \in S /\ Min(S) <= Len(t) - Leading(t)
    BY <2>1, LeastOf
  <2>3. n \in 0 .. Min(S) /\ Min(S) \in Nat
    BY <2>1, <2>2 DEF S
  <2> QED
    BY <1>6, <2>2, <2>3
<1> HIDE DEF ns
<1> DEFINE body == Unheaded(t, n)
<1>8. body \in AnyText
  BY <1>5, <1>7, UnheadedFacts
<1>9. ASSUME NEW final \in AnyText, FinalOf(t, final), entry' = Stored(t, whole.doubts, final)
      PROVE  ReadInv'
  <2>1. /\ entry'.state = "stored" /\ entry'.text = t /\ entry'.doubts = whole.doubts
        /\ entry'.final = final
    BY <1>9 DEF Stored
  <2>2. request' \in Uploads /\ CallInv' /\ SaidInv'
    BY <1>1, <2>1, StoredKeeps
  <2>3. Len(parts) = Len(said)
    BY <1>1 DEF ReadInv, SaidInv
  <2>4. [text |-> t, doubts |-> whole.doubts] = Joined(parts, Separator(request))
    BY <1>5 DEF whole
  <2>5. EntryInv'
    BY <1>1, <1>5, <1>9, <2>1, <2>3, <2>4 DEF EntryInv
  <2> QED
    BY <2>2, <2>5 DEF ReadInv
<1>10. CASE entry' = Stored(t, whole.doubts, body)
  <2>1. FinalOf(t, body)
    BY <1>7 DEF FinalOf
  <2> QED
    BY <1>8, <1>9, <1>10, <2>1
<1>11. CASE /\ body # <<>>
            /\ \E reply \in Reformattings(body) :
                 entry' = Stored(t, whole.doubts, Formatted(body, reply))
  <2>1. PICK reply \in Reformattings(body) :
          entry' = Stored(t, whole.doubts, Formatted(body, reply))
    BY <1>11
  <2>2. reply \in AnyText
    BY <1>8, <1>11, ReformattingsTyped
  <2>3. Formatted(body, reply) \in AnyText
    BY <1>8, <2>2 DEF Formatted
  <2>4. FinalOf(t, Formatted(body, reply))
    BY <1>7, <2>2 DEF FinalOf
  <2> QED
    BY <1>9, <2>1, <2>3, <2>4
<1> QED
  BY <1>2, <1>10, <1>11

LEMMA TextStoredKeeps ==
    ASSUME ReadInv, TextStored
    PROVE  ReadInv'
<1>1. /\ Reading /\ request.kind = "text" /\ request \in Uploads
      /\ UNCHANGED <<request, call, said, parts>>
  BY DEF TextStored, ReadInv
<1>2. PICK take \in Replies[request.replies] :
        entry' = IF IsBlank(take.text) THEN Failed
                 ELSE Stored(Stripped(take.text), {}, Stripped(take.text))
  BY DEF TextStored, Answerable
<1>3. Stripped(take.text) \in AnyText
  <2>1. take \in AnyTake
    BY <1>1, UploadFacts
  <2>2. take.text \in AnyText
    BY <2>1 DEF AnyTake
  <2> QED
    BY <2>2, StrippedFacts
<1>4. CASE entry' = Failed
  <2>1. SaidInv' /\ EntryInv' /\ ~Reading'
    BY <1>1, <1>4, FailedKeeps
  <2>2. CallInv'
    BY <1>1, <2>1 DEF ReadInv, CallInv
  <2> QED
    BY <1>1, <2>1, <2>2 DEF ReadInv
<1>5. CASE entry' = Stored(Stripped(take.text), {}, Stripped(take.text))
  <2>1. /\ entry'.state = "stored" /\ entry'.doubts = {}
        /\ entry'.text = Stripped(take.text) /\ entry'.final = Stripped(take.text)
    BY <1>5 DEF Stored
  <2>2. request' \in Uploads /\ CallInv' /\ SaidInv'
    BY <1>1, <2>1, StoredKeeps
  <2>3. EntryInv'
    BY <1>1, <1>3, <2>1 DEF EntryInv
  <2> QED
    BY <2>2, <2>3 DEF ReadInv
<1> QED
  BY <1>2, <1>4, <1>5

LEMMA ReadNext == ReadInv /\ [Next]_vars => ReadInv'
<1> SUFFICES ASSUME ReadInv, [Next]_vars PROVE ReadInv'
  OBVIOUS
<1>1. CASE UNCHANGED readingVars
  BY <1>1 DEF readingVars, ReadInv, CallInv, SaidInv, EntryInv, Reading
<1>2. CASE ReadingStep
  BY <1>2, PageFailsKeeps, PageReadKeeps, CallKeeps, CallEndsKeeps,
     EntryStoredKeeps, TextStoredKeeps DEF ReadingStep, ProviderStep
<1>3. UNCHANGED readingVars \/ ReadingStep
  <2>1. CASE Next
    BY <2>1 DEF Next, Read, Embed, Chunked, Look, Change
  <2>2. CASE UNCHANGED vars
    BY <2>2 DEF vars
  <2> QED
    BY <2>1, <2>2
<1> QED
  BY <1>1, <1>2, <1>3

LEMMA ReadInvariant == Spec => []ReadInv
BY ReadInit, ReadNext, PTL DEF Spec

LEMMA ReadImplies == ReadInv => ReadingType
<1> SUFFICES ASSUME ReadInv PROVE ReadingType
  OBVIOUS
<1>1. request \in Uploads /\ CallInv /\ SaidInv /\ EntryInv
  BY DEF ReadInv
<1>2. /\ call.tries \in 0 .. MaxAttempts
      /\ call.main \in {"idle", "primary", "backup", "answered", "raised"}
      /\ call.shadow \in {"off", "asking", "ended"}
  BY <1>1 DEF CallInv
<1> QED
  BY <1>1, <1>2 DEF SaidInv, EntryInv, ReadingType

-----------------------------------------------------------------------------
(* Pieces, as words from one to another.                                   *)

\* From word i to word j.
Spans(t, p, i, j) ==
    /\ i \in Nat /\ j \in Nat /\ 1 <= i /\ i <= j /\ j <= Len(Words(t))
    /\ p.start = Words(t)[i][1] /\ p.end = Words(t)[j][2]

\* The first and the last word of a piece, or of a chunk.
Lo(t, p) == CHOOSE i \in 1 .. Len(Words(t)) : Words(t)[i][1] = p.start
Hi(t, p) == CHOOSE j \in 1 .. Len(Words(t)) : Words(t)[j][2] = p.end
Whole(t, p) == \E i, j \in Nat : Spans(t, p, i, j)

\* The text from one offset to the other.
TextOf(t, p) == Cut(t, p.start, p.end)

LEMMA WordsInOrder ==
    ASSUME NEW t \in AnyText
    PROVE  /\ Len(Words(t)) \in Nat
           /\ \A i \in 1 .. Len(Words(t)) :
                /\ Words(t)[i][1] \in Nat /\ Words(t)[i][2] \in Nat
                /\ Words(t)[i][1] < Words(t)[i][2] /\ Words(t)[i][2] <= Len(t)
           /\ \A i, j \in 1 .. Len(Words(t)) :
                /\ Words(t)[i][1] < Words(t)[j][1] <=> i < j
                /\ Words(t)[i][2] < Words(t)[j][2] <=> i < j
                /\ Words(t)[i][1] < Words(t)[j][2] <=> i <= j
                /\ i < j => Words(t)[i][2] < Words(t)[j][1]
<1> DEFINE n == Len(Words(t))
           a(i) == Words(t)[i][1]
           b(i) == Words(t)[i][2]
<1>1. /\ n \in Nat
      /\ \A i \in 1 .. n : /\ a(i) \in Nat /\ b(i) \in Nat /\ a(i) < b(i)
                           /\ b(i) <= Len(t)
      /\ \A i, j \in 1 .. n : i < j => b(i) < a(j)
  BY WordOffsets
<1> HIDE DEF n, a, b
<1>2. ASSUME NEW i \in 1 .. n, NEW j \in 1 .. n
      PROVE  /\ a(i) < a(j) <=> i < j
             /\ b(i) < b(j) <=> i < j
             /\ a(i) < b(j) <=> i <= j
  <2>1. /\ a(i) \in Nat /\ b(i) \in Nat /\ a(i) < b(i)
        /\ a(j) \in Nat /\ b(j) \in Nat /\ a(j) < b(j)
        /\ i < j => b(i) < a(j)
        /\ j < i => b(j) < a(i)
        /\ i \in Nat /\ j \in Nat
    BY <1>1
  <2>2. CASE i < j
    BY <2>1, <2>2
  <2>3. CASE j < i
    BY <2>1, <2>3
  <2>4. CASE i = j
    BY <2>1, <2>4
  <2> QED
    BY <2>1, <2>2, <2>3, <2>4
<1> QED
  BY <1>1, <1>2 DEF n, a, b

LEMMA SpansOnce ==
    ASSUME NEW t \in AnyText, NEW p, NEW i, NEW j, Spans(t, p, i, j)
    PROVE  Lo(t, p) = i /\ Hi(t, p) = j
<1> DEFINE n == Len(Words(t))
           a(k) == Words(t)[k][1]
           b(k) == Words(t)[k][2]
<1>1. /\ n \in Nat
      /\ \A k, l \in 1 .. n : (a(k) < a(l) <=> k < l) /\ (b(k) < b(l) <=> k < l)
      /\ \A k \in 1 .. n : a(k) \in Nat /\ b(k) \in Nat
  BY WordsInOrder
<1>2. i \in 1 .. n /\ j \in 1 .. n /\ p.start = a(i) /\ p.end = b(j)
  BY <1>1 DEF Spans
<1>3. Lo(t, p) = CHOOSE k \in 1 .. n : a(k) = p.start
  BY DEF Lo
<1>4. Hi(t, p) = CHOOSE k \in 1 .. n : b(k) = p.end
  BY DEF Hi
<1> HIDE DEF n, a, b
<1>5. \A k \in 1 .. n : a(k) = a(i) => k = i
  <2> TAKE k \in 1 .. n
  <2>1. (a(k) < a(i) <=> k < i) /\ (a(i) < a(k) <=> i < k) /\ a(k) \in Nat /\ a(i) \in Nat
    BY <1>1, <1>2
  <2> QED
    BY <1>1, <1>2, <2>1
<1>6. \A k \in 1 .. n : b(k) = b(j) => k = j
  <2> TAKE k \in 1 .. n
  <2>1. (b(k) < b(j) <=> k < j) /\ (b(j) < b(k) <=> j < k) /\ b(k) \in Nat /\ b(j) \in Nat
    BY <1>1, <1>2
  <2> QED
    BY <1>1, <1>2, <2>1
<1> QED
  BY <1>2, <1>3, <1>4, <1>5, <1>6

LEMMA WholeFacts ==
    ASSUME NEW t \in AnyText, NEW p, Whole(t, p)
    PROVE  /\ Spans(t, p, Lo(t, p), Hi(t, p))
           /\ Lo(t, p) \in Nat /\ Hi(t, p) \in Nat /\ Len(Words(t)) \in Nat
           /\ 1 <= Lo(t, p) /\ Lo(t, p) <= Hi(t, p) /\ Hi(t, p) <= Len(Words(t))
           /\ p.start = Words(t)[Lo(t, p)][1] /\ p.end = Words(t)[Hi(t, p)][2]
           /\ p.start \in Nat /\ p.end \in Nat /\ p.start < p.end /\ p.end <= Len(t)
<1>1. PICK i \in Nat, j \in Nat : Spans(t, p, i, j)
  BY DEF Whole
<1>2. Lo(t, p) = i /\ Hi(t, p) = j
  BY <1>1, SpansOnce
<1>3. i \in 1 .. Len(Words(t)) /\ j \in 1 .. Len(Words(t)) /\ Len(Words(t)) \in Nat
  BY <1>1, WordsInOrder DEF Spans
<1>4. /\ Words(t)[i][1] \in Nat /\ Words(t)[j][2] \in Nat /\ Words(t)[j][2] <= Len(t)
      /\ Words(t)[i][1] < Words(t)[j][2] <=> i <= j
  BY <1>3, WordsInOrder
<1> QED
  BY <1>1, <1>2, <1>3, <1>4 DEF Spans

\* A part of a text between two places where no letter is: its letters and words.
LEMMA LettersOfCut ==
    ASSUME NEW t \in AnyText, NEW a \in Nat, NEW b \in Nat, a <= b, b <= Len(t)
    PROVE  \A k \in Int : k \in Letters(Cut(t, a, b)) <=>
              0 <= k /\ k < b - a /\ k + a \in Letters(t)
<1> DEFINE u == Cut(t, a, b)
<1>1. /\ u \in AnyText /\ Len(u) = b - a
      /\ \A k \in 0 .. b - a - 1 : u[k + 1] = t[a + k + 1]
  BY CutFacts
<1> HIDE DEF u
<1>2. Len(t) \in Nat
  BY TextFacts
<1> SUFFICES ASSUME NEW k \in Int
             PROVE  k \in Letters(u) <=> 0 <= k /\ k < b - a /\ k + a \in Letters(t)
  BY DEF u
<1>3. k \in Letters(u) <=> 0 <= k /\ k < b - a /\ u[k + 1] \notin Blank
  BY <1>1, LettersOf
<1>4. k + a \in Letters(t) <=> 0 <= k + a /\ k + a < Len(t) /\ t[k + a + 1] \notin Blank
  <2>1. k + a \in Int
    OBVIOUS
  <2> QED
    BY <2>1, LettersOf
<1>5. 0 <= k /\ k < b - a => u[k + 1] = t[k + a + 1]
  <2> SUFFICES ASSUME 0 <= k, k < b - a PROVE u[k + 1] = t[k + a + 1]
    OBVIOUS
  <2>1. k \in 0 .. b - a - 1
    OBVIOUS
  <2>2. u[k + 1] = t[a + k + 1]
    BY <1>1, <2>1
  <2>3. a + k + 1 = k + a + 1
    OBVIOUS
  <2> QED
    BY <2>2, <2>3
<1> QED
  BY <1>2, <1>3, <1>4, <1>5

LEMMA WordsOfCut ==
    ASSUME NEW t \in AnyText, NEW a \in Nat, NEW b \in Nat, a <= b, b <= Len(t),
           a - 1 \notin Letters(t), b \notin Letters(t),
           NEW x \in Int, NEW y \in Int
    PROVE  IsWord(Cut(t, a, b), x, y) <=>
              0 <= x /\ y <= b - a /\ IsWord(t, x + a, y + a)
<1> DEFINE u == Cut(t, a, b)
           L == Letters(t)
           M == Letters(u)
<1>1. u \in AnyText /\ Len(u) = b - a
  BY CutFacts
<1>2. \A k \in Int : k \in M <=> 0 <= k /\ k < b - a /\ k + a \in L
  BY LettersOfCut
<1>3. Len(t) \in Nat
  BY TextFacts
<1> HIDE DEF u, L, M
<1>4. ASSUME IsWord(u, x, y)
      PROVE  0 <= x /\ y <= b - a /\ IsWord(t, x + a, y + a)
  <2>1. /\ x \in Nat /\ y \in Nat /\ x < y /\ y <= b - a
        /\ x - 1 \notin M /\ y \notin M /\ \A k \in x .. y - 1 : k \in M
    BY <1>1, <1>4 DEF IsWord, M
  <2>2. x + a - 1 \notin L
    <3>1. CASE x = 0
      BY <3>1 DEF L
    <3>2. CASE x # 0
      <4>1. x - 1 \in Int /\ 0 <= x - 1 /\ x - 1 < b - a /\ (x - 1) + a = x + a - 1
        BY <2>1, <3>2
      <4> QED
        BY <1>2, <2>1, <4>1
    <3> QED
      BY <3>1, <3>2
  <2>3. y + a \notin L
    <3>1. CASE y = b - a
      <4>1. y + a = b
        BY <3>1
      <4> QED
        BY <4>1 DEF L
    <3>2. CASE y # b - a
      <4>1. 0 <= y /\ y < b - a
        BY <2>1, <3>2
      <4> QED
        BY <1>2, <2>1, <4>1
    <3> QED
      BY <3>1, <3>2
  <2>4. \A k \in x + a .. y + a - 1 : k \in L
    <3> TAKE k \in x + a .. y + a - 1
    <3>1. k - a \in Int /\ k - a \in x .. y - 1 /\ (k - a) + a = k
      BY <2>1
    <3>2. k - a \in M
      BY <2>1, <3>1
    <3> QED
      BY <1>2, <3>1, <3>2
  <2>5. x + a \in Nat /\ y + a \in Nat /\ x + a < y + a /\ y + a <= Len(t)
    BY <1>3, <2>1
  <2> QED
    BY SMTT(30), <2>1, <2>2, <2>3, <2>4, <2>5 DEF IsWord, L
<1>5. ASSUME 0 <= x, y <= b - a, IsWord(t, x + a, y + a)
      PROVE  IsWord(u, x, y)
  <2>1. /\ x + a < y + a
        /\ x + a - 1 \notin L /\ y + a \notin L
        /\ \A k \in x + a .. y + a - 1 : k \in L
    BY SMTT(30), <1>5 DEF IsWord, L
  <2>2. x \in Nat /\ y \in Nat /\ x < y
    BY <1>5, <2>1
  <2>3. x - 1 \notin M
    <3>1. x - 1 \in Int /\ (x - 1) + a = x + a - 1
      OBVIOUS
    <3> QED
      BY <1>2, <2>1, <3>1
  <2>4. y \notin M
    BY <1>2, <2>1
  <2>5. \A k \in x .. y - 1 : k \in M
    <3> TAKE k \in x .. y - 1
    <3>1. k \in Int /\ 0 <= k /\ k < b - a /\ k + a \in x + a .. y + a - 1
      BY <1>5, <2>2
    <3> QED
      BY <1>2, <2>1, <3>1
  <2> QED
    BY <1>1, <1>5, <2>2, <2>3, <2>4, <2>5 DEF IsWord, M
<1> QED
  BY <1>4, <1>5 DEF u

\* The words of a piece are those of the text, from its first to its last.
LEMMA WordsOfPiece ==
    ASSUME NEW t \in AnyText, NEW p, Whole(t, p)
    PROVE  /\ TextOf(t, p) \in AnyText
           /\ Len(WordsOf(TextOf(t, p))) = Hi(t, p) - Lo(t, p) + 1
           /\ \A k \in 1 .. Hi(t, p) - Lo(t, p) + 1 :
                 WordsOf(TextOf(t, p))[k] = WordsOf(t)[Lo(t, p) + k - 1]
<1> DEFINE i == Lo(t, p)
           j == Hi(t, p)
           W == Words(t)
           a == p.start
           b == p.end
           u == TextOf(t, p)
           m == j - i + 1
           ws == [k \in 1 .. m |-> <<W[i + k - 1][1] - a, W[i + k - 1][2] - a>>]
<1>1. /\ i \in Nat /\ j \in Nat /\ Len(W) \in Nat
      /\ 1 <= i /\ i <= j /\ j <= Len(W) /\ a = W[i][1] /\ b = W[j][2]
      /\ a \in Nat /\ b \in Nat /\ a < b /\ b <= Len(t)
  BY WholeFacts
<1>2. u = Cut(t, a, b)
  BY DEF TextOf
<1>3. /\ \A k \in 1 .. Len(W) : /\ IsWord(t, W[k][1], W[k][2])
                                /\ W[k][1] \in Nat /\ W[k][2] \in Nat
      /\ \A k, l \in 1 .. Len(W) : k < l => W[k][2] < W[l][1]
  BY WordOffsets
<1>4. \A x, y : IsWord(t, x, y) => \E k \in 1 .. Len(W) : W[k][1] = x /\ W[k][2] = y
  BY WordsListed DEF ListsWords
<1>5. \A k, l \in 1 .. Len(W) :
         /\ W[k][1] < W[l][1] <=> k < l
         /\ W[k][2] < W[l][2] <=> k < l
  BY WordsInOrder
<1>6. m \in Nat /\ i \in 1 .. Len(W) /\ j \in 1 .. Len(W)
      /\ \A k \in 1 .. m : i + k - 1 \in 1 .. Len(W) /\ i <= i + k - 1 /\ i + k - 1 <= j
  BY <1>1
<1>7. a - 1 \notin Letters(t) /\ b \notin Letters(t)
  BY <1>1, <1>3, <1>6 DEF IsWord
<1> HIDE DEF i, j, W, a, b, u
<1>0. a \in Nat /\ b \in Nat /\ a < b /\ a <= b /\ b <= Len(t)
  BY <1>1
<1>8. u \in AnyText /\ Len(u) = b - a
  BY <1>0, <1>2, CutFacts
<1>9. ASSUME NEW k \in 1 .. m
      PROVE  /\ ws[k] = <<W[i + k - 1][1] - a, W[i + k - 1][2] - a>>
             /\ ws[k] \in Nat \X Nat /\ ws[k][1] \in Nat /\ ws[k][2] \in Nat
             /\ IsWord(u, ws[k][1], ws[k][2])
  <2> DEFINE x == W[i + k - 1][1]
             y == W[i + k - 1][2]
  <2>1. x \in Nat /\ y \in Nat /\ IsWord(t, x, y)
    BY <1>3, <1>6
  <2>2. ~(x < a) /\ ~(b < y)
    <3>1. i + k - 1 \in 1 .. Len(W) /\ ~(i + k - 1 < i) /\ ~(j < i + k - 1)
      BY SMTT(30), <1>1, <1>6
    <3> QED
      BY <1>1, <1>5, <1>6, <3>1
  <2>3. ws[k] = <<x - a, y - a>>
    OBVIOUS
  <2> HIDE DEF x, y, ws
  <2>4. 0 <= x - a /\ y - a <= b - a /\ (x - a) + a = x /\ (y - a) + a = y
    <3>1. x \in Nat /\ y \in Nat /\ a \in Nat /\ b \in Nat
      BY <1>0, <2>1
    <3>2. 0 <= x - a /\ (x - a) + a = x
      BY <2>2, <3>1
    <3>3. y - a <= b - a /\ (y - a) + a = y
      BY <2>2, <3>1
    <3> QED
      BY <3>2, <3>3
  <2>5. x < y
    BY <2>1 DEF IsWord
  <2>6. x - a \in Nat /\ y - a \in Nat
    BY <1>0, <2>1, <2>4, <2>5
  <2>7. IsWord(u, x - a, y - a)
    <3> DEFINE c == x - a
               d == y - a
    <3>1. c \in Int /\ d \in Int /\ 0 <= c /\ d <= b - a
      BY <2>4, <2>6
    <3>2. IsWord(t, c + a, d + a)
      BY <2>1, <2>4
    <3> HIDE DEF c, d
    <3>3. IsWord(u, c, d)
      BY <1>0, <1>2, <1>7, <3>1, <3>2, WordsOfCut
    <3> QED
      BY <3>3 DEF c, d
  <2> QED
    BY <2>3, <2>6, <2>7 DEF x, y
<1>10. ws \in [1 .. m -> Nat \X Nat]
  BY <1>9
<1>11. ws \in Seq(Nat \X Nat) /\ Len(ws) = m /\ DOMAIN ws = 1 .. m
  BY <1>6, <1>10, FunctionSeq
<1> HIDE DEF ws, m
<1>12. ASSUME NEW x, NEW y, IsWord(u, x, y)
       PROVE  \E k \in 1 .. m : ws[k][1] = x /\ ws[k][2] = y
  <2>1. x \in Nat /\ y \in Nat
    BY <1>12 DEF IsWord
  <2>2. y <= b - a /\ IsWord(t, x + a, y + a)
    BY <1>0, <1>2, <1>7, <1>12, <2>1, WordsOfCut
  <2>3. PICK l \in 1 .. Len(W) : W[l][1] = x + a /\ W[l][2] = y + a
    BY <1>4, <2>2
  <2>4. ~(W[l][1] < W[i][1]) /\ ~(W[j][2] < W[l][2])
    BY SMTT(30), <1>1, <2>1, <2>2, <2>3
  <2>5. i <= l /\ l <= j
    BY <1>1, <1>5, <1>6, <2>4
  <2>6. l - i + 1 \in 1 .. m /\ i + (l - i + 1) - 1 = l
    <3>1. l \in Int /\ i \in Int /\ j \in Int /\ i <= l /\ l <= j /\ m = j - i + 1
      BY <1>1, <2>5 DEF m
    <3>2. i + (l - i + 1) - 1 = l
      BY <3>1
    <3> DEFINE o == l - i + 1
    <3>3. o \in Int /\ 1 <= o /\ o <= m /\ m \in Int
      BY <3>1
    <3> HIDE DEF o
    <3>4. o \in 1 .. m
      BY <3>3
    <3> QED
      BY <3>2, <3>4 DEF o
  <2>7. ws[l - i + 1] = <<W[l][1] - a, W[l][2] - a>>
    BY <1>9, <2>6
  <2>8. (x + a) - a = x /\ (y + a) - a = y
    BY <1>1, <2>1
  <2> QED
    BY <2>3, <2>6, <2>7, <2>8
<1>13. ASSUME NEW k \in 1 .. m, NEW l \in 1 .. m, k < l PROVE ws[k][2] < ws[l][1]
  <2>1. i + k - 1 < i + l - 1
    BY <1>1, <1>6, <1>13
  <2>2. W[i + k - 1][2] < W[i + l - 1][1]
    BY <1>3, <1>6, <2>1
  <2>3. W[i + k - 1][2] \in Nat /\ W[i + l - 1][1] \in Nat
    BY <1>3, <1>6
  <2>4. ws[k][2] = W[i + k - 1][2] - a /\ ws[l][1] = W[i + l - 1][1] - a
    BY <1>9
  <2> DEFINE e == W[i + k - 1][2]
             f == W[i + l - 1][1]
  <2>5. e \in Nat /\ f \in Nat /\ e < f /\ ws[k][2] = e - a /\ ws[l][1] = f - a /\ a \in Nat
    BY <1>0, <2>2, <2>3, <2>4
  <2> HIDE DEF e, f
  <2>6. e - a < f - a
    BY <2>5
  <2> QED
    BY <2>5, <2>6
<1>14. ListsWords(ws, u)
  BY <1>6, <1>9, <1>11, <1>12, <1>13 DEF ListsWords
<1>15. ws = Words(u)
  BY <1>8, <1>14, WordsUnique
<1>16. Len(WordsOf(u)) = m /\ Len(Words(u)) = m
  BY <1>8, <1>11, <1>15, WordsOfFacts
<1>17. ASSUME NEW k \in 1 .. m PROVE WordsOf(u)[k] = WordsOf(t)[i + k - 1]
  <2> DEFINE x == W[i + k - 1][1]
             y == W[i + k - 1][2]
  <2>1. WordsOf(u)[k] = Cut(u, ws[k][1], ws[k][2])
    BY <1>8, <1>11, <1>15, WordsOfFacts
  <2>2. ws[k][1] = x - a /\ ws[k][2] = y - a /\ IsWord(u, ws[k][1], ws[k][2])
    BY <1>9
  <2>3. WordsOf(t)[i + k - 1] = Cut(t, x, y)
    BY <1>6, WordsOfFacts DEF W
  <2>4. x \in Nat /\ y \in Nat
    BY <1>3, <1>6
  <2> HIDE DEF x, y
  <2>5. x - a \in Nat /\ y - a \in Nat /\ x - a < y - a /\ y - a <= b - a
    BY <1>8, <2>2 DEF IsWord
  <2>6. Cut(u, x - a, y - a) = Cut(t, x, y)
    <3> DEFINE c == Cut(u, x - a, y - a)
               d == Cut(t, x, y)
    <3>1. x <= y /\ y <= Len(t) /\ x - a <= y - a /\ y - a <= Len(u)
      BY <1>0, <1>8, <2>4, <2>5
    <3>2. /\ d \in AnyText /\ Len(d) = y - x
          /\ \A l \in 0 .. y - x - 1 : d[l + 1] = t[x + l + 1]
      BY <2>4, <3>1, CutFacts
    <3>3. /\ c \in AnyText /\ Len(c) = (y - a) - (x - a)
          /\ \A l \in 0 .. (y - a) - (x - a) - 1 : c[l + 1] = u[(x - a) + l + 1]
      BY <1>8, <2>5, <3>1, CutFacts
    <3>4. \A l \in 0 .. b - a - 1 : u[l + 1] = t[a + l + 1]
      <4>1. /\ Cut(t, a, b) \in AnyText
            /\ \A l \in 0 .. b - a - 1 : Cut(t, a, b)[l + 1] = t[a + l + 1]
        BY <1>0, CutFacts
      <4> QED
        BY <1>2, <4>1
    <3>5. (y - a) - (x - a) = y - x
      BY <1>0, <2>4
    <3> HIDE DEF c, d
    <3>6. ASSUME NEW l \in 0 .. y - x - 1 PROVE c[l + 1] = d[l + 1]
      <4>1. (x - a) + l \in 0 .. b - a - 1 /\ a + ((x - a) + l) + 1 = x + l + 1
        <5>1. /\ x \in Nat /\ y \in Nat /\ a \in Nat /\ b \in Nat
              /\ 0 <= x - a /\ y - a <= b - a
          BY <1>0, <2>4, <2>5
        <5>2. l \in Int /\ 0 <= l /\ l < y - x
          BY <2>4
        <5>3. a + ((x - a) + l) + 1 = x + l + 1
          BY <5>1, <5>2
        <5> DEFINE o == (x - a) + l
                   d1 == b - a
        <5>4. o \in Int /\ 0 <= o /\ o < d1 /\ d1 \in Int
          BY <5>1, <5>2
        <5> HIDE DEF o, d1
        <5>5. o \in 0 .. d1 - 1
          BY <5>4
        <5> QED
          BY <5>3, <5>5 DEF o, d1
      <4>2. u[((x - a) + l) + 1] = t[a + ((x - a) + l) + 1]
        BY <3>4, <4>1
      <4>3. c[l + 1] = u[(x - a) + l + 1]
        BY <3>3, <3>5
      <4> QED
        BY <3>2, <4>1, <4>2, <4>3
    <3> QED
      BY <3>2, <3>3, <3>5, <3>6, SameText DEF c, d
  <2> QED
    BY <2>1, <2>2, <2>3, <2>6
<1> QED
  BY <1>8, <1>16, <1>17 DEF u, m, i, j

LEMMA SeqJoin ==
    ASSUME NEW S, NEW r \in Seq(S), NEW s \in Seq(S)
    PROVE  /\ Len(r) \in Nat /\ Len(s) \in Nat
           /\ r \o s \in Seq(S) /\ Len(r \o s) = Len(r) + Len(s)
           /\ \A k \in 1 .. Len(r) : (r \o s)[k] = r[k]
           /\ \A k \in 1 .. Len(s) : (r \o s)[Len(r) + k] = s[k]
<1> DEFINE m == Len(r)
           n == Len(s)
           u == r \o s
<1>1. m \in Nat /\ n \in Nat
  BY LenProperties
<1>2. /\ u \in Seq(S) /\ Len(u) = m + n
      /\ \A i \in 1 .. m + n : u[i] = IF i <= m THEN r[i] ELSE s[i - m]
  BY ConcatProperties
<1> HIDE DEF m, n, u
<1>3. \A k \in 1 .. m : u[k] = r[k]
  BY <1>1, <1>2
<1>4. ASSUME NEW k \in 1 .. n PROVE u[m + k] = s[k]
  <2>1. m + k \in 1 .. m + n /\ ~(m + k <= m) /\ (m + k) - m = k
    BY <1>1
  <2> QED
    BY <1>2, <2>1
<1> QED
  BY <1>1, <1>2, <1>3, <1>4 DEF m, n, u

-----------------------------------------------------------------------------
(* What is drawn from a sequence, in order.                                *)

Drawn(q, s, I) ==
    \E a : Ascends(a, I, Len(q)) /\ \A n \in 1 .. Len(q) : q[n] = s[a[n]]

LEMMA ElementsPicked ==
    ASSUME NEW A, NEW s \in Seq(A), NEW I \in SUBSET (1 .. Len(s))
    PROVE  /\ I \subseteq Int /\ Len(s) \in Nat /\ Cardinality(I) \in Nat
           /\ Elements(s, I) \in Seq(A) /\ Len(Elements(s, I)) = Cardinality(I)
           /\ DOMAIN Elements(s, I) = 1 .. Cardinality(I)
           /\ Ascends(Sorted(I), I, Cardinality(I))
           /\ \A n \in 1 .. Cardinality(I) : Elements(s, I)[n] = s[Sorted(I)[n]]
<1>1. Len(s) \in Nat
  BY LenProperties
<1>2. I \subseteq Int
  BY <1>1
<1>3. I \subseteq 1 .. Len(s)
  OBVIOUS
<1> DEFINE e == Elements(s, I)
           o == Sorted(I)
           n == Cardinality(I)
<1>4. /\ n \in Nat /\ e \in Seq(A) /\ Len(e) = n /\ DOMAIN e = 1 .. n
      /\ Ascends(o, I, n)
  BY <1>3, ElementsFacts
<1>5. \A k \in 1 .. n : e[k] = s[o[k]]
  BY <1>3, ElementsFacts
<1> HIDE DEF e, o, n
<1> QED
  BY <1>1, <1>2, <1>4, <1>5 DEF e, o, n

LEMMA DrawnIs ==
    ASSUME NEW A, NEW s \in Seq(A), NEW I \in SUBSET (1 .. Len(s)), NEW q \in Seq(A),
           Drawn(q, s, I)
    PROVE  q = Elements(s, I)
<1> DEFINE e == Elements(s, I)
           o == Sorted(I)
           n == Cardinality(I)
<1>1. PICK a : Ascends(a, I, Len(q)) /\ \A k \in 1 .. Len(q) : q[k] = s[a[k]]
  BY DEF Drawn
<1>2. /\ I \subseteq Int /\ e \in Seq(A) /\ Len(e) = n
      /\ \A k \in 1 .. n : e[k] = s[o[k]]
  BY ElementsPicked
<1>3. o = a /\ n = Len(q)
  BY <1>1, <1>2, SortedIs
<1> HIDE DEF e, o, n
<1>5. Len(q) = Len(e) /\ \A k \in 1 .. Len(q) : q[k] = e[k]
  BY <1>1, <1>2, <1>3
<1> QED
  BY <1>2, <1>5, SeqEqual DEF e

LEMMA DrawnBack ==
    ASSUME NEW A, NEW s \in Seq(A), NEW I \in SUBSET (1 .. Len(s)),
           NEW q, q = Elements(s, I)
    PROVE  /\ q \in Seq(A) /\ Drawn(q, s, I)
           /\ Len(q) \in Nat /\ Len(s) \in Nat /\ I \subseteq Int /\ Len(q) = Cardinality(I)
<1> DEFINE e == Elements(s, I)
           o == Sorted(I)
           n == Cardinality(I)
<1>1. /\ I \subseteq Int /\ e \in Seq(A) /\ Len(e) = n /\ Len(s) \in Nat /\ n \in Nat
      /\ Ascends(o, I, n)
      /\ \A k \in 1 .. n : e[k] = s[o[k]]
  BY ElementsPicked
<1>2. q = e
  OBVIOUS
<1> HIDE DEF e, o
<1>3. Drawn(q, s, I)
  BY <1>1, <1>2 DEF Drawn
<1> QED
  BY <1>1, <1>2, <1>3

Coupled(r, s) == r \o s

\* The positions of J after those of a sequence of m elements.
After(m, J) == {m + j : j \in J}
Onward(a, k, m, b, l) == [x \in 1 .. k + l |-> IF x <= k THEN a[x] ELSE m + b[x - k]]

LEMMA AscendsJoin ==
    ASSUME NEW m \in Nat, NEW I \in SUBSET (1 .. m), NEW J \in SUBSET (Nat \ {0}),
           NEW a, NEW k, Ascends(a, I, k), NEW b, NEW l, Ascends(b, J, l)
    PROVE  Ascends(Onward(a, k, m, b, l), I \cup After(m, J), k + l)
<1> DEFINE c == [x \in 1 .. k + l |-> IF x <= k THEN a[x] ELSE m + b[x - k]]
           K == I \cup After(m, J)
<1>1. /\ k \in Nat /\ \A x \in 1 .. k : a[x] \in I
      /\ \A x \in I : \E i \in 1 .. k : a[i] = x
      /\ \A i, j \in 1 .. k : i < j => a[i] < a[j]
  BY DEF Ascends
<1>2. /\ l \in Nat /\ \A x \in 1 .. l : b[x] \in J
      /\ \A x \in J : \E i \in 1 .. l : b[i] = x
      /\ \A i, j \in 1 .. l : i < j => b[i] < b[j]
  BY DEF Ascends
<1>3. /\ \A x \in I : x \in Nat /\ x <= m
      /\ \A x \in J : x \in Nat /\ x > 0
  OBVIOUS
<1>4. /\ \A x \in 1 .. k + l : x <= k => x \in 1 .. k
      /\ \A x \in 1 .. k + l : ~(x <= k) => x - k \in 1 .. l /\ k + (x - k) = x
      /\ \A x \in 1 .. k : x \in 1 .. k + l /\ x <= k
      /\ \A x \in 1 .. l : k + x \in 1 .. k + l /\ ~(k + x <= k) /\ (k + x) - k = x
  BY <1>1, <1>2
<1>5. \A x \in 1 .. k : c[x] = a[x]
  BY <1>4
<1>6. \A x \in 1 .. k + l : ~(x <= k) => c[x] = m + b[x - k]
  BY <1>4
<1>7. c \in [1 .. k + l -> K]
  <2> SUFFICES ASSUME NEW x \in 1 .. k + l
               PROVE  (IF x <= k THEN a[x] ELSE m + b[x - k]) \in K
    OBVIOUS
  <2>1. CASE x <= k
    BY <1>1, <1>4, <2>1
  <2>2. CASE ~(x <= k)
    BY <1>2, <1>4, <2>2 DEF After
  <2> QED
    BY <2>1, <2>2
<1> HIDE DEF c
<1>8. ASSUME NEW y \in K PROVE \E x \in 1 .. k + l : c[x] = y
  <2>1. CASE y \in I
    BY <1>1, <1>4, <1>5, <2>1
  <2>2. CASE y \in After(m, J)
    <3>1. PICK j \in J : y = m + j
      BY <2>2 DEF After
    <3>2. PICK i \in 1 .. l : b[i] = j
      BY <1>2
    <3> DEFINE x == k + i
    <3>3. x \in 1 .. k + l /\ ~(x <= k) /\ x - k = i
      BY <1>4
    <3> HIDE DEF x
    <3>4. c[x] = m + b[x - k]
      BY <1>6, <3>3
    <3> QED
      BY <3>1, <3>2, <3>3, <3>4
  <2> QED
    BY <2>1, <2>2
<1>9. ASSUME NEW i \in 1 .. k + l, NEW j \in 1 .. k + l, i < j PROVE c[i] < c[j]
  <2>1. CASE j <= k
    <3>1. i <= k /\ i \in 1 .. k /\ j \in 1 .. k
      BY <1>1, <1>4, <1>9, <2>1
    <3> QED
      BY <1>1, <1>5, <1>9, <3>1
  <2>2. CASE i <= k /\ ~(j <= k)
    <3>1. c[i] = a[i] /\ a[i] \in Nat /\ a[i] <= m
      BY <1>1, <1>3, <1>4, <1>5, <2>2
    <3>2. j - k \in 1 .. l
      BY <1>4, <2>2
    <3> DEFINE y == b[j - k]
    <3>3. c[j] = m + y /\ y \in Nat /\ y > 0
      BY <1>2, <1>3, <1>6, <2>2, <3>2
    <3> HIDE DEF y
    <3> QED
      BY <3>1, <3>3
  <2>3. CASE ~(i <= k)
    <3> DEFINE x == i - k
               y == j - k
    <3>1. ~(j <= k) /\ x \in 1 .. l /\ y \in 1 .. l /\ x < y
      BY <1>1, <1>2, <1>9, <2>3
    <3>2. c[i] = m + b[x] /\ c[j] = m + b[y]
      BY <1>6, <2>3, <3>1
    <3> HIDE DEF x, y
    <3>3. b[x] < b[y] /\ b[x] \in Nat /\ b[y] \in Nat
      BY <1>2, <1>3, <3>1
    <3> QED
      BY <3>2, <3>3
  <2> QED
    BY <1>1, <1>9, <2>1, <2>2, <2>3
<1>10. k + l \in Nat
  BY <1>1, <1>2
<1> QED
  BY <1>7, <1>8, <1>9, <1>10 DEF Ascends, c, Onward

LEMMA ElementsJoin ==
    ASSUME NEW A, NEW r \in Seq(A), NEW s \in Seq(A),
           NEW I \in SUBSET (1 .. Len(r)), NEW J \in SUBSET (1 .. Len(s))
    PROVE  Elements(Coupled(r, s), I \cup After(Len(r), J)) =
              Coupled(Elements(r, I), Elements(s, J))
<1> DEFINE m == Len(r)
           u == r \o s
           K == I \cup After(m, J)
           p == Elements(r, I)
           q == Elements(s, J)
           k == Len(p)
           l == Len(q)
           w == p \o q
<1>1. /\ m \in Nat /\ Len(s) \in Nat /\ u \in Seq(A) /\ Len(u) = m + Len(s)
      /\ \A x \in 1 .. m : u[x] = r[x]
      /\ \A x \in 1 .. Len(s) : u[m + x] = s[x]
  BY SeqJoin
<1>2. /\ p \in Seq(A) /\ Drawn(p, r, I) /\ k \in Nat
      /\ q \in Seq(A) /\ Drawn(q, s, J) /\ l \in Nat
  BY DrawnBack
<1>3. PICK a : Ascends(a, I, k) /\ \A n \in 1 .. k : p[n] = r[a[n]]
  BY <1>2 DEF Drawn
<1>4. PICK b : Ascends(b, J, l) /\ \A n \in 1 .. l : q[n] = s[b[n]]
  BY <1>2 DEF Drawn
<1>5. /\ w \in Seq(A) /\ Len(w) = k + l
      /\ \A x \in 1 .. k : w[x] = p[x]
      /\ \A x \in 1 .. l : w[k + x] = q[x]
  BY <1>2, SeqJoin
<1>6. K \in SUBSET (1 .. Len(u))
  <2>1. \A x \in 1 .. m : x \in 1 .. Len(u)
    BY <1>1
  <2>2. \A j \in 1 .. Len(s) : m + j \in 1 .. Len(u)
    BY <1>1
  <2> QED
    BY <2>1, <2>2 DEF After
<1>7. J \in SUBSET (Nat \ {0}) /\ I \in SUBSET (1 .. m)
  OBVIOUS
<1> HIDE DEF m, u, K, p, q, k, l, w
<1> DEFINE c == [x \in 1 .. k + l |-> IF x <= k THEN a[x] ELSE m + b[x - k]]
<1>8. Ascends(c, K, k + l)
  <2>1. Ascends(Onward(a, k, m, b, l), I \cup After(m, J), k + l)
    BY <1>1, <1>3, <1>4, <1>7, AscendsJoin
  <2> QED
    BY <2>1 DEF K, Onward
<1>9. ASSUME NEW x \in 1 .. k + l PROVE w[x] = u[c[x]]
  <2>1. CASE x <= k
    <3>1. x \in 1 .. k /\ c[x] = a[x]
      BY <1>2, <2>1
    <3>2. a[x] \in 1 .. m
      BY <1>3, <1>7, <3>1 DEF Ascends
    <3> QED
      BY <1>1, <1>3, <1>5, <3>1, <3>2
  <2>2. CASE ~(x <= k)
    <3> DEFINE y == x - k
    <3>1. y \in 1 .. l /\ x = k + y /\ c[x] = m + b[y]
      BY <1>2, <2>2
    <3>2. b[y] \in 1 .. Len(s)
      BY <1>4, <3>1 DEF Ascends
    <3> HIDE DEF y, c
    <3>3. w[x] = q[y] /\ q[y] = s[b[y]] /\ u[m + b[y]] = s[b[y]]
      BY <1>1, <1>4, <1>5, <3>1, <3>2
    <3> QED
      BY <3>1, <3>3
  <2> QED
    BY <2>1, <2>2
<1> HIDE DEF c
<1>10. Drawn(w, u, K)
  BY <1>5, <1>8, <1>9 DEF Drawn
<1>11. w = Elements(u, K)
  BY <1>1, <1>5, <1>6, <1>10, DrawnIs
<1> QED
  BY <1>11 DEF w, u, K, p, q, m, Coupled

\* What is drawn from a part of a sequence.
LEMMA ElementsWithin ==
    ASSUME NEW A, NEW s \in Seq(A), NEW I \in SUBSET (1 .. Len(s)), NEW J \in SUBSET I
    PROVE  \E S \in SUBSET DOMAIN Elements(s, I) :
              Elements(s, J) = Elements(Elements(s, I), S)
<1> DEFINE q == Elements(s, I)
           n == Len(q)
           o == Sorted(I)
           S == {x \in 1 .. n : o[x] \in J}
           p == Elements(q, S)
<1>1. Len(s) \in Nat /\ I \subseteq Int
  <2>1. Len(s) \in Nat
    BY LenProperties
  <2> QED
    BY <2>1
<1>2. /\ q \in Seq(A) /\ n = Cardinality(I) /\ n \in Nat
      /\ DOMAIN q = 1 .. n /\ Ascends(o, I, n)
      /\ \A x \in 1 .. n : q[x] = s[o[x]]
  <2>1. I \subseteq 1 .. Len(s)
    OBVIOUS
  <2> HIDE DEF S
  <2> QED
    BY <2>1, ElementsFacts
<1> HIDE DEF o, q
<1>3. S \in SUBSET (1 .. Len(q))
  OBVIOUS
<1> HIDE DEF S
<1>4. p \in Seq(A) /\ Drawn(p, q, S) /\ Len(p) \in Nat
  BY <1>2, <1>3, DrawnBack
<1>5. PICK b : Ascends(b, S, Len(p)) /\ \A x \in 1 .. Len(p) : p[x] = q[b[x]]
  BY <1>4 DEF Drawn
<1> HIDE DEF p
<1> DEFINE k == Len(p)
           c == [x \in 1 .. k |-> o[b[x]]]
<1>6. \A x \in 1 .. k : b[x] \in 1 .. n /\ o[b[x]] \in J
  BY <1>5 DEF Ascends, S
<1>7. /\ \A x \in I : \E i \in 1 .. n : o[i] = x
      /\ \A i, j \in 1 .. n : i < j => o[i] < o[j]
      /\ \A y \in S : \E i \in 1 .. k : b[i] = y
      /\ \A i, j \in 1 .. k : i < j => b[i] < b[j]
  BY <1>2, <1>5 DEF Ascends
<1>8. Ascends(c, J, k)
  <2>1. c \in [1 .. k -> J]
    BY <1>6
  <2>2. ASSUME NEW y \in J PROVE \E x \in 1 .. k : c[x] = y
    <3>1. PICK i \in 1 .. n : o[i] = y
      BY <1>7
    <3>2. i \in S
      BY <3>1 DEF S
    <3>3. PICK x \in 1 .. k : b[x] = i
      BY <1>7, <3>2
    <3> QED
      BY <3>1, <3>3
  <2>3. \A i, j \in 1 .. k : i < j => c[i] < c[j]
    BY <1>6, <1>7
  <2> QED
    BY <1>4, <2>1, <2>2, <2>3 DEF Ascends
<1>9. \A x \in 1 .. k : p[x] = s[c[x]]
  BY <1>2, <1>5, <1>6
<1> HIDE DEF c
<1>10. Drawn(p, s, J)
  BY <1>8, <1>9 DEF Drawn
<1>11. J \in SUBSET (1 .. Len(s))
  OBVIOUS
<1>12. p = Elements(s, J)
  BY <1>4, <1>10, <1>11, DrawnIs
<1>13. S \in SUBSET DOMAIN q
  BY <1>2, <1>3
<1> QED
  BY <1>12, <1>13 DEF p, q

-----------------------------------------------------------------------------
(* Words without a doubt.                                                  *)

SureAt(t, D) == {n \in DOMAIN Words(t) : D \cap Words(t)[n][1] .. Words(t)[n][2] - 1 = {}}
SureOf(r) == SureWords(r.text, r.doubts)

LEMMA SureWordsAre ==
    ASSUME NEW t \in AnyText, NEW D
    PROVE  /\ SureWords(t, D) = Elements(WordsOf(t), SureAt(t, D))
           /\ SureAt(t, D) \in SUBSET (1 .. Len(WordsOf(t)))
           /\ SureAt(t, D) \in SUBSET (1 .. Len(Words(t)))
<1>1. SureWords(t, D) = Elements(WordsOf(t), SureAt(t, D))
  BY DEF SureWords, SureAt
<1>2. DOMAIN Words(t) = 1 .. Len(Words(t)) /\ Len(WordsOf(t)) = Len(Words(t))
  BY WordsOfFacts
<1>3. SureAt(t, D) \subseteq DOMAIN Words(t)
  BY DEF SureAt
<1> QED
  BY <1>1, <1>2, <1>3

LEMMA SureAtJoin ==
    ASSUME NEW u \in AnyText, NEW v \in AnyText, Apart(u, v),
           NEW D, D \subseteq Offsets(u), NEW E, E \subseteq Offsets(v)
    PROVE  SureAt(u \o v, D \cup After(Len(u), E)) =
              SureAt(u, D) \cup After(Len(Words(u)), SureAt(v, E))
<1> DEFINE U == Words(u)
           V == Words(v)
           L == Len(u)
           m == Len(U)
           n == Len(V)
           M == Moved(V, L)
           W == U \o M
           F == D \cup After(L, E)
<1>1. Words(u \o v) = W
  BY WordsOfJoin
<1>2. /\ m \in Nat /\ DOMAIN U = 1 .. m /\ U \in Seq(Nat \X Nat)
      /\ n \in Nat /\ DOMAIN V = 1 .. n /\ V \in Seq(Nat \X Nat)
  BY WordsListed DEF ListsWords
<1>3. L \in Nat /\ \A k \in D : k \in Nat /\ k < L
  <2>1. L \in Nat
    BY TextFacts
  <2> HIDE DEF L
  <2>2. Offsets(u) = 0 .. L - 1
    BY DEF L, Offsets
  <2> QED
    BY <2>1, <2>2
<1>4. E \in SUBSET Nat
  <2>1. Len(v) \in Nat
    BY TextFacts
  <2> QED
    BY <2>1 DEF Offsets
<1> HIDE DEF L
<1>5. /\ M \in Seq(Nat \X Nat) /\ Len(M) = n
      /\ \A i \in 1 .. n : M[i][1] = V[i][1] + L /\ M[i][2] = V[i][2] + L
  BY <1>2, <1>3, MovedFacts
<1>6. /\ \A i \in 1 .. m : U[i][1] \in Nat /\ U[i][2] \in Nat /\ U[i][2] <= L
      /\ \A i \in 1 .. n : V[i][1] \in Nat /\ V[i][2] \in Nat
  BY WordOffsets DEF L
<1> HIDE DEF M
<1>7. /\ W \in Seq(Nat \X Nat) /\ Len(W) = m + n
      /\ \A k \in 1 .. m : W[k] = U[k]
      /\ \A k \in 1 .. n : W[m + k] = M[k]
  <2> DEFINE P == Nat \X Nat
  <2>1. U \in Seq(P) /\ M \in Seq(P)
    BY <1>2, <1>5
  <2> HIDE DEF U, m, P, n
  <2>2. /\ U \o M \in Seq(P) /\ Len(U \o M) = Len(U) + Len(M)
        /\ \A k \in 1 .. Len(U) : (U \o M)[k] = U[k]
        /\ \A k \in 1 .. Len(M) : (U \o M)[Len(U) + k] = M[k]
    BY <2>1, SeqJoin
  <2> QED
    BY <1>5, <2>2 DEF P, m
<1>8. DOMAIN W = 1 .. m + n
  BY <1>7, LenProperties
<1> HIDE DEF W
<1>9. SureAt(u \o v, F) = {i \in 1 .. m + n : F \cap W[i][1] .. W[i][2] - 1 = {}}
  BY <1>1, <1>8 DEF SureAt
<1>10. /\ SureAt(u, D) = {i \in 1 .. m : D \cap U[i][1] .. U[i][2] - 1 = {}}
       /\ SureAt(v, E) = {i \in 1 .. n : E \cap V[i][1] .. V[i][2] - 1 = {}}
  BY <1>2 DEF SureAt
<1>11. ASSUME NEW i \in 1 .. m
       PROVE  F \cap W[i][1] .. W[i][2] - 1 = {} <=> D \cap U[i][1] .. U[i][2] - 1 = {}
  <2> DEFINE a == U[i][1]
             b == U[i][2]
  <2>1. a \in Nat /\ b \in Nat /\ b <= L /\ W[i][1] = a /\ W[i][2] = b
    BY <1>6, <1>7
  <2> HIDE DEF a, b
  <2>2. \A k \in a .. b - 1 : k \in F <=> k \in D
    <3> SUFFICES ASSUME NEW k \in a .. b - 1, k \in After(L, E) PROVE FALSE
      OBVIOUS
    <3>1. PICK j \in E : k = L + j
      BY DEF After
    <3> QED
      BY <1>3, <1>4, <2>1, <3>1
  <2>3. F \cap a .. b - 1 = D \cap a .. b - 1
    <3> HIDE DEF F
    <3> QED
      BY <2>2
  <2> QED
    BY <2>1, <2>3 DEF a, b
<1>12. ASSUME NEW i \in 1 .. n
       PROVE  F \cap W[m + i][1] .. W[m + i][2] - 1 = {} <=>
                 E \cap V[i][1] .. V[i][2] - 1 = {}
  <2> DEFINE a == V[i][1]
             b == V[i][2]
  <2>1. a \in Nat /\ b \in Nat /\ W[m + i][1] = a + L /\ W[m + i][2] = b + L
    BY <1>5, <1>6, <1>7
  <2> HIDE DEF a, b
  <2>2. F \cap (a + L) .. (b + L) - 1 = {} <=> E \cap a .. b - 1 = {}
    <3>1. ASSUME NEW k \in E \cap a .. b - 1 PROVE F \cap (a + L) .. (b + L) - 1 # {}
      <4> DEFINE x == L + k
      <4>1. x \in After(L, E)
        BY DEF After
      <4>2. x \in (a + L) .. (b + L) - 1
        BY <1>3, <2>1
      <4> HIDE DEF x
      <4> QED
        BY <4>1, <4>2
    <3>2. ASSUME NEW k \in F \cap (a + L) .. (b + L) - 1 PROVE E \cap a .. b - 1 # {}
      <4>1. k \notin D
        BY <1>3, <2>1
      <4>2. PICK j \in E : k = L + j
        BY <4>1 DEF After
      <4>3. j \in a .. b - 1
        BY <1>3, <1>4, <2>1, <4>2
      <4> QED
        BY <4>3
    <3> HIDE DEF F
    <3> QED
      BY <3>1, <3>2
  <2> HIDE DEF F
  <2> QED
    BY <2>1, <2>2 DEF a, b
<1> HIDE DEF F, U, V, m, n
<1> DEFINE S == SureAt(u, D)
           T == SureAt(v, E)
           R == SureAt(u \o v, F)
<1>13. ASSUME NEW i \in R PROVE i \in S \cup After(m, T)
  <2>1. i \in 1 .. m + n /\ F \cap W[i][1] .. W[i][2] - 1 = {}
    BY <1>9
  <2>2. CASE i <= m
    <3>1. i \in 1 .. m
      BY <1>2, <2>1, <2>2
    <3> QED
      BY <1>10, <1>11, <2>1, <3>1
  <2>3. CASE ~(i <= m)
    <3> DEFINE j == i - m
    <3>1. j \in 1 .. n /\ i = m + j
      BY <1>2, <2>1, <2>3
    <3> HIDE DEF j
    <3>2. j \in T
      BY <1>10, <1>12, <2>1, <3>1
    <3> QED
      BY <3>1, <3>2 DEF After
  <2> QED
    BY <2>2, <2>3
<1>14. ASSUME NEW i \in S PROVE i \in R
  <2>1. i \in 1 .. m /\ D \cap U[i][1] .. U[i][2] - 1 = {}
    BY <1>10
  <2>2. i \in 1 .. m + n
    BY <1>2, <2>1
  <2> QED
    BY <1>9, <1>11, <2>1, <2>2
<1>15. ASSUME NEW i \in After(m, T) PROVE i \in R
  <2>1. PICK j \in T : i = m + j
    BY <1>15 DEF After
  <2>2. j \in 1 .. n /\ E \cap V[j][1] .. V[j][2] - 1 = {}
    BY <1>10
  <2>3. i \in 1 .. m + n
    BY <1>2, <2>1, <2>2
  <2> QED
    BY <1>9, <1>12, <2>1, <2>2, <2>3
<1>16. R = S \cup After(m, T)
  <2> HIDE DEF R, S, T
  <2> QED
    BY <1>13, <1>14, <1>15
<1> QED
  BY <1>16 DEF R, S, T, F, L, m, U

\* A piece that does not touch the last word adds its own sure words.
LEMMA SureJoin ==
    ASSUME NEW r \in Part, NEW v \in AnyText, NEW E, E \subseteq Offsets(v),
           Apart(r.text, v), NEW x, x = Extended(r, v, E)
    PROVE  /\ x \in Part /\ x.text = r.text \o v
           /\ SureOf(x) = SureOf(r) \o SureWords(v, E)
<1> DEFINE u == r.text
           D == r.doubts
           m == Len(Words(u))
           I == SureAt(u, D)
           J == SureAt(v, E)
           F == D \cup After(Len(u), E)
<1>1. u \in AnyText /\ D \subseteq Offsets(u)
  BY PartFacts
<1>2. x \in Part /\ x.text = u \o v /\ x.doubts = F
  BY ExtendedTyped DEF After
<1> HIDE DEF u, D
<1>3. Apart(u, v)
  BY DEF u
<1>4. SureAt(u \o v, F) = I \cup After(m, J)
  BY <1>1, <1>3, SureAtJoin
<1>5. /\ WordsOf(u) \in Seq(AnyText) /\ WordsOf(v) \in Seq(AnyText)
      /\ Len(WordsOf(u)) = m
      /\ WordsOf(u \o v) = WordsOf(u) \o WordsOf(v)
  BY <1>1, <1>3, WordsOfFacts, WordTextsJoin
<1>6. u \o v \in AnyText
  BY <1>1, JoinFacts
<1>7. /\ SureWords(u, D) = Elements(WordsOf(u), I) /\ I \in SUBSET (1 .. Len(WordsOf(u)))
      /\ SureWords(v, E) = Elements(WordsOf(v), J) /\ J \in SUBSET (1 .. Len(WordsOf(v)))
  BY <1>1, SureWordsAre
<1>8. SureWords(u \o v, F) = Elements(WordsOf(u \o v), SureAt(u \o v, F))
  BY <1>6, SureWordsAre
<1> HIDE DEF I, J, F, m
<1>9. Elements(WordsOf(u) \o WordsOf(v), I \cup After(Len(WordsOf(u)), J)) =
         Elements(WordsOf(u), I) \o Elements(WordsOf(v), J)
  <2> DEFINE p == WordsOf(u)
             q == WordsOf(v)
  <2>1. /\ p \in Seq(AnyText) /\ q \in Seq(AnyText)
        /\ I \in SUBSET (1 .. Len(p)) /\ J \in SUBSET (1 .. Len(q))
    BY <1>5, <1>7
  <2> HIDE DEF p, q
  <2>2. Elements(Coupled(p, q), I \cup After(Len(p), J)) =
           Coupled(Elements(p, I), Elements(q, J))
    BY <2>1, ElementsJoin
  <2> QED
    BY <2>2 DEF p, q, Coupled
<1>10. SureWords(u \o v, F) = SureWords(u, D) \o SureWords(v, E)
  BY <1>4, <1>5, <1>7, <1>8, <1>9
<1>11. SureOf(x) = SureWords(u \o v, F) /\ SureOf(r) = SureWords(u, D)
  BY <1>2 DEF SureOf, u, D
<1> QED
  BY <1>2, <1>10, <1>11 DEF u

LEMMA BlankPiece ==
    ASSUME NEW v \in AnyText, Letters(v) = {}
    PROVE  /\ Words(v) = <<>> /\ WordsOf(v) = <<>> /\ \A E : SureWords(v, E) = <<>>
           /\ \A u \in AnyText : Apart(u, v)
           /\ \A u, w \in AnyText : v # <<>> => Apart(u \o v, w)
<1>1. ListsWords(Words(v), v)
  BY WordsListed
<1>2. \A a, b : ~IsWord(v, a, b)
  <2> SUFFICES ASSUME NEW a, NEW b, IsWord(v, a, b) PROVE FALSE
    OBVIOUS
  <2>1. a \in a .. b - 1 /\ \A k \in a .. b - 1 : k \in Letters(v)
    BY DEF IsWord
  <2> QED
    BY <2>1
<1>3. Len(Words(v)) = 0 /\ Words(v) \in Seq(Nat \X Nat)
  <2>1. Len(Words(v)) \in Nat /\ ~(1 \in 1 .. Len(Words(v)))
    BY <1>1, <1>2 DEF ListsWords
  <2> QED
    BY <1>1, <2>1 DEF ListsWords
<1>4. Words(v) = <<>>
  BY <1>3, EmptySeq
<1>5. WordsOf(v) = <<>>
  BY <1>3, WordsOfFacts, EmptySeq
<1>6. ASSUME NEW E PROVE SureWords(v, E) = <<>>
  <2> DEFINE I == SureAt(v, E)
             e == Elements(WordsOf(v), I)
  <2>1. SureWords(v, E) = e /\ I \in SUBSET (1 .. Len(WordsOf(v)))
    BY SureWordsAre
  <2>2. Len(WordsOf(v)) = 0 /\ WordsOf(v) \in Seq(AnyText)
    BY <1>3, WordsOfFacts
  <2> HIDE DEF I
  <2>3. e \in Seq(AnyText) /\ Len(e) = Cardinality(I)
    BY <2>1, <2>2, DrawnBack
  <2>4. I = {}
    BY <2>1, <2>2
  <2>5. Cardinality(I) = 0
    BY <2>4, FS_EmptySet
  <2> HIDE DEF e
  <2> QED
    BY <2>1, <2>3, <2>5, EmptySeq
<1>7. \A u \in AnyText : Apart(u, v)
  BY DEF Apart
<1>8. ASSUME NEW u \in AnyText, NEW w \in AnyText, v # <<>> PROVE Apart(u \o v, w)
  <2> DEFINE L == Len(u)
             n == Len(v)
  <2>1. L \in Nat /\ n \in Nat /\ n # 0 /\ Len(u \o v) = L + n
    BY <1>8, TextFacts, JoinFacts, EmptySeq DEF AnyText
  <2> DEFINE k == L + n - 1
  <2> HIDE DEF L, n
  <2>2. k \in Int /\ k = Len(u \o v) - 1 /\ ~(k < L)
    BY <2>1
  <2> HIDE DEF k
  <2>3. k \in Letters(u \o v) <=> k \in Letters(u) \/ k - Len(u) \in Letters(v)
    BY <2>2, LettersJoin
  <2>4. k \notin Letters(u)
    BY <2>2, LettersOf DEF L
  <2> QED
    BY <2>2, <2>3, <2>4 DEF Apart
<1> QED
  BY <1>4, <1>5, <1>6, <1>7, <1>8

LEMMA AllDoubted ==
    ASSUME NEW t \in AnyText, NEW D, Offsets(t) \subseteq D
    PROVE  SureWords(t, D) = <<>>
<1> DEFINE I == SureAt(t, D)
           e == Elements(WordsOf(t), I)
<1>1. SureWords(t, D) = e /\ I \in SUBSET (1 .. Len(WordsOf(t)))
      /\ I \in SUBSET (1 .. Len(Words(t)))
  BY SureWordsAre
<1>2. ASSUME NEW i \in I PROVE FALSE
  <2> DEFINE a == Words(t)[i][1]
             b == Words(t)[i][2]
  <2>1. i \in 1 .. Len(Words(t)) /\ D \cap a .. b - 1 = {}
    BY <1>1 DEF SureAt
  <2>2. a \in Nat /\ b \in Nat /\ a < b /\ b <= Len(t) /\ Len(t) \in Nat
    BY <2>1, WordOffsets
  <2> HIDE DEF a, b
  <2>3. a \in a .. b - 1 /\ a \in Offsets(t)
    BY <2>2 DEF Offsets
  <2> QED
    BY <2>1, <2>3
<1>3. I = {}
  BY <1>2
<1>4. Cardinality(I) = 0
  BY <1>3, FS_EmptySet
<1>5. WordsOf(t) \in Seq(AnyText)
  BY WordsOfFacts
<1> HIDE DEF I
<1>6. e \in Seq(AnyText) /\ Len(e) = Cardinality(I)
  BY <1>1, <1>5, DrawnBack
<1> HIDE DEF e
<1> QED
  BY <1>1, <1>4, <1>6, EmptySeq

Astride(i, I, J) == (\A x \in I : x <= i) /\ (\A x \in J : i < x)
LEMMA ElementsUnion ==
    ASSUME NEW A, NEW s \in Seq(A), NEW i \in Nat, NEW I \in SUBSET (1 .. Len(s)),
           NEW J \in SUBSET (1 .. Len(s)), Astride(i, I, J)
    PROVE  Coupled(Elements(s, I), Elements(s, J)) = Elements(s, I \cup J)
<1> DEFINE p == Elements(s, I)
           q == Elements(s, J)
           k == Len(p)
           l == Len(q)
           w == p \o q
           T == {x - i : x \in J}
<1>0. (\A x \in I : x <= i) /\ \A x \in J : i < x
  BY DEF Astride
<1>1. /\ p \in Seq(A) /\ Drawn(p, s, I) /\ k \in Nat
      /\ q \in Seq(A) /\ Drawn(q, s, J) /\ l \in Nat
      /\ Len(s) \in Nat
  BY DrawnBack
<1>2. PICK a : Ascends(a, I, k) /\ \A n \in 1 .. k : p[n] = s[a[n]]
  BY <1>1 DEF Drawn
<1>3. PICK b : Ascends(b, J, l) /\ \A n \in 1 .. l : q[n] = s[b[n]]
  BY <1>1 DEF Drawn
<1>4. /\ w \in Seq(A) /\ Len(w) = k + l
      /\ \A x \in 1 .. k : w[x] = p[x]
      /\ \A x \in 1 .. l : w[k + x] = q[x]
  BY <1>1, SeqJoin
<1> HIDE DEF p, q, k, l, w
<1> DEFINE d == [x \in 1 .. l |-> b[x] - i]
<1>5. \A x \in J : x \in Nat /\ x - i \in Nat \ {0} /\ i + (x - i) = x
  BY <1>0, <1>1
<1>6. Ascends(d, T, l)
  <2>1. /\ l \in Nat /\ \A x \in 1 .. l : b[x] \in J
        /\ \A x \in J : \E y \in 1 .. l : b[y] = x
        /\ \A x, y \in 1 .. l : x < y => b[x] < b[y]
    BY <1>3 DEF Ascends
  <2>2. d \in [1 .. l -> T]
    BY <2>1
  <2>3. ASSUME NEW y \in T PROVE \E x \in 1 .. l : d[x] = y
    <3>1. PICK z \in J : y = z - i
      BY <2>3
    <3>2. PICK x \in 1 .. l : b[x] = z
      BY <2>1
    <3> QED
      BY <3>1, <3>2
  <2>4. ASSUME NEW x \in 1 .. l, NEW y \in 1 .. l, x < y PROVE d[x] < d[y]
    <3>1. b[x] \in Nat /\ b[y] \in Nat /\ b[x] < b[y]
      BY <1>5, <2>1, <2>4
    <3>2. b[x] - i < b[y] - i
      BY <3>1
    <3> QED
      BY <3>2
  <2> HIDE DEF d, T
  <2> QED
    BY <2>1, <2>2, <2>3, <2>4 DEF Ascends
<1>7. T \in SUBSET (Nat \ {0}) /\ I \in SUBSET (1 .. i)
  <2>1. T \in SUBSET (Nat \ {0})
    BY <1>5
  <2>2. I \in SUBSET (1 .. i)
    BY <1>0, <1>1
  <2> QED
    BY <2>1, <2>2
<1>8. After(i, T) = J
  <2>1. ASSUME NEW x \in After(i, T) PROVE x \in J
    <3>1. PICK y \in T : x = i + y
      BY <2>1 DEF After
    <3>2. PICK z \in J : y = z - i
      OBVIOUS
    <3> QED
      BY <1>5, <3>1, <3>2
  <2>2. ASSUME NEW x \in J PROVE x \in After(i, T)
    <3>1. x - i \in T /\ i + (x - i) = x
      BY <1>5
    <3> HIDE DEF T
    <3> QED
      BY <3>1 DEF After
  <2> QED
    BY <2>1, <2>2
<1> HIDE DEF T
<1> DEFINE c == Onward(a, k, i, d, l)
           K == I \cup J
<1>9. Ascends(c, K, k + l)
  <2> HIDE DEF d
  <2>1. Ascends(Onward(a, k, i, d, l), I \cup After(i, T), k + l)
    BY <1>2, <1>6, <1>7, AscendsJoin
  <2> QED
    BY <1>8, <2>1
<1>10. ASSUME NEW x \in 1 .. k + l PROVE w[x] = s[c[x]]
  <2>1. CASE x <= k
    <3>1. x \in 1 .. k /\ c[x] = a[x]
      BY <1>1, <2>1 DEF Onward
    <3> QED
      BY <1>2, <1>4, <3>1
  <2>2. CASE ~(x <= k)
    <3> DEFINE y == x - k
    <3>1. y \in 1 .. l /\ x = k + y /\ c[x] = i + d[y]
      BY <1>1, <2>2 DEF Onward
    <3> HIDE DEF y, c
    <3>2. b[y] \in J /\ d[y] = b[y] - i
      BY <1>3, <3>1 DEF Ascends
    <3>3. c[x] = b[y]
      BY <1>5, <3>1, <3>2
    <3>4. w[x] = q[y] /\ q[y] = s[b[y]]
      BY <1>3, <1>4, <3>1
    <3> QED
      BY <3>3, <3>4
  <2> QED
    BY <2>1, <2>2
<1> HIDE DEF c
<1>11. K \in SUBSET (1 .. Len(s))
  OBVIOUS
<1> HIDE DEF K
<1>12. Drawn(w, s, K)
  BY <1>4, <1>9, <1>10 DEF Drawn
<1>13. w = Elements(s, K)
  BY <1>4, <1>11, <1>12, DrawnIs
<1> QED
  BY <1>13 DEF w, K, p, q, Coupled

\* A run of positions, a single one, and none.
LEMMA ElementsRun ==
    ASSUME NEW A, NEW s \in Seq(A), NEW q \in Seq(A), NEW i \in Nat, NEW j \in Nat,
           i <= j, j <= Len(s), Len(q) = j - i, \A n \in 1 .. j - i : q[n] = s[i + n]
    PROVE  q = Elements(s, i + 1 .. j) /\ i + 1 .. j \in SUBSET (1 .. Len(s))
<1> DEFINE n == j - i
           a == [x \in 1 .. n |-> i + x]
           I == i + 1 .. j
<1>1. n \in Nat /\ Len(s) \in Nat
  BY LenProperties
<1>2. a \in [1 .. n -> I]
  OBVIOUS
<1>3. \A x \in I : \E y \in 1 .. n : a[y] = x
  <2> TAKE x \in I
  <2> DEFINE y == x - i
  <2>1. y \in 1 .. n /\ i + y = x
    OBVIOUS
  <2> HIDE DEF y
  <2> QED
    BY <2>1
<1>4. \A x, y \in 1 .. n : x < y => a[x] < a[y]
  OBVIOUS
<1>5. \A x \in 1 .. n : q[x] = s[a[x]]
  OBVIOUS
<1>6. I \in SUBSET (1 .. Len(s))
  BY <1>1
<1>7. Len(q) = n
  OBVIOUS
<1> HIDE DEF a, n, I
<1>8. Drawn(q, s, I)
  BY <1>1, <1>2, <1>3, <1>4, <1>5, <1>7 DEF Drawn, Ascends
<1>9. q = Elements(s, I)
  BY <1>6, <1>8, DrawnIs
<1> QED
  BY <1>6, <1>9 DEF I

LEMMA ElementsAll ==
    ASSUME NEW A, NEW s \in Seq(A)
    PROVE  Elements(s, 1 .. Len(s)) = s
<1> DEFINE n == Len(s)
           z == 0
<1>1. n \in Nat /\ z \in Nat /\ z <= n /\ n - z = n /\ z + 1 = 1 /\ n <= n
      /\ \A x \in 1 .. n : z + x = x
  BY LenProperties
<1> HIDE DEF n, z
<1>2. /\ Len(s) = n - z /\ n <= Len(s)
      /\ \A x \in 1 .. n - z : s[x] = s[z + x]
  BY <1>1 DEF n
<1>3. s = Elements(s, z + 1 .. n)
  BY <1>1, <1>2, ElementsRun
<1> QED
  BY <1>1, <1>3 DEF n

LEMMA ElementsNone ==
    ASSUME NEW A, NEW s \in Seq(A)
    PROVE  Elements(s, {}) = <<>>
<1> DEFINE e == Elements(s, {})
<1>1. {} \in SUBSET (1 .. Len(s))
  OBVIOUS
<1>2. e \in Seq(A) /\ Len(e) = Cardinality({})
  BY <1>1, DrawnBack
<1>3. Len(e) = 0
  BY <1>2, FS_EmptySet
<1> HIDE DEF e
<1> QED
  BY <1>2, <1>3, EmptySeq DEF e

LEMMA ElementsOne ==
    ASSUME NEW A, NEW s \in Seq(A), NEW i \in 1 .. Len(s), NEW q \in Seq(A),
           Len(q) = 1, q[1] = s[i]
    PROVE  q = Elements(s, {i}) /\ {i} \in SUBSET (1 .. Len(s))
<1> DEFINE a == [x \in 1 .. 1 |-> i]
           I == {i}
<1>1. I \in SUBSET (1 .. Len(s))
  OBVIOUS
<1>2. /\ a \in [1 .. 1 -> I] /\ \A x \in I : \E y \in 1 .. 1 : a[y] = x
      /\ \A x, y \in 1 .. 1 : x < y => a[x] < a[y]
      /\ 1 \in Nat /\ \A x \in 1 .. 1 : q[x] = s[a[x]]
  OBVIOUS
<1> HIDE DEF a, I
<1>3. Drawn(q, s, I)
  BY <1>2 DEF Drawn, Ascends
<1>4. q = Elements(s, I)
  BY <1>1, <1>3, DrawnIs
<1> QED
  BY <1>1, <1>4 DEF I

-----------------------------------------------------------------------------
(* The parts of a text around its words.                                   *)

\* Before a word there are blanks, unless it is the first.
LEMMA SpaceBefore ==
    ASSUME NEW t \in AnyText, NEW i \in 1 .. Len(Words(t)),
           NEW v, v = Cut(t, Consumed(t, i - 1), Words(t)[i][1])
    PROVE  v \in AnyText /\ Letters(v) = {} /\ (v = <<>> => i = 1)
<1> DEFINE W == Words(t)
           n == Len(W)
           a == Consumed(t, i - 1)
           b == W[i][1]
           j == i - 1
<1>1. /\ Len(t) \in Nat /\ n \in Nat
      /\ \A k \in 1 .. n : /\ IsWord(t, W[k][1], W[k][2])
                           /\ W[k][1] \in Nat /\ W[k][2] \in Nat
                           /\ W[k][1] < W[k][2] /\ W[k][2] <= Len(t)
                           /\ Consumed(t, k) = W[k][2]
      /\ \A k, l \in 1 .. n : k < l => W[k][2] < W[l][1]
      /\ a \in Nat /\ b \in Nat /\ a <= b
  BY WordOffsets
<1>2. b <= Len(t)
  BY <1>1
<1>3. i # 1 => j \in 1 .. n /\ a = W[j][2] /\ a < b
  <2> SUFFICES ASSUME i # 1 PROVE j \in 1 .. n /\ a = W[j][2] /\ a < b
    OBVIOUS
  <2>1. j \in 1 .. n /\ j < i
    BY <1>1
  <2> QED
    BY <1>1, <2>1
<1>4. v = Cut(t, a, b)
  OBVIOUS
<1> HIDE DEF a, b
<1>5. v \in AnyText /\ Len(v) = b - a
  BY <1>1, <1>2, <1>4, CutFacts
<1>6. ASSUME NEW k \in Letters(v) PROVE FALSE
  <2> DEFINE x == k + a
  <2>1. k \in Int
    BY <1>5, LettersOf
  <2>2. 0 <= k /\ k < b - a /\ x \in Letters(t)
    BY <1>1, <1>2, <1>4, <2>1, LettersOfCut
  <2>3. x \in Nat /\ a <= x /\ x < b
    BY <1>1, <2>1, <2>2
  <2> HIDE DEF x
  <2>4. PICK c, d : IsWord(t, c, d) /\ c <= x /\ x < d
    BY <2>2, WordAround
  <2>5. PICK l \in 1 .. n : W[l][1] = c /\ W[l][2] = d
    BY <2>4, WordsListed DEF ListsWords
  <2>6. c \in Nat /\ d \in Nat
    BY <1>1, <2>5
  <2>7. CASE l >= i
    <3>1. l = i \/ i < l
      BY <1>1, <2>7
    <3>2. CASE l = i
      BY <2>3, <2>4, <2>5, <2>6, <3>2, <1>1 DEF b
    <3>3. CASE i < l
      <4>1. W[i][1] \in Nat /\ W[i][2] \in Nat /\ W[i][1] < W[i][2] /\ W[i][2] < W[l][1]
        BY <1>1, <3>3
      <4> QED
        BY <2>3, <2>4, <2>5, <2>6, <4>1 DEF b
    <3> QED
      BY <3>1, <3>2, <3>3
  <2>8. CASE ~(l >= i)
    <3>1. i # 1 /\ (l = j \/ l < j)
      BY <1>1, <2>8
    <3>2. j \in 1 .. n /\ a = W[j][2]
      BY <1>3, <3>1
    <3>3. CASE l = j
      BY <1>1, <2>3, <2>4, <2>5, <2>6, <3>2, <3>3
    <3>4. CASE l < j
      <4>1. W[l][2] < W[j][1] /\ W[j][1] < W[j][2] /\ W[j][1] \in Nat /\ W[j][2] \in Nat
        BY <1>1, <3>2, <3>4
      <4> QED
        BY <2>3, <2>4, <2>5, <2>6, <3>2, <4>1
    <3> QED
      BY <3>1, <3>3, <3>4
  <2> QED
    BY <2>7, <2>8
<1>7. v = <<>> => i = 1
  <2> SUFFICES ASSUME v = <<>>, i # 1 PROVE FALSE
    OBVIOUS
  <2>1. Len(v) = 0
    BY <1>5, EmptySeq DEF AnyText
  <2> QED
    BY <1>1, <1>3, <1>5, <2>1
<1> QED
  BY <1>5, <1>6, <1>7

LEMMA SpaceAtEnd ==
    ASSUME NEW t \in AnyText,
           NEW v, v = Cut(t, Consumed(t, Len(Words(t))), Len(t))
    PROVE  v \in AnyText /\ Letters(v) = {}
<1> DEFINE W == Words(t)
           n == Len(W)
           a == Consumed(t, n)
           b == Len(t)
<1>1. /\ b \in Nat /\ n \in Nat
      /\ \A k \in 1 .. n : /\ W[k][1] \in Nat /\ W[k][2] \in Nat
                           /\ Consumed(t, k) = W[k][2] /\ W[k][1] < W[k][2]
      /\ \A k, l \in 1 .. n : k < l => W[k][2] < W[l][1]
      /\ a \in Nat /\ a <= b
  <2>1. n \in 0 .. n
    BY WordOffsets
  <2> QED
    BY <2>1, WordOffsets
<1>2. b <= Len(t) /\ v = Cut(t, a, b)
  BY <1>1
<1> HIDE DEF a
<1>3. v \in AnyText /\ Len(v) = b - a
  BY <1>1, <1>2, CutFacts
<1>4. ASSUME NEW k \in Letters(v) PROVE FALSE
  <2> DEFINE x == k + a
  <2>1. k \in Int
    BY <1>3, LettersOf
  <2>2. 0 <= k /\ x \in Letters(t)
    BY <1>1, <1>2, <2>1, LettersOfCut
  <2>3. x \in Nat /\ a <= x
    BY <1>1, <2>1, <2>2
  <2> HIDE DEF x
  <2>4. PICK c, d : IsWord(t, c, d) /\ c <= x /\ x < d
    BY <2>2, WordAround
  <2>5. PICK l \in 1 .. n : W[l][1] = c /\ W[l][2] = d
    BY <2>4, WordsListed DEF ListsWords
  <2>6. c \in Nat /\ d \in Nat /\ n \in 1 .. n /\ (l = n \/ l < n)
    BY <1>1, <2>5
  <2>7. a = W[n][2]
    BY <1>1, <2>6 DEF a
  <2>8. CASE l = n
    BY <1>1, <2>3, <2>4, <2>5, <2>6, <2>7, <2>8
  <2>9. CASE l < n
    <3>1. W[l][2] < W[n][1] /\ W[n][1] < W[n][2] /\ W[n][1] \in Nat /\ W[n][2] \in Nat
      BY <1>1, <2>6, <2>9
    <3> QED
      BY <2>3, <2>4, <2>5, <2>6, <2>7, <3>1
  <2> QED
    BY <2>6, <2>8, <2>9
<1> QED
  BY <1>3, <1>4

\* Words i + 1 to j of a text, as a piece of it.
LEMMA RunOfWords ==
    ASSUME NEW t \in AnyText, NEW i \in Nat, NEW j \in Nat, i < j, j <= Len(Words(t)),
           NEW v, v = Cut(t, Words(t)[i + 1][1], Words(t)[j][2])
    PROVE  /\ v \in AnyText
           /\ SureWords(v, {}) = Elements(WordsOf(t), i + 1 .. j)
           /\ i + 1 .. j \in SUBSET (1 .. Len(WordsOf(t)))
<1> DEFINE p == [start |-> Words(t)[i + 1][1], end |-> Words(t)[j][2]]
           k == i + 1
           n == j - i
<1>1. Len(Words(t)) \in Nat /\ k \in Nat /\ 1 <= k /\ k <= j
  BY WordOffsets
<1>2. Spans(t, p, k, j)
  BY <1>1 DEF Spans
<1>3. v = TextOf(t, p)
  BY DEF TextOf
<1> HIDE DEF p
<1>4. Whole(t, p) /\ Lo(t, p) = k /\ Hi(t, p) = j
  BY <1>1, <1>2, SpansOnce DEF Whole
<1> HIDE DEF k
<1>5. /\ v \in AnyText /\ Len(WordsOf(v)) = j - k + 1
      /\ \A x \in 1 .. j - k + 1 : WordsOf(v)[x] = WordsOf(t)[k + x - 1]
  <2>1. /\ TextOf(t, p) \in AnyText
        /\ Len(WordsOf(TextOf(t, p))) = Hi(t, p) - Lo(t, p) + 1
        /\ \A x \in 1 .. Hi(t, p) - Lo(t, p) + 1 :
              WordsOf(TextOf(t, p))[x] = WordsOf(t)[Lo(t, p) + x - 1]
    BY <1>4, WordsOfPiece
  <2> QED
    BY <1>3, <1>4, <2>1
<1>6. j - k + 1 = n /\ \A x \in 1 .. n : k + x - 1 = i + x
  BY SMTT(30), <1>1 DEF k
<1>7. /\ Len(WordsOf(v)) = n /\ \A x \in 1 .. n : WordsOf(v)[x] = WordsOf(t)[i + x]
  BY <1>5, <1>6
<1>8. /\ WordsOf(t) \in Seq(AnyText) /\ Len(WordsOf(t)) = Len(Words(t))
      /\ WordsOf(v) \in Seq(AnyText) /\ Len(WordsOf(v)) = Len(Words(v))
      /\ DOMAIN Words(v) = 1 .. Len(Words(v))
  BY <1>5, WordsOfFacts
<1>9. SureAt(v, {}) = 1 .. Len(WordsOf(v))
  BY <1>8 DEF SureAt
<1>10. SureWords(v, {}) = WordsOf(v)
  BY <1>5, <1>8, <1>9, SureWordsAre, ElementsAll
<1> DEFINE q == WordsOf(v)
           s == WordsOf(t)
<1>11. /\ s \in Seq(AnyText) /\ q \in Seq(AnyText) /\ i <= j /\ j <= Len(s) /\ Len(q) = j - i
       /\ \A x \in 1 .. j - i : q[x] = s[i + x]
  BY <1>7, <1>8
<1> HIDE DEF q, s, n
<1>12. q = Elements(s, i + 1 .. j) /\ i + 1 .. j \in SUBSET (1 .. Len(s))
  BY <1>11, ElementsRun
<1> QED
  BY <1>5, <1>10, <1>12 DEF q, s

\* Word i with the blanks before it.
LEMMA WordWithSpace ==
    ASSUME NEW t \in AnyText, NEW i \in 1 .. Len(Words(t)),
           NEW a, a = Consumed(t, i - 1), NEW b, b = Words(t)[i][1],
           NEW c, c = Words(t)[i][2],
           NEW v, v = Cut(t, a, c)
    PROVE  /\ a \in Nat /\ b \in Nat /\ c \in Nat /\ a <= b /\ b < c /\ c <= Len(t)
           /\ v \in AnyText /\ Len(v) = c - a
           /\ Words(v) = <<<<b - a, c - a>>>>
           /\ Len(WordsOf(v)) = 1 /\ WordsOf(v)[1] = WordsOf(t)[i]
           /\ i # 1 => a < b /\ 0 \notin Letters(v)
<1> DEFINE W == Words(t)
           n == Len(W)
           j == i - 1
           ws == <<<<b - a, c - a>>>>
<1>1. /\ Len(t) \in Nat /\ n \in Nat
      /\ a \in Nat /\ b \in Nat /\ c \in Nat /\ a <= b /\ b < c /\ c <= Len(t)
      /\ IsWord(t, b, c)
      /\ \A k \in 1 .. n : /\ IsWord(t, W[k][1], W[k][2])
                           /\ W[k][1] \in Nat /\ W[k][2] \in Nat
                           /\ W[k][1] < W[k][2]
                           /\ Consumed(t, k) = W[k][2]
      /\ \A k, l \in 1 .. n : k < l => W[k][2] < W[l][1]
  BY WordOffsets
<1>2. i # 1 => j \in 1 .. n /\ a = W[j][2] /\ a < b
  <2> SUFFICES ASSUME i # 1 PROVE j \in 1 .. n /\ a = W[j][2] /\ a < b
    OBVIOUS
  <2>1. j \in 1 .. n /\ j < i
    BY <1>1
  <2>2. W[j][2] < W[i][1] /\ Consumed(t, j) = W[j][2]
    BY <1>1, <2>1
  <2> QED
    BY <2>1, <2>2
<1>3. a <= c
  BY <1>1
<1>4. v \in AnyText /\ Len(v) = c - a
  BY <1>1, <1>3, CutFacts
<1> DEFINE u == Cut(t, a, b)
<1>5. u \in AnyText /\ Letters(u) = {}
  BY SpaceBefore
<1>6. \A k \in Int : k \in Letters(u) <=> 0 <= k /\ k < b - a /\ k + a \in Letters(t)
  <2>1. b <= Len(t)
    BY <1>1
  <2> QED
    BY <1>1, <2>1, LettersOfCut
<1>7. \A k \in Int : k \in Letters(v) <=> 0 <= k /\ k < c - a /\ k + a \in Letters(t)
  BY <1>1, <1>3, LettersOfCut
<1> HIDE DEF u
<1>8. \A k \in b .. c - 1 : k \in Letters(t)
  BY <1>1 DEF IsWord
<1>9. \A k \in Int : k \in Letters(v) <=> b - a <= k /\ k < c - a
  <2> TAKE k \in Int
  <2>1. CASE k < b - a
    BY <1>1, <1>5, <1>6, <1>7, <2>1
  <2>2. CASE ~(k < b - a)
    <3>1. k < c - a => k + a \in b .. c - 1
      BY SMTT(30), <1>1, <2>2
    <3>2. 0 <= k /\ b - a <= k
      BY <1>1, <2>2
    <3> QED
      BY <1>7, <1>8, <3>1, <3>2
  <2> QED
    BY <2>1, <2>2
<1>91. i # 1 => 0 \notin Letters(v)
  <2> SUFFICES ASSUME i # 1 PROVE ~(b - a <= 0)
    BY <1>9
  <2>1. a < b /\ a \in Nat /\ b \in Nat
    BY <1>1, <1>2
  <2> QED
    BY <2>1
<1> DEFINE x == b - a
           y == c - a
<1>10. /\ x \in Nat /\ y \in Nat /\ x < y /\ y = Len(v)
       /\ \A k \in Int : k \in Letters(v) <=> x <= k /\ k < y
  BY SMTT(30), <1>1, <1>4, <1>9
<1> HIDE DEF x, y
<1>11. IsWord(v, x, y)
  <2>1. x - 1 \notin Letters(v) /\ y \notin Letters(v) /\ y <= Len(v)
    BY <1>10
  <2>2. \A k \in x .. y - 1 : k \in Letters(v)
    BY <1>10
  <2> QED
    BY <1>10, <2>1, <2>2 DEF IsWord
<1>12. ASSUME NEW d, NEW e, IsWord(v, d, e) PROVE x = d /\ y = e
  <2>1. d \in Nat /\ e \in Nat /\ d < e
    BY <1>12 DEF IsWord
  <2>2. d \in Letters(v) /\ e - 1 \in Letters(v)
    BY <1>12, <2>1 DEF IsWord
  <2>3. x <= d /\ d < y /\ e - 1 < y
    BY <1>10, <2>1, <2>2
  <2>4. x < e /\ d < y
    BY <1>10, <2>1, <2>3
  <2>5. (x = d /\ y = e) \/ y < d
    BY <1>11, <1>12, <2>4, WordsApart
  <2> QED
    BY <1>10, <2>1, <2>3, <2>5
<1>13. /\ Len(ws) = 1 /\ DOMAIN ws = 1 .. 1 /\ ws \in Seq(Nat \X Nat)
       /\ ws[1][1] = x /\ ws[1][2] = y
  BY <1>10 DEF x, y
<1> HIDE DEF ws
<1>14. ListsWords(ws, v)
  <2>1. \A k \in 1 .. Len(ws) : IsWord(v, ws[k][1], ws[k][2])
    BY <1>11, <1>13
  <2>2. \A d, e : IsWord(v, d, e) =>
           \E k \in 1 .. Len(ws) : ws[k][1] = d /\ ws[k][2] = e
    BY <1>12, <1>13
  <2>3. \A k, l \in 1 .. Len(ws) : k < l => ws[k][2] < ws[l][1]
    BY <1>13
  <2> QED
    BY <1>13, <2>1, <2>2, <2>3 DEF ListsWords
<1>15. Words(v) = ws
  BY <1>4, <1>14, WordsUnique
<1>16. Len(WordsOf(v)) = 1 /\ WordsOf(v)[1] = Cut(v, x, y)
  <2>1. Len(Words(v)) = 1 /\ Words(v)[1][1] = x /\ Words(v)[1][2] = y
    BY <1>13, <1>15
  <2>2. 1 \in 1 .. Len(Words(v))
    BY <2>1
  <2> QED
    BY <1>4, <2>1, <2>2, WordsOfFacts
<1>17. WordsOf(t)[i] = Cut(t, b, c)
  BY WordsOfFacts
<1>18. Cut(v, x, y) = Cut(t, b, c)
  <2> DEFINE f == Cut(v, x, y)
             g == Cut(t, b, c)
  <2>1. /\ f \in AnyText /\ Len(f) = y - x /\ \A k \in 0 .. y - x - 1 : f[k + 1] = v[x + k + 1]
    <3>1. x \in Nat /\ y \in Nat /\ x <= y /\ y <= Len(v)
      BY <1>10
    <3>2. v \in AnyText
      BY <1>4
    <3> QED
      BY <3>1, <3>2, CutFacts
  <2>2. /\ g \in AnyText /\ Len(g) = c - b /\ \A k \in 0 .. c - b - 1 : g[k + 1] = t[b + k + 1]
    <3>1. b <= c
      BY <1>1
    <3> QED
      BY ZenonT(40), <1>1, <3>1, CutFacts
  <2>3. \A k \in 0 .. c - a - 1 : v[k + 1] = t[a + k + 1]
    BY SMTT(30), <1>1, <1>3, CutFacts
  <2>4. y - x = c - b
    BY <1>1 DEF x, y
  <2> HIDE DEF f, g
  <2>5. ASSUME NEW k \in 0 .. c - b - 1 PROVE f[k + 1] = g[k + 1]
    <3>1. /\ k \in 0 .. y - x - 1 /\ x + k \in 0 .. c - a - 1
          /\ a + (x + k) + 1 = b + k + 1 /\ x + k + 1 = (x + k) + 1
      <4>1. k \in Int /\ 0 <= k /\ k < c - b
        BY <1>1
      <4>2. k \in 0 .. y - x - 1
        BY <2>4, <2>5
      <4>3. x = b - a /\ x \in Nat /\ a \in Nat /\ b \in Nat /\ c \in Nat
        BY <1>1, <1>10 DEF x
      <4>4. x + k \in 0 .. c - a - 1
        <5>1. x + k \in Int /\ 0 <= x + k
          BY <4>1, <4>3
        <5>2. x + k < c - a
          BY SMTT(30), <4>1, <4>3
        <5> DEFINE m == x + k
                   d == c - a
        <5>3. m \in Int /\ 0 <= m /\ m < d /\ d \in Int
          BY <4>3, <5>1, <5>2
        <5> HIDE DEF m, d
        <5>4. m \in 0 .. d - 1
          BY <5>3
        <5> QED
          BY <5>4 DEF m, d
      <4>5. a + (x + k) + 1 = b + k + 1 /\ x + k + 1 = (x + k) + 1
        BY SMTT(30), <4>1, <4>3
      <4> QED
        BY <4>2, <4>4, <4>5
    <3>2. f[k + 1] = v[x + k + 1] /\ g[k + 1] = t[b + k + 1]
      BY <2>1, <2>2, <3>1
    <3>3. v[(x + k) + 1] = t[a + (x + k) + 1]
      BY <2>3, <3>1
    <3> QED
      BY <3>1, <3>2, <3>3
  <2>6. Len(f) = Len(g) /\ \A k \in 0 .. Len(f) - 1 : f[k + 1] = g[k + 1]
    BY <2>1, <2>2, <2>4, <2>5
  <2>7. f = g
    BY <2>1, <2>2, <2>6, SameText
  <2> QED
    BY <2>7 DEF f, g
<1> QED
  BY <1>1, <1>2, <1>4, <1>91, <1>15, <1>16, <1>17, <1>18 DEF ws, x, y

-----------------------------------------------------------------------------
(* The words of a reconciled page that nobody doubts.                      *)

\* What is written for the first i words of the primary: its sure words are
\* among those the primary was sure of, in order.
SurelyRead(r, pri, i) ==
    \E I \in SUBSET (1 .. i) :
        /\ I \in SUBSET SureAt(pri.text, pri.doubts)
        /\ SureOf(r) = Elements(WordsOf(pri.text), I)
Reliable(r, pri, i) ==
    /\ r \in Part /\ (i = 0 => r.text = <<>>)
    /\ SurelyRead(r, pri, i)

\* One more piece keeps this.
LEMMA ReliablePiece ==
    ASSUME NEW pri \in Part, NEW r \in Part, NEW i \in Nat, NEW j \in Nat, i < j,
           SurelyRead(r, pri, i),
           NEW v \in AnyText, NEW E, E \subseteq Offsets(v), Apart(r.text, v),
           NEW J \in SUBSET (i + 1 .. j), J \in SUBSET SureAt(pri.text, pri.doubts),
           SureWords(v, E) = Elements(WordsOf(pri.text), J),
           NEW x, x = Extended(r, v, E)
    PROVE  Reliable(x, pri, j)
<1> DEFINE s == WordsOf(pri.text)
           T == SureAt(pri.text, pri.doubts)
<1>1. pri.text \in AnyText
  BY PartFacts
<1>2. s \in Seq(AnyText) /\ T \in SUBSET (1 .. Len(s))
  BY <1>1, WordsOfFacts, SureWordsAre
<1>3. PICK I \in SUBSET (1 .. i) : I \in SUBSET T /\ SureOf(r) = Elements(s, I)
  BY DEF SurelyRead
<1>4. x \in Part /\ SureOf(x) = SureOf(r) \o SureWords(v, E)
  BY SureJoin
<1>5. SureOf(x) = Coupled(Elements(s, I), Elements(s, J))
  BY <1>3, <1>4 DEF Coupled
<1> HIDE DEF s, T
<1>6. /\ I \in SUBSET (1 .. Len(s)) /\ J \in SUBSET (1 .. Len(s))
      /\ (\A y \in I : y <= i) /\ (\A y \in J : i < y)
  <2>1. I \in SUBSET (1 .. Len(s))
    BY <1>2, <1>3
  <2>2. J \in SUBSET (1 .. Len(s))
    BY <1>2 DEF T
  <2>3. \A y \in I : y <= i
    OBVIOUS
  <2>4. \A y \in J : i < y
    OBVIOUS
  <2> QED
    BY <2>1, <2>2, <2>3, <2>4
<1>7. Coupled(Elements(s, I), Elements(s, J)) = Elements(s, I \cup J)
  <2>1. s \in Seq(AnyText)
    BY <1>2
  <2>2. I \in SUBSET (1 .. Len(s)) /\ J \in SUBSET (1 .. Len(s))
    BY <1>6
  <2>3. Astride(i, I, J)
    BY <1>6 DEF Astride
  <2> QED
    BY <2>1, <2>2, <2>3, ElementsUnion
<1>8. I \cup J \in SUBSET (1 .. j) /\ I \cup J \in SUBSET T
  <2>1. I \cup J \in SUBSET (1 .. j)
    OBVIOUS
  <2>2. I \cup J \in SUBSET T
    BY <1>3 DEF T
  <2> QED
    BY <2>1, <2>2
<1> DEFINE K == I \cup J
<1> HIDE DEF K
<1>9. K \in SUBSET (1 .. j) /\ K \in SUBSET T /\ SureOf(x) = Elements(s, K)
  BY <1>5, <1>7, <1>8 DEF K
<1>10. SurelyRead(x, pri, j)
  BY <1>9 DEF SurelyRead, s, T
<1>11. j # 0
  OBVIOUS
<1> QED
  BY <1>4, <1>10, <1>11 DEF Reliable

\* Blanks keep it too, and part what comes before them from what comes after.
LEMMA ReliableSpace ==
    ASSUME NEW pri \in Part, NEW r, NEW i \in Nat, Reliable(r, pri, i),
           NEW v \in AnyText, Letters(v) = {}, NEW x, x = Extended(r, v, {})
    PROVE  /\ x \in Part /\ x.text = r.text \o v /\ SurelyRead(x, pri, i)
           /\ (v = <<>> => i = 0) => \A w \in AnyText : Apart(x.text, w)
<1>1. r \in Part /\ r.text \in AnyText /\ (i = 0 => r.text = <<>>) /\ SurelyRead(r, pri, i)
  BY PartFacts DEF Reliable
<1>2. {} \subseteq Offsets(v) /\ Apart(r.text, v) /\ SureWords(v, {}) = <<>>
  BY <1>1, BlankPiece
<1>3. x \in Part /\ x.text = r.text \o v /\ SureOf(x) = SureOf(r) \o SureWords(v, {})
  BY SMTT(30), <1>1, <1>2, SureJoin
<1>4. SureOf(x) = SureOf(r)
  <2>1. PICK I \in SUBSET (1 .. i) :
           /\ I \in SUBSET SureAt(pri.text, pri.doubts)
           /\ SureOf(r) = Elements(WordsOf(pri.text), I)
    BY <1>1 DEF SurelyRead
  <2>2. pri.text \in AnyText
    BY PartFacts
  <2>3. /\ WordsOf(pri.text) \in Seq(AnyText)
        /\ SureAt(pri.text, pri.doubts) \in SUBSET (1 .. Len(WordsOf(pri.text)))
    BY <2>2, WordsOfFacts, SureWordsAre
  <2>4. I \in SUBSET (1 .. Len(WordsOf(pri.text)))
    BY <2>1, <2>3
  <2>5. SureOf(r) \in Seq(AnyText)
    BY <2>1, <2>3, <2>4, ElementsPicked
  <2> DEFINE q == SureOf(r)
  <2>6. q \in Seq(AnyText)
    BY <2>5
  <2> HIDE DEF q
  <2>7. q \o <<>> = q
    BY <2>6
  <2> QED
    BY <1>2, <1>3, <2>7 DEF q
<1>5. SurelyRead(x, pri, i)
  BY <1>1, <1>4 DEF SurelyRead
<1>6. ASSUME v = <<>> => i = 0, NEW w \in AnyText PROVE Apart(x.text, w)
  <2>1. CASE v = <<>>
    <3>1. r.text = <<>> /\ x.text = <<>> \o <<>>
      BY <1>1, <1>3, <1>6, <2>1
    <3>2. x.text = <<>>
      BY <3>1
    <3>3. Len(x.text) - 1 \notin Letters(x.text)
      BY <1>3, <3>2, PartFacts, LettersOf
    <3> QED
      BY <3>3 DEF Apart
  <2>2. CASE v # <<>>
    BY <1>1, <1>3, <2>2, BlankPiece
  <2> QED
    BY <2>1, <2>2
<1> QED
  BY <1>3, <1>5, <1>6

\* Words the two readings disagree about.
LEMMA GapReliable ==
    ASSUME NEW pri \in Part, NEW sec \in Part, NEW r, NEW i1 \in Nat, NEW i2 \in Int,
           i2 <= Len(Words(pri.text)), i1 <= i2, Reliable(r, pri, i1),
           NEW j1 \in Nat, NEW j2 \in Int, j2 <= Len(Words(sec.text))
    PROVE  Reliable(Gap(r, pri, sec, i1, i2, j1, j2), pri, i2)
<1> DEFINE pw == Words(pri.text)
           sw == Words(sec.text)
           cursor == Consumed(pri.text, i1)
           start == pw[i1 + 1][1]
           end == pw[i2][2]
           read == j1 < j2
           secStart == sw[j1 + 1][1]
           secEnd == sw[j2][2]
           unsure == pri.doubts \cap start .. end - 1 # {}
           secUnsure == read /\ sec.doubts \cap secStart .. secEnd - 1 # {}
           space == Cut(pri.text, cursor, start)
           spaced == Extended(r, space, {})
           mine == Cut(pri.text, start, end)
           theirs == Cut(sec.text, secStart, secEnd)
           g == Gap(r, pri, sec, i1, i2, j1, j2)
           s == WordsOf(pri.text)
           T == SureAt(pri.text, pri.doubts)
<1>1. CASE i1 >= i2
  <2>1. i1 = i2
    BY <1>1
  <2>2. g = r
    BY <1>1 DEF Gap, Disagreement
  <2> QED
    BY <2>1, <2>2
<1>2. CASE ~(i1 >= i2)
  <2>1. /\ i1 + 1 \in 1 .. Len(pw) /\ i2 \in Nat /\ i1 < i2
        /\ i1 + 1 - 1 = i1
    BY <1>2, PartFacts, WordOffsets
  <2>2. pri.text \in AnyText /\ sec.text \in AnyText /\ r \in Part
    BY PartFacts DEF Reliable
  <2>3. space \in AnyText /\ Letters(space) = {} /\ (space = <<>> => i1 = 0)
    <3> DEFINE k == i1 + 1
               u == Cut(pri.text, Consumed(pri.text, k - 1), pw[k][1])
    <3>1. k \in 1 .. Len(pw) /\ k - 1 = i1
      BY <2>1
    <3>2. space = u
      BY <3>1
    <3> HIDE DEF k
    <3>3. u \in AnyText /\ Letters(u) = {} /\ (u = <<>> => k = 1)
      BY <2>2, <3>1, SpaceBefore
    <3>4. k = 1 => i1 = 0
      BY DEF k
    <3> HIDE DEF u, space
    <3> QED
      BY <3>2, <3>3, <3>4
  <2>4. mine \in AnyText /\ SureWords(mine, {}) = Elements(s, i1 + 1 .. i2)
        /\ i1 + 1 .. i2 \in SUBSET (1 .. Len(s))
    BY <2>1, <2>2, RunOfWords
  <2>5. ASSUME read PROVE theirs \in AnyText
    <3>1. j2 \in Nat /\ j1 < j2
      BY <2>5
    <3> QED
      BY <2>2, <3>1, RunOfWords
  <2>6. g = IF unsure /\ ~secUnsure /\ read
            THEN Extended(spaced, theirs, Offsets(theirs))
            ELSE IF unsure \/ secUnsure THEN Extended(spaced, mine, Offsets(mine))
            ELSE Extended(spaced, mine, {})
    BY <1>2 DEF Gap, Disagreement
  <2> HIDE DEF space, mine, theirs, read
  <2>7. /\ spaced \in Part /\ SurelyRead(spaced, pri, i1)
        /\ \A w \in AnyText : Apart(spaced.text, w)
    BY <2>3, ReliableSpace
  <2> HIDE DEF spaced, g, secUnsure
  <2>8. ASSUME NEW w \in AnyText, NEW x, x = Extended(spaced, w, Offsets(w))
        PROVE  Reliable(x, pri, i2)
    <3> DEFINE E == Offsets(w)
    <3>1. SureWords(w, E) = <<>> /\ E \subseteq Offsets(w)
      BY AllDoubted
    <3>2. s \in Seq(AnyText)
      BY <2>2, WordsOfFacts
    <3>3. Elements(s, {}) = <<>>
      BY <3>2, ElementsNone
    <3>4. {} \in SUBSET (i1 + 1 .. i2) /\ {} \in SUBSET T
      OBVIOUS
    <3>5. x = Extended(spaced, w, E)
      BY <2>8
    <3> HIDE DEF E
    <3>6. SureWords(w, E) = Elements(s, {})
      BY <3>1, <3>3
    <3>7. Apart(spaced.text, w)
      BY <2>7
    <3> QED
      BY <2>1, <2>7, <3>1, <3>4, <3>5, <3>6, <3>7, ReliablePiece
  <2>9. CASE unsure /\ ~secUnsure /\ read
    <3>1. g = Extended(spaced, theirs, Offsets(theirs))
      BY <2>6, <2>9
    <3> QED
      BY <2>5, <2>8, <2>9, <3>1 DEF g
  <2>10. CASE ~(unsure /\ ~secUnsure /\ read) /\ (unsure \/ secUnsure)
    <3>1. g = Extended(spaced, mine, Offsets(mine))
      BY <2>6, <2>10
    <3> QED
      BY <2>4, <2>8, <3>1 DEF g
  <2>11. CASE ~(unsure \/ secUnsure)
    <3> DEFINE J == i1 + 1 .. i2
    <3>1. g = Extended(spaced, mine, {})
      BY <2>6, <2>11
    <3>2. pri.doubts \cap start .. end - 1 = {}
      BY <2>11
    <3>3. J \in SUBSET T
      <4> SUFFICES ASSUME NEW n \in J PROVE n \in T
        OBVIOUS
      <4>1. /\ n \in 1 .. Len(pw) /\ n \in DOMAIN pw /\ i1 + 1 \in 1 .. Len(pw)
            /\ i2 \in 1 .. Len(pw) /\ i1 + 1 <= n /\ n <= i2
        BY <2>1, <2>2, WordsOfFacts
      <4>2. pw[i1 + 1][1] <= pw[n][1] /\ pw[n][2] <= pw[i2][2]
            /\ pw[i1 + 1][1] \in Nat /\ pw[n][1] \in Nat /\ pw[n][2] \in Nat /\ pw[i2][2] \in Nat
        <5> DEFINE p == i1 + 1
        <5>1. p \in 1 .. Len(Words(pri.text)) /\ n \in 1 .. Len(Words(pri.text))
              /\ i2 \in 1 .. Len(Words(pri.text)) /\ p <= n /\ n <= i2
          BY <4>1
        <5>2. pri.text \in AnyText
          BY <2>2
        <5> HIDE DEF p
        <5>3. /\ ~(Words(pri.text)[n][1] < Words(pri.text)[p][1])
              /\ Words(pri.text)[p][1] \in Nat /\ Words(pri.text)[n][1] \in Nat
          BY <5>1, <5>2, WordsInOrder
        <5>4. /\ ~(Words(pri.text)[i2][2] < Words(pri.text)[n][2])
              /\ Words(pri.text)[n][2] \in Nat /\ Words(pri.text)[i2][2] \in Nat
          BY SMTT(30), <5>1, <5>2, WordsInOrder
        <5> DEFINE x1 == Words(pri.text)[p][1]
                   x2 == Words(pri.text)[n][1]
                   x3 == Words(pri.text)[n][2]
                   x4 == Words(pri.text)[i2][2]
        <5>5. /\ ~(x2 < x1) /\ ~(x4 < x3) /\ x1 \in Nat /\ x2 \in Nat /\ x3 \in Nat /\ x4 \in Nat
          BY <5>3, <5>4
        <5>6. x1 <= x2 /\ x3 <= x4
          <6> HIDE DEF x1, x2, x3, x4
          <6> QED
            BY <5>5
        <5> QED
          BY <5>5, <5>6 DEF p
      <4>3. pri.doubts \cap pw[n][1] .. pw[n][2] - 1 = {}
        <5> SUFFICES ASSUME NEW x \in pri.doubts, x \in pw[n][1] .. pw[n][2] - 1
                     PROVE  x \in start .. end - 1
          BY <3>2
        <5>1. /\ x \in Int /\ pw[n][1] <= x /\ x < pw[n][2]
              /\ start \in Nat /\ end \in Nat /\ start <= pw[n][1] /\ pw[n][2] <= end
              /\ pw[n][1] \in Nat /\ pw[n][2] \in Nat
          BY <4>2
        <5> DEFINE e == pw[n][1]
                   f == pw[n][2]
        <5>2. e \in Nat /\ f \in Nat /\ e <= x /\ x < f /\ start <= e /\ f <= end
          BY <5>1
        <5> HIDE DEF start, end, e, f
        <5>3. start <= x /\ x < end
          BY SMTT(30), <5>1, <5>2
        <5> QED
          BY <5>1, <5>3
      <4> QED
        BY <4>1, <4>3 DEF SureAt
    <3>4. SureWords(mine, {}) = Elements(s, J) /\ {} \subseteq Offsets(mine)
      BY <2>4
    <3>5. Apart(spaced.text, mine)
      BY <2>4, <2>7
    <3>6. J \in SUBSET (i1 + 1 .. i2)
      OBVIOUS
    <3> HIDE DEF J
    <3> QED
      BY <2>1, <2>4, <2>7, <3>1, <3>3, <3>4, <3>5, <3>6, ReliablePiece DEF g
  <2> QED
    BY <2>9, <2>10, <2>11
<1> QED
  BY <1>1, <1>2

\* A word both have read.
LEMMA AgreementReliable ==
    ASSUME NEW pri \in Part, NEW sec \in Part, NEW r, NEW i \in 1 .. Len(Words(pri.text)),
           NEW k, k = i - 1, Reliable(r, pri, k), NEW j
    PROVE  Reliable(Agreement(r, Consumed(pri.text, k), pri, sec, i, j), pri, i)
<1> DEFINE pw == Words(pri.text)
           q == Words(sec.text)[j]
           a == Consumed(pri.text, i - 1)
           b == pw[i][1]
           c == pw[i][2]
           carried == {m - a : m \in pri.doubts \cap a .. c - 1}
           whole == IF sec.doubts \cap q[1] .. q[2] - 1 = {} THEN {}
                    ELSE b - a .. c - 1 - a
           E == carried \cup whole
           v == Cut(pri.text, a, c)
           s == WordsOf(pri.text)
           T == SureAt(pri.text, pri.doubts)
           x == Extended(r, v, E)
<1>1. /\ pri.text \in AnyText /\ pri.doubts \in SUBSET Nat /\ k \in Nat /\ k < i
      /\ i \in Nat /\ (k = 0 <=> i = 1) /\ r \in Part /\ (k = 0 => r.text = <<>>)
      /\ SurelyRead(r, pri, k)
  BY PartFacts DEF Reliable
<1>2. Agreement(r, Consumed(pri.text, k), pri, sec, i, j) = x
  BY DEF Agreement
<1>3. /\ a \in Nat /\ b \in Nat /\ c \in Nat /\ a <= b /\ b < c /\ c <= Len(pri.text)
      /\ v \in AnyText /\ Len(v) = c - a
      /\ Words(v) = <<<<b - a, c - a>>>>
      /\ Len(WordsOf(v)) = 1 /\ WordsOf(v)[1] = s[i]
      /\ i # 1 => a < b /\ 0 \notin Letters(v)
  BY <1>1, WordWithSpace
<1>4. s \in Seq(AnyText) /\ Len(s) = Len(pw) /\ i \in 1 .. Len(s)
      /\ DOMAIN pw = 1 .. Len(pw) /\ WordsOf(v) \in Seq(AnyText)
      /\ DOMAIN Words(v) = 1 .. Len(Words(v)) /\ Len(Words(v)) = 1
  BY <1>1, <1>3, WordsOfFacts
<1>5. E \subseteq Offsets(v)
  <2>1. carried \subseteq Offsets(v)
    <3> SUFFICES ASSUME NEW m \in pri.doubts, m \in a .. c - 1 PROVE m - a \in Offsets(v)
      OBVIOUS
    <3>1. m \in Int /\ a <= m /\ m < c
      BY <1>1, <1>3
    <3>2. a \in Nat /\ c \in Nat /\ Len(v) = c - a
      BY <1>3
    <3> HIDE DEF a, c, v
    <3>3. m - a \in 0 .. Len(v) - 1
      BY ONLY <3>1, <3>2
    <3> QED
      BY <3>3 DEF Offsets
  <2>2. whole \subseteq Offsets(v)
    <3> HIDE DEF a, b, c, v
    <3> QED
      BY <1>3 DEF Offsets
  <2> QED
    BY <2>1, <2>2
<1>6. Apart(r.text, v)
  <2>1. CASE i = 1
    <3>1. r.text = <<>>
      BY <1>1, <2>1
    <3>2. r.text \in AnyText
      BY <1>1, PartFacts
    <3>3. Len(r.text) - 1 \notin Letters(r.text)
      BY <3>1, <3>2, LettersOf
    <3> QED
      BY <3>3 DEF Apart
  <2>2. CASE i # 1
    BY <1>3, <2>2 DEF Apart
  <2> QED
    BY <2>1, <2>2
<1>7. /\ SureWords(v, E) = Elements(WordsOf(v), SureAt(v, E))
      /\ SureAt(v, E) \in SUBSET (1 .. 1)
      /\ \A n \in 1 .. 1 : n \in SureAt(v, E) <=> E \cap b - a .. c - a - 1 = {}
  <2>1. SureWords(v, E) = Elements(WordsOf(v), SureAt(v, E))
        /\ SureAt(v, E) \in SUBSET (1 .. Len(WordsOf(v)))
    BY <1>3, SureWordsAre
  <2>2. Words(v)[1][1] = b - a /\ Words(v)[1][2] = c - a
    <3> HIDE DEF a, b, c, v
    <3> QED
      BY <1>3
  <2> HIDE DEF E, v, a, b, c
  <2>3. 1 \in SureAt(v, E) <=> E \cap b - a .. c - a - 1 = {}
    BY <1>4, <2>2 DEF SureAt
  <2>4. \A n \in 1 .. 1 : n = 1
    OBVIOUS
  <2>5. \A n \in 1 .. 1 : n \in SureAt(v, E) <=> E \cap b - a .. c - a - 1 = {}
    BY <2>3, <2>4
  <2> QED
    BY <1>3, <2>1, <2>5
<1>8. E \cap b - a .. c - a - 1 = {} => i \in T
  <2> SUFFICES ASSUME E \cap b - a .. c - a - 1 = {},
                      NEW m \in pri.doubts, m \in b .. c - 1
               PROVE  FALSE
    BY <1>4 DEF SureAt
  <2>1. m \in Int /\ b <= m /\ m < c
    BY <1>1, <1>3
  <2>2. m \in a .. c - 1
    <3> HIDE DEF a, b, c
    <3> QED
      BY <1>3, <2>1
  <2>3. m - a \in E
    BY <2>2
  <2>4. m - a \in b - a .. c - a - 1
    <3> HIDE DEF a, b, c
    <3>1. m - a \in Int /\ b - a <= m - a /\ m - a <= c - a - 1 /\ b - a \in Int
          /\ c - a - 1 \in Int
      BY SMTT(30), <1>3, <2>1
    <3> QED
      BY <3>1
  <2> QED
    BY <2>3, <2>4
<1> HIDE DEF E, v, a, b, c, x
<1> DEFINE J == IF SureAt(v, E) = {} THEN {} ELSE {i}
<1>9. SureWords(v, E) = Elements(s, J) /\ J \in SUBSET {i} /\ J \in SUBSET T
  <2>1. CASE SureAt(v, E) = {}
    <3>1. Elements(WordsOf(v), {}) = <<>> /\ Elements(s, {}) = <<>>
      BY <1>4, ElementsNone
    <3> QED
      BY <1>7, <2>1, <3>1
  <2>2. CASE SureAt(v, E) # {}
    <3>1. PICK n \in SureAt(v, E) : TRUE
      BY <2>2
    <3>2. n \in 1 .. 1 /\ SureAt(v, E) = 1 .. 1
      BY <1>7, <3>1
    <3>3. i \in T
      BY <1>7, <1>8, <3>1, <3>2
    <3>4. SureWords(v, E) = WordsOf(v)
      BY <1>3, <1>4, <1>7, <3>2, ElementsAll
    <3>5. WordsOf(v) = Elements(s, {i})
      BY SMTT(30), <1>3, <1>4, ElementsOne
    <3> QED
      BY <2>2, <3>3, <3>4, <3>5
  <2> QED
    BY <2>1, <2>2
<1>10. J \in SUBSET (k + 1 .. i)
  <2>1. i \in k + 1 .. i
    BY <1>1
  <2> QED
    BY <1>9, <2>1
<1> HIDE DEF J
<1>11. x = Extended(r, v, E)
  BY DEF x
<1>12. Reliable(x, pri, i)
  BY <1>1, <1>3, <1>5, <1>6, <1>9, <1>10, <1>11, ReliablePiece
<1> QED
  BY <1>2, <1>12

LEMMA RejoinedBody ==
    ASSUME NEW pri \in Part, NEW sec \in Part, Words(pri.text) # <<>>,
           NEW ms, ms = PairsOf(pri, sec)
    PROVE  \E f :
              /\ f[0] = Sure(<<>>)
              /\ \A i \in 1 .. Len(ms) : f[i] = Rejoined(pri, sec, ms, f[i - 1], i)
              /\ Reconciled(pri, sec) =
                    Extended(BodyOf(pri, sec, ms, f),
                             Cut(pri.text, Consumed(pri.text, Len(Words(pri.text))),
                                 Len(pri.text)), {})
<1>1. PICK f : f = CHOOSE g : RejoinedBy(g, pri, sec, ms)
  OBVIOUS
<1>2. Pairing(ms, Len(Words(pri.text)), Len(Words(sec.text)))
  BY PairsOfFacts
<1>3. f[0] = Sure(<<>>)
  <2>1. RejoinedBy(f, pri, sec, ms)
    BY <1>1, <1>2, RejoinedFunction
  <2>2. 0 \in 0 .. Len(ms)
    BY <1>2 DEF Pairing
  <2> DEFINE h == [n \in 0 .. Len(ms) |->
                      IF n = 0 THEN Sure(<<>>) ELSE Rejoined(pri, sec, ms, f[n - 1], n)]
  <2>3. f = h
    BY <2>1 DEF RejoinedBy
  <2>4. h[0] = Sure(<<>>)
    BY <2>2
  <2> QED
    BY <2>3, <2>4
<1>4. \A i \in 1 .. Len(ms) : f[i] = Rejoined(pri, sec, ms, f[i - 1], i)
  BY <1>1, <1>2, RejoinedFunction
<1>5. Reconciled(pri, sec) =
         Extended(BodyOf(pri, sec, ms, f),
                  Cut(pri.text, Consumed(pri.text, Len(Words(pri.text))),
                      Len(pri.text)), {})
  BY <1>1, ReconciledChosen
<1> QED
  BY <1>3, <1>4, <1>5

\* All the words of the primary are written, and what stands after them.
LEMMA ReconciledReliable ==
    ASSUME NEW pri \in Part, NEW sec \in Part, NEW x, x = Reconciled(pri, sec)
    PROVE  SurelyRead(x, pri, Len(Words(pri.text)))
<1> DEFINE pw == Words(pri.text)
           sw == Words(sec.text)
           n == Len(pw)
           ms == PairsOf(pri, sec)
           l == Len(ms)
           t == pri.text
<1>1. t \in AnyText /\ n \in Nat
  BY PartFacts, WordsOfFacts
<1>2. CASE pw = <<>>
  <2>1. x = pri /\ n = 0
    BY <1>2, ReconciledBlank
  <2>2. /\ WordsOf(t) \in Seq(AnyText) /\ Len(WordsOf(t)) = n
        /\ SureOf(pri) = Elements(WordsOf(t), SureAt(t, pri.doubts))
        /\ SureAt(t, pri.doubts) \in SUBSET (1 .. Len(WordsOf(t)))
    BY <1>1, WordsOfFacts, SureWordsAre DEF SureOf
  <2>3. SureAt(t, pri.doubts) \in SUBSET (1 .. n)
    BY <2>2
  <2> QED
    BY <2>1, <2>2, <2>3 DEF SurelyRead
<1>3. CASE pw # <<>>
  <2> DEFINE tail == Cut(t, Consumed(t, n), Len(t))
  <2>0. PICK f : /\ f[0] = Sure(<<>>)
                 /\ \A i \in 1 .. l : f[i] = Rejoined(pri, sec, ms, f[i - 1], i)
                 /\ x = Extended(BodyOf(pri, sec, ms, f), tail, {})
    BY <1>3, RejoinedBody
  <2> DEFINE body == BodyOf(pri, sec, ms, f)
  <2>1. x = Extended(body, tail, {})
    BY <2>0
  <2>2. Pairing(ms, n, Len(sw))
    BY PairsOfFacts
  <2> HIDE DEF ms
  <2>3. /\ ms \in Seq(Nat \X Nat) /\ l \in Nat
        /\ \A k \in 1 .. l : ms[k][1] \in 1 .. n /\ ms[k][2] \in 1 .. Len(sw)
        /\ \A i, k \in 1 .. l : i < k => ms[i][1] < ms[k][1] /\ ms[i][2] < ms[k][2]
    BY <2>2 DEF Pairing
  <2>4. /\ f[0] = Sure(<<>>)
        /\ \A i \in 1 .. l : f[i] = Rejoined(pri, sec, ms, f[i - 1], i)
    BY <2>0
  <2> DEFINE P == {i \in 0 .. l : Reliable(f[i], pri, Place(ms, i)[1])}
  <2>5. 0 \in P
    <3>1. 0 \in 0 .. l /\ Place(ms, 0)[1] = 0
      BY <2>3 DEF Place
    <3>2. f[0] \in Part /\ f[0].text = <<>> /\ f[0].doubts = {}
      BY <2>4, NothingYet DEF Sure
    <3>3. WordsOf(t) \in Seq(AnyText)
      BY <1>1, WordsOfFacts
    <3>4. SureOf(f[0]) = <<>>
      <4>1. <<>> \in AnyText /\ Letters(<<>>) = {}
        <5>1. <<>> \in AnyText /\ Len(<<>>) = 0
          BY NothingYet
        <5>2. \A k \in Letters(<<>>) : FALSE
          BY <5>1, LettersOf
        <5> QED
          BY <5>1, <5>2
      <4> QED
        BY <3>2, <4>1, BlankPiece DEF SureOf
    <3>5. SureOf(f[0]) = Elements(WordsOf(t), {})
      BY <3>3, <3>4, ElementsNone
    <3>6. {} \in SUBSET (1 .. 0) /\ {} \in SUBSET SureAt(t, pri.doubts)
      OBVIOUS
    <3>7. SurelyRead(f[0], pri, 0)
      BY <3>5, <3>6 DEF SurelyRead
    <3>8. Reliable(f[0], pri, 0)
      BY <3>2, <3>7 DEF Reliable
    <3> QED
      BY <3>1, <3>8
  <2>6. ASSUME NEW i \in 0 .. l, i < l, i \in P PROVE i + 1 \in P
    <3> DEFINE m == i + 1
               i1 == Place(ms, i)[1]
               j1 == Place(ms, i)[2]
               i2 == ms[m][1] - 1
               j2 == ms[m][2] - 1
               w == Widened(pri, sec, ms, f[i], m)
    <3>1. m \in 1 .. l /\ m - 1 = i /\ Reliable(f[i], pri, i1) /\ m \in 0 .. l
      <4>1. Reliable(f[i], pri, i1)
        BY <2>6
      <4>2. l \in Nat /\ i \in Nat /\ i < l
        BY <2>3, <2>6
      <4>3. m \in 1 .. l /\ m - 1 = i /\ m \in 0 .. l
        BY <4>2
      <4> QED
        BY <4>1, <4>3
    <3>2. f[i] \in Part
      BY <3>1 DEF Reliable
    <3>3. /\ i1 \in Nat /\ j1 \in Nat /\ i1 < ms[m][1] /\ j1 < ms[m][2]
          /\ ms[m][1] \in 1 .. n /\ ms[m][2] \in 1 .. Len(sw)
      <4>1. Place(ms, m - 1)[1] \in Nat /\ Place(ms, m - 1)[2] \in Nat
            /\ Place(ms, m - 1)[1] < ms[m][1] /\ Place(ms, m - 1)[2] < ms[m][2]
        BY <2>2, <3>1, <3>2, RejoinedTyped
      <4>2. m - 1 = i
        BY <3>1
      <4>3. /\ i1 \in Nat /\ j1 \in Nat /\ i1 < ms[m][1] /\ j1 < ms[m][2]
        BY <4>1, <4>2
      <4>4. ms[m][1] \in 1 .. n /\ ms[m][2] \in 1 .. Len(sw)
        BY <2>3, <3>1
      <4> QED
        BY <4>3, <4>4
    <3>4. f[m] = Rejoined(pri, sec, ms, f[i], m)
      BY <2>4, <3>1
    <3>5. w = Gap(f[i], pri, sec, i1, i2, j1, j2)
      BY <3>1 DEF Widened
    <3>6. Place(ms, m) = ms[m]
      BY <3>1 DEF Place
    <3> HIDE DEF i1, j1, m
    <3>7. /\ i2 \in Nat /\ i2 <= n /\ i1 <= i2 /\ j2 \in Int /\ j2 <= Len(sw)
          /\ i2 \in Int
      BY SMTT(30), <1>1, <3>3
    <3> HIDE DEF i2, j2, w
    <3>8. Reliable(w, pri, i2)
      BY <3>1, <3>3, <3>5, <3>7, GapReliable
    <3>9. i2 = ms[m][1] - 1
      BY DEF i2
    <3>10. Reliable(Agreement(w, Consumed(t, i2), pri, sec, ms[m][1], ms[m][2]), pri, ms[m][1])
      BY <3>3, <3>8, <3>9, AgreementReliable
    <3>11. f[m] = Agreement(w, Consumed(t, i2), pri, sec, ms[m][1], ms[m][2])
      BY <3>4, <3>9 DEF Rejoined, w
    <3>12. m \in P
      BY <3>1, <3>6, <3>10, <3>11
    <3> QED
      BY <3>12 DEF m
  <2>7. \A i \in 0 .. l : i \in P
    <3> HIDE DEF P
    <3> QED
      BY <2>3, <2>5, <2>6, UpTo
  <2> DEFINE i1 == Place(ms, l)[1]
             j1 == Place(ms, l)[2]
             m == Len(sw)
  <2>8. Reliable(f[l], pri, i1)
    BY <2>3, <2>7
  <2>9. i1 \in Nat /\ j1 \in Nat /\ i1 <= n /\ m \in Int /\ m <= Len(sw)
    <3>1. sec.text \in AnyText
      BY PartFacts
    <3>2. m \in Int /\ m <= Len(sw)
      BY <3>1, WordsOfFacts
    <3>3. CASE l = 0
      BY <1>1, <3>2, <3>3 DEF Place
    <3>4. CASE l # 0
      <4>1. l \in 1 .. l
        BY <2>3, <3>4
      <4>2. ms[l][1] \in 1 .. n /\ ms[l][2] \in 1 .. Len(sw)
        BY <2>3, <4>1
      <4> QED
        BY <3>2, <3>4, <4>2 DEF Place
    <3> QED
      BY <3>3, <3>4
  <2>10. body = Gap(f[l], pri, sec, i1, n, j1, m)
    BY DEF BodyOf
  <2> HIDE DEF i1, j1, m, body
  <2>11. Reliable(body, pri, n)
    <3>1. n \in Int /\ n <= Len(pw)
      BY <1>1
    <3> QED
      BY <1>1, <2>8, <2>9, <2>10, <3>1, GapReliable
  <2>12. tail \in AnyText /\ Letters(tail) = {}
    BY <1>1, SpaceAtEnd
  <2> HIDE DEF tail
  <2>13. SurelyRead(x, pri, n)
    BY <1>1, <2>1, <2>11, <2>12, ReliableSpace
  <2> QED
    BY <2>13
<1> QED
  BY <1>2, <1>3

\* What is sure on a reconciled page was read by the primary, and not doubted.
LEMMA NothingMadeSure ==
    ASSUME NEW pri \in Part, NEW sec \in Part, NEW x, x = Reconciled(pri, sec)
    PROVE  \E S \in SUBSET DOMAIN SureWords(pri.text, pri.doubts) :
              SureWords(x.text, x.doubts) =
                  Elements(SureWords(pri.text, pri.doubts), S)
<1> DEFINE s == WordsOf(pri.text)
           T == SureAt(pri.text, pri.doubts)
<1>1. pri.text \in AnyText
  BY PartFacts
<1>2. PICK I : I \in SUBSET T /\ SureOf(x) = Elements(s, I)
  BY ReconciledReliable DEF SurelyRead
<1>3. /\ s \in Seq(AnyText) /\ T \in SUBSET (1 .. Len(s))
      /\ SureWords(pri.text, pri.doubts) = Elements(s, T)
  BY <1>1, WordsOfFacts, SureWordsAre
<1> HIDE DEF s, T
<1>4. PICK S \in SUBSET DOMAIN Elements(s, T) : Elements(s, I) = Elements(Elements(s, T), S)
  BY <1>2, <1>3, ElementsWithin
<1> QED
  BY <1>2, <1>3, <1>4 DEF SureOf

-----------------------------------------------------------------------------
(* Where nobody doubts, and where both read the same.                      *)

\* The primary up to offset a, copied.
Copied(r, t, a) == r \in Part /\ r.text = Cut(t, 0, a)
Added(D, a, E) == D \cup {a + k : k \in E}

LEMMA CutAll ==
    ASSUME NEW t \in AnyText
    PROVE  Cut(t, 0, Len(t)) = t /\ Cut(t, 0, 0) = <<>>
<1>1. 0 \in Nat /\ Len(t) \in Nat /\ 0 <= Len(t) /\ Len(t) <= Len(t)
      /\ 0 <= 0 /\ Len(t) - 0 = Len(t) /\ 0 - 0 = 0
  BY TextFacts
<1> DEFINE u == Cut(t, 0, Len(t))
           v == Cut(t, 0, 0)
<1>2. /\ u \in AnyText /\ Len(u) = Len(t)
      /\ \A k \in 0 .. Len(t) - 1 : u[k + 1] = t[k + 1]
  <2>1. /\ u \in AnyText /\ Len(u) = Len(t) - 0
        /\ \A k \in 0 .. Len(t) - 0 - 1 : u[k + 1] = t[0 + k + 1]
    BY <1>1, CutFacts
  <2> QED
    BY <1>1, <2>1
<1>3. v \in AnyText /\ Len(v) = 0
  <2>1. v \in AnyText /\ Len(v) = 0 - 0
    BY <1>1, CutFacts
  <2> QED
    BY <2>1
<1> HIDE DEF u, v
<1>4. u = t
  BY <1>2, SameText
<1>5. v = <<>>
  BY <1>3, EmptySeq DEF AnyText
<1> QED
  BY <1>4, <1>5 DEF u, v

LEMMA CutsJoined ==
    ASSUME NEW t \in AnyText, NEW a \in Nat, NEW b \in Nat, a <= b, b <= Len(t)
    PROVE  Cut(t, 0, a) \o Cut(t, a, b) = Cut(t, 0, b)
<1> DEFINE u == Cut(t, 0, a)
           v == Cut(t, a, b)
           w == Cut(t, 0, b)
           x == u \o v
<1>0. Len(t) \in Nat /\ 0 \in Nat /\ a <= Len(t) /\ 0 <= a /\ 0 <= b /\ a - 0 = a /\ b - 0 = b
  BY TextFacts
<1>1. /\ u \in AnyText /\ Len(u) = a - 0 /\ \A k \in 0 .. a - 0 - 1 : u[k + 1] = t[0 + k + 1]
  BY <1>0, CutFacts
<1>2. /\ v \in AnyText /\ Len(v) = b - a /\ \A k \in 0 .. b - a - 1 : v[k + 1] = t[a + k + 1]
  BY CutFacts
<1>3. /\ w \in AnyText /\ Len(w) = b - 0 /\ \A k \in 0 .. b - 0 - 1 : w[k + 1] = t[0 + k + 1]
  BY <1>0, CutFacts
<1> HIDE DEF u, v, w
<1>4. /\ x \in AnyText /\ Len(x) = Len(u) + Len(v)
      /\ \A k \in 0 .. Len(u) - 1 : x[k + 1] = u[k + 1]
      /\ \A k \in 0 .. Len(v) - 1 : x[Len(u) + k + 1] = v[k + 1]
  BY <1>1, <1>2, JoinFacts
<1> HIDE DEF x
<1>5. Len(x) = b /\ Len(w) = b
  BY <1>0, <1>1, <1>2, <1>3, <1>4
<1>6. ASSUME NEW k \in 0 .. Len(x) - 1 PROVE x[k + 1] = w[k + 1]
  <2>1. w[k + 1] = t[0 + k + 1] /\ 0 + k + 1 = k + 1 /\ k \in Nat /\ k < b
    BY <1>3, <1>5
  <2>2. CASE k < a
    <3>1. k \in 0 .. Len(u) - 1 /\ k \in 0 .. a - 0 - 1
      BY <1>0, <1>1, <2>1, <2>2
    <3> QED
      BY <1>1, <1>4, <2>1, <3>1
  <2>3. CASE ~(k < a)
    <3> DEFINE m == k - a
    <3>1. m \in 0 .. Len(v) - 1 /\ m \in 0 .. b - a - 1 /\ a + m + 1 = k + 1
          /\ Len(u) + m + 1 = k + 1
      BY <1>0, <1>1, <1>2, <2>1, <2>3
    <3> HIDE DEF m
    <3>2. x[Len(u) + m + 1] = v[m + 1] /\ v[m + 1] = t[a + m + 1]
      BY <1>2, <1>4, <3>1
    <3> QED
      BY <2>1, <3>1, <3>2
  <2> QED
    BY <2>2, <2>3
<1>7. x = w
  BY <1>3, <1>4, <1>5, <1>6, SameText
<1> QED
  BY <1>7 DEF x, u, v, w

LEMMA CopiedOn ==
    ASSUME NEW t \in AnyText, NEW a \in Nat, NEW b \in Nat, a <= b, b <= Len(t),
           NEW r, Copied(r, t, a), NEW v, v = Cut(t, a, b),
           NEW E, E \subseteq Offsets(v), NEW x, x = Extended(r, v, E)
    PROVE  Copied(x, t, b) /\ x.doubts = Added(r.doubts, a, E)
<1>1. r \in Part /\ r.text = Cut(t, 0, a)
  BY DEF Copied
<1>2. v \in AnyText
  BY CutFacts
<1>3. /\ x \in Part /\ x.text = r.text \o v
      /\ x.doubts = r.doubts \cup {Len(r.text) + k : k \in E}
  BY <1>1, <1>2, ExtendedTyped
<1>4. Len(r.text) = a
  <2>1. 0 \in Nat /\ 0 <= a /\ a <= Len(t) /\ a - 0 = a
    BY TextFacts
  <2>2. Len(Cut(t, 0, a)) = a - 0
    BY <2>1, CutFacts
  <2> QED
    BY <1>1, <2>1, <2>2
<1>5. x.text = Cut(t, 0, b)
  BY <1>1, <1>3, CutsJoined
<1> QED
  BY <1>3, <1>4, <1>5 DEF Copied, Added

LEMMA CopiedSure ==
    ASSUME NEW t \in AnyText, NEW a \in Nat, NEW b \in Nat, a <= b, b <= Len(t),
           NEW r, Copied(r, t, a), NEW x, x = Extended(r, Cut(t, a, b), {})
    PROVE  Copied(x, t, b) /\ x.doubts = r.doubts
<1> DEFINE E == {}
           v == Cut(t, a, b)
<1>1. E \subseteq Offsets(v) /\ Added(r.doubts, a, E) = r.doubts /\ x = Extended(r, v, E) /\ v = Cut(t, a, b)
  BY DEF Added
<1> HIDE DEF E, v
<1>2. Copied(x, t, b)
  BY <1>1, CopiedOn
<1>3. x.doubts = Added(r.doubts, a, E)
  BY <1>1, CopiedOn
<1> QED
  BY <1>1, <1>2, <1>3

\* Without a doubt of either the words of the primary are copied, whatever the
\* secondary has.
Undoubted(r, t, i) == Copied(r, t, Consumed(t, i)) /\ r.doubts = {}
LEMMA GapUndoubted ==
    ASSUME NEW pri \in Part, NEW sec \in Part, pri.doubts = {}, sec.doubts = {},
           NEW r, NEW i1 \in Nat, NEW i2 \in Int, i2 <= Len(Words(pri.text)), i1 <= i2,
           Undoubted(r, pri.text, i1), NEW j1, NEW j2
    PROVE  Undoubted(Gap(r, pri, sec, i1, i2, j1, j2), pri.text, i2)
<1> DEFINE t == pri.text
           g == Gap(r, pri, sec, i1, i2, j1, j2)
           a == Consumed(t, i1)
           b == Words(t)[i1 + 1][1]
           c == Words(t)[i2][2]
           spaced == Extended(r, Cut(t, a, b), {})
<1>1. CASE i1 >= i2
  <2>1. i1 = i2
    BY <1>1
  <2>2. g = r
    BY <1>1 DEF Gap, Disagreement
  <2> QED
    BY <2>1, <2>2
<1>2. CASE ~(i1 >= i2)
  <2>1. g = Extended(spaced, Cut(t, b, c), {})
    BY <1>2 DEF Gap, Disagreement
  <2>2. t \in AnyText /\ Copied(r, t, a) /\ r.doubts = {}
    BY PartFacts DEF Undoubted
  <2>3. /\ i1 + 1 \in 1 .. Len(Words(t)) /\ i2 \in 1 .. Len(Words(t)) /\ i1 + 1 <= i2
        /\ i1 + 1 - 1 = i1
    BY <1>2, <2>2, WordOffsets
  <2>4. /\ a \in Nat /\ b \in Nat /\ a <= b
    <3> DEFINE k == i1 + 1
    <3>1. k \in 1 .. Len(Words(t)) /\ k - 1 = i1
      BY <2>3
    <3> HIDE DEF k
    <3>2. Consumed(t, k - 1) \in Nat /\ Words(t)[k][1] \in Nat
          /\ Consumed(t, k - 1) <= Words(t)[k][1]
      BY <2>2, <3>1, WordOffsets
    <3> QED
      BY <3>1, <3>2 DEF k
  <2>5. c \in Nat /\ c <= Len(t) /\ Consumed(t, i2) = c
    BY <2>2, <2>3, WordOffsets
  <2>6. b < c
    BY <2>2, <2>3, WordsInOrder
  <2>7. Len(t) \in Nat
    BY <2>2, TextFacts
  <2>8. b <= Len(t) /\ b <= c
    BY <2>4, <2>5, <2>6, <2>7
  <2> HIDE DEF a, b, c, t, g
  <2>9. Copied(spaced, t, b) /\ spaced.doubts = r.doubts
    BY <2>2, <2>4, <2>8, CopiedSure
  <2> HIDE DEF spaced
  <2>10. Copied(g, t, c) /\ g.doubts = spaced.doubts
    BY SMTT(30), <2>1, <2>2, <2>4, <2>5, <2>8, <2>9, CopiedSure
  <2> QED
    BY <2>2, <2>5, <2>9, <2>10 DEF Undoubted, g, t
<1> QED
  BY <1>1, <1>2

LEMMA AgreementUndoubted ==
    ASSUME NEW pri \in Part, NEW sec \in Part, pri.doubts = {}, sec.doubts = {},
           NEW r, NEW i \in 1 .. Len(Words(pri.text)), NEW k, k = i - 1,
           Undoubted(r, pri.text, k), NEW j
    PROVE  Undoubted(Agreement(r, Consumed(pri.text, k), pri, sec, i, j), pri.text, i)
<1> DEFINE t == pri.text
           a == Consumed(t, k)
           c == Words(t)[i][2]
           g == Agreement(r, a, pri, sec, i, j)
           q == Words(sec.text)[j]
           carried == {m - a : m \in pri.doubts \cap a .. c - 1}
           whole == IF sec.doubts \cap q[1] .. q[2] - 1 = {} THEN {}
                    ELSE Words(t)[i][1] - a .. c - 1 - a
<1>1. g = Extended(r, Cut(t, a, c), carried \cup whole)
  BY DEF Agreement
<1>2. carried \cup whole = {}
  OBVIOUS
<1>3. g = Extended(r, Cut(t, a, c), {})
  BY <1>1, <1>2
<1>4. t \in AnyText /\ Copied(r, t, a) /\ r.doubts = {}
  BY PartFacts DEF Undoubted
<1>5. /\ a \in Nat /\ Words(t)[i][1] \in Nat /\ c \in Nat /\ a <= Words(t)[i][1]
      /\ Words(t)[i][1] < c /\ c <= Len(t) /\ Consumed(t, i) = c
  BY <1>4, WordOffsets
<1>6. a <= c
  BY <1>5
<1> HIDE DEF a, c, g
<1>7. Copied(g, t, c) /\ g.doubts = r.doubts
  BY <1>3, <1>4, <1>5, <1>6, CopiedSure
<1> QED
  BY <1>4, <1>5, <1>7 DEF Undoubted, g, a

LEMMA ReconciledUndoubted ==
    ASSUME NEW pri \in Part, NEW sec \in Part, pri.doubts = {}, sec.doubts = {},
           NEW x, x = Reconciled(pri, sec)
    PROVE  x = Sure(pri.text)
<1> DEFINE pw == Words(pri.text)
           sw == Words(sec.text)
           n == Len(pw)
           ms == PairsOf(pri, sec)
           l == Len(ms)
           t == pri.text
<1>1. t \in AnyText /\ n \in Nat /\ Len(t) \in Nat
  BY PartFacts, WordsOfFacts, TextFacts
<1>2. CASE pw = <<>>
  <2>1. x = pri /\ pri = [text |-> pri.text, doubts |-> {}]
    BY <1>2, ReconciledBlank, PartFacts
  <2> QED
    BY <2>1 DEF Sure
<1>3. CASE pw # <<>>
  <2> DEFINE tail == Cut(t, Consumed(t, n), Len(t))
  <2>0. PICK f : /\ f[0] = Sure(<<>>)
                 /\ \A i \in 1 .. l : f[i] = Rejoined(pri, sec, ms, f[i - 1], i)
                 /\ x = Extended(BodyOf(pri, sec, ms, f), tail, {})
    BY <1>3, RejoinedBody
  <2> DEFINE body == BodyOf(pri, sec, ms, f)
  <2>1. x = Extended(body, tail, {})
    BY <2>0
  <2>2. Pairing(ms, n, Len(sw))
    BY PairsOfFacts
  <2> HIDE DEF ms
  <2>3. /\ ms \in Seq(Nat \X Nat) /\ l \in Nat
        /\ \A k \in 1 .. l : ms[k][1] \in 1 .. n /\ ms[k][2] \in 1 .. Len(sw)
        /\ \A i, k \in 1 .. l : i < k => ms[i][1] < ms[k][1] /\ ms[i][2] < ms[k][2]
    BY <2>2 DEF Pairing
  <2>4. /\ f[0] = Sure(<<>>)
        /\ \A i \in 1 .. l : f[i] = Rejoined(pri, sec, ms, f[i - 1], i)
    BY <2>0
  <2> DEFINE P == {i \in 0 .. l : Undoubted(f[i], t, Place(ms, i)[1])}
  <2>5. 0 \in P
    <3>1. 0 \in 0 .. l /\ Place(ms, 0)[1] = 0 /\ Consumed(t, 0) = 0
      BY <2>3 DEF Place, Consumed
    <3>2. f[0] \in Part /\ f[0].text = <<>> /\ f[0].doubts = {}
      BY <2>4, NothingYet DEF Sure
    <3>3. Cut(t, 0, 0) = <<>>
      BY <1>1, CutAll
    <3>4. Undoubted(f[0], t, 0)
      BY <3>1, <3>2, <3>3 DEF Undoubted, Copied
    <3> QED
      BY <3>1, <3>4
  <2>6. ASSUME NEW i \in 0 .. l, i < l, i \in P PROVE i + 1 \in P
    <3> DEFINE m == i + 1
               i1 == Place(ms, i)[1]
               j1 == Place(ms, i)[2]
               i2 == ms[m][1] - 1
               j2 == ms[m][2] - 1
               w == Widened(pri, sec, ms, f[i], m)
    <3>1. m \in 1 .. l /\ m - 1 = i /\ Undoubted(f[i], t, i1) /\ m \in 0 .. l
      <4>1. Undoubted(f[i], t, i1)
        BY <2>6
      <4>2. l \in Nat /\ i \in Nat /\ i < l
        BY <2>3, <2>6
      <4>3. m \in 1 .. l /\ m - 1 = i /\ m \in 0 .. l
        BY <4>2
      <4> QED
        BY <4>1, <4>3
    <3>2. f[i] \in Part
      BY <3>1 DEF Undoubted, Copied
    <3>3. /\ i1 \in Nat /\ i1 < ms[m][1]
          /\ ms[m][1] \in 1 .. n /\ ms[m][2] \in 1 .. Len(sw)
      <4>1. Place(ms, m - 1)[1] \in Nat /\ Place(ms, m - 1)[1] < ms[m][1]
        BY <2>2, <3>1, <3>2, RejoinedTyped
      <4> QED
        BY <2>3, <3>1, <4>1
    <3>4. f[m] = Rejoined(pri, sec, ms, f[i], m)
      BY <2>4, <3>1
    <3>5. w = Gap(f[i], pri, sec, i1, i2, j1, j2)
      BY <3>1 DEF Widened
    <3>6. Place(ms, m) = ms[m]
      BY <3>1 DEF Place
    <3> HIDE DEF i1, j1, m
    <3>7. i2 \in Nat /\ i2 <= n /\ i1 <= i2 /\ i2 \in Int
      BY <1>1, <3>3
    <3> HIDE DEF i2, j2, w
    <3>8. Undoubted(w, t, i2)
      BY <3>1, <3>3, <3>5, <3>7, GapUndoubted
    <3>9. i2 = ms[m][1] - 1
      BY DEF i2
    <3>10. Undoubted(Agreement(w, Consumed(t, i2), pri, sec, ms[m][1], ms[m][2]), t, ms[m][1])
      BY <3>3, <3>8, <3>9, AgreementUndoubted
    <3>11. f[m] = Agreement(w, Consumed(t, i2), pri, sec, ms[m][1], ms[m][2])
      BY <3>4, <3>9 DEF Rejoined, w
    <3>12. m \in P
      BY <3>1, <3>6, <3>10, <3>11
    <3> QED
      BY <3>12 DEF m
  <2>7. \A i \in 0 .. l : i \in P
    <3> HIDE DEF P
    <3> QED
      BY <2>3, <2>5, <2>6, UpTo
  <2> DEFINE i1 == Place(ms, l)[1]
             j1 == Place(ms, l)[2]
             m == Len(sw)
  <2>8. Undoubted(f[l], t, i1)
    BY <2>3, <2>7
  <2>9. i1 \in Nat /\ i1 <= n
    <3>1. CASE l = 0
      BY <1>1, <3>1 DEF Place
    <3>2. CASE l # 0
      <4>1. l \in 1 .. l
        BY <2>3, <3>2
      <4>2. ms[l][1] \in 1 .. n
        BY <2>3, <4>1
      <4> QED
        BY <1>1, <3>2, <4>2 DEF Place
    <3> QED
      BY <3>1, <3>2
  <2>10. body = Gap(f[l], pri, sec, i1, n, j1, m)
    BY DEF BodyOf
  <2> HIDE DEF i1, j1, m, body
  <2>11. Undoubted(body, t, n)
    <3>1. n \in Int /\ n <= Len(pw)
      BY <1>1
    <3> QED
      BY <1>1, <2>8, <2>9, <2>10, <3>1, GapUndoubted
  <2>12. Consumed(t, n) \in Nat /\ Consumed(t, n) <= Len(t) /\ Len(t) <= Len(t)
    <3>1. n \in 0 .. n
      BY <1>1
    <3> QED
      BY <1>1, <3>1, WordOffsets
  <2>13. Copied(body, t, Consumed(t, n)) /\ body.doubts = {}
    BY <2>11 DEF Undoubted
  <2>14. Copied(x, t, Len(t)) /\ x.doubts = {}
    BY <1>1, <2>1, <2>12, <2>13, CopiedSure
  <2>15. x \in Part /\ x.text = t /\ x.doubts = {}
    BY <1>1, <2>14, CutAll DEF Copied
  <2>16. x = [text |-> x.text, doubts |-> x.doubts]
    BY <2>15, PartFacts
  <2> QED
    BY <2>15, <2>16 DEF Sure
<1> QED
  BY <1>2, <1>3

\* A text aligned with itself.
Diagonal(n) == {<<k, k>> : k \in 1 .. n}
LEMMA AlignedSelf ==
    ASSUME NEW A, NEW p \in Seq(A), NEW n, n = Len(p), n # 0
    PROVE  Alignment(p, p) = Diagonal(n)
<1> DEFINE w == <<0, n, 0, n>>
           R == RunsIn(p, p, w)
           r == BestOf(R)
           z == <<0, 0, n>>
<1>1. n \in Nat /\ n >= 1
  BY LenProperties
<1>2. PICK f : f = Aligned(p, p, f) /\ Alignment(p, p) = f[w]
  BY AlignmentFacts
<1>3. w \in Windows(p, p) /\ w[1] = 0 /\ w[2] = n /\ w[3] = 0 /\ w[4] = n
  BY <1>1 DEF Windows
<1>4. z \in R
  <2>1. z \in (w[1] .. w[2]) \X (w[3] .. w[4]) \X (1 .. Len(p))
    BY <1>1, <1>3
  <2>2. z[1] = 0 /\ z[2] = 0 /\ z[3] = n
    OBVIOUS
  <2>3. \A k \in 1 .. z[3] : p[z[1] + k] = p[z[2] + k]
    BY <2>2
  <2>4. z[1] + z[3] <= w[2] /\ z[2] + z[3] <= w[4]
    BY <1>1, <1>3, <2>2
  <2> HIDE DEF z, w
  <2> QED
    BY <2>1, <2>3, <2>4 DEF RunsIn
<1>5. z[1] = 0 /\ z[2] = 0 /\ z[3] = n
  OBVIOUS
<1> HIDE DEF r, z, w
<1>6. /\ r[1] \in Nat /\ r[2] \in Nat /\ r[3] \in Nat \ {0}
      /\ r[1] + r[3] <= n /\ r[2] + r[3] <= n
      /\ HeadOf(w, r) \in Windows(p, p) /\ TailOf(w, r) \in Windows(p, p)
      /\ r[3] >= n
  <2>1. R # {}
    BY <1>4
  <2>2. r = BestOf(R)
    BY DEF r
  <2>3. /\ r[1] \in Nat /\ r[2] \in Nat /\ r[3] \in Nat \ {0}
        /\ r[1] + r[3] <= w[2] /\ r[2] + r[3] <= w[4]
        /\ HeadOf(w, r) \in Windows(p, p) /\ TailOf(w, r) \in Windows(p, p)
        /\ \A q \in R :
             \/ r[3] > q[3]
             \/ r[3] = q[3] /\ r[1] < q[1]
             \/ r[3] = q[3] /\ r[1] = q[1] /\ r[2] <= q[2]
    BY SMTT(30), <1>3, <2>1, <2>2, RunsFacts
  <2>4. r[3] >= z[3]
    BY <1>1, <1>4, <1>5, <2>3
  <2> QED
    BY <1>3, <1>5, <2>3, <2>4
<1>7. r[1] = 0 /\ r[2] = 0 /\ r[3] = n
  BY <1>1, <1>6
<1>8. ASSUME NEW k \in Nat, NEW u \in Windows(p, p), u = <<k, k, k, k>>
      PROVE  f[u] = {}
  <2>1. RunsIn(p, p, u) = {}
    <3> SUFFICES ASSUME NEW q \in RunsIn(p, p, u) PROVE FALSE
      OBVIOUS
    <3>1. u[1] = k /\ u[2] = k /\ u[3] = k /\ u[4] = k
      BY <1>8
    <3>2. q \in (u[1] .. u[2]) \X (u[3] .. u[4]) \X (1 .. Len(p)) /\ q[1] + q[3] <= u[2]
      BY DEF RunsIn
    <3>3. q[1] = k /\ q[3] \in Nat \ {0}
      BY <1>1, <3>1, <3>2
    <3> QED
      BY <3>1, <3>2, <3>3
  <2>2. f[u] = AlignedIn(p, p, f, u)
    BY <1>2 DEF Aligned
  <2> QED
    BY <2>1, <2>2 DEF AlignedIn
<1>9. HeadOf(w, r) = <<0, 0, 0, 0>> /\ TailOf(w, r) = <<n, n, n, n>>
  <2>1. HeadOf(w, r) = <<w[1], r[1], w[3], r[2]>>
    BY DEF HeadOf
  <2>2. TailOf(w, r) = <<r[1] + r[3], w[2], r[2] + r[3], w[4]>>
    BY DEF TailOf
  <2>3. r[1] + r[3] = n /\ r[2] + r[3] = n
    BY <1>1, <1>7
  <2> QED
    BY <1>3, <1>7, <2>1, <2>2, <2>3
<1>10. f[HeadOf(w, r)] = {} /\ f[TailOf(w, r)] = {}
  <2>1. 0 \in Nat
    OBVIOUS
  <2> QED
    BY <1>1, <1>6, <1>8, <1>9, <2>1
<1>11. RunOf(r) = Diagonal(n)
  <2>1. \A k \in 1 .. n : <<r[1] + k, r[2] + k>> = <<k, k>>
    BY <1>7
  <2> QED
    BY <1>7, <2>1 DEF RunOf, Diagonal
<1>12. f[w] = f[HeadOf(w, r)] \cup RunOf(r) \cup f[TailOf(w, r)]
  <2>1. R # {}
    BY <1>4
  <2>2. f[w] = AlignedIn(p, p, f, w)
    BY <1>2, <1>3 DEF Aligned
  <2> QED
    BY <2>1, <2>2 DEF AlignedIn, r
<1> QED
  BY <1>2, <1>10, <1>11, <1>12

LEMMA PairsOfSelf ==
    ASSUME NEW pri \in Part, NEW sec \in Part, NEW n, n = Len(Words(pri.text)), n # 0,
           WordsOf(pri.text) = WordsOf(sec.text), NEW ms, ms = PairsOf(pri, sec)
    PROVE  /\ n \in Nat /\ Len(ms) = n /\ Len(Words(sec.text)) = n
           /\ \A k \in 1 .. n : ms[k][1] = k /\ ms[k][2] = k
<1> DEFINE p == WordsOf(pri.text)
           m == Len(ms)
           both == Diagonal(n)
<1>1. pri.text \in AnyText /\ sec.text \in AnyText
  BY PartFacts
<1>2. p \in Seq(AnyText) /\ Len(p) = n /\ n \in Nat
  BY <1>1, WordsOfFacts
<1>20. Len(Words(sec.text)) = n
  BY <1>1, <1>2, WordsOfFacts
<1>3. Alignment(p, p) = both
  BY <1>2, AlignedSelf
<1>4. ms = PairingOf(both)
  BY <1>3 DEF PairsOf
<1>5. PairedIn(p, p, <<0, Len(p), 0, Len(p)>>, both)
  BY <1>2, <1>3, AlignmentFacts
<1> HIDE DEF p, both
<1>6. /\ Pairing(ms, n, n)
      /\ \A k \in 1 .. m : ms[k] \in both
      /\ \A x \in both : \E k \in 1 .. m : ms[k] = x
  BY <1>2, <1>4, <1>5, PairingFacts
<1>7. /\ m \in Nat /\ \A k \in 1 .. m : ms[k][1] \in 1 .. n
      /\ \A k, l \in 1 .. m : k < l => ms[k][1] < ms[l][1]
  BY <1>6 DEF Pairing
<1>8. ASSUME NEW x \in both PROVE x[1] = x[2]
  BY DEF both, Diagonal
<1>9. ASSUME NEW k \in 1 .. n PROVE \E l \in 1 .. m : ms[l][1] = k
  <2>1. <<k, k>> \in both
    BY DEF both, Diagonal
  <2>2. PICK l \in 1 .. m : ms[l] = <<k, k>>
    BY <1>6, <2>1
  <2> QED
    BY <2>2
<1> DEFINE a == [k \in 1 .. m |-> ms[k][1]]
           d == [k \in 1 .. n |-> k]
           N == 1 .. n
<1>10. a \in [1 .. m -> N] /\ \A k \in 1 .. m : a[k] = ms[k][1]
  BY <1>7
<1>11. d \in [1 .. n -> N] /\ \A k \in 1 .. n : d[k] = k
  OBVIOUS
<1>12. N \subseteq Int /\ N = 1 .. n
  OBVIOUS
<1> HIDE DEF a, d, m, N
<1>13. Ascends(a, N, m)
  <2>1. \A x \in N : \E i \in 1 .. m : a[i] = x
    BY <1>9, <1>10, <1>12
  <2>2. \A i, j \in 1 .. m : i < j => a[i] < a[j]
    BY <1>7, <1>10
  <2> QED
    BY <1>7, <1>10, <2>1, <2>2 DEF Ascends
<1>14. Ascends(d, N, n)
  <2>1. \A x \in N : \E i \in 1 .. n : d[i] = x
    BY <1>11, <1>12
  <2>2. \A i, j \in 1 .. n : i < j => d[i] < d[j]
    BY <1>11
  <2> QED
    BY <1>2, <1>11, <2>1, <2>2 DEF Ascends
<1>15. m = n /\ a = d
  BY <1>12, <1>13, <1>14, AscendsOnce
<1>16. ASSUME NEW k \in 1 .. n PROVE ms[k][1] = k /\ ms[k][2] = k
  <2>1. k \in 1 .. m /\ ms[k][1] = k
    BY <1>10, <1>11, <1>15
  <2>2. ms[k] \in both
    BY <1>6, <2>1 DEF m
  <2> QED
    BY <1>8, <2>1, <2>2
<1> QED
  BY <1>2, <1>20, <1>15, <1>16 DEF m

\* Word n is copied with the doubts of both.
DoubtedIn(D, t, n) == D \cap Words(t)[n][1] .. Words(t)[n][2] - 1 # {}
Agreed(r, pri, sec, i) ==
    /\ Copied(r, pri.text, Consumed(pri.text, i))
    /\ \A n \in 1 .. i : DoubtedIn(r.doubts, pri.text, n) <=>
          DoubtedIn(pri.doubts, pri.text, n) \/ DoubtedIn(sec.doubts, sec.text, n)

LEMMA AgreementAgreed ==
    ASSUME NEW pri \in Part, NEW sec \in Part, NEW r, NEW i \in 1 .. Len(Words(pri.text)),
           NEW k, k = i - 1, Agreed(r, pri, sec, k)
    PROVE  Agreed(Agreement(r, Consumed(pri.text, k), pri, sec, i, i), pri, sec, i)
<1> DEFINE t == pri.text
           q == Words(sec.text)[i]
           a == Consumed(t, k)
           b == Words(t)[i][1]
           c == Words(t)[i][2]
           carried == {m - a : m \in pri.doubts \cap a .. c - 1}
           whole == IF sec.doubts \cap q[1] .. q[2] - 1 = {} THEN {}
                    ELSE b - a .. c - 1 - a
           E == carried \cup whole
           v == Cut(t, a, c)
           x == Extended(r, v, E)
           D == Added(r.doubts, a, E)
<1>1. /\ t \in AnyText /\ pri.doubts \in SUBSET Nat /\ k \in Nat /\ i \in Nat
      /\ Len(Words(t)) \in Nat /\ i \in 1 .. Len(Words(t))
  BY PartFacts, WordsOfFacts
<1>2. Agreement(r, Consumed(t, k), pri, sec, i, i) = x
  BY DEF Agreement
<1>3. /\ a \in Nat /\ b \in Nat /\ c \in Nat /\ a <= b /\ b < c /\ c <= Len(t)
      /\ Consumed(t, i) = c
  BY <1>1, WordOffsets
<1>4. a <= c /\ v = Cut(t, a, c)
  BY <1>3
<1>5. Copied(r, t, a)
  BY DEF Agreed
<1>6. v \in AnyText /\ Len(v) = c - a
  <2> HIDE DEF a, b, c, v
  <2> QED
    BY <1>1, <1>3, <1>4, CutFacts
<1>60. \A m \in r.doubts : m \in Nat /\ m < a
  <2>1. 0 \in Nat /\ 0 <= a /\ a <= Len(t) /\ a - 0 = a
    BY <1>1, <1>3, TextFacts
  <2>2. Len(Cut(t, 0, a)) = a - 0
    BY <1>1, <1>3, <2>1, CutFacts
  <2>3. r \in Part /\ Len(r.text) = a
    BY <1>5, <2>1, <2>2 DEF Copied
  <2> QED
    BY <2>3, PartFacts
<1>61. (whole = {} /\ ~DoubtedIn(sec.doubts, sec.text, i))
       \/ (whole = b - a .. c - 1 - a /\ DoubtedIn(sec.doubts, sec.text, i))
  BY DEF DoubtedIn
<1>62. \A m : m \in carried <=> \E y \in pri.doubts : y \in a .. c - 1 /\ m = y - a
  OBVIOUS
<1> HIDE DEF a, b, c, carried, whole, v
<1>7. E \subseteq Offsets(v)
  <2>1. carried \subseteq Offsets(v)
    BY <1>1, <1>3, <1>6, <1>62 DEF Offsets
  <2>2. whole \subseteq Offsets(v)
    BY <1>3, <1>6, <1>61 DEF Offsets
  <2> QED
    BY <2>1, <2>2
<1>8. Copied(x, t, c) /\ x.doubts = D
  <2> DEFINE F == E
  <2>1. F \subseteq Offsets(v) /\ x = Extended(r, v, F) /\ D = Added(r.doubts, a, F)
    BY <1>7
  <2> HIDE DEF F, x, D
  <2>2. Copied(x, t, c)
    BY <1>1, <1>3, <1>4, <1>5, <2>1, CopiedOn
  <2>3. x.doubts = Added(r.doubts, a, F)
    BY <1>1, <1>3, <1>4, <1>5, <2>1, CopiedOn
  <2> QED
    BY <2>1, <2>2, <2>3
<1>9. \A m : m \in D <=> m \in r.doubts \/ \E y \in E : m = a + y
  BY DEF Added
<1> HIDE DEF x, D
<1>10. ASSUME NEW m \in b .. c - 1
       PROVE  m \in D <=> m \in pri.doubts \/ DoubtedIn(sec.doubts, sec.text, i)
  <2>1. m \in Nat /\ b <= m /\ m < c /\ a <= m /\ m \in a .. c - 1
    BY <1>3
  <2>2. m \notin r.doubts
    BY <1>3, <1>60, <2>1
  <2>3. ASSUME m \in D PROVE m \in pri.doubts \/ DoubtedIn(sec.doubts, sec.text, i)
    <3>1. PICK y \in E : m = a + y
      BY <1>9, <2>2, <2>3
    <3>2. CASE y \in carried
      <4>1. PICK o \in pri.doubts : o \in a .. c - 1 /\ y = o - a
        BY <1>62, <3>2
      <4>2. m = o
        BY <1>1, <1>3, <3>1, <4>1
      <4> QED
        BY <4>1, <4>2
    <3>3. CASE y \in whole
      BY <1>61, <3>3
    <3> QED
      BY <3>1, <3>2, <3>3
  <2>4. ASSUME m \in pri.doubts PROVE m \in D
    <3> DEFINE y == m - a
    <3>1. m = a + y
      BY <1>3, <2>1
    <3>2. y \in carried
      BY <1>62, <2>1, <2>4
    <3> HIDE DEF y
    <3> QED
      BY <1>9, <3>1, <3>2
  <2>5. ASSUME DoubtedIn(sec.doubts, sec.text, i) PROVE m \in D
    <3> DEFINE y == m - a
    <3>1. m = a + y
      BY <1>3, <2>1
    <3>2. y \in b - a .. c - 1 - a
      <4>1. y \in Int /\ b - a <= y /\ y <= c - 1 - a /\ b - a \in Int /\ c - 1 - a \in Int
        BY <1>3, <2>1
      <4> QED
        BY <4>1
    <3>3. y \in whole
      BY <1>61, <2>5, <3>2
    <3> HIDE DEF y
    <3> QED
      BY <1>9, <3>1, <3>3
  <2> QED
    BY <2>3, <2>4, <2>5
<1>11. DoubtedIn(D, t, i) <=> DoubtedIn(pri.doubts, t, i) \/ DoubtedIn(sec.doubts, sec.text, i)
  <2>1. \A S : DoubtedIn(S, t, i) <=> \E m \in b .. c - 1 : m \in S
    BY DEF DoubtedIn, b, c
  <2>2. b \in b .. c - 1
    BY <1>3
  <2> HIDE DEF t
  <2> QED
    BY <1>10, <2>1, <2>2
<1>12. ASSUME NEW n \in 1 .. i
       PROVE  DoubtedIn(D, t, n) <=>
                 DoubtedIn(pri.doubts, t, n) \/ DoubtedIn(sec.doubts, sec.text, n)
  <2>1. CASE n = i
    BY <1>11, <2>1
  <2>2. CASE n # i
    <3>1. n \in 1 .. k /\ n \in 1 .. Len(Words(t)) /\ k \in 1 .. Len(Words(t)) /\ n <= k
      BY <1>1, <2>2
    <3>2. DoubtedIn(r.doubts, t, n) <=>
             DoubtedIn(pri.doubts, t, n) \/ DoubtedIn(sec.doubts, sec.text, n)
      BY <3>1 DEF Agreed
    <3>3. /\ Words(t)[n][2] \in Nat /\ Words(t)[n][1] \in Nat
          /\ Words(t)[k][2] \in Nat /\ ~(Words(t)[k][2] < Words(t)[n][2])
          /\ Consumed(t, k) = Words(t)[k][2]
      BY SMTT(30), <1>1, <3>1, WordsInOrder, WordOffsets
    <3>4. Words(t)[n][2] <= a
      BY <3>3 DEF a
    <3>5. \A m \in Words(t)[n][1] .. Words(t)[n][2] - 1 : m \in D <=> m \in r.doubts
      <4> TAKE m \in Words(t)[n][1] .. Words(t)[n][2] - 1
      <4>1. m \in Int /\ m < a
        BY <1>3, <3>3, <3>4
      <4>2. \A y \in E : y \in Nat
        BY <1>6, <1>7 DEF Offsets
      <4>3. \A y \in E : m # a + y
        BY <1>3, <4>1, <4>2
      <4> QED
        BY <1>9, <4>3
    <3>6. DoubtedIn(D, t, n) <=> DoubtedIn(r.doubts, t, n)
      BY <3>5 DEF DoubtedIn
    <3> QED
      BY <3>2, <3>6
  <2> QED
    BY <2>1, <2>2
<1>13. Agreed(x, pri, sec, i)
  BY <1>3, <1>8, <1>12 DEF Agreed
<1> QED
  BY <1>2, <1>13

LEMMA ReconciledAgreed ==
    ASSUME NEW pri \in Part, NEW sec \in Part, WordsOf(pri.text) = WordsOf(sec.text),
           NEW x, x = Reconciled(pri, sec)
    PROVE  /\ x.text = pri.text
           /\ \A n \in 1 .. Len(Words(pri.text)) : DoubtedIn(x.doubts, pri.text, n) <=>
                 DoubtedIn(pri.doubts, pri.text, n) \/ DoubtedIn(sec.doubts, sec.text, n)
<1> DEFINE n == Len(Words(pri.text))
           t == pri.text
<1>1. t \in AnyText /\ n \in Nat /\ Len(t) \in Nat
  BY PartFacts, WordsOfFacts, TextFacts
<1>2. CASE Words(t) = <<>>
  <2>1. x = pri /\ n = 0
    BY <1>2, ReconciledBlank
  <2> QED
    BY <2>1
<1>3. CASE Words(t) # <<>>
  <2> DEFINE tail == Cut(t, Consumed(t, n), Len(t))
  <2>1. n # 0
    <3>1. Words(t) \in Seq(Nat \X Nat)
      BY <1>1, WordsListed DEF ListsWords
    <3> QED
      BY <1>3, <3>1, EmptySeq
  <2>2. PICK ms : ms = PairsOf(pri, sec)
    OBVIOUS
  <2>3. /\ Len(ms) = n /\ Len(Words(sec.text)) = n
        /\ \A k \in 1 .. n : ms[k][1] = k /\ ms[k][2] = k
    BY SMTT(30), <2>1, <2>2, PairsOfSelf
  <2>4. PICK f : /\ f[0] = Sure(<<>>)
                 /\ \A i \in 1 .. Len(ms) : f[i] = Rejoined(pri, sec, ms, f[i - 1], i)
                 /\ x = Extended(BodyOf(pri, sec, ms, f), tail, {})
    BY <1>3, <2>2, RejoinedBody
  <2>5. \A k \in 0 .. n : Place(ms, k)[1] = k /\ Place(ms, k)[2] = k
    BY <1>1, <2>3 DEF Place
  <2> DEFINE P == {i \in 0 .. n : Agreed(f[i], pri, sec, i)}
  <2>6. 0 \in P
    <3>1. 0 \in 0 .. n /\ Consumed(t, 0) = 0
      BY <1>1 DEF Consumed
    <3>2. f[0] \in Part /\ f[0].text = <<>>
      BY <2>4, NothingYet DEF Sure
    <3>3. Cut(t, 0, 0) = <<>>
      BY <1>1, CutAll
    <3>4. Agreed(f[0], pri, sec, 0)
      BY <3>1, <3>2, <3>3 DEF Agreed, Copied
    <3> QED
      BY <3>1, <3>4
  <2>7. ASSUME NEW i \in 0 .. n, i < n, i \in P PROVE i + 1 \in P
    <3> DEFINE m == i + 1
    <3>1. m \in 1 .. n /\ m - 1 = i /\ Agreed(f[i], pri, sec, i) /\ m \in 0 .. n /\ i >= i
      BY <1>1, <2>7
    <3> HIDE DEF m
    <3>2. Widened(pri, sec, ms, f[i], m) = f[i]
      <4>1. Widened(pri, sec, ms, f[i], m) =
               Gap(f[i], pri, sec, i, m - 1, Place(ms, i)[2], ms[m][2] - 1)
        BY <2>3, <2>5, <3>1 DEF Widened
      <4> QED
        BY <3>1, <4>1 DEF Gap, Disagreement
    <3>3. f[m] = Agreement(f[i], Consumed(t, i), pri, sec, m, m)
      <4>1. f[m] = Rejoined(pri, sec, ms, f[i], m)
        BY <2>3, <2>4, <3>1
      <4>2. ms[m][1] = m /\ ms[m][2] = m
        BY <2>3, <3>1
      <4> QED
        BY <3>1, <3>2, <4>1, <4>2 DEF Rejoined
    <3>4. Agreed(f[m], pri, sec, m)
      BY <3>1, <3>3, AgreementAgreed
    <3>5. m \in P
      BY <3>1, <3>4
    <3> QED
      BY <3>5 DEF m
  <2>8. \A i \in 0 .. n : i \in P
    <3> HIDE DEF P
    <3> QED
      BY <1>1, <2>6, <2>7, UpTo
  <2>9. Agreed(f[n], pri, sec, n) /\ n \in 0 .. n
    BY <1>1, <2>8
  <2>10. BodyOf(pri, sec, ms, f) = f[n]
    <3>1. Place(ms, n)[1] = n /\ n >= n
      BY <1>1, <2>5
    <3>2. BodyOf(pri, sec, ms, f) =
             Gap(f[n], pri, sec, n, n, Place(ms, n)[2], n)
      BY <2>3, <3>1 DEF BodyOf
    <3> QED
      BY <3>1, <3>2 DEF Gap, Disagreement
  <2>11. x = Extended(f[n], tail, {})
    BY <2>4, <2>10
  <2>12. Consumed(t, n) \in Nat /\ Consumed(t, n) <= Len(t) /\ Len(t) <= Len(t)
    BY <1>1, <2>9, WordOffsets
  <2>13. Copied(f[n], t, Consumed(t, n))
    BY <2>9 DEF Agreed
  <2>14. Copied(x, t, Len(t)) /\ x.doubts = f[n].doubts
    BY <1>1, <2>11, <2>12, <2>13, CopiedSure
  <2>15. x.text = t
    BY <1>1, <2>14, CutAll DEF Copied
  <2> QED
    BY <2>9, <2>14, <2>15 DEF Agreed
<1> QED
  BY <1>2, <1>3

\* What DisputesMarked says of one page.
Faithful(pri, sec, out) ==
    /\ \E S \in SUBSET DOMAIN SureWords(pri.text, pri.doubts) :
          SureWords(out.text, out.doubts) =
              Elements(SureWords(pri.text, pri.doubts), S)
    /\ pri.doubts \cup sec.doubts = {} => out = Sure(pri.text)
    /\ WordsOf(pri.text) = WordsOf(sec.text) =>
         /\ out.text = pri.text
         /\ \A n \in DOMAIN Words(pri.text) :
               DoubtedIn(out.doubts, pri.text, n) <=>
                   \/ DoubtedIn(pri.doubts, pri.text, n)
                   \/ DoubtedIn(sec.doubts, sec.text, n)

\* However often the models disagree about a page, a word that stands without a
\* doubt in what is made of two readings is one the primary read and was sure of,
\* none changes where nobody doubted, and a word both read is doubted if either
\* doubted it (reconcile_ocr_results).
THEOREM DisputesStayMarked == Spec => []DisputesMarked
<1>1. ASSUME ReadInv, request.kind = "image", request.reader = "dual",
             NEW i \in DOMAIN parts
      PROVE  Faithful(PageResult("anthropic", said[i][1]),
                      PageResult("gemini", said[i][2]), parts[i])
  <2> DEFINE pri == PageResult("anthropic", said[i][1])
             sec == PageResult("gemini", said[i][2])
             out == parts[i]
  <2>1. /\ request \in Uploads /\ said \in Seq(Seq(Replies[request.replies]))
        /\ parts \in Seq(Part) /\ Len(parts) <= Len(said)
        /\ \A k \in 1 .. Len(said) : Len(said[k]) = Readers(request)
        /\ \A k \in 1 .. Len(parts) : parts[k] = ResultOf(request, said[k])
    BY <1>1 DEF ReadInv, SaidInv
  <2>2. i \in 1 .. Len(parts) /\ i \in 1 .. Len(said)
    BY <2>1
  <2>3. said[i] \in Seq(Replies[request.replies]) /\ Len(said[i]) = 2
    BY <1>1, <2>1, <2>2 DEF Readers
  <2>4. Replies[request.replies] \subseteq AnyText
    BY <1>1, <2>1, UploadFacts
  <2>5. said[i][1] \in AnyText /\ said[i][2] \in AnyText
    BY <2>3, <2>4
  <2>6. pri \in Part /\ sec \in Part
    BY <2>5, PageTyped
  <2>7. out = Reconciled(pri, sec)
    BY <1>1, <2>1, <2>2 DEF ResultOf
  <2> HIDE DEF pri, sec, out
  <2>8. \E S \in SUBSET DOMAIN SureWords(pri.text, pri.doubts) :
           SureWords(out.text, out.doubts) =
               Elements(SureWords(pri.text, pri.doubts), S)
    BY <2>6, <2>7, NothingMadeSure
  <2>9. pri.doubts \cup sec.doubts = {} => out = Sure(pri.text)
    BY <2>6, <2>7, ReconciledUndoubted
  <2>10. ASSUME WordsOf(pri.text) = WordsOf(sec.text)
         PROVE  /\ out.text = pri.text
                /\ \A n \in DOMAIN Words(pri.text) :
                      DoubtedIn(out.doubts, pri.text, n) <=>
                          \/ DoubtedIn(pri.doubts, pri.text, n)
                          \/ DoubtedIn(sec.doubts, sec.text, n)
    <3>1. pri.text \in AnyText
      BY <2>6, PartFacts
    <3>2. DOMAIN Words(pri.text) = 1 .. Len(Words(pri.text))
      BY <3>1, WordsOfFacts
    <3>3. out.text = pri.text
      BY <2>6, <2>7, <2>10, ReconciledAgreed
    <3>4. \A n \in 1 .. Len(Words(pri.text)) :
             DoubtedIn(out.doubts, pri.text, n) <=>
                 \/ DoubtedIn(pri.doubts, pri.text, n)
                 \/ DoubtedIn(sec.doubts, sec.text, n)
      BY <2>6, <2>7, <2>10, ReconciledAgreed
    <3> QED
      BY <3>2, <3>3, <3>4
  <2> QED
    BY <2>8, <2>9, <2>10 DEF Faithful, pri, sec, out
<1>2. ReadInv => DisputesMarked
  BY <1>1 DEF DisputesMarked, Faithful, DoubtedIn
<1> QED
  BY <1>2, ReadInvariant, PTL


-----------------------------------------------------------------------------
(* The letters of a text, each with whether it is doubted.                 *)

Flag == Character \X BOOLEAN
FlagOf(c, d) == <<c, d>>
Flags(t, D) == [k \in 1 .. Len(t) |-> FlagOf(t[k], k - 1 \in D)]
Lettered(t) == {k \in 1 .. Len(t) : t[k] \notin Blank}

LEMMA FlagsFacts ==
    ASSUME NEW t \in AnyText, NEW D
    PROVE  /\ Flags(t, D) \in Seq(Flag) /\ Len(Flags(t, D)) = Len(t)
           /\ \A k \in 1 .. Len(t) : Flags(t, D)[k] = FlagOf(t[k], k - 1 \in D)
           /\ Lettered(t) \in SUBSET (1 .. Len(t))
<1> DEFINE f == Flags(t, D)
<1>1. Len(t) \in Nat /\ \A k \in 1 .. Len(t) : t[k] \in Character
  BY TextFacts
<1>2. ASSUME NEW k \in 1 .. Len(t) PROVE FlagOf(t[k], k - 1 \in D) \in Flag
  <2>1. CASE k - 1 \in D
    <3>1. (k - 1 \in D) = TRUE
      BY <2>1
    <3> QED
      BY <1>1, <3>1 DEF FlagOf, Flag
  <2>2. CASE k - 1 \notin D
    <3>1. (k - 1 \in D) = FALSE
      BY <2>2
    <3> QED
      BY <1>1, <3>1 DEF FlagOf, Flag
  <2> QED
    BY <2>1, <2>2
<1>3. f \in [1 .. Len(t) -> Flag]
  BY <1>2 DEF Flags
<1>4. f \in Seq(Flag) /\ Len(f) = Len(t)
  <2> HIDE DEF f
  <2> QED
    BY <1>1, <1>3, FunctionSeq
<1>5. \A k \in 1 .. Len(t) : f[k] = FlagOf(t[k], k - 1 \in D)
  BY DEF Flags
<1> QED
  BY <1>4, <1>5 DEF Lettered

LEMMA FlaggedAre ==
    ASSUME NEW t \in AnyText, NEW D
    PROVE  Flagged(t, D) = Elements(Flags(t, D), Lettered(t))
<1> DEFINE s == Flags(t, D)
           I == Lettered(t)
           L == Letters(t)
           n == Cardinality(L)
           ks == Sorted(L)
           q == Flagged(t, D)
           a == [i \in 1 .. n |-> ks[i] + 1]
<1>1. /\ s \in Seq(Flag) /\ Len(s) = Len(t) /\ I \in SUBSET (1 .. Len(t))
      /\ \A k \in 1 .. Len(t) : s[k] = FlagOf(t[k], k - 1 \in D)
  BY FlagsFacts
<1>2. /\ Len(t) \in Nat /\ L \subseteq Int /\ IsFiniteSet(L)
      /\ \A k \in Int : k \in L <=> 0 <= k /\ k < Len(t) /\ t[k + 1] \notin Blank
  BY LettersOf
<1>3. Ascends(ks, L, n)
  BY <1>2, SortedAscends
<1>4. /\ n \in Nat /\ ks \in [1 .. n -> L]
      /\ \A x \in L : \E i \in 1 .. n : ks[i] = x
      /\ \A i, j \in 1 .. n : i < j => ks[i] < ks[j]
  BY <1>3 DEF Ascends
<1>5. q = [i \in 1 .. n |-> FlagOf(t[ks[i] + 1], ks[i] \in D)]
  <2>1. DOMAIN ks = 1 .. n
    BY <1>4
  <2> QED
    BY <2>1 DEF Flagged, FlagOf
<1> HIDE DEF n, ks, L, q
<1>6. ASSUME NEW i \in 1 .. n
      PROVE  a[i] \in I /\ a[i] - 1 = ks[i] /\ a[i] \in 1 .. Len(t) /\ a[i] = ks[i] + 1
  <2>1. ks[i] \in L /\ ks[i] \in Int
    BY <1>2, <1>4
  <2>2. 0 <= ks[i] /\ ks[i] < Len(t) /\ t[ks[i] + 1] \notin Blank
    BY <1>2, <2>1
  <2>3. a[i] = ks[i] + 1
    OBVIOUS
  <2>4. a[i] \in 1 .. Len(t) /\ a[i] - 1 = ks[i]
    BY <1>2, <2>1, <2>2, <2>3
  <2> QED
    BY <2>2, <2>3, <2>4 DEF Lettered
<1>7. ASSUME NEW i \in 1 .. n PROVE q[i] = s[a[i]]
  <2>1. q[i] = FlagOf(t[ks[i] + 1], ks[i] \in D)
    BY <1>5
  <2>2. s[a[i]] = FlagOf(t[a[i]], a[i] - 1 \in D)
    BY <1>1, <1>6
  <2> QED
    BY <1>6, <2>1, <2>2
<1>8. ASSUME NEW x \in I PROVE \E i \in 1 .. n : a[i] = x
  <2>1. x \in 1 .. Len(t) /\ t[x] \notin Blank
    BY DEF Lettered
  <2>2. x - 1 \in Int /\ 0 <= x - 1 /\ x - 1 < Len(t) /\ (x - 1) + 1 = x
    BY <1>2, <2>1
  <2>3. x - 1 \in L
    BY <1>2, <2>1, <2>2
  <2>4. PICK i \in 1 .. n : ks[i] = x - 1
    BY <1>4, <2>3
  <2> QED
    BY <1>6, <2>2, <2>4
<1>9. ASSUME NEW i \in 1 .. n, NEW j \in 1 .. n, i < j PROVE a[i] < a[j]
  <2>1. ks[i] < ks[j] /\ ks[i] \in Int /\ ks[j] \in Int
    BY <1>2, <1>4, <1>9
  <2>2. a[i] = ks[i] + 1 /\ a[j] = ks[j] + 1
    BY <1>6
  <2> QED
    BY <2>1, <2>2
<1>10. a \in [1 .. n -> I]
  BY <1>6
<1> HIDE DEF a
<1>11. Ascends(a, I, n)
  BY <1>4, <1>8, <1>9, <1>10 DEF Ascends
<1>12. q \in [1 .. n -> Flag]
  <2>1. \A i \in 1 .. n : q[i] \in Flag
    <3> TAKE i \in 1 .. n
    <3>1. a[i] \in 1 .. Len(s)
      BY <1>1, <1>6
    <3>2. s[a[i]] \in Flag
      BY <1>1, <3>1
    <3> QED
      BY <1>7, <3>2
  <2>2. q = [i \in 1 .. n |-> q[i]]
    BY <1>5
  <2> QED
    BY <2>1, <2>2
<1>13. q \in Seq(Flag) /\ Len(q) = n
  BY <1>4, <1>12, FunctionSeq
<1> HIDE DEF s, I
<1>14. Drawn(q, s, I)
  BY <1>7, <1>11, <1>13 DEF Drawn
<1>15. q = Elements(s, I)
  BY <1>1, <1>13, <1>14, DrawnIs
<1> QED
  BY <1>15 DEF q, s, I

LEMMA FlaggedTyped ==
    ASSUME NEW t \in AnyText, NEW D
    PROVE  Flagged(t, D) \in Seq(Flag)
<1>1. Flags(t, D) \in Seq(Flag) /\ Lettered(t) \in SUBSET (1 .. Len(Flags(t, D)))
  BY FlagsFacts
<1> QED
  BY <1>1, FlaggedAre, ElementsPicked

\* Texts with the same letters at the same places, and the same doubts of them.
Alike(s, D, t, E) ==
    /\ Len(s) = Len(t)
    /\ \A k \in 1 .. Len(s) : s[k] \notin Blank <=> t[k] \notin Blank
    /\ \A k \in 1 .. Len(s) :
          s[k] \notin Blank => s[k] = t[k] /\ (k - 1 \in D <=> k - 1 \in E)

LEMMA FlaggedSame ==
    ASSUME NEW s \in AnyText, NEW t \in AnyText, NEW D, NEW E, Alike(s, D, t, E)
    PROVE  Flagged(s, D) = Flagged(t, E)
<1>0. /\ Len(s) = Len(t)
      /\ \A k \in 1 .. Len(s) : s[k] \notin Blank <=> t[k] \notin Blank
      /\ \A k \in 1 .. Len(s) :
            s[k] \notin Blank => s[k] = t[k] /\ (k - 1 \in D <=> k - 1 \in E)
  BY DEF Alike
<1> DEFINE f == Flags(s, D)
           g == Flags(t, E)
           I == Lettered(s)
<1>1. /\ f \in Seq(Flag) /\ Len(f) = Len(s) /\ I \in SUBSET (1 .. Len(s))
      /\ \A k \in 1 .. Len(s) : f[k] = FlagOf(s[k], k - 1 \in D)
  BY FlagsFacts
<1>2. /\ g \in Seq(Flag) /\ Len(g) = Len(t)
      /\ \A k \in 1 .. Len(t) : g[k] = FlagOf(t[k], k - 1 \in E)
  BY FlagsFacts
<1>3. Lettered(t) = I
  BY <1>0 DEF Lettered
<1>4. ASSUME NEW k \in I PROVE f[k] = g[k]
  <2>1. k \in 1 .. Len(s) /\ k \in 1 .. Len(t) /\ s[k] \notin Blank
    BY <1>0 DEF Lettered
  <2>2. s[k] = t[k] /\ (k - 1 \in D <=> k - 1 \in E)
    BY <1>0, <2>1
  <2>3. (k - 1 \in D) = (k - 1 \in E)
    BY <2>2
  <2> HIDE DEF f, g, I
  <2> QED
    BY <1>1, <1>2, <2>1, <2>2, <2>3
<1> HIDE DEF f, g, I
<1> DEFINE q == Elements(f, I)
           c == Cardinality(I)
           ks == Sorted(I)
<1>5. I \in SUBSET (1 .. Len(f)) /\ I \in SUBSET (1 .. Len(g))
  BY <1>0, <1>1, <1>2
<1>6. /\ q \in Seq(Flag) /\ Len(q) = c /\ c \in Nat /\ Ascends(ks, I, c)
      /\ \A i \in 1 .. c : q[i] = f[ks[i]]
  BY <1>1, <1>5, ElementsPicked
<1>7. \A i \in 1 .. c : ks[i] \in I
  BY <1>6 DEF Ascends
<1> HIDE DEF q, c, ks
<1>8. \A i \in 1 .. Len(q) : q[i] = g[ks[i]]
  BY <1>4, <1>6, <1>7
<1>9. Drawn(q, g, I)
  BY <1>6, <1>8 DEF Drawn
<1>10. q = Elements(g, I)
  BY <1>2, <1>5, <1>6, <1>9, DrawnIs
<1> QED
  BY <1>3, <1>10, FlaggedAre DEF q, f, g, I

\* Texts put together.
LEMMA FlaggedJoin ==
    ASSUME NEW u \in AnyText, NEW v \in AnyText, NEW D, D \subseteq Offsets(u),
           NEW E, E \subseteq Offsets(v), NEW x, x = Coupled(u, v),
           NEW X, X = Added(D, Len(u), E)
    PROVE  Flagged(x, X) = Coupled(Flagged(u, D), Flagged(v, E))
<1> DEFINE m == Len(u)
           n == Len(v)
           f == Flags(u, D)
           g == Flags(v, E)
           h == Flags(x, X)
           c == Coupled(f, g)
<1>1. /\ x \in AnyText /\ Len(x) = m + n /\ m \in Nat /\ n \in Nat
      /\ \A k \in 0 .. m - 1 : x[k + 1] = u[k + 1]
      /\ \A k \in 0 .. n - 1 : x[m + k + 1] = v[k + 1]
  <2>1. m \in Nat /\ n \in Nat
    BY TextFacts
  <2> DEFINE o == u \o v
  <2>2. x = o
    BY DEF Coupled
  <2>3. /\ o \in AnyText /\ Len(o) = m + n
        /\ \A k \in 0 .. m - 1 : o[k + 1] = u[k + 1]
        /\ \A k \in 0 .. n - 1 : o[m + k + 1] = v[k + 1]
    BY JoinFacts
  <2> HIDE DEF o, m, n
  <2> QED
    BY <2>1, <2>2, <2>3
<1>2. /\ f \in Seq(Flag) /\ Len(f) = m /\ Lettered(u) \in SUBSET (1 .. m)
      /\ \A k \in 1 .. m : f[k] = FlagOf(u[k], k - 1 \in D)
  BY FlagsFacts
<1>3. /\ g \in Seq(Flag) /\ Len(g) = n /\ Lettered(v) \in SUBSET (1 .. n)
      /\ \A k \in 1 .. n : g[k] = FlagOf(v[k], k - 1 \in E)
  BY FlagsFacts
<1>4. /\ h \in Seq(Flag) /\ Len(h) = m + n /\ Lettered(x) \in SUBSET (1 .. m + n)
      /\ \A k \in 1 .. m + n : h[k] = FlagOf(x[k], k - 1 \in X)
  <2>1. /\ h \in Seq(Flag) /\ Len(h) = Len(x) /\ Lettered(x) \in SUBSET (1 .. Len(x))
        /\ \A k \in 1 .. Len(x) : h[k] = FlagOf(x[k], k - 1 \in X)
    BY <1>1, FlagsFacts
  <2> QED
    BY <1>1, <2>1
<1>5. \A k \in 1 .. m : x[k] = u[k]
  <2> TAKE k \in 1 .. m
  <2>1. k - 1 \in 0 .. m - 1 /\ (k - 1) + 1 = k
    BY <1>1
  <2> QED
    BY <1>1, <2>1
<1>6. \A k \in 1 .. n : x[m + k] = v[k]
  <2> TAKE k \in 1 .. n
  <2>1. k - 1 \in 0 .. n - 1 /\ (k - 1) + 1 = k /\ m + (k - 1) + 1 = m + k
    BY <1>1
  <2> QED
    BY <1>1, <2>1
<1>7. ASSUME NEW k \in 1 .. m PROVE h[k] = f[k] /\ (k \in Lettered(x) <=> k \in Lettered(u))
  <2>1. k \in 1 .. m + n /\ x[k] = u[k]
    BY <1>1, <1>5
  <2>2. (k - 1 \in X) <=> (k - 1 \in D)
    <3>1. \A y \in E : y \in Nat
      BY DEF Offsets
    <3>2. \A y \in E : k - 1 # m + y
      BY <1>1, <3>1
    <3> QED
      BY <3>2 DEF Added
  <2>3. (k - 1 \in X) = (k - 1 \in D)
    BY <2>2
  <2>4. h[k] = FlagOf(x[k], k - 1 \in X) /\ f[k] = FlagOf(u[k], k - 1 \in D)
    BY <1>2, <1>4, <2>1
  <2>5. h[k] = f[k]
    BY <2>1, <2>3, <2>4
  <2> QED
    BY <1>1, <2>1, <2>5 DEF Lettered
<1>8. ASSUME NEW k \in 1 .. n
      PROVE  h[m + k] = g[k] /\ (m + k \in Lettered(x) <=> k \in Lettered(v))
  <2>1. m + k \in 1 .. m + n /\ x[m + k] = v[k] /\ (m + k) - 1 = m + (k - 1)
    BY <1>1, <1>6
  <2>2. ((m + k) - 1 \in X) <=> (k - 1 \in E)
    <3>1. \A y \in D : y \in Nat /\ y < m
      BY <1>1 DEF Offsets
    <3>2. m + (k - 1) \notin D
      BY <1>1, <3>1
    <3>3. \A y \in E : y \in Nat
      BY DEF Offsets
    <3>4. \A y \in E : m + (k - 1) = m + y => y = k - 1
      BY <1>1, <3>3
    <3> QED
      BY <2>1, <3>2, <3>4 DEF Added
  <2>3. ((m + k) - 1 \in X) = (k - 1 \in E)
    BY <2>2
  <2>4. h[m + k] = FlagOf(x[m + k], (m + k) - 1 \in X) /\ g[k] = FlagOf(v[k], k - 1 \in E)
    BY <1>3, <1>4, <2>1
  <2>5. h[m + k] = g[k]
    BY <2>1, <2>3, <2>4
  <2> QED
    BY <1>1, <2>1, <2>5 DEF Lettered
<1> HIDE DEF f, g, h, m, n
<1>9. /\ c \in Seq(Flag) /\ Len(c) = m + n
      /\ \A k \in 1 .. m : c[k] = f[k]
      /\ \A k \in 1 .. n : c[m + k] = g[k]
  <2> DEFINE o == f \o g
  <2>1. /\ o \in Seq(Flag) /\ Len(o) = Len(f) + Len(g)
        /\ \A k \in 1 .. Len(f) : o[k] = f[k]
        /\ \A k \in 1 .. Len(g) : o[Len(f) + k] = g[k]
    <3>1. f \in Seq(Flag) /\ g \in Seq(Flag)
      BY <1>2, <1>3
    <3> QED
      BY <3>1, SeqJoin
  <2>2. c = o
    BY DEF Coupled
  <2> HIDE DEF o, c
  <2> QED
    BY <1>2, <1>3, <2>1, <2>2
<1> HIDE DEF c
<1>10. c = h
  <2>1. ASSUME NEW k \in 1 .. m + n PROVE c[k] = h[k]
    <3>1. CASE k <= m
      <4>1. k \in 1 .. m
        BY <1>1, <3>1
      <4> QED
        BY <1>7, <1>9, <4>1
    <3>2. CASE ~(k <= m)
      <4> DEFINE l == k - m
      <4>1. l \in 1 .. n /\ k = m + l
        BY <1>1, <3>2
      <4> HIDE DEF l
      <4> QED
        BY <1>8, <1>9, <4>1
    <3> QED
      BY <3>1, <3>2
  <2> QED
    BY <1>4, <1>9, <2>1
<1>11. Lettered(x) = Lettered(u) \cup After(m, Lettered(v))
  <2>1. ASSUME NEW k \in Lettered(x) PROVE k \in Lettered(u) \cup After(m, Lettered(v))
    <3>1. k \in 1 .. m + n
      BY <1>4
    <3>2. CASE k <= m
      <4>1. k \in 1 .. m
        BY <1>1, <3>1, <3>2
      <4> QED
        BY <1>7, <4>1
    <3>3. CASE ~(k <= m)
      <4> DEFINE l == k - m
      <4>1. l \in 1 .. n /\ k = m + l
        BY <1>1, <3>1, <3>3
      <4> HIDE DEF l
      <4> QED
        BY <1>8, <4>1 DEF After
    <3> QED
      BY <3>2, <3>3
  <2>2. ASSUME NEW k \in Lettered(u) PROVE k \in Lettered(x)
    BY <1>2, <1>7
  <2>3. ASSUME NEW l \in Lettered(v) PROVE m + l \in Lettered(x)
    BY <1>3, <1>8
  <2> QED
    BY <2>1, <2>2, <2>3 DEF After
<1>12. Elements(Coupled(f, g), Lettered(u) \cup After(Len(f), Lettered(v))) =
          Coupled(Elements(f, Lettered(u)), Elements(g, Lettered(v)))
  <2> DEFINE I == Lettered(u)
             J == Lettered(v)
  <2>1. f \in Seq(Flag) /\ g \in Seq(Flag)
        /\ I \in SUBSET (1 .. Len(f)) /\ J \in SUBSET (1 .. Len(g))
    BY <1>2, <1>3
  <2> HIDE DEF I, J
  <2>2. Elements(Coupled(f, g), I \cup After(Len(f), J)) =
           Coupled(Elements(f, I), Elements(g, J))
    BY <2>1, ElementsJoin
  <2> QED
    BY <2>2 DEF I, J
<1>13. /\ Flagged(x, X) = Elements(h, Lettered(x))
       /\ Flagged(u, D) = Elements(f, Lettered(u))
       /\ Flagged(v, E) = Elements(g, Lettered(v))
  BY <1>1, FlaggedAre DEF f, g, h
<1> QED
  BY <1>2, <1>10, <1>11, <1>12, <1>13 DEF c

\* Blanks have none.
LEMMA FlaggedBlank ==
    ASSUME NEW t \in AnyText, Letters(t) = {}, NEW D
    PROVE  Flagged(t, D) = <<>>
<1>1. Lettered(t) = {}
  <2> SUFFICES ASSUME NEW k \in Lettered(t) PROVE FALSE
    OBVIOUS
  <2>1. k \in 1 .. Len(t) /\ t[k] \notin Blank /\ Len(t) \in Nat
    BY TextFacts DEF Lettered
  <2>2. k - 1 \in Int /\ 0 <= k - 1 /\ k - 1 < Len(t) /\ (k - 1) + 1 = k
    BY <2>1
  <2> QED
    BY <2>1, <2>2, LettersOf
<1>2. Flags(t, D) \in Seq(Flag)
  BY FlagsFacts
<1> QED
  BY <1>1, <1>2, FlaggedAre, ElementsNone

\* A text with blanks after it, or before it.
LEMMA FlaggedPad ==
    ASSUME NEW u \in AnyText, NEW v \in AnyText, NEW D, D \subseteq Offsets(u),
           Letters(v) = {}, NEW x, x = Coupled(u, v)
    PROVE  D \subseteq Offsets(x) /\ Flagged(x, D) = Flagged(u, D)
<1> DEFINE E == {}
           q == Flagged(u, D)
<1>1. E \subseteq Offsets(v) /\ D = Added(D, Len(u), E)
  BY DEF Added
<1> HIDE DEF E
<1>2. Flagged(x, D) = Coupled(q, Flagged(v, E))
  BY <1>1, FlaggedJoin
<1>3. Flagged(v, E) = <<>>
  BY FlaggedBlank
<1>4. q \in Seq(Flag)
  BY FlaggedTyped
<1> HIDE DEF q
<1>5. Coupled(q, <<>>) = q
  BY <1>4 DEF Coupled
<1>6. D \subseteq Offsets(x)
  <2>1. x = u \o v
    BY DEF Coupled
  <2>2. Len(x) = Len(u) + Len(v) /\ Len(u) \in Nat /\ Len(v) \in Nat
    BY <2>1, JoinFacts, TextFacts
  <2> QED
    BY <2>2 DEF Offsets
<1> QED
  BY <1>2, <1>3, <1>5, <1>6 DEF q

LEMMA FlaggedBehind ==
    ASSUME NEW u \in AnyText, NEW v \in AnyText, NEW E, E \subseteq Offsets(v),
           Letters(u) = {}, NEW x, x = Coupled(u, v),
           NEW X, X = Added({}, Len(u), E)
    PROVE  Flagged(x, X) = Flagged(v, E)
<1> DEFINE D == {}
           q == Flagged(v, E)
<1>1. D \subseteq Offsets(u) /\ X = Added(D, Len(u), E)
  OBVIOUS
<1> HIDE DEF D
<1>2. Flagged(x, X) = Coupled(Flagged(u, D), q)
  BY <1>1, FlaggedJoin
<1>3. Flagged(u, D) = <<>>
  BY FlaggedBlank
<1>4. q \in Seq(Flag)
  BY FlaggedTyped
<1> HIDE DEF q
<1>5. Coupled(<<>>, q) = q
  BY <1>4 DEF Coupled
<1> QED
  BY <1>2, <1>3, <1>5 DEF q

\* Stripping a part takes no letter and moves the doubts with them.
Held(r) ==
    {k - Leading(r.text) : k \in r.doubts
        \cap Leading(r.text) .. Leading(r.text) + Len(Stripped(r.text)) - 1}
FlaggedPart(r) == Flagged(r.text, r.doubts)

LEMMA StrippedFlagged ==
    ASSUME NEW r \in Part
    PROVE  /\ Held(r) \subseteq Offsets(Stripped(r.text))
           /\ Flagged(Stripped(r.text), Held(r)) = FlaggedPart(r)
           /\ \A base \in Nat : Shifted(r, base) = {base + k : k \in Held(r)}
<1> DEFINE t == r.text
           D == r.doubts
           a == Leading(t)
           s == Stripped(t)
           n == Len(s)
           E == {k - a : k \in D \cap a .. a + n - 1}
<1>1. t \in AnyText /\ D \subseteq Nat /\ \A k \in D : 0 <= k /\ k < Len(t)
  BY PartFacts
<1>2. s \in AnyText /\ a \in Nat /\ a <= Len(t) /\ n \in Nat /\ Len(t) \in Nat
  BY <1>1, StrippedFacts, TextFacts
<1>3. Held(r) = E
  BY DEF Held
<1>4. ASSUME NEW base \in Nat PROVE Shifted(r, base) = {base + k : k \in E}
  <2>1. Shifted(r, base) = {base + k - a : k \in D \cap a .. a + n - 1}
    BY DEF Shifted
  <2> HIDE DEF a, n, s, t, D
  <2>2. ASSUME NEW k \in D, k \in a .. a + n - 1
        PROVE  base + k - a = base + (k - a)
    BY <1>2, <2>2
  <2>3. \A x : x \in Shifted(r, base) <=>
           \E k \in D : k \in a .. a + n - 1 /\ x = base + k - a
    BY <2>1
  <2>4. \A y : y \in E <=> \E k \in D : k \in a .. a + n - 1 /\ y = k - a
    OBVIOUS
  <2> HIDE DEF E
  <2>5. ASSUME NEW x \in Shifted(r, base) PROVE x \in {base + k : k \in E}
    <3>1. PICK k \in D : k \in a .. a + n - 1 /\ x = base + k - a
      BY <2>3
    <3>2. k - a \in E /\ x = base + (k - a)
      BY <2>2, <2>4, <3>1
    <3> QED
      BY <3>2
  <2>6. ASSUME NEW y \in E PROVE base + y \in Shifted(r, base)
    <3>1. PICK k \in D : k \in a .. a + n - 1 /\ y = k - a
      BY <2>4
    <3>2. base + y = base + k - a
      BY <2>2, <3>1
    <3> QED
      BY <2>3, <3>1, <3>2
  <2> QED
    BY <2>5, <2>6
<1>5. E \subseteq Offsets(s)
  <2> HIDE DEF a, s, t, D
  <2> QED
    BY <1>1, <1>2 DEF Offsets
<1>6. Flagged(s, E) = Flagged(t, D)
  <2>1. CASE IsBlank(t)
    <3>1. Letters(t) = {} /\ s = <<>>
      BY <1>1, <2>1, StrippedFacts DEF IsBlank
    <3>2. Letters(s) = {}
      <4>1. Len(s) = 0
        BY <3>1
      <4> QED
        BY <1>2, <4>1, LettersOf
    <3> QED
      BY <1>1, <1>2, <3>1, <3>2, FlaggedBlank
  <2>2. CASE ~IsBlank(t)
    <3>1. PICK b \in Nat :
             /\ s = Cut(t, a, b) /\ a < b /\ b <= Len(t)
             /\ \A k \in Letters(t) : a <= k /\ k < b
      BY <1>1, <2>2, StrippedFacts
    <3> DEFINE u == Cut(t, 0, a)
               v == Cut(t, b, Len(t))
               w == Cut(t, 0, b)
               M == {k \in D : a <= k /\ k < b}
    <3> HIDE DEF t, D, a, s
    <3>2. /\ 0 \in Nat /\ 0 <= a /\ a <= b /\ 0 <= b /\ Len(t) <= Len(t)
          /\ a - 0 = a /\ b - 0 = b
      BY <1>2, <3>1
    <3>3. u \in AnyText /\ Len(u) = a
      <4>1. u \in AnyText /\ Len(u) = a - 0
        BY <1>1, <1>2, <3>2, CutFacts
      <4> QED
        BY <3>2, <4>1
    <3>4. v \in AnyText
      BY <1>1, <1>2, <3>1, <3>2, CutFacts
    <3>5. w \in AnyText /\ Len(w) = b
      <4>1. w \in AnyText /\ Len(w) = b - 0
        BY <1>1, <3>1, <3>2, CutFacts
      <4> QED
        BY <3>2, <4>1
    <3>6. n = b - a
      <4>1. Len(Cut(t, a, b)) = b - a
        BY <1>1, <1>2, <3>1, <3>2, CutFacts
      <4>2. n = Len(s)
        BY DEF n
      <4> QED
        BY <3>1, <4>1, <4>2
    <3>7. Letters(u) = {}
      <4> SUFFICES ASSUME NEW k \in Letters(u) PROVE FALSE
        OBVIOUS
      <4>1. k \in Int
        BY <3>3, LettersOf
      <4>2. 0 <= k /\ k < a - 0 /\ k + 0 \in Letters(t)
        BY <1>1, <1>2, <3>2, <4>1, LettersOfCut
      <4>3. k + 0 = k
        BY <4>1
      <4>4. a <= k
        BY <3>1, <4>2, <4>3
      <4> QED
        BY <1>2, <4>1, <4>2, <4>4
    <3>8. Letters(v) = {}
      <4> SUFFICES ASSUME NEW k \in Letters(v) PROVE FALSE
        OBVIOUS
      <4>1. k \in Int
        BY <3>4, LettersOf
      <4>2. 0 <= k /\ k + b \in Letters(t)
        BY <1>1, <1>2, <3>1, <3>2, <4>1, LettersOfCut
      <4>3. k + b < b
        BY <3>1, <4>2
      <4> QED
        BY <4>1, <4>2, <4>3
    <3>9. w = Coupled(u, s)
      <4>1. Cut(t, 0, a) \o Cut(t, a, b) = Cut(t, 0, b)
        BY <1>1, <1>2, <3>1, <3>2, CutsJoined
      <4> QED
        BY <3>1, <4>1 DEF Coupled
    <3>10. t = Coupled(w, v)
      <4>1. Cut(t, 0, b) \o Cut(t, b, Len(t)) = Cut(t, 0, Len(t))
        BY <1>1, <1>2, <3>1, <3>2, CutsJoined
      <4>2. Cut(t, 0, Len(t)) = t
        BY <1>1, CutAll
      <4> QED
        BY <4>1, <4>2 DEF Coupled
    <3>11. M = Added({}, Len(u), E)
      <4>1. ASSUME NEW k \in M PROVE \E y \in E : k = a + y
        <5>1. k \in Nat /\ k \in D /\ a <= k /\ k < b
          BY <1>1
        <5> DEFINE y == k - a
        <5>2. k \in a .. a + n - 1 /\ k = a + y
          BY <1>2, <3>1, <3>6, <5>1
        <5>3. y \in E
          BY <5>1, <5>2
        <5> HIDE DEF y
        <5> QED
          BY <5>2, <5>3
      <4>2. ASSUME NEW y \in E PROVE a + y \in M
        <5>1. PICK k \in D : k \in a .. a + n - 1 /\ y = k - a
          OBVIOUS
        <5>2. k \in Nat /\ a <= k /\ k < b /\ a + y = k
          BY <1>1, <1>2, <3>1, <3>6, <5>1
        <5> QED
          BY <5>2
      <4> HIDE DEF M, E, u
      <4> QED
        BY <3>3, <4>1, <4>2 DEF Added
    <3> HIDE DEF u, v, w, E
    <3>12. Flagged(w, M) = Flagged(s, E)
      <4> HIDE DEF M
      <4> QED
        BY <1>2, <1>5, <3>3, <3>5, <3>7, <3>9, <3>11, FlaggedBehind
    <3>13. M \subseteq Offsets(w)
      <4>1. \A k \in M : k \in Nat /\ 0 <= k /\ k < b
        BY <1>1
      <4> HIDE DEF M
      <4> QED
        BY <3>5, <4>1 DEF Offsets
    <3>14. Flagged(t, M) = Flagged(w, M)
      <4> HIDE DEF M
      <4> QED
        BY <1>1, <3>4, <3>5, <3>8, <3>10, <3>13, FlaggedPad
    <3>15. Flagged(t, M) = Flagged(t, D)
      <4>1. ASSUME NEW k \in 1 .. Len(t), t[k] \notin Blank
            PROVE  k - 1 \in M <=> k - 1 \in D
        <5>1. k - 1 \in Int /\ 0 <= k - 1 /\ k - 1 < Len(t) /\ (k - 1) + 1 = k
          BY <1>2
        <5>2. k - 1 \in Letters(t)
          BY <1>1, <4>1, <5>1, LettersOf
        <5>3. a <= k - 1 /\ k - 1 < b
          BY <3>1, <5>2
        <5> QED
          BY <5>3
      <4> HIDE DEF M
      <4>2. Alike(t, M, t, D)
        BY <4>1 DEF Alike
      <4> QED
        BY <1>1, <4>2, FlaggedSame
    <3> QED
      BY <3>12, <3>14, <3>15 DEF t, D, s
  <2> QED
    BY <2>1, <2>2
<1> QED
  BY <1>3, <1>4, <1>5, <1>6 DEF FlaggedPart

\* What stands between parts has no letters.
LEMMA Spaces ==
    ASSUME NEW v, v \in {<<>>, Break, BlankLine}
    PROVE  v \in AnyText /\ Letters(v) = {}
<1>1. "/" \in Character /\ "/" \in Blank
  BY DEF Character, Blank
<1>2. <<>> \in AnyText /\ Len(<<>>) = 0
  BY NothingYet
<1>3. Break \in AnyText /\ Len(Break) = 1 /\ Break[1] \in Blank
  BY <1>1 DEF Break, AnyText
<1>4. BlankLine \in AnyText /\ Len(BlankLine) = 2
      /\ BlankLine[1] \in Blank /\ BlankLine[2] \in Blank
  BY <1>1 DEF BlankLine, AnyText
<1>5. v \in AnyText /\ \A k \in 0 .. Len(v) - 1 : v[k + 1] \in Blank
  <2>1. CASE v = <<>>
    BY <1>2, <2>1
  <2>2. CASE v = Break
    <3>1. \A k \in 0 .. 1 - 1 : k + 1 = 1
      OBVIOUS
    <3> QED
      BY <1>3, <2>2, <3>1
  <2>3. CASE v = BlankLine
    <3>1. \A k \in 0 .. 2 - 1 : k + 1 = 1 \/ k + 1 = 2
      OBVIOUS
    <3> QED
      BY <1>4, <2>3, <3>1
  <2> QED
    BY <2>1, <2>2, <2>3
<1> QED
  BY <1>5, LettersOf

LEMMA JoinStepFlagged ==
    ASSUME NEW ps \in Seq(Part), NEW separator \in {Break, BlankLine},
           NEW r \in Part, NEW i \in 1 .. Len(ps),
           NEW x, x = JoinStep(ps, separator, r, i)
    PROVE  FlaggedPart(x) = Coupled(FlaggedPart(r), FlaggedPart(ps[i]))
<1> DEFINE gap == IF i = 1 THEN <<>> ELSE separator
           u == r.text
           D == r.doubts
           before == Coupled(u, gap)
           s == Stripped(ps[i].text)
           E == Held(ps[i])
           m == Len(before)
<1>1. /\ x.text = Coupled(before, s)
      /\ x.doubts = D \cup Shifted(ps[i], m)
  BY DEF JoinStep, Coupled
<1>2. ps[i] \in Part
  OBVIOUS
<1>3. u \in AnyText /\ D \subseteq Offsets(u) /\ ps[i].text \in AnyText
  BY <1>2, PartFacts
<1>4. gap \in AnyText /\ Letters(gap) = {}
  <2>1. gap \in {<<>>, Break, BlankLine}
    OBVIOUS
  <2> HIDE DEF gap
  <2> QED
    BY <2>1, Spaces
<1> HIDE DEF gap
<1>5. before \in AnyText /\ m \in Nat
  BY <1>3, <1>4, JoinFacts, TextFacts DEF Coupled
<1>6. s \in AnyText
  BY <1>3, StrippedFacts
<1>7. /\ E \subseteq Offsets(s) /\ Flagged(s, E) = FlaggedPart(ps[i])
      /\ Shifted(ps[i], m) = {m + k : k \in E}
  BY <1>2, <1>5, StrippedFlagged
<1>8. before = Coupled(u, gap)
  OBVIOUS
<1> HIDE DEF before, m, u, D, s, E
<1>9. D \subseteq Offsets(before) /\ Flagged(before, D) = Flagged(u, D)
  BY <1>3, <1>4, <1>8, FlaggedPad
<1>10. x.doubts = Added(D, Len(before), E)
  BY <1>1, <1>7 DEF Added, m
<1>11. Flagged(x.text, x.doubts) = Coupled(Flagged(before, D), Flagged(s, E))
  <2> DEFINE w == x.text
             W == x.doubts
  <2>1. w = Coupled(before, s) /\ W = Added(D, Len(before), E)
    BY <1>1, <1>10
  <2>2. D \subseteq Offsets(before) /\ E \subseteq Offsets(s)
    BY <1>7, <1>9
  <2> HIDE DEF w, W
  <2>3. Flagged(w, W) = Coupled(Flagged(before, D), Flagged(s, E))
    BY <1>5, <1>6, <2>1, <2>2, FlaggedJoin
  <2> QED
    BY <2>3 DEF w, W
<1> QED
  BY <1>7, <1>9, <1>11 DEF FlaggedPart, u, D

\* The letters of the whole are those of its parts.
LEMMA JoinedFlagged ==
    ASSUME NEW ps \in Seq(Part), NEW separator \in {Break, BlankLine},
           NEW x, x = Joined(ps, separator)
    PROVE  FlaggedPart(x) = FlattenSeq([i \in 1 .. Len(ps) |-> FlaggedPart(ps[i])])
<1> DEFINE n == Len(ps)
           ss == [i \in 1 .. n |-> FlaggedPart(ps[i])]
<1>1. n \in Nat /\ \A i \in 1 .. n : ps[i] \in Part
  BY LenProperties, ElementOfSeq
<1>2. \A i \in 1 .. n : FlaggedPart(ps[i]) \in Seq(Flag)
  <2> TAKE i \in 1 .. n
  <2>1. ps[i].text \in AnyText
    BY <1>1, PartFacts
  <2> QED
    BY <2>1, FlaggedTyped DEF FlaggedPart
<1>3. \A i \in 1 .. n : ss[i] = FlaggedPart(ps[i])
  OBVIOUS
<1>4. ss \in [1 .. n -> Seq(Flag)]
  BY <1>2
<1> HIDE DEF n, ss
<1>5. ss \in Seq(Seq(Flag)) /\ Len(ss) = n
  BY <1>1, <1>4, FunctionSeq
<1>6. PICK g : FlatBy(g, ss, Flag) /\ FlattenSeq(ss) = g[Len(ss)]
  BY <1>5, FlattenFacts
<1>7. g[0] = <<>> /\ \A i \in 1 .. n : g[i] = Coupled(g[i - 1], ss[i])
  BY <1>5, <1>6 DEF FlatBy, Coupled
<1>8. CASE n = 1
  <2>1. x = ps[1]
    BY <1>8, JoinedChosen DEF n
  <2>2. 1 \in 1 .. n /\ 1 - 1 = 0
    BY <1>8
  <2>3. g[1] = Coupled(<<>>, ss[1])
    BY <1>7, <2>2
  <2>4. Coupled(<<>>, ss[1]) = ss[1]
    <3>1. ss[1] \in Seq(Flag)
      BY <1>4, <2>2
    <3> QED
      BY <3>1 DEF Coupled
  <2> QED
    BY <1>3, <1>5, <1>6, <1>8, <2>1, <2>2, <2>3, <2>4 DEF ss, n
<1>9. CASE n # 1
  <2>1. separator \in AnyText
    BY Spaces
  <2>2. PICK f : f = CHOOSE h : JoinedBy(h, ps, separator)
    OBVIOUS
  <2>3. x = f[n]
    BY <1>9, <2>2, JoinedChosen DEF n
  <2>4. /\ f[0] = Sure(<<>>)
        /\ \A i \in 1 .. n : f[i] = JoinStep(ps, separator, f[i - 1], i)
        /\ \A i \in 0 .. n : f[i] \in Part
    BY <2>1, <2>2, JoinedFunction DEF n
  <2> DEFINE P == {i \in 0 .. n : FlaggedPart(f[i]) = g[i]}
  <2>5. 0 \in P
    <3>1. <<>> \in AnyText /\ Letters(<<>>) = {}
      BY Spaces
    <3>2. Flagged(<<>>, {}) = <<>>
      BY <3>1, FlaggedBlank
    <3>3. f[0].text = <<>> /\ f[0].doubts = {}
      BY <2>4 DEF Sure
    <3>4. FlaggedPart(f[0]) = g[0]
      BY <1>7, <3>2, <3>3 DEF FlaggedPart
    <3>5. 0 \in 0 .. n
      BY <1>1
    <3> QED
      BY <3>4, <3>5
  <2>6. ASSUME NEW i \in 0 .. n, i < n, i \in P PROVE i + 1 \in P
    <3> DEFINE m == i + 1
    <3>1. m \in 1 .. n /\ m \in 0 .. n /\ m - 1 = i
      BY <1>1, <2>6
    <3> HIDE DEF m
    <3>2. f[i] \in Part /\ FlaggedPart(f[i]) = g[i]
      BY <2>4, <2>6
    <3>3. f[m] = JoinStep(ps, separator, f[i], m)
      BY <2>4, <3>1
    <3>4. m \in 1 .. Len(ps)
      BY <3>1 DEF n
    <3>5. FlaggedPart(f[m]) = Coupled(FlaggedPart(f[i]), FlaggedPart(ps[m]))
      BY <3>2, <3>3, <3>4, JoinStepFlagged
    <3>6. g[m] = Coupled(g[i], ss[m])
      BY <1>7, <3>1
    <3>7. ss[m] = FlaggedPart(ps[m])
      BY <1>3, <3>1
    <3>8. FlaggedPart(f[m]) = g[m]
      BY <3>2, <3>5, <3>6, <3>7
    <3>9. m \in P
      BY <3>1, <3>8
    <3> QED
      BY <3>9 DEF m
  <2>7. n \in P
    <3> HIDE DEF P
    <3>1. \A i \in 0 .. n : i \in P
      BY <1>1, <2>5, <2>6, UpTo
    <3> QED
      BY <1>1, <3>1
  <2> QED
    BY <1>5, <1>6, <2>3, <2>7 DEF ss, n
<1> QED
  BY <1>8, <1>9

-----------------------------------------------------------------------------
(* What is shown is the end of what was read.                              *)

LEMMA SuffixOf ==
    ASSUME NEW A, NEW p \in Seq(A), NEW s \in Seq(A), NEW t, t = Coupled(p, s)
    PROVE  IsSuffix(s, t)
<1> DEFINE m == Len(p)
           n == Len(s)
           r == Reverse(s)
           q == Reverse(t)
<1>1. /\ t \in Seq(A) /\ m \in Nat /\ n \in Nat /\ Len(t) = m + n
      /\ \A k \in 1 .. n : t[m + k] = s[k]
  BY SeqJoin DEF Coupled
<1>2. \A k \in 1 .. n : s[k] \in A
  BY <1>1, ElementOfSeq
<1>3. \A k \in 1 .. m + n : t[k] \in A
  BY <1>1, ElementOfSeq
<1>4. r = [k \in 1 .. n |-> s[n - k + 1]]
  BY DEF Reverse
<1>5. q = [k \in 1 .. m + n |-> t[m + n - k + 1]]
  BY <1>1 DEF Reverse
<1> HIDE DEF r, q, m, n
<1>6. r \in Seq(A) /\ Len(r) = n /\ \A k \in 1 .. n : r[k] = s[n - k + 1]
  <2>1. \A k \in 1 .. n : n - k + 1 \in 1 .. n
    BY <1>1
  <2>2. r \in [1 .. n -> A]
    BY <1>2, <1>4, <2>1
  <2>3. r \in Seq(A) /\ Len(r) = n
    BY <1>1, <2>2, FunctionSeq
  <2> QED
    BY <1>4, <2>3
<1>7. q \in Seq(A) /\ Len(q) = m + n /\ \A k \in 1 .. m + n : q[k] = t[m + n - k + 1]
  <2>1. \A k \in 1 .. m + n : m + n - k + 1 \in 1 .. m + n
    BY <1>1
  <2>2. q \in [1 .. m + n -> A]
    BY <1>3, <1>5, <2>1
  <2>3. q \in Seq(A) /\ Len(q) = m + n
    <3>1. m + n \in Nat
      BY <1>1
    <3> QED
      BY <2>2, <3>1, FunctionSeq
  <2> QED
    BY <1>5, <2>3
<1>8. ASSUME NEW k \in 1 .. n PROVE r[k] = q[k]
  <2> DEFINE l == n - k + 1
  <2>1. l \in 1 .. n /\ k \in 1 .. m + n /\ m + n - k + 1 = m + l
    BY <1>1
  <2>2. r[k] = s[l]
    BY <1>6
  <2>3. q[k] = t[m + l]
    BY <1>7, <2>1
  <2> HIDE DEF l
  <2> QED
    BY <1>1, <2>1, <2>2, <2>3
<1>9. SubSeq(r, 1, n) = SubSeq(q, 1, n)
  <2>1. SubSeq(r, 1, n) = [k \in 1 .. n |-> r[k]]
    BY <1>1, <1>6
  <2>2. SubSeq(q, 1, n) = [k \in 1 .. n |-> q[k]]
    BY <1>1, <1>7
  <2> QED
    BY <1>8, <2>1, <2>2
<1>10. Len(r) <= Len(q)
  BY <1>1, <1>6, <1>7
<1> QED
  BY <1>6, <1>9, <1>10 DEF IsSuffix, IsPrefix, r, q

\* The letters of a text, none doubted, are those of a first part of it and of
\* the rest.
LEMMA FlaggedCuts ==
    ASSUME NEW t \in AnyText, NEW a \in Nat, NEW b \in Nat, a <= b, b <= Len(t)
    PROVE  Flagged(Cut(t, 0, b), {}) =
              Coupled(Flagged(Cut(t, 0, a), {}), Flagged(Cut(t, a, b), {}))
<1> DEFINE u == Cut(t, 0, a)
           v == Cut(t, a, b)
           x == Cut(t, 0, b)
           D == {}
<1>1. x = Coupled(u, v)
  BY CutsJoined DEF Coupled
<1>2. u \in AnyText /\ v \in AnyText
  <2>1. 0 \in Nat /\ 0 <= a /\ a <= Len(t) /\ Len(t) \in Nat
    BY TextFacts
  <2> QED
    BY <2>1, CutFacts
<1>3. D \subseteq Offsets(u) /\ D \subseteq Offsets(v) /\ D = Added(D, Len(u), D)
  BY DEF Added
<1> HIDE DEF u, v, x, D
<1>4. Flagged(x, D) = Coupled(Flagged(u, D), Flagged(v, D))
  BY <1>1, <1>2, <1>3, FlaggedJoin
<1> QED
  BY <1>4 DEF u, v, x, D

\* The letters of a text are those of its words.
WordFlags(t) == [i \in 1 .. Len(Words(t)) |-> Flagged(WordsOf(t)[i], {})]

LEMMA FlaggedWords ==
    ASSUME NEW t \in AnyText
    PROVE  Flagged(t, {}) = FlattenSeq(WordFlags(t))
<1> DEFINE W == Words(t)
           n == Len(W)
           ss == WordFlags(t)
           At(i) == Flagged(Cut(t, 0, Consumed(t, i)), {})
<1>1. /\ n \in Nat /\ Len(t) \in Nat
      /\ \A i \in 1 .. n : WordsOf(t)[i] = Cut(t, W[i][1], W[i][2])
      /\ \A i \in 1 .. n : WordsOf(t)[i] \in AnyText
  <2>1. WordsOf(t) \in Seq(AnyText) /\ Len(WordsOf(t)) = n
    BY WordsOfFacts
  <2>2. \A i \in 1 .. n : WordsOf(t)[i] \in AnyText
    BY <2>1, ElementOfSeq
  <2> QED
    BY <2>2, WordsOfFacts, TextFacts
<1>2. \A i \in 1 .. n : Flagged(WordsOf(t)[i], {}) \in Seq(Flag)
  BY <1>1, FlaggedTyped
<1>3. ss \in [1 .. n -> Seq(Flag)] /\ \A i \in 1 .. n : ss[i] = Flagged(WordsOf(t)[i], {})
  BY <1>2 DEF WordFlags
<1> HIDE DEF ss
<1>4. ss \in Seq(Seq(Flag)) /\ Len(ss) = n
  <2> HIDE DEF n
  <2> QED
    BY <1>1, <1>3, FunctionSeq
<1>5. PICK g : FlatBy(g, ss, Flag) /\ FlattenSeq(ss) = g[Len(ss)]
  BY <1>4, FlattenFacts
<1>6. g[0] = <<>> /\ \A i \in 1 .. n : g[i] = Coupled(g[i - 1], ss[i])
  BY <1>4, <1>5 DEF FlatBy, Coupled
<1>7. ASSUME NEW i \in 1 .. n PROVE At(i) = Coupled(At(i - 1), ss[i])
  <2> DEFINE a == Consumed(t, i - 1)
             b == W[i][1]
             c == W[i][2]
             v == Cut(t, a, b)
             w == Cut(t, b, c)
  <2>1. /\ a \in Nat /\ b \in Nat /\ c \in Nat /\ a <= b /\ b < c /\ c <= Len(t)
        /\ Consumed(t, i) = c
    BY WordOffsets
  <2>2. v \in AnyText /\ Letters(v) = {}
    BY SpaceBefore
  <2>3. ss[i] = Flagged(w, {})
    BY <1>1, <1>3
  <2> HIDE DEF a, b, c, n, W
  <2>4. b <= Len(t) /\ b <= c
    BY <1>1, <2>1
  <2>5. Flagged(Cut(t, 0, c), {}) = Coupled(Flagged(Cut(t, 0, b), {}), Flagged(w, {}))
    BY <2>1, <2>4, FlaggedCuts
  <2>6. Flagged(Cut(t, 0, b), {}) = Coupled(Flagged(Cut(t, 0, a), {}), Flagged(v, {}))
    BY <2>1, <2>4, FlaggedCuts
  <2>7. Flagged(v, {}) = <<>>
    BY <2>2, FlaggedBlank
  <2> DEFINE q == Flagged(Cut(t, 0, a), {})
  <2>8. q \in Seq(Flag)
    <3>1. 0 \in Nat /\ 0 <= a /\ a <= Len(t)
      BY <1>1, <2>1, <2>4
    <3>2. Cut(t, 0, a) \in AnyText
      BY <2>1, <3>1, CutFacts
    <3> QED
      BY <3>2, FlaggedTyped
  <2>9. Coupled(q, <<>>) = q
    <3> HIDE DEF q
    <3> QED
      BY <2>8 DEF Coupled
  <2>10. Flagged(Cut(t, 0, c), {}) = Coupled(q, ss[i])
    BY <2>3, <2>5, <2>6, <2>7, <2>9
  <2> QED
    BY <2>1, <2>10 DEF a
<1> DEFINE P == {i \in 0 .. n : At(i) = g[i]}
<1>8. 0 \in P
  <2>1. Consumed(t, 0) = 0
    BY DEF Consumed
  <2>2. Cut(t, 0, 0) = <<>>
    BY CutAll
  <2>3. <<>> \in AnyText /\ Letters(<<>>) = {}
    BY Spaces
  <2>4. Flagged(<<>>, {}) = <<>>
    BY <2>3, FlaggedBlank
  <2>5. At(0) = g[0]
    BY <1>6, <2>1, <2>2, <2>4
  <2>6. 0 \in 0 .. n
    BY <1>1
  <2> HIDE DEF n
  <2> QED
    BY <2>5, <2>6
<1> HIDE DEF At, n, W
<1>9. ASSUME NEW i \in 0 .. n, i < n, i \in P PROVE i + 1 \in P
  <2> DEFINE m == i + 1
  <2>1. m \in 1 .. n /\ m \in 0 .. n /\ m - 1 = i
    BY <1>1, <1>9
  <2> HIDE DEF m
  <2>2. At(m) = Coupled(At(i), ss[m])
    BY <1>7, <2>1
  <2>3. g[m] = Coupled(g[i], ss[m])
    BY <1>6, <2>1
  <2>4. At(i) = g[i]
    BY <1>9
  <2>5. m \in P
    BY <2>1, <2>2, <2>3, <2>4
  <2> QED
    BY <2>5 DEF m
<1>10. n \in P
  <2> HIDE DEF P
  <2>1. \A i \in 0 .. n : i \in P
    BY <1>1, <1>8, <1>9, UpTo
  <2> QED
    BY <1>1, <2>1
<1>11. At(n) = g[n]
  BY <1>10
<1>12. Flagged(t, {}) = At(n)
  <2> DEFINE a == Consumed(t, n)
             v == Cut(t, a, Len(t))
             q == Flagged(Cut(t, 0, a), {})
  <2>1. a \in Nat /\ a <= Len(t) /\ Len(t) <= Len(t)
    BY <1>1, WordOffsets DEF n, W
  <2>2. v \in AnyText /\ Letters(v) = {}
    BY SpaceAtEnd DEF n, W
  <2>3. Flagged(v, {}) = <<>>
    BY <2>2, FlaggedBlank
  <2> HIDE DEF a
  <2>4. Flagged(Cut(t, 0, Len(t)), {}) = Coupled(q, Flagged(v, {}))
    BY <1>1, <2>1, FlaggedCuts
  <2>5. q \in Seq(Flag)
    <3>1. 0 \in Nat /\ 0 <= a
      BY <2>1
    <3>2. Cut(t, 0, a) \in AnyText
      BY <2>1, <3>1, CutFacts
    <3> QED
      BY <3>2, FlaggedTyped
  <2>6. Coupled(q, <<>>) = q
    <3> HIDE DEF q
    <3> QED
      BY <2>5 DEF Coupled
  <2>7. Cut(t, 0, Len(t)) = t
    BY CutAll
  <2> QED
    BY <2>3, <2>4, <2>6, <2>7 DEF At, a
<1> QED
  BY <1>4, <1>5, <1>11, <1>12 DEF ss

LEMMA SameWordsSameLetters ==
    ASSUME NEW s \in AnyText, NEW t \in AnyText, WordsOf(s) = WordsOf(t)
    PROVE  Flagged(s, {}) = Flagged(t, {})
<1>1. Len(Words(s)) = Len(Words(t))
  <2>1. Len(WordsOf(s)) = Len(Words(s)) /\ Len(WordsOf(t)) = Len(Words(t))
    BY WordsOfFacts
  <2> QED
    BY <2>1
<1>2. WordFlags(s) = WordFlags(t)
  BY <1>1 DEF WordFlags
<1> QED
  BY <1>2, FlaggedWords

\* A heading is taken from the front, and the formatter keeps the words.
LEMMA FinalSuffix ==
    ASSUME NEW t \in AnyText, NEW final, FinalOf(t, final)
    PROVE  IsSuffix(Flagged(final, {}), Flagged(t, {}))
<1>1. PICK n \in Nat :
         /\ n <= Len(t) - Leading(t)
         /\ \/ final = Unheaded(t, n)
            \/ \E reply \in AnyText : final = Formatted(Unheaded(t, n), reply)
  BY DEF FinalOf
<1> DEFINE body == Unheaded(t, n)
<1>2. PICK a \in Nat : /\ a <= Len(t) /\ body = Cut(t, a, Len(t)) /\ body \in AnyText
  BY <1>1, UnheadedFacts
<1> HIDE DEF body
<1>3. Flagged(final, {}) = Flagged(body, {})
  <2>1. CASE final = body
    BY <2>1
  <2>2. ASSUME NEW reply \in AnyText, final = Formatted(body, reply)
        PROVE  Flagged(final, {}) = Flagged(body, {})
    <3>1. CASE WordsOf(reply) = WordsOf(body)
      <4>1. final = reply
        BY <2>2, <3>1 DEF Formatted
      <4> QED
        BY <1>2, <3>1, <4>1, SameWordsSameLetters
    <3>2. CASE WordsOf(reply) # WordsOf(body)
      BY <2>2, <3>2 DEF Formatted
    <3> QED
      BY <3>1, <3>2
  <2> QED
    BY <1>1, <2>1, <2>2 DEF body
<1> DEFINE p == Flagged(Cut(t, 0, a), {})
           s == Flagged(body, {})
           x == Flagged(t, {})
<1>4. p \in Seq(Flag) /\ s \in Seq(Flag)
  <2>1. 0 \in Nat /\ 0 <= a
    BY <1>2
  <2>2. Cut(t, 0, a) \in AnyText
    BY <1>2, <2>1, CutFacts
  <2> QED
    BY <1>2, <2>2, FlaggedTyped
<1>5. x = Coupled(p, s)
  <2>1. Len(t) \in Nat /\ Len(t) <= Len(t)
    BY TextFacts
  <2>2. Flagged(Cut(t, 0, Len(t)), {}) =
           Coupled(Flagged(Cut(t, 0, a), {}), Flagged(Cut(t, a, Len(t)), {}))
    BY <1>2, <2>1, FlaggedCuts
  <2>3. Cut(t, 0, Len(t)) = t
    BY CutAll
  <2> QED
    BY <1>2, <2>2, <2>3
<1> HIDE DEF p, s, x
<1>6. IsSuffix(s, x)
  BY <1>4, <1>5, SuffixOf
<1> QED
  BY <1>3, <1>6 DEF s, x

-----------------------------------------------------------------------------
(* Marks: how deep they are nested, which close which, and the letters that *)
(* stand between them.                                                     *)

DepthStep(raw, d, k) ==
    IF raw[k] = "<" THEN d + 1
    ELSE IF raw[k] = ">" /\ d > 0 THEN d - 1
    ELSE d
DepthBy(f, raw) ==
    f = [k \in 0 .. Len(raw) |-> IF k = 0 THEN 0 ELSE DepthStep(raw, f[k - 1], k)]

LEMMA DepthsChosen ==
    ASSUME NEW raw
    PROVE  Depths(raw) = CHOOSE f : DepthBy(f, raw)
BY DEF Depths, DepthBy, DepthStep

LEMMA DepthFunction ==
    ASSUME NEW raw \in AnyText, NEW d, d = Depths(raw)
    PROVE  /\ d[0] = 0 /\ \A k \in 0 .. Len(raw) : d[k] \in Nat
           /\ \A k \in 1 .. Len(raw) : d[k] = DepthStep(raw, d[k - 1], k)
<1> DEFINE n == Len(raw)
           step == [x \in Nat \X (1 .. n) |-> DepthStep(raw, x[1], x[2])]
<1>1. n \in Nat
  BY TextFacts
<1>2. \A r \in Nat, i \in 1 .. n : DepthStep(raw, r, i) \in Nat
  BY DEF DepthStep
<1>3. \A r \in Nat, i \in 1 .. n : step[<<r, i>>] = DepthStep(raw, r, i)
  OBVIOUS
<1>4. step \in [Nat \X (1 .. n) -> Nat]
  BY <1>2
<1> HIDE DEF step, n
<1>5. PICK g \in [0 .. n -> Nat] : Recurs(g, n, 0, step)
  <2>1. 0 \in Nat
    OBVIOUS
  <2> QED
    BY <1>1, <1>4, <2>1, Recursion
<1>6. DepthBy(g, raw)
  <2>1. g = [i \in 0 .. n |-> IF i = 0 THEN 0 ELSE step[<<g[i - 1], i>>]]
    BY <1>5 DEF Recurs
  <2>2. \A i \in 0 .. n : i # 0 => step[<<g[i - 1], i>>] = DepthStep(raw, g[i - 1], i)
    <3> TAKE i \in 0 .. n
    <3> HAVE i # 0
    <3>1. i \in 1 .. n /\ i - 1 \in 0 .. n
      BY <1>1
    <3> QED
      BY <1>3, <1>5, <3>1
  <2>3. g = [i \in 0 .. n |-> IF i = 0 THEN 0 ELSE DepthStep(raw, g[i - 1], i)]
    BY <2>1, <2>2
  <2> QED
    BY <2>3 DEF DepthBy, n
<1>7. DepthBy(d, raw)
  BY <1>6, DepthsChosen
<1> DEFINE h == [i \in 0 .. n |-> IF i = 0 THEN 0 ELSE DepthStep(raw, d[i - 1], i)]
<1>8. d = h
  BY <1>7 DEF DepthBy, n
<1>81. h[0] = 0 /\ \A i \in 1 .. n : h[i] = DepthStep(raw, d[i - 1], i)
  BY <1>1
<1> HIDE DEF h
<1>9. d[0] = 0 /\ \A i \in 1 .. n : d[i] = DepthStep(raw, d[i - 1], i)
  BY <1>8, <1>81
<1> DEFINE P == {i \in 0 .. n : d[i] \in Nat}
<1>11. 0 \in P
  BY <1>1, <1>9
<1>12. ASSUME NEW i \in 0 .. n, i < n, i \in P PROVE i + 1 \in P
  <2> DEFINE m == i + 1
  <2>1. m \in 1 .. n /\ m - 1 = i /\ d[i] \in Nat /\ m \in 0 .. n
    BY <1>1, <1>12
  <2> HIDE DEF m
  <2>2. d[m] = DepthStep(raw, d[i], m)
    BY <1>9, <2>1
  <2>3. m \in P
    BY <1>2, <2>1, <2>2
  <2> QED
    BY <2>3 DEF m
<1>13. \A i \in 0 .. n : i \in P
  <2> HIDE DEF P
  <2> QED
    BY <1>1, <1>11, <1>12, UpTo
<1> QED
  BY <1>9, <1>13 DEF n

\* Only an open mark leads deeper, and only a close leads up, one at a time.
LEMMA DepthMoves ==
    ASSUME NEW raw \in AnyText, NEW d, d = Depths(raw), NEW k \in 1 .. Len(raw),
           NEW e, e = d[k - 1]
    PROVE  /\ e \in Nat /\ d[k] \in Nat
           /\ raw[k] = "<" => d[k] = e + 1
           /\ raw[k] = ">" /\ e > 0 => d[k] = e - 1
           /\ raw[k] # "<" /\ raw[k] # ">" => d[k] = e
           /\ d[k] >= e - 1
           /\ d[k] > e => raw[k] = "<"
           /\ d[k] < e => raw[k] = ">"
<1>1. Len(raw) \in Nat
  BY TextFacts
<1>2. k - 1 \in 0 .. Len(raw) /\ k \in 0 .. Len(raw)
  BY <1>1
<1>3. e \in Nat /\ d[k] \in Nat /\ d[k] = DepthStep(raw, e, k)
  BY <1>2, DepthFunction
<1>4. "<" # ">"
  OBVIOUS
<1> QED
  BY <1>3, <1>4 DEF DepthStep

\* How many open marks more than closes there are from element i to k.
Surplus(raw, i, k) == Opened(raw, i, k) - Closed(raw, i, k)
Among(raw, c, i, k) == {m \in i .. k : raw[m] = c}

LEMMA AmongStep ==
    ASSUME NEW raw, NEW c, NEW i \in Nat, NEW l \in Nat, i <= l, NEW k, k = l - 1
    PROVE  /\ Cardinality(Among(raw, c, i, l)) \in Nat
           /\ Cardinality(Among(raw, c, i, k)) \in Nat
           /\ raw[l] = c => Cardinality(Among(raw, c, i, l)) =
                               Cardinality(Among(raw, c, i, k)) + 1
           /\ raw[l] # c => Cardinality(Among(raw, c, i, l)) =
                               Cardinality(Among(raw, c, i, k))
           /\ l = i => Cardinality(Among(raw, c, i, k)) = 0
<1> DEFINE S == Among(raw, c, i, k)
           T == Among(raw, c, i, l)
<1>1. IsFiniteSet(i .. l) /\ IsFiniteSet(i .. k)
  <2>1. k \in Int /\ i \in Int /\ l \in Int
    OBVIOUS
  <2> QED
    BY <2>1, FS_Interval
<1>2. S \in SUBSET (i .. k) /\ T \in SUBSET (i .. l)
  BY DEF Among
<1>3. IsFiniteSet(S) /\ IsFiniteSet(T)
  <2> HIDE DEF S, T
  <2> QED
    BY <1>1, <1>2, FS_Subset
<1>4. Cardinality(S) \in Nat /\ Cardinality(T) \in Nat
  <2> HIDE DEF S, T
  <2> QED
    BY <1>3, FS_CardinalityType
<1>5. l \notin S
  BY <1>2
<1>6. \A m : m \in i .. l <=> m \in i .. k \/ m = l
  OBVIOUS
<1>7. raw[l] = c => T = S \cup {l}
  BY <1>6 DEF Among
<1>8. raw[l] # c => T = S
  BY <1>6 DEF Among
<1>9. l = i => Cardinality(S) = 0
  <2>1. l = i => S = {}
    BY DEF Among
  <2> QED
    BY <2>1, FS_EmptySet
<1>10. raw[l] = c => Cardinality(T) = Cardinality(S) + 1
  <2> HIDE DEF S, T
  <2> QED
    BY <1>3, <1>5, <1>7, FS_AddElement
<1>11. raw[l] # c => Cardinality(T) = Cardinality(S)
  BY <1>8
<1> QED
  BY <1>4, <1>9, <1>10, <1>11

LEMMA SurplusStep ==
    ASSUME NEW raw, NEW i \in Nat, NEW l \in Nat, i <= l, NEW k, k = l - 1
    PROVE  /\ Surplus(raw, i, l) \in Int /\ Surplus(raw, i, k) \in Int
           /\ raw[l] = "<" => Surplus(raw, i, l) = Surplus(raw, i, k) + 1
           /\ raw[l] = ">" => Surplus(raw, i, l) = Surplus(raw, i, k) - 1
           /\ raw[l] # "<" /\ raw[l] # ">" => Surplus(raw, i, l) = Surplus(raw, i, k)
           /\ l = i => Surplus(raw, i, k) = 0
           /\ Opened(raw, i, l) = Closed(raw, i, l) <=> Surplus(raw, i, l) = 0
           /\ Opened(raw, i, l) > Closed(raw, i, l) <=> Surplus(raw, i, l) > 0
<1> DEFINE o == Opened(raw, i, l)
           c == Closed(raw, i, l)
           p == Opened(raw, i, k)
           q == Closed(raw, i, k)
<1>1. /\ o \in Nat /\ p \in Nat
      /\ raw[l] = "<" => o = p + 1
      /\ raw[l] # "<" => o = p
      /\ l = i => p = 0
  <2> DEFINE S == Among(raw, "<", i, k)
             T == Among(raw, "<", i, l)
  <2>1. o = Cardinality(T) /\ p = Cardinality(S)
    BY DEF Opened, Among
  <2>2. /\ Cardinality(T) \in Nat /\ Cardinality(S) \in Nat
        /\ raw[l] = "<" => Cardinality(T) = Cardinality(S) + 1
        /\ raw[l] # "<" => Cardinality(T) = Cardinality(S)
        /\ l = i => Cardinality(S) = 0
    <3> DEFINE ch == "<"
    <3> HIDE DEF ch
    <3>1. /\ Cardinality(Among(raw, ch, i, l)) \in Nat
          /\ Cardinality(Among(raw, ch, i, k)) \in Nat
      BY AmongStep
    <3>2. raw[l] = ch => Cardinality(Among(raw, ch, i, l)) =
                           Cardinality(Among(raw, ch, i, k)) + 1
      BY AmongStep
    <3>3. raw[l] # ch => Cardinality(Among(raw, ch, i, l)) =
                           Cardinality(Among(raw, ch, i, k))
      BY AmongStep
    <3>4. l = i => Cardinality(Among(raw, ch, i, k)) = 0
      BY AmongStep
    <3> QED
      BY <3>1, <3>2, <3>3, <3>4 DEF ch
  <2> HIDE DEF S, T, o, p
  <2> QED
    BY <2>1, <2>2
<1>2. /\ c \in Nat /\ q \in Nat
      /\ raw[l] = ">" => c = q + 1
      /\ raw[l] # ">" => c = q
      /\ l = i => q = 0
  <2> DEFINE S == Among(raw, ">", i, k)
             T == Among(raw, ">", i, l)
  <2>1. c = Cardinality(T) /\ q = Cardinality(S)
    BY DEF Closed, Among
  <2>2. /\ Cardinality(T) \in Nat /\ Cardinality(S) \in Nat
        /\ raw[l] = ">" => Cardinality(T) = Cardinality(S) + 1
        /\ raw[l] # ">" => Cardinality(T) = Cardinality(S)
        /\ l = i => Cardinality(S) = 0
    <3> DEFINE ch == ">"
    <3> HIDE DEF ch
    <3>1. /\ Cardinality(Among(raw, ch, i, l)) \in Nat
          /\ Cardinality(Among(raw, ch, i, k)) \in Nat
      BY AmongStep
    <3>2. raw[l] = ch => Cardinality(Among(raw, ch, i, l)) =
                           Cardinality(Among(raw, ch, i, k)) + 1
      BY AmongStep
    <3>3. raw[l] # ch => Cardinality(Among(raw, ch, i, l)) =
                           Cardinality(Among(raw, ch, i, k))
      BY AmongStep
    <3>4. l = i => Cardinality(Among(raw, ch, i, k)) = 0
      BY AmongStep
    <3> QED
      BY <3>1, <3>2, <3>3, <3>4 DEF ch
  <2> HIDE DEF S, T, c, q
  <2> QED
    BY <2>1, <2>2
<1>3. Surplus(raw, i, l) = o - c /\ Surplus(raw, i, k) = p - q
  BY DEF Surplus
<1>4. "<" # ">"
  OBVIOUS
<1> HIDE DEF o, c, p, q
<1>5. /\ Surplus(raw, i, l) \in Int /\ Surplus(raw, i, k) \in Int
      /\ raw[l] = "<" => Surplus(raw, i, l) = Surplus(raw, i, k) + 1
      /\ raw[l] = ">" => Surplus(raw, i, l) = Surplus(raw, i, k) - 1
      /\ raw[l] # "<" /\ raw[l] # ">" => Surplus(raw, i, l) = Surplus(raw, i, k)
      /\ l = i => Surplus(raw, i, k) = 0
  BY <1>1, <1>2, <1>3, <1>4
<1>6. (o = c <=> Surplus(raw, i, l) = 0) /\ (o > c <=> Surplus(raw, i, l) > 0)
  BY <1>1, <1>2, <1>3
<1> QED
  BY <1>5, <1>6 DEF o, c

\* Above the depth of its surroundings an open mark is left by closes only, so
\* that the depth is the number of marks.
StaysAbove(raw, d, i, n) ==
    \A m \in i .. n - 1 : d[m] > d[i - 1] \/ Surplus(raw, i, m) > 0

LEMMA DepthExact ==
    ASSUME NEW raw \in AnyText, NEW d, d = Depths(raw), NEW i \in 1 .. Len(raw),
           raw[i] = "<", NEW e, e = d[i - 1]
    PROVE  \A n \in i .. Len(raw) :
              StaysAbove(raw, d, i, n) => d[n] = e + Surplus(raw, i, n)
<1> DEFINE L == Len(raw)
           P == {n \in 0 .. L : n >= i /\ StaysAbove(raw, d, i, n) =>
                                    d[n] = e + Surplus(raw, i, n)}
<1>1. L \in Nat
  BY TextFacts
<1>2. e \in Nat
  BY DepthMoves
<1> HIDE DEF L
<1>3. 0 \in P
  <2>1. ~(0 >= i)
    OBVIOUS
  <2> QED
    BY <1>1, <2>1
<1>4. ASSUME NEW n \in 0 .. L, n < L, n \in P PROVE n + 1 \in P
  <2> DEFINE l == n + 1
             g == d[l - 1]
             s == Surplus(raw, i, n)
             z == Surplus(raw, i, l)
  <2>1. l \in 1 .. L /\ l \in 0 .. L /\ l - 1 = n /\ n = l - 1 /\ l \in Nat
    BY <1>1, <1>4
  <2>2. n >= i /\ StaysAbove(raw, d, i, n) => d[n] = e + s
    BY <1>4
  <2>21. g = d[n]
    BY <2>1
  <2> HIDE DEF l
  <2>3. ASSUME l >= i, StaysAbove(raw, d, i, l) PROVE d[l] = e + z
    <3>1. /\ g \in Nat /\ d[l] \in Nat
          /\ raw[l] = "<" => d[l] = g + 1
          /\ raw[l] = ">" /\ g > 0 => d[l] = g - 1
          /\ raw[l] # "<" /\ raw[l] # ">" => d[l] = g
      BY <2>1, DepthMoves DEF L
    <3>2. /\ z \in Int /\ s \in Int
          /\ raw[l] = "<" => z = s + 1
          /\ raw[l] = ">" => z = s - 1
          /\ raw[l] # "<" /\ raw[l] # ">" => z = s
          /\ l = i => s = 0
      <4>1. i \in Nat /\ i <= l
        BY <2>3
      <4> QED
        BY <2>1, <4>1, SurplusStep
    <3> HIDE DEF s, z, g
    <3>3. CASE l = i
      <4>1. g = e /\ raw[l] = "<"
        BY <3>3 DEF g
      <4> QED
        BY <1>2, <3>1, <3>2, <3>3, <4>1
    <3>4. CASE l # i
      <4>1. n >= i /\ n \in i .. l - 1
        BY <2>1, <2>3, <3>4
      <4>2. StaysAbove(raw, d, i, n)
        <5>1. \A m \in i .. n - 1 : m \in i .. l - 1
          BY <2>1
        <5> QED
          BY <2>3, <5>1 DEF StaysAbove
      <4>3. g = e + s
        BY <2>2, <2>21, <4>1, <4>2
      <4>4. g > e \/ s > 0
        BY <2>3, <2>21, <4>1 DEF StaysAbove, s
      <4>5. g > 0
        BY <1>2, <3>1, <3>2, <4>3, <4>4
      <4> QED
        BY <1>2, <3>1, <3>2, <4>3, <4>5
    <3> QED
      BY <3>3, <3>4
  <2>4. l \in P
    BY <2>1, <2>3
  <2> QED
    BY <2>4 DEF l
<1>5. \A n \in 0 .. L : n \in P
  <2> HIDE DEF P
  <2> QED
    BY <1>1, <1>3, <1>4, UpTo
<1>6. ASSUME NEW n \in i .. L, StaysAbove(raw, d, i, n) PROVE d[n] = e + Surplus(raw, i, n)
  <2>1. n \in 0 .. L /\ n >= i
    BY <1>1
  <2>2. n \in P
    BY <1>5, <2>1
  <2> QED
    BY <1>6, <2>1, <2>2
<1> QED
  BY <1>6 DEF L

\* The first element after an open mark that is no deeper than what is before.
Closes(d, i, j) == d[j] = d[i - 1] /\ \A m \in i .. j - 1 : d[m] > d[i - 1]

LEMMA MatchedIs ==
    ASSUME NEW raw \in AnyText, NEW d, d = Depths(raw), NEW i \in 1 .. Len(raw),
           raw[i] = "<", NEW j \in i .. Len(raw)
    PROVE  Matched(raw, i, j) <=> Closes(d, i, j)
<1> DEFINE L == Len(raw)
           e == d[i - 1]
<1>1. L \in Nat /\ i \in Nat /\ j \in Nat /\ i <= j
  BY TextFacts
<1>2. e \in Nat /\ \A k \in i .. L : d[k] \in Nat
  <2>1. e \in Nat
    BY DepthMoves
  <2>2. \A k \in i .. L : k \in 0 .. Len(raw)
    BY <1>1
  <2> QED
    BY <2>1, <2>2, DepthFunction
<1>3. \A n \in i .. L : StaysAbove(raw, d, i, n) => d[n] = e + Surplus(raw, i, n)
  BY DepthExact
<1>4. ASSUME NEW n \in i .. L
      PROVE  /\ Surplus(raw, i, n) \in Int
             /\ Opened(raw, i, n) = Closed(raw, i, n) <=> Surplus(raw, i, n) = 0
             /\ Opened(raw, i, n) > Closed(raw, i, n) <=> Surplus(raw, i, n) > 0
  <2>1. n \in Nat /\ i <= n /\ i \in Nat
    BY <1>1
  <2> QED
    BY <2>1, SurplusStep
<1> HIDE DEF L, e
<1>5. ASSUME StaysAbove(raw, d, i, j)
      PROVE  \A n \in i .. j : d[n] = e + Surplus(raw, i, n)
  <2> TAKE n \in i .. j
  <2>1. n \in i .. L
    BY <1>1 DEF L
  <2>2. \A m \in i .. n - 1 : m \in i .. j - 1
    BY <1>1
  <2>3. StaysAbove(raw, d, i, n)
    BY <1>5, <2>2 DEF StaysAbove
  <2> QED
    BY <1>3, <2>1, <2>3
<1>6. ASSUME Matched(raw, i, j) PROVE Closes(d, i, j)
  <2>1. Opened(raw, i, j) = Closed(raw, i, j)
        /\ \A m \in i .. j - 1 : Opened(raw, i, m) > Closed(raw, i, m)
    BY <1>6 DEF Matched
  <2>2. \A m \in i .. j - 1 : m \in i .. L /\ m \in i .. j
    BY <1>1 DEF L
  <2>3. \A m \in i .. j - 1 : Surplus(raw, i, m) > 0
    BY <1>4, <2>1, <2>2
  <2>4. StaysAbove(raw, d, i, j)
    BY <2>3 DEF StaysAbove
  <2>5. j \in i .. L /\ j \in i .. j
    BY <1>1 DEF L
  <2>6. d[j] = e
    <3>1. d[j] = e + Surplus(raw, i, j) /\ Surplus(raw, i, j) = 0
      BY <1>4, <1>5, <2>1, <2>4, <2>5
    <3> QED
      BY <1>2, <3>1
  <2>7. ASSUME NEW m \in i .. j - 1 PROVE d[m] > e
    <3>1. d[m] = e + Surplus(raw, i, m) /\ Surplus(raw, i, m) > 0
      BY <1>5, <2>2, <2>3, <2>4
    <3>2. Surplus(raw, i, m) \in Int
      BY <1>4, <2>2
    <3> QED
      BY <1>2, <3>1, <3>2
  <2> QED
    BY <2>6, <2>7 DEF Closes, e
<1>7. ASSUME Closes(d, i, j) PROVE Matched(raw, i, j)
  <2>1. d[j] = e /\ \A m \in i .. j - 1 : d[m] > e
    BY <1>7 DEF Closes, e
  <2>2. \A m \in i .. j - 1 : m \in i .. L /\ m \in i .. j
    BY <1>1 DEF L
  <2>4. StaysAbove(raw, d, i, j)
    BY <2>1 DEF StaysAbove, e
  <2>5. j \in i .. L /\ j \in i .. j
    BY <1>1 DEF L
  <2>6. Opened(raw, i, j) = Closed(raw, i, j)
    <3>1. d[j] = e + Surplus(raw, i, j) /\ Surplus(raw, i, j) \in Int
      BY <1>4, <1>5, <2>4, <2>5
    <3>2. Surplus(raw, i, j) = 0
      BY <1>2, <2>1, <3>1
    <3> QED
      BY <1>4, <2>5, <3>2
  <2>7. ASSUME NEW m \in i .. j - 1 PROVE Opened(raw, i, m) > Closed(raw, i, m)
    <3>1. d[m] = e + Surplus(raw, i, m) /\ Surplus(raw, i, m) \in Int
      BY <1>4, <1>5, <2>2, <2>4
    <3>2. Surplus(raw, i, m) > 0
      BY <1>2, <2>1, <3>1
    <3> QED
      BY <1>4, <2>2, <3>2
  <2>8. raw[j] = ">"
    <3>1. d[i] = e + 1
      BY DepthMoves DEF e
    <3>2. j # i
      BY <1>2, <2>1, <3>1
    <3> DEFINE k == j - 1
               g == d[j - 1]
    <3>3. k \in i .. j - 1 /\ j \in 1 .. Len(raw)
      BY <1>1, <3>2 DEF L
    <3>4. g > d[j]
      BY <2>1, <3>3
    <3>5. /\ g \in Nat /\ d[j] \in Nat /\ (d[j] < g => raw[j] = ">")
      BY <3>3, DepthMoves
    <3> HIDE DEF g
    <3> QED
      BY <3>4, <3>5
  <2> QED
    BY <2>6, <2>7, <2>8 DEF Matched
<1> QED
  BY <1>6, <1>7

\* An open mark is closed before the depth is what it was before it, or less.
LEMMA ClosedBefore ==
    ASSUME NEW raw \in AnyText, NEW d, d = Depths(raw), NEW i \in 1 .. Len(raw),
           raw[i] = "<", NEW n \in i .. Len(raw), d[n] <= d[i - 1]
    PROVE  \E j \in i .. n : Closes(d, i, j)
<1> DEFINE L == Len(raw)
           e == d[i - 1]
           S == {m \in i .. n : d[m] <= e}
           j == Min(S)
<1>1. L \in Nat /\ i \in Nat /\ n \in Nat /\ i <= n /\ n <= L
  BY TextFacts
<1>2. e \in Nat /\ \A k \in i .. L : d[k] \in Nat
  <2>1. e \in Nat
    BY DepthMoves
  <2>2. \A k \in i .. L : k \in 0 .. Len(raw)
    BY <1>1
  <2> QED
    BY <2>1, <2>2, DepthFunction
<1>3. n \in S /\ S \subseteq Nat
  BY <1>1
<1>4. \A m : m \in S <=> m \in i .. n /\ d[m] <= e
  OBVIOUS
<1> HIDE DEF S
<1>5. j \in S /\ \A m \in S : j <= m
  BY <1>3, LeastOf
<1> HIDE DEF j, e, L
<1>6. j \in i .. n /\ d[j] <= e /\ j \in i .. L
  BY <1>1, <1>4, <1>5
<1>7. ASSUME NEW m \in i .. j - 1 PROVE d[m] > e
  <2>1. m \in i .. n /\ ~(j <= m) /\ m \in i .. L
    BY <1>1, <1>6
  <2>2. ~(d[m] <= e)
    BY <1>4, <1>5, <2>1
  <2> QED
    BY <1>2, <2>1, <2>2
<1>8. d[j] = e
  <2>1. d[i] = e + 1
    BY DepthMoves DEF e
  <2>2. j # i
    BY <1>2, <1>6, <2>1
  <2> DEFINE k == j - 1
             g == d[j - 1]
  <2>3. k \in i .. j - 1 /\ j \in 1 .. Len(raw)
    BY <1>1, <1>6, <2>2 DEF L
  <2>4. g > e
    BY <1>7, <2>3
  <2>5. g \in Nat /\ d[j] \in Nat /\ d[j] >= g - 1
    BY <2>3, DepthMoves
  <2> HIDE DEF g
  <2> QED
    BY <1>2, <1>6, <2>4, <2>5
<1> QED
  BY <1>6, <1>7, <1>8 DEF Closes, e

\* The outermost pairs are the open marks at depth 0 with what closes them.
LEMMA PairsAre ==
    ASSUME NEW raw \in AnyText, NEW d, d = Depths(raw), NEW a, NEW b
    PROVE  <<a, b>> \in Pairs(raw) <=>
              /\ a \in 1 .. Len(raw) /\ b \in a .. Len(raw) /\ d[a - 1] = 0
              /\ raw[a] = "<" /\ Closes(d, a, b)
<1> DEFINE L == Len(raw)
<1>1. L \in Nat /\ DOMAIN raw = 1 .. L
  BY TextFacts
<1>2. <<a, b>> \in Pairs(raw) <=>
         /\ a \in 1 .. L /\ b \in 1 .. L /\ a < b /\ d[a - 1] = 0 /\ d[b] = 0
         /\ \A k \in a .. b - 1 : d[k] > 0
  <2> DEFINE A == 1 .. L
             R == {p \in A \X A :
                      /\ p[1] < p[2] /\ d[p[1] - 1] = 0 /\ d[p[2]] = 0
                      /\ \A k \in p[1] .. p[2] - 1 : d[k] > 0}
  <2>1. Pairs(raw) = R
    BY <1>1 DEF Pairs
  <2> HIDE DEF A
  <2>2. <<a, b>> \in A \X A <=> a \in A /\ b \in A
    OBVIOUS
  <2>3. <<a, b>>[1] = a /\ <<a, b>>[2] = b
    OBVIOUS
  <2>4. <<a, b>> \in R <=>
           /\ a \in A /\ b \in A /\ a < b /\ d[a - 1] = 0 /\ d[b] = 0
           /\ \A k \in a .. b - 1 : d[k] > 0
    BY <2>2, <2>3
  <2> QED
    BY <2>1, <2>4 DEF A
<1>3. ASSUME a \in 1 .. L, b \in 1 .. L, a < b, d[a - 1] = 0, d[b] = 0,
             \A k \in a .. b - 1 : d[k] > 0
      PROVE  b \in a .. L /\ raw[a] = "<" /\ Closes(d, a, b)
  <2> DEFINE e == d[a - 1]
  <2>1. a \in a .. b - 1 /\ b \in a .. L
    BY <1>1, <1>3
  <2>2. d[a] > e /\ e = 0
    BY <1>3, <2>1
  <2>3. a \in 1 .. Len(raw) /\ e = d[a - 1]
    BY <1>3
  <2> HIDE DEF e
  <2>4. raw[a] = "<"
    BY <2>2, <2>3, DepthMoves
  <2> QED
    BY <1>3, <2>1, <2>4 DEF Closes
<1>4. ASSUME a \in 1 .. L, b \in a .. L, d[a - 1] = 0, raw[a] = "<", Closes(d, a, b)
      PROVE  b \in 1 .. L /\ a < b /\ d[b] = 0 /\ \A k \in a .. b - 1 : d[k] > 0
  <2> DEFINE e == d[a - 1]
  <2>1. d[b] = 0 /\ \A k \in a .. b - 1 : d[k] > 0
    BY <1>4 DEF Closes
  <2>2. a \in 1 .. Len(raw) /\ e = d[a - 1] /\ e = 0
    BY <1>4
  <2> HIDE DEF e
  <2>3. d[a] = 1
    BY <1>4, <2>2, DepthMoves
  <2>4. a # b
    BY <2>1, <2>3
  <2>5. b \in 1 .. L /\ a < b
    BY <1>1, <1>4, <2>4
  <2> QED
    BY <2>1, <2>5
<1> QED
  BY <1>2, <1>3, <1>4 DEF L

\* A letter is meant to be doubted if and only if it stands in such a pair.
LEMMA MeantIs ==
    ASSUME NEW raw \in AnyText, NEW p \in 1 .. Len(raw), raw[p] \notin Marks
    PROVE  MeantAt(raw, p) <=>
              \E a, b \in 1 .. Len(raw) : <<a, b>> \in Pairs(raw) /\ a < p /\ p <= b
<1> DEFINE L == Len(raw)
<1>0. PICK d : d = Depths(raw)
  OBVIOUS
<1>1. L \in Nat /\ p \in Nat /\ p <= L /\ 1 <= p
  BY TextFacts
<1>2. raw[p] # "<" /\ raw[p] # ">"
  BY DEF Marks
<1>3. /\ d[0] = 0 /\ \A k \in 0 .. L : d[k] \in Nat
  BY <1>0, DepthFunction
<1> HIDE DEF L
<1>4. ASSUME NEW a \in 1 .. L, NEW b \in 1 .. L, <<a, b>> \in Pairs(raw), a < p, p <= b
      PROVE  MeantAt(raw, p)
  <2>1. b \in a .. L /\ d[a - 1] = 0 /\ raw[a] = "<" /\ Closes(d, a, b)
    BY <1>0, <1>4, PairsAre DEF L
  <2>2. Matched(raw, a, b)
    BY <1>0, <2>1, MatchedIs DEF L
  <2>3. ASSUME NEW h \in 1 .. a - 1, raw[h] = "<"
        PROVE  \E l \in h .. Len(raw) : Matched(raw, h, l)
    <3> DEFINE n == a - 1
               e == d[h - 1]
    <3>1. h \in 1 .. Len(raw) /\ n \in h .. Len(raw)
      BY <1>1 DEF L
    <3>2. d[n] = 0
      BY <2>1
    <3>3. e \in Nat
      BY <1>0, <3>1, DepthMoves
    <3>4. d[n] <= e
      <4> HIDE DEF e, n
      <4> QED
        BY <3>2, <3>3
    <3> HIDE DEF n
    <3>5. PICK l \in h .. n : Closes(d, h, l)
      BY <1>0, <2>3, <3>1, <3>4, ClosedBefore
    <3>6. l \in h .. Len(raw)
      BY <1>1, <3>1 DEF L
    <3>7. Matched(raw, h, l)
      BY <1>0, <2>3, <3>1, <3>5, <3>6, MatchedIs
    <3> QED
      BY <3>6, <3>7
  <2>4. a \in 1 .. p /\ b \in p .. Len(raw)
    BY <1>1, <1>4 DEF L
  <2> QED
    BY <2>2, <2>3, <2>4 DEF MeantAt
<1>5. ASSUME MeantAt(raw, p)
      PROVE  \E a, b \in 1 .. L : <<a, b>> \in Pairs(raw) /\ a < p /\ p <= b
  <2>1. PICK i \in 1 .. p, j \in p .. Len(raw) :
           /\ Matched(raw, i, j)
           /\ \A h \in 1 .. i - 1 :
                raw[h] = "<" => \E l \in h .. Len(raw) : Matched(raw, h, l)
    BY <1>5 DEF MeantAt
  <2>2. raw[i] = "<" /\ i # p
    BY <1>2, <2>1 DEF Matched
  <2>3. /\ i \in 1 .. Len(raw) /\ j \in i .. Len(raw) /\ i \in Nat /\ j \in Nat
        /\ i < p /\ p <= j /\ j <= L
    BY <1>1, <2>2 DEF L
  <2>4. Closes(d, i, j)
    BY <1>0, <2>1, <2>2, <2>3, MatchedIs
  <2> DEFINE S == {x \in 1 .. i : d[x - 1] = 0}
             a == Max(S)
  <2>5. 1 \in S /\ S \subseteq Nat /\ \A x \in S : x <= i
    BY <1>3, <2>3
  <2>6. \A x : x \in S <=> x \in 1 .. i /\ d[x - 1] = 0
    OBVIOUS
  <2> HIDE DEF S
  <2>7. a \in S /\ \A x \in S : a >= x
    BY <2>3, <2>5, GreatestOf
  <2> HIDE DEF a
  <2>8. a \in 1 .. i /\ d[a - 1] = 0 /\ a \in 1 .. Len(raw) /\ a \in 1 .. L
    BY <1>1, <2>3, <2>6, <2>7 DEF L
  <2>9. \A m \in a .. i - 1 : d[m] > 0
    <3> TAKE m \in a .. i - 1
    <3> DEFINE x == m + 1
    <3>1. x \in 1 .. i /\ ~(a >= x) /\ x - 1 = m /\ m \in 0 .. L
      BY <1>1, <2>3, <2>8
    <3> HIDE DEF x
    <3>2. d[m] # 0
      BY <2>6, <2>7, <3>1
    <3>3. d[m] \in Nat
      BY <1>3, <3>1
    <3> QED
      BY <3>2, <3>3
  <2>10. raw[a] = "<"
    <3>1. CASE a = i
      BY <2>2, <3>1
    <3>2. CASE a # i
      <4> DEFINE e == d[a - 1]
      <4>1. a \in a .. i - 1
        BY <2>3, <2>8, <3>2
      <4>2. d[a] > e
        BY <2>8, <2>9, <4>1
      <4>3. e = d[a - 1]
        OBVIOUS
      <4> HIDE DEF e
      <4> QED
        BY <1>0, <2>8, <4>2, <4>3, DepthMoves
    <3> QED
      BY <3>1, <3>2
  <2>11. \E b \in a .. L : Closes(d, a, b) /\ p <= b
    <3>1. CASE a = i
      <4>1. j \in a .. L
        BY <2>3, <3>1
      <4> QED
        BY <2>3, <2>4, <3>1, <4>1
    <3>2. CASE a # i
      <4>1. a \in 1 .. i - 1
        BY <2>3, <2>8, <3>2
      <4>2. PICK b \in a .. Len(raw) : Matched(raw, a, b)
        BY <2>1, <2>10, <4>1
      <4>3. Closes(d, a, b)
        BY <1>0, <2>8, <2>10, <4>2, MatchedIs
      <4>4. d[b] = 0
        BY <2>8, <4>3 DEF Closes
      <4>5. ~(b \in a .. i - 1)
        BY <2>9, <4>4
      <4>6. b >= i /\ b \in a .. L
        BY <1>1, <2>3, <2>8, <4>2, <4>5 DEF L
      <4>7. ~(b \in i .. j - 1)
        <5> SUFFICES ASSUME b \in i .. j - 1 PROVE FALSE
          OBVIOUS
        <5> DEFINE e == d[i - 1]
        <5>1. d[b] > e
          BY <2>4 DEF Closes
        <5>2. e \in Nat
          <6>1. i - 1 \in 0 .. L
            BY <1>1, <2>3
          <6> QED
            BY <1>3, <6>1
        <5> HIDE DEF e
        <5> QED
          BY <4>4, <5>1, <5>2
      <4>8. p <= b
        BY <1>1, <2>3, <4>6, <4>7
      <4> QED
        BY <4>3, <4>6, <4>8
    <3> QED
      BY <3>1, <3>2
  <2>12. PICK b \in a .. L : Closes(d, a, b) /\ p <= b
    BY <2>11
  <2>13. b \in 1 .. L /\ b \in a .. Len(raw)
    BY <1>1, <2>8 DEF L
  <2>14. <<a, b>> \in Pairs(raw)
    BY <1>0, <2>8, <2>10, <2>12, <2>13, PairsAre
  <2>15. a < p
    BY <2>3, <2>8
  <2> QED
    BY <2>8, <2>12, <2>13, <2>14, <2>15
<1> QED
  BY <1>4, <1>5 DEF L

\* Element number l of what is left without the marks is kept in front of place
\* b if and only if it stands there.
LEMMA KeptIs ==
    ASSUME NEW raw \in AnyText, NEW U, U = Unmarked(raw), NEW ks, NEW n,
           Ascends(ks, U, n), NEW b \in Nat, NEW l \in 1 .. n
    PROVE  Kept(raw, b) \in Nat /\ (l <= Kept(raw, b) <=> ks[l] <= b)
<1> DEFINE J == {i \in 0 .. n : i = 0 \/ ks[i] <= b}
           m == Max(J)
           V == U \cap 1 .. b
           r == [i \in 1 .. m |-> ks[i]]
<1>1. U \subseteq 1 .. Len(raw) /\ Len(raw) \in Nat
  BY CleanFacts, TextFacts
<1>2. /\ n \in Nat /\ ks \in [1 .. n -> U]
      /\ \A x \in U : \E i \in 1 .. n : ks[i] = x
      /\ \A i, j \in 1 .. n : i < j => ks[i] < ks[j]
  BY DEF Ascends
<1>3. \A i \in 1 .. n : ks[i] \in U /\ ks[i] \in Nat /\ ks[i] >= 1
  BY <1>1, <1>2
<1>4. 0 \in J /\ J \subseteq Nat /\ \A i \in J : i <= n
  BY <1>2
<1>5. \A i : i \in J <=> i \in 0 .. n /\ (i = 0 \/ ks[i] <= b)
  OBVIOUS
<1> HIDE DEF J
<1>6. m \in J /\ \A i \in J : m >= i
  BY <1>2, <1>4, GreatestOf
<1> HIDE DEF m
<1>7. m \in 0 .. n /\ m \in Nat /\ m <= n
  BY <1>2, <1>5, <1>6
<1>8. ASSUME NEW i \in 1 .. n PROVE i <= m <=> ks[i] <= b
  <2>1. ASSUME ks[i] <= b PROVE i <= m
    <3>1. i \in J
      BY <1>2, <1>5, <2>1
    <3> QED
      BY <1>6, <1>7, <3>1
  <2>2. ASSUME i <= m PROVE ks[i] <= b
    <3>1. m # 0 /\ m \in 1 .. n
      BY <1>7, <2>2
    <3>2. ks[m] <= b
      BY <1>5, <1>6, <3>1
    <3>3. i = m \/ i < m
      BY <1>7, <2>2
    <3>4. CASE i = m
      BY <3>2, <3>4
    <3>5. CASE i < m
      <4>1. ks[i] < ks[m]
        BY <1>2, <3>1, <3>5
      <4>2. ks[i] \in Nat /\ ks[m] \in Nat
        BY <1>3, <3>1
      <4> QED
        BY <3>2, <4>1, <4>2
    <3> QED
      BY <3>3, <3>4, <3>5
  <2> QED
    BY <2>1, <2>2
<1>9. ASSUME NEW i \in 1 .. m PROVE i \in 1 .. n /\ r[i] = ks[i] /\ ks[i] \in V
  <2>1. i \in 1 .. n /\ i <= m
    BY <1>2, <1>7
  <2>2. ks[i] <= b
    BY <1>8, <2>1
  <2>3. ks[i] \in U /\ ks[i] \in 1 .. b
    BY <1>3, <2>1, <2>2
  <2> QED
    BY <2>1, <2>3
<1>10. ASSUME NEW x \in V PROVE \E i \in 1 .. m : r[i] = x
  <2>1. x \in U /\ x <= b
    OBVIOUS
  <2>2. PICK i \in 1 .. n : ks[i] = x
    BY <1>2, <2>1
  <2>3. i <= m
    BY <1>8, <2>1, <2>2
  <2>4. i \in 1 .. m
    BY <1>7, <2>3
  <2> QED
    BY <1>9, <2>2, <2>4
<1>11. r \in [1 .. m -> V]
  BY <1>9
<1>12. \A i, j \in 1 .. m : i < j => r[i] < r[j]
  BY <1>2, <1>9
<1>13. V \subseteq Int
  BY <1>1
<1>14. Kept(raw, b) = Cardinality(V)
  BY DEF Kept
<1> HIDE DEF r, V
<1>15. Ascends(r, V, m)
  BY <1>7, <1>10, <1>11, <1>12 DEF Ascends
<1>16. Cardinality(V) = m
  BY <1>13, <1>15, AscendsFinite
<1> QED
  BY <1>7, <1>8, <1>14, <1>16

\* The offsets that are marked are those of the letters that are meant.
LEMMA MarkedIs ==
    ASSUME NEW raw \in AnyText, NEW ks, NEW n, Ascends(ks, Unmarked(raw), n),
           NEW l \in 1 .. n, l - 1 \in Letters(Clean(raw))
    PROVE  l - 1 \in MarkedOffsets(raw) <=> MeantAt(raw, ks[l])
<1> DEFINE U == Unmarked(raw)
           t == Clean(raw)
           p == ks[l]
           k == l - 1
           Range0(a, b) == Kept(raw, a) .. Kept(raw, b) - 1
<1>1. /\ U \subseteq 1 .. Len(raw) /\ Len(raw) \in Nat /\ t \in AnyText
      /\ \A x \in U : raw[x] \notin Marks
  BY CleanFacts, TextFacts DEF Unmarked
<1>2. n \in Nat /\ p \in U
  BY DEF Ascends
<1>3. p \in 1 .. Len(raw) /\ raw[p] \notin Marks
  BY <1>1, <1>2
<1>4. MeantAt(raw, p) <=>
         \E a, b \in 1 .. Len(raw) : <<a, b>> \in Pairs(raw) /\ a < p /\ p <= b
  BY <1>3, MeantIs
<1>5. k \in MarkedOffsets(raw) <=>
         \E q \in Pairs(raw) : k \in Trimmed(t, Range0(q[1], q[2]))
  BY DEF MarkedOffsets
<1>6. \A K : k \in Trimmed(t, K) <=> k \in K
  <2> TAKE K
  <2>1. k \in Letters(t) /\ k \in Int
    BY <1>2
  <2>2. k <= k
    BY <2>1
  <2>3. k \in K => k \in K \cap Letters(t)
    BY <2>1
  <2> HIDE DEF k, t
  <2> QED
    BY <2>2, <2>3 DEF Trimmed
<1>7. ASSUME NEW a \in 1 .. Len(raw), NEW b \in 1 .. Len(raw)
      PROVE  k \in Range0(a, b) <=> a < p /\ p <= b
  <2>1. a \in Nat /\ b \in Nat /\ p \in Nat
    BY <1>1, <1>3
  <2>2. Kept(raw, a) \in Nat /\ (l <= Kept(raw, a) <=> p <= a)
    BY <2>1, KeptIs
  <2>3. Kept(raw, b) \in Nat /\ (l <= Kept(raw, b) <=> p <= b)
    BY <2>1, KeptIs
  <2>4. l \in Int
    BY <1>2
  <2> DEFINE x == Kept(raw, a)
             y == Kept(raw, b)
  <2>5. k \in x .. y - 1 <=> ~(l <= x) /\ l <= y
    <3> HIDE DEF x, y
    <3> QED
      BY <2>2, <2>3, <2>4 DEF x, y
  <2>6. ~(p <= a) <=> a < p
    BY <2>1
  <2> QED
    BY <2>2, <2>3, <2>5, <2>6
<1>8. \A q \in Pairs(raw) : /\ q[1] \in 1 .. Len(raw) /\ q[2] \in 1 .. Len(raw)
                            /\ q = <<q[1], q[2]>>
  BY TextFacts DEF Pairs
<1> HIDE DEF k, t, p, Range0
<1>9. ASSUME k \in MarkedOffsets(raw) PROVE MeantAt(raw, p)
  <2>1. PICK q \in Pairs(raw) : k \in Trimmed(t, Range0(q[1], q[2]))
    BY <1>5, <1>9
  <2>2. q[1] \in 1 .. Len(raw) /\ q[2] \in 1 .. Len(raw) /\ <<q[1], q[2]>> \in Pairs(raw)
    BY <1>8
  <2>3. k \in Range0(q[1], q[2])
    BY <1>6, <2>1
  <2>4. q[1] < p /\ p <= q[2]
    BY <1>7, <2>2, <2>3
  <2> QED
    BY <1>4, <2>2, <2>4
<1>10. ASSUME MeantAt(raw, p) PROVE k \in MarkedOffsets(raw)
  <2>1. PICK a \in 1 .. Len(raw), b \in 1 .. Len(raw) :
           <<a, b>> \in Pairs(raw) /\ a < p /\ p <= b
    BY <1>4, <1>10
  <2>2. k \in Trimmed(t, Range0(a, b))
    BY <1>6, <1>7, <2>1
  <2> DEFINE q == <<a, b>>
  <2>3. q \in Pairs(raw) /\ q[1] = a /\ q[2] = b
    BY <2>1
  <2> HIDE DEF q
  <2> QED
    BY <1>5, <2>2, <2>3
<1> QED
  BY <1>9, <1>10 DEF k, p

\* The letters of a page, with the doubts that were meant.
LEMMA PageFlagged ==
    ASSUME NEW raw \in AnyText, NEW provider
    PROVE  FlaggedPart(PageResult(provider, raw)) = MeantOnPage(raw)
<1> DEFINE c == Clean(raw)
           M == MarkedOffsets(raw)
           U == Unmarked(raw)
           N == Cardinality(U)
           ks == Sorted(U)
           I == Lettered(c)
           ls == Sorted(I)
           n == Cardinality(I)
           f == Flags(c, M)
           q == Elements(f, I)
           a == [x \in 1 .. n |-> ks[ls[x]]]
           K == {k \in DOMAIN raw : raw[k] \notin Blank \cup Marks}
<1>1. FlaggedPart(PageResult(provider, raw)) = Flagged(c, M)
  <2> DEFINE s == PageResult(provider, raw).text
  <2>1. /\ PageResult(provider, raw).doubts = M /\ c \in AnyText
        /\ s = IF provider = "gemini" THEN Reflowed(c) ELSE c
    BY PageTyped, CleanFacts
  <2>2. Flagged(Reflowed(c), M) = Flagged(c, M)
    <3> DEFINE r == Reflowed(c)
    <3>1. /\ r \in AnyText /\ Len(r) = Len(c)
          /\ \A i \in 1 .. Len(c) : r[i] = c[i] \/ (c[i] = "/" /\ r[i] = " ")
      BY <2>1, ReflowedFacts
    <3>2. "/" \in Blank /\ " " \in Blank
      BY DEF Blank
    <3> HIDE DEF r, c, M
    <3>3. Alike(r, M, c, M)
      BY <3>1, <3>2 DEF Alike
    <3>4. r \in AnyText /\ c \in AnyText
      BY <2>1, <3>1
    <3>5. Flagged(r, M) = Flagged(c, M)
      BY <3>3, <3>4, FlaggedSame
    <3> QED
      BY <3>5 DEF r
  <2> QED
    BY <2>1, <2>2 DEF FlaggedPart
<1>2. /\ DOMAIN raw = 1 .. Len(raw) /\ Len(raw) \in Nat /\ c \in AnyText
      /\ U \in SUBSET (1 .. Len(raw))
      /\ \A k \in 1 .. Len(raw) : k \in U <=> raw[k] \notin Marks
  <2>1. DOMAIN raw = 1 .. Len(raw) /\ Len(raw) \in Nat
    BY TextFacts
  <2> QED
    BY <2>1, CleanFacts DEF Unmarked
<1>3. /\ Ascends(ks, U, N) /\ N \in Nat /\ Len(c) = N
      /\ \A l \in 1 .. N : c[l] = raw[ks[l]]
  <2>1. raw \in Seq(Character)
    BY DEF AnyText
  <2> HIDE DEF U
  <2>2. /\ Cardinality(U) \in Nat
        /\ Len(Elements(raw, U)) = Cardinality(U)
        /\ Ascends(Sorted(U), U, Cardinality(U))
        /\ \A l \in 1 .. Cardinality(U) : Elements(raw, U)[l] = raw[Sorted(U)[l]]
    BY <1>2, <2>1, ElementsPicked
  <2> QED
    BY <2>2 DEF Clean, U
<1>4. /\ ks \in [1 .. N -> U]
      /\ \A x \in U : \E i \in 1 .. N : ks[i] = x
      /\ \A i, j \in 1 .. N : i < j => ks[i] < ks[j]
  BY <1>3 DEF Ascends
<1>5. /\ f \in Seq(Flag) /\ Len(f) = N /\ I \in SUBSET (1 .. N)
      /\ \A k \in 1 .. N : f[k] = FlagOf(c[k], k - 1 \in M)
  <2>1. /\ f \in Seq(Flag) /\ Len(f) = Len(c) /\ I \in SUBSET (1 .. Len(c))
        /\ \A k \in 1 .. Len(c) : f[k] = FlagOf(c[k], k - 1 \in M)
    BY <1>2, FlagsFacts
  <2> HIDE DEF c, f, I, N, M
  <2> QED
    BY <1>3, <2>1
<1>6. \A l \in 1 .. N : l \in I <=> c[l] \notin Blank
  <2>1. \A l \in 1 .. Len(c) : l \in I <=> c[l] \notin Blank
    BY DEF Lettered
  <2> HIDE DEF c, I, N
  <2> QED
    BY <1>3, <2>1
<1>7. ASSUME NEW l \in I
      PROVE  l \in 1 .. N /\ ks[l] \in U /\ (l - 1 \in M) = MeantAt(raw, ks[l])
  <2>1. l \in 1 .. N /\ c[l] \notin Blank
    BY <1>5, <1>6
  <2>2. l - 1 \in Letters(c)
    <3> DEFINE k == l - 1
    <3>1. k \in Int /\ 0 <= k /\ k < Len(c) /\ k + 1 = l
      <4> HIDE DEF c, N, I
      <4> QED
        BY <1>3, <2>1
    <3> HIDE DEF k, c
    <3>2. k \in Letters(c)
      BY <1>2, <2>1, <3>1, LettersOf
    <3> QED
      BY <3>2 DEF k
  <2>3. l - 1 \in M <=> MeantAt(raw, ks[l])
    <3> HIDE DEF N, ks, I
    <3> QED
      BY <1>3, <2>1, <2>2, MarkedIs
  <2>4. ks[l] \in U
    BY <1>4, <2>1
  <2>5. MeantAt(raw, ks[l]) \in BOOLEAN
    BY DEF MeantAt
  <2> QED
    BY <2>1, <2>3, <2>4, <2>5
<1> HIDE DEF c, M, U, N, ks, I, f
<1>8. /\ q \in Seq(Flag) /\ Len(q) = n /\ n \in Nat /\ Ascends(ls, I, n)
      /\ \A x \in 1 .. n : q[x] = f[ls[x]]
  <2>1. I \in SUBSET (1 .. Len(f))
    BY <1>5
  <2> QED
    BY <1>5, <2>1, ElementsPicked
<1>9. /\ ls \in [1 .. n -> I]
      /\ \A x \in I : \E i \in 1 .. n : ls[i] = x
      /\ \A i, j \in 1 .. n : i < j => ls[i] < ls[j]
  BY <1>8 DEF Ascends
<1> HIDE DEF q, n, ls
<1>10. ASSUME NEW x \in 1 .. n
       PROVE  /\ ls[x] \in I /\ ls[x] \in 1 .. N /\ a[x] = ks[ls[x]] /\ a[x] \in K
              /\ q[x] = <<raw[a[x]], MeantAt(raw, a[x])>>
  <2> DEFINE l == ls[x]
             p == ks[l]
  <2>1. l \in I
    BY <1>9
  <2>2. l \in 1 .. N /\ p \in U /\ (l - 1 \in M) = MeantAt(raw, p)
    BY <1>7, <2>1
  <2>3. c[l] = raw[p] /\ c[l] \notin Blank
    BY <1>3, <1>6, <2>1, <2>2
  <2>4. p \in K
    BY <1>2, <2>2, <2>3
  <2>5. q[x] = FlagOf(c[l], l - 1 \in M)
    BY <1>5, <1>8, <2>2
  <2>6. a[x] = p
    OBVIOUS
  <2> HIDE DEF l, p, K, a
  <2>7. q[x] = <<raw[p], MeantAt(raw, p)>>
    BY <2>2, <2>3, <2>5 DEF FlagOf
  <2> QED
    BY <2>1, <2>2, <2>4, <2>6, <2>7 DEF l, p
<1>11. ASSUME NEW y \in K PROVE \E x \in 1 .. n : a[x] = y
  <2>1. y \in 1 .. Len(raw) /\ raw[y] \notin Blank /\ raw[y] \notin Marks
    BY <1>2
  <2>2. y \in U
    BY <1>2, <2>1
  <2>3. PICK l \in 1 .. N : ks[l] = y
    BY <1>4, <2>2
  <2>4. l \in I
    BY <1>3, <1>6, <2>1, <2>3
  <2>5. PICK x \in 1 .. n : ls[x] = l
    BY <1>9, <2>4
  <2> QED
    BY <1>10, <2>3, <2>5
<1>12. ASSUME NEW i \in 1 .. n, NEW j \in 1 .. n, i < j PROVE a[i] < a[j]
  <2>1. ls[i] < ls[j] /\ ls[i] \in 1 .. N /\ ls[j] \in 1 .. N
    BY <1>9, <1>10, <1>12
  <2>2. ks[ls[i]] < ks[ls[j]]
    BY <1>4, <2>1
  <2> QED
    BY <1>10, <2>2
<1>13. a \in [1 .. n -> K]
  BY <1>10
<1>14. K \subseteq Int
  BY <1>2
<1> HIDE DEF a, K
<1>15. Ascends(a, K, n)
  BY <1>8, <1>11, <1>12, <1>13 DEF Ascends
<1>16. Sorted(K) = a
  BY <1>14, <1>15, SortedIs
<1>17. MeantOnPage(raw) = [x \in 1 .. n |-> <<raw[a[x]], MeantAt(raw, a[x])>>]
  <2>1. DOMAIN a = 1 .. n
    BY <1>13
  <2>2. MeantOnPage(raw) = [x \in DOMAIN Sorted(K) |->
                               <<raw[Sorted(K)[x]], MeantAt(raw, Sorted(K)[x])>>]
    BY DEF MeantOnPage, K
  <2> QED
    BY <1>16, <2>1, <2>2
<1>18. q = MeantOnPage(raw)
  <2>1. q = [x \in 1 .. n |-> q[x]]
    BY <1>8
  <2> QED
    BY <1>10, <1>17, <2>1
<1>19. Flagged(c, M) = q
  BY <1>2, FlaggedAre DEF q, f, I
<1> QED
  BY <1>1, <1>18, <1>19

-----------------------------------------------------------------------------
LEMMA DoubtsTravelHolds == ReadInv => DoubtsTravel
<1> SUFFICES ASSUME ReadInv, entry.state = "stored" PROVE
                /\ request.kind # "text" =>
                     Flagged(entry.text, entry.doubts) =
                         FlattenSeq([i \in DOMAIN said |-> Meant(i)])
                /\ IsSuffix(Flagged(entry.final, {}), Flagged(entry.text, {}))
  BY DEF DoubtsTravel
<1>1. /\ request \in Uploads /\ entry.text \in AnyText /\ entry.final \in AnyText
      /\ parts \in Seq(Part) /\ said \in Seq(Seq(Replies[request.replies]))
      /\ \A i \in 1 .. Len(said) : Len(said[i]) = Readers(request)
      /\ \A i \in 1 .. Len(parts) : parts[i] = ResultOf(request, said[i])
  BY DEF ReadInv, EntryInv, SaidInv
<1>2. CASE request.kind = "text"
  <2> DEFINE q == Flagged(entry.text, {})
             e == <<>>
  <2>1. entry.final = entry.text
    BY <1>2 DEF ReadInv, EntryInv
  <2>2. q \in Seq(Flag)
    BY <1>1, FlaggedTyped
  <2>3. e \in Seq(Flag)
    BY EmptySeq
  <2> HIDE DEF q, e
  <2>4. q = Coupled(e, q)
    BY <2>2 DEF Coupled, e
  <2>5. IsSuffix(q, q)
    BY <2>2, <2>3, <2>4, SuffixOf
  <2> QED
    BY <1>2, <2>1, <2>5 DEF q
<1>3. CASE request.kind # "text"
  <2> DEFINE x == [text |-> entry.text, doubts |-> entry.doubts]
             sep == Separator(request)
  <2>1. /\ Len(parts) = Len(said)
        /\ x = Joined(parts, sep) /\ FinalOf(entry.text, entry.final)
    BY <1>3 DEF ReadInv, EntryInv
  <2>2. IsSuffix(Flagged(entry.final, {}), Flagged(entry.text, {}))
    BY <1>1, <2>1, FinalSuffix
  <2>3. sep \in {Break, BlankLine}
    BY DEF Separator
  <2>4. FlaggedPart(x) = Flagged(entry.text, entry.doubts)
    BY DEF FlaggedPart
  <2> HIDE DEF x, sep
  <2>5. FlaggedPart(x) = FlattenSeq([i \in 1 .. Len(parts) |-> FlaggedPart(parts[i])])
    BY <1>1, <2>1, <2>3, JoinedFlagged
  <2>6. ASSUME NEW i \in 1 .. Len(parts) PROVE FlaggedPart(parts[i]) = Meant(i)
    <3>1. CASE request.kind = "image" /\ request.reader # "dual"
      <4> DEFINE h == said[i]
                 r == h[1]
      <4>1. i \in 1 .. Len(said)
        BY <2>1
      <4>2. h \in Seq(Replies[request.replies]) /\ Len(h) = 1
        BY <1>1, <3>1, <4>1 DEF Readers
      <4>3. r \in Replies[request.replies]
        <5> DEFINE R == Replies[request.replies]
        <5> HIDE DEF h, R
        <5>1. 1 \in 1 .. Len(h)
          BY <4>2
        <5>2. h \in Seq(R)
          BY <4>2 DEF R
        <5>3. h[1] \in R
          BY <5>1, <5>2, ElementOfSeq
        <5> QED
          BY <5>3 DEF R
      <4>4. r \in AnyText
        BY <1>1, <3>1, <4>3, UploadFacts
      <4>5. parts[i] = PageResult(request.reader, r)
        BY <1>1, <3>1 DEF ResultOf
      <4>6. Meant(i) = MeantOnPage(r)
        BY <3>1 DEF Meant
      <4> HIDE DEF r
      <4> QED
        BY <4>4, <4>5, <4>6, PageFlagged
    <3>2. CASE ~(request.kind = "image" /\ request.reader # "dual")
      BY <3>2 DEF Meant, FlaggedPart
    <3> QED
      BY <3>1, <3>2
  <2>7. DOMAIN said = 1 .. Len(parts)
    BY <1>1, <2>1
  <2>8. [i \in 1 .. Len(parts) |-> FlaggedPart(parts[i])] =
           [i \in DOMAIN said |-> Meant(i)]
    BY <2>6, <2>7
  <2> QED
    BY <2>2, <2>4, <2>5, <2>8
<1> QED
  BY <1>2, <1>3

\* However the parts of an entry are marked, padded, retried and joined, a letter
\* of its text is doubted if and only if the model that read it marked it, and
\* the text that is shown is the end of it, letter for letter
\* (parse_uncertain_markers, _strip_and_shift_page_spans, format_paragraphs).
THEOREM LettersKeepDoubts == Spec => []DoubtsTravel
<1>1. ReadInv => DoubtsTravel
  BY DoubtsTravelHolds
<1>2. Spec => []ReadInv
  BY ReadInvariant
<1> QED
  BY <1>1, <1>2, PTL
=============================================================================
