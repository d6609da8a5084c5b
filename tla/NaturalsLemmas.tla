--------------------------- MODULE NaturalsLemmas ---------------------------
(***************************************************************************)
(* Facts about natural numbers that the proofs about walks rest on.        *)
(* Induction is stated for a set instead of a predicate, so that it can be *)
(* cited where only first-order provers are at hand.                       *)
(***************************************************************************)
EXTENDS Integers, WellFoundedInduction, FiniteSetTheorems, TLAPS

LEMMA LeastNatural ==
    ASSUME NEW S \in SUBSET Nat, S # {}
    PROVE  \E m \in S : \A n \in S : m <= n
<1> DEFINE R == {p \in Nat \X Nat : p[1] < p[2]}
<1>1. IsWellFoundedOn(R, Nat)
  BY NatLessThanWellFounded, Zenon DEF OpToRel
<1> HIDE DEF R
<1>2. PICK m \in S : \A n \in S : ~ (<<n, m>> \in R)
  BY <1>1, WFMin
<1>3. \A n \in S : ~ (n < m)
  BY <1>2 DEF R
<1> QED BY <1>3

LEMMA Induction ==
    ASSUME NEW S, 0 \in S, \A n \in Nat : n \in S => n + 1 \in S
    PROVE  Nat \subseteq S
<1> SUFFICES ASSUME Nat \ S # {} PROVE FALSE
  OBVIOUS
<1>1. PICK m \in Nat \ S : \A n \in Nat \ S : m <= n
  BY LeastNatural
<1>2. m # 0 /\ m - 1 \in Nat
  BY <1>1
<1>3. m - 1 \in S
  BY <1>1, <1>2
<1>4. (m - 1) + 1 \in S
  BY <1>2, <1>3
<1> QED BY <1>1, <1>4

LEMMA UpTo ==
    ASSUME NEW n \in Nat
    PROVE  IsFiniteSet(1..n) /\ Cardinality(1..n) = n
<1>1. 1 \in Int /\ n \in Int
  OBVIOUS
<1>2. IsFiniteSet(1..n) /\ Cardinality(1..n) = IF 1 > n THEN 0 ELSE n - 1 + 1
  BY <1>1, FS_Interval, Zenon
<1> QED BY <1>2

LEMMA CountSubset ==
    ASSUME NEW n \in Nat, NEW S \in SUBSET (1..n)
    PROVE  IsFiniteSet(S) /\ Cardinality(S) \in Nat /\ Cardinality(S) <= n
<1>1. IsFiniteSet(1..n) /\ Cardinality(1..n) = n
  BY UpTo
<1>2. IsFiniteSet(S) /\ Cardinality(S) <= Cardinality(1..n)
  BY <1>1, FS_Subset, Zenon
<1> QED BY <1>1, <1>2, FS_CardinalityType

(* Of n different things there are n. *)
LEMMA CountDistinct ==
    ASSUME NEW n \in Nat, NEW f, DOMAIN f = 1..n,
           \A i, j \in 1..n : f[i] = f[j] => i = j
    PROVE  Cardinality({f[k] : k \in 1..n}) = n
<1> DEFINE T == {f[k] : k \in 1..n}
           g == [k \in 1..n |-> f[k]]
<1>1. g \in Surjection(1..n, T) /\ g \in Injection(1..n, T)
  BY DEF Surjection, Injection, IsInjective
<1>2. IsFiniteSet(1..n) /\ Cardinality(1..n) = n
  BY UpTo
<1> HIDE DEF T, g
<1>3. Cardinality(T) = Cardinality(1..n)
  BY <1>1, <1>2, FS_Surjection, Zenon
<1> QED BY <1>2, <1>3 DEF T

(* An injective function on a finite set reaches all of it. *)
LEMMA InjectiveIsOnto ==
    ASSUME NEW S, IsFiniteSet(S), NEW f \in [S -> S],
           \A x, y \in S : f[x] = f[y] => x = y
    PROVE  \A y \in S : \E x \in S : f[x] = y
<1>1. f \in Injection(S, S)
  BY DEF Injection, IsInjective
<1>2. f \in Surjection(S, S)
  BY <1>1, FS_Injection, Zenon
<1> QED BY <1>2 DEF Surjection

(* One more pigeon than there are holes. *)
LEMMA Pigeonhole ==
    ASSUME NEW n \in Nat, NEW t \in [0..n -> 1..n]
    PROVE  \E x, y \in 0..n : x < y /\ t[x] = t[y]
<1>1. IsFiniteSet(1..n) /\ Cardinality(1..n) = n
  BY UpTo
<1>2. 0 \in Int /\ n \in Int
  OBVIOUS
<1>3. IsFiniteSet(0..n) /\ Cardinality(0..n) = IF 0 > n THEN 0 ELSE n - 0 + 1
  BY <1>2, FS_Interval, Zenon
<1>4. Cardinality(1..n) < Cardinality(0..n)
  BY <1>1, <1>3
<1> DEFINE from == 0..n
           to == 1..n
<1>5. /\ IsFiniteSet(from) /\ IsFiniteSet(to) /\ Cardinality(to) < Cardinality(from)
      /\ t \in [from -> to]
  BY <1>1, <1>3, <1>4
<1>6. ASSUME ~ \E x, y \in from : x # y /\ t[x] = t[y] PROVE FALSE
  <2> HIDE DEF from, to
  <2>1. t \in Injection(from, to)
    BY <1>5, <1>6 DEF Injection, IsInjective
  <2>2. Cardinality(from) <= Cardinality(to)
    BY <1>5, <2>1, FS_Injection, Zenon
  <2>3. Cardinality(from) \in Nat /\ Cardinality(to) \in Nat
    BY <1>5, FS_CardinalityType
  <2> QED BY <1>5, <2>2, <2>3
<1>7. PICK x, y \in 0..n : x # y /\ t[x] = t[y]
  BY <1>6
<1>8. x < y \/ y < x
  BY <1>7
<1> QED BY <1>7, <1>8

(* The iterates of f from a: what a recursive function definition chooses. *)
AreIterates(t, S, a, f, n) ==
    t \in [0..n -> S] /\ t[0] = a /\ \A k \in 1..n : t[k] = f[t[k - 1]]

LEMMA Iterates ==
    ASSUME NEW S, NEW a \in S, NEW f \in [S -> S], NEW n \in Nat
    PROVE  \E t : AreIterates(t, S, a, f, n)
<1> DEFINE D == {m \in Nat : \E t \in [0..m -> S] :
                    t[0] = a /\ \A k \in 1..m : t[k] = f[t[k - 1]]}
<1>1. 0 \in D
  <2> DEFINE t == [k \in 0..0 |-> a]
  <2>1. t \in [0..0 -> S] /\ t[0] = a /\ \A k \in 1..0 : t[k] = f[t[k - 1]]
    OBVIOUS
  <2> QED BY <2>1
<1>2. ASSUME NEW m \in Nat, m \in D PROVE m + 1 \in D
  <2>1. PICK t \in [0..m -> S] : t[0] = a /\ \A k \in 1..m : t[k] = f[t[k - 1]]
    BY <1>2
  <2> DEFINE u == [k \in 0..(m + 1) |-> IF k <= m THEN t[k] ELSE f[t[m]]]
  <2>2. u \in [0..(m + 1) -> S] /\ u[0] = a
    BY <2>1
  <2>3. ASSUME NEW k \in 1..(m + 1) PROVE u[k] = f[u[k - 1]]
    <3>1. CASE k \in 1..m
      <4>1. t[k] = f[t[k - 1]] /\ u[k] = t[k] /\ u[k - 1] = t[k - 1]
        BY <2>1, <3>1
      <4> QED BY <4>1
    <3>2. CASE k = m + 1
      <4>1. u[k] = f[t[m]] /\ u[m] = t[m] /\ k - 1 = m
        BY <3>2
      <4> QED BY <4>1
    <3> QED BY <3>1, <3>2
  <2> HIDE DEF u
  <2> QED BY <2>2, <2>3
<1>3. n \in D
  <2> HIDE DEF D
  <2> QED BY <1>1, <1>2, Induction
<1> QED BY <1>3 DEF AreIterates

(* An injective function on 1..n comes back to where it begins.              *)
LEMMA IteratesReturn ==
    ASSUME NEW n \in Nat, NEW a \in 1..n, NEW f \in Injection(1..n, 1..n),
           NEW t, AreIterates(t, 1..n, a, f, n)
    PROVE  \E k \in 0..n : f[t[k]] = a
<1> USE DEF AreIterates
<1>0. f \in [1..n -> 1..n] /\ \A x, y \in 1..n : f[x] = f[y] => x = y
  BY DEF Injection, IsInjective
<1> DEFINE D == {i \in 0..n : \E j \in 0..n : i < j /\ t[i] = t[j]}
<1>1. \E x, y \in 0..n : x < y /\ t[x] = t[y]
  BY Pigeonhole
<1>2. D # {} /\ D \in SUBSET Nat
  <2>1. PICK x, y \in 0..n : x < y /\ t[x] = t[y]
    BY <1>1
  <2>3. x \in D
    BY <2>1
  <2>4. D \in SUBSET Nat
    OBVIOUS
  <2> HIDE DEF D
  <2> QED BY <2>3, <2>4
<1>3. PICK i \in D : \A d \in D : i <= d
  <2> HIDE DEF D
  <2> QED BY <1>2, LeastNatural
<1>4. PICK j \in 0..n : i < j /\ t[i] = t[j]
  BY <1>3
<1>5. /\ i \in 0..n /\ j \in 1..n /\ j - 1 \in 0..(n - 1)
      /\ t[j] = f[t[j - 1]] /\ t[j - 1] \in 1..n
  <2>1. i \in 0..n
    BY <1>3
  <2>2. j \in 1..n /\ j - 1 \in 0..(n - 1) /\ j - 1 \in 0..n
    BY <2>1, <1>4
  <2>3. t[j] = f[t[j - 1]]
    BY <2>2
  <2>4. t[j - 1] \in 1..n
    BY <2>2
  <2> QED BY <2>1, <2>2, <2>3, <2>4
<1>6. i = 0
  <2> SUFFICES ASSUME i # 0 PROVE FALSE
    OBVIOUS
  <2>1. i \in 1..n /\ i - 1 \in 0..n /\ i - 1 < j - 1 /\ j - 1 \in 0..n
    BY <1>4, <1>5
  <2>2. t[i] = f[t[i - 1]] /\ t[i - 1] \in 1..n
    BY <2>1
  <2>3. t[i - 1] = t[j - 1]
    BY <2>2, <1>0, <1>4, <1>5
  <2>4. i - 1 \in D
    BY <2>1, <2>3
  <2> QED BY <2>4, <1>3, <2>1
<1>7. j - 1 \in 0..n
  BY <1>5
<1>8. f[t[j - 1]] = t[j] /\ t[j] = t[0] /\ t[0] = a
  BY <1>4, <1>5, <1>6, Zenon
<1> QED BY <1>7, <1>8

(* The function that a recursive definition by steps of f chooses.           *)
LEMMA IteratesChosen ==
    ASSUME NEW S, NEW a \in S, NEW f \in [S -> S], NEW n \in Nat, NEW u,
           u = CHOOSE t : t = [k \in 0..n |-> IF k = 0 THEN a ELSE f[t[k - 1]]]
    PROVE  AreIterates(u, S, a, f, n)
<1> DEFINE Step(t) == [k \in 0..n |-> IF k = 0 THEN a ELSE f[t[k - 1]]]
<1>0. PICK t : AreIterates(t, S, a, f, n)
  BY Iterates
<1>1. t \in [0..n -> S] /\ t[0] = a /\ \A k \in 1..n : t[k] = f[t[k - 1]]
  BY <1>0 DEF AreIterates
<1>2. t = Step(t)
  <2>1. ASSUME NEW k \in 0..n PROVE t[k] = IF k = 0 THEN a ELSE f[t[k - 1]]
    <3>1. CASE k = 0
      BY <1>1, <3>1
    <3>2. CASE k # 0
      <4>1. k \in 1..n /\ k - 1 \in 0..n
        BY <3>2
      <4> QED BY <1>1, <3>2, <4>1
    <3> QED BY <3>1, <3>2
  <2> QED BY <1>1, <2>1
<1>3. u = Step(u)
  <2> HIDE DEF Step
  <2>1. u = CHOOSE r : r = Step(r)
    BY DEF Step
  <2> QED BY <1>2, <2>1
<1>4. u[0] = a /\ (\A k \in 1..n : u[k] = f[u[k - 1]]) /\ u = [k \in 0..n |-> u[k]]
  <2>1. \A k \in 0..n : Step(u)[k] = IF k = 0 THEN a ELSE f[u[k - 1]]
    OBVIOUS
  <2>2. Step(u) = [k \in 0..n |-> Step(u)[k]]
    OBVIOUS
  <2> HIDE DEF Step
  <2>3. 0 \in 0..n /\ \A k \in 1..n : k \in 0..n /\ k # 0
    OBVIOUS
  <2> QED BY <1>3, <2>1, <2>2, <2>3
<1> DEFINE D == {k \in Nat : k <= n => u[k] \in S}
<1>5. 0 \in D /\ \A k \in Nat : k \in D => k + 1 \in D
  <2>1. 0 \in D
    BY <1>4
  <2>2. ASSUME NEW k \in Nat, k \in D, k + 1 <= n PROVE u[k + 1] \in S
    <3>1. k + 1 \in 1..n /\ (k + 1) - 1 = k /\ u[k] \in S
      BY <2>2
    <3>2. u[k + 1] = f[u[k]]
      BY <1>4, <3>1
    <3> QED BY <3>1, <3>2
  <2>3. ASSUME NEW k \in Nat, k \in D PROVE k + 1 \in D
    <3>1. k + 1 \in Nat /\ (k + 1 <= n => u[k + 1] \in S)
      BY <2>2, <2>3
    <3> QED BY <3>1
  <2> QED BY <2>1, <2>3
<1>6. \A k \in 0..n : u[k] \in S
  <2>1. Nat \subseteq D
    <3> HIDE DEF D
    <3> QED BY <1>5, Induction
  <2> QED BY <2>1
<1> QED BY <1>4, <1>6 DEF AreIterates

(* A walk on 1..n that may end at 0: n steps take it everywhere it gets.     *)
LEMMA WalkCloses ==
    ASSUME NEW n \in Nat, NEW a \in 0..n, NEW f \in [0..n -> 0..n], f[0] = 0,
           NEW t, AreIterates(t, 0..n, a, f, n), NEW k \in 0..n, f[t[k]] # 0
    PROVE  \E m \in 0..n : t[m] = f[t[k]]
<1>0. t \in [0..n -> 0..n] /\ t[0] = a /\ \A j \in 1..n : t[j] = f[t[j - 1]]
  BY DEF AreIterates
<1>a. \A j \in Nat : j + 1 <= n => t[j + 1] = f[t[j]]
  <2> SUFFICES ASSUME NEW j \in Nat, j + 1 <= n PROVE t[j + 1] = f[t[j]]
    OBVIOUS
  <2>1. j + 1 \in 1..n /\ (j + 1) - 1 = j
    OBVIOUS
  <2> QED BY <1>0, <2>1
<1>1. CASE k # n
  <2>1. k \in Nat /\ k + 1 <= n /\ k + 1 \in 0..n
    BY <1>1
  <2> QED BY <1>a, <2>1
<1>2. CASE k = n
  <2>1. ASSUME NEW j \in 0..n, t[j] = 0 PROVE FALSE
    <3> DEFINE D == {m \in Nat : j + m <= n => t[j + m] = 0}
    <3>1. 0 \in D
      BY <2>1
    <3>2. ASSUME NEW m \in Nat, m \in D, j + (m + 1) <= n PROVE t[j + (m + 1)] = 0
      <4>1. j + m \in Nat /\ (j + m) + 1 <= n /\ j + (m + 1) = (j + m) + 1 /\ t[j + m] = 0
        BY <3>2
      <4> QED BY <1>a, <4>1
    <3>3. Nat \subseteq D
      <4>1. 0 \in D /\ \A m \in Nat : m \in D => m + 1 \in D
        <5>1. ASSUME NEW m \in Nat, m \in D PROVE m + 1 \in D
          <6>1. m + 1 \in Nat /\ (j + (m + 1) <= n => t[j + (m + 1)] = 0)
            BY <3>2, <5>1
          <6> QED BY <6>1
        <5> QED BY <3>1, <5>1
      <4> HIDE DEF D
      <4> QED BY <4>1, Induction
    <3>4. n - j \in Nat /\ j + (n - j) = n
      OBVIOUS
    <3>5. n - j \in D
      BY <3>3, <3>4
    <3> QED BY <1>2, <3>4, <3>5
  <2>2. t \in [0..n -> 1..n]
    <3>1. \A m \in 0..n : t[m] \in 0..n /\ t[m] # 0
      BY <1>0, <2>1
    <3>2. ASSUME NEW m \in 0..n PROVE t[m] \in 1..n
      <4>1. t[m] \in 0..n /\ t[m] # 0
        BY <3>1
      <4> QED BY <4>1
    <3> QED BY <1>0, <3>2
  <2>3. PICK i, j \in 0..n : i < j /\ t[i] = t[j]
    BY <2>2, Pigeonhole
  <2> DEFINE V == {t[m] : m \in 0..(j - 1)}
  <2>4. \A m \in 0..(j - 1) : f[t[m]] \in V
    <3> SUFFICES ASSUME NEW m \in 0..(j - 1) PROVE f[t[m]] \in V
      OBVIOUS
    <3>1. m \in Nat /\ m + 1 <= n /\ f[t[m]] = t[m + 1]
      BY <1>a, <2>3
    <3>2. m + 1 \in 0..(j - 1) \/ m + 1 = j
      BY <2>3, <3>1
    <3>3. i \in 0..(j - 1)
      BY <2>3
    <3>4. m + 1 = j => t[m + 1] = t[i]
      BY <2>3
    <3>5. t[m + 1] \in V
      BY <3>2, <3>3, <3>4
    <3> QED BY <3>1, <3>5
  <2> DEFINE D == {m \in Nat : m <= n => t[m] \in V}
  <2>5. 0 \in D /\ \A m \in Nat : m \in D => m + 1 \in D
    <3>1. 0 \in 0..(j - 1)
      BY <2>3
    <3>2. \A x \in V : f[x] \in V
      BY <2>4
    <3>3. 0 \in D
      BY <3>1
    <3>4. ASSUME NEW m \in Nat, m \in D PROVE m + 1 \in D
      <4>1. CASE m + 1 <= n
        <5>0. m <= n /\ t[m + 1] = f[t[m]]
          BY <1>a, <4>1
        <5>1. t[m] \in V /\ t[m + 1] = f[t[m]]
          BY <5>0, <3>4
        <5>2. t[m + 1] \in V
          BY <3>2, <5>1, Zenon
        <5> QED BY <5>2
      <4>2. CASE ~ (m + 1 <= n)
        BY <4>2
      <4> QED BY <4>1, <4>2
    <3> QED BY <3>3, <3>4
  <2>6. Nat \subseteq D
    <3> HIDE DEF D
    <3> QED BY <2>5, Induction
  <2>7. f[t[n]] \in V
    <3>1. t[n] \in V
      BY <2>6
    <3> QED BY <2>4, <3>1
  <2>8. 0..(j - 1) \subseteq 0..n
    BY <2>3
  <2> QED BY <1>2, <2>7, <2>8
<1> QED BY <1>1, <1>2

=============================================================================
