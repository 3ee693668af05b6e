---------------------------- MODULE OrderLemmas -----------------------------
(***************************************************************************)
(* Facts about numbers and finite orders that several proofs need.         *)
(***************************************************************************)
EXTENDS ListOps, FiniteSetTheorems, WellFoundedInduction, TLAPS

(* A set of natural numbers has a least element.  Stated for sets and not  *)
(* for predicates, it also serves as induction: the least counterexample.  *)
LEMMA LeastNumber ==
  ASSUME NEW T, T \subseteq Nat, T # {}
  PROVE  \E m \in T : \A n \in T : m <= n
<1>1. \E R : IsWellFoundedOn(R, Nat) /\ \A x, y \in Nat : <<x, y>> \in R <=> x < y
  <2>1. \A x, y \in Nat : <<x, y>> \in OpToRel(<, Nat) <=> x < y
    BY DEF OpToRel
  <2> QED
    BY <2>1, NatLessThanWellFounded, Zenon
<1>2. PICK R : IsWellFoundedOn(R, Nat) /\ \A x, y \in Nat : <<x, y>> \in R <=> x < y
  BY <1>1
<1>3. IsWellFoundedOn(R, Nat)
  BY <1>2
<1>4. \E x \in T : \A y \in T : ~ (<<y, x>> \in R)
  BY <1>3, WFMin
<1>5. PICK x \in T : \A y \in T : ~ (<<y, x>> \in R)
  BY <1>4
<1>6. \A y \in T : ~ (y < x)
  BY <1>2, <1>5
<1> QED
  BY <1>6

-----------------------------------------------------------------------------
(* f[k] is the members of S up to k in some order.                         *)
Chain(S, f) ==
  /\ f \in [S -> SUBSET S]
  /\ \A k \in S : k \in f[k]
  /\ \A j, k \in S : f[j] \subseteq f[k] \/ f[k] \subseteq f[j]
  /\ \A j, k \in S : f[j] = f[k] => j = k

(* Every member of S has a place, the size of f[k], and every place is     *)
(* taken.                                                                  *)
Counted(S, f) ==
  /\ \A k \in S : IsFiniteSet(f[k]) /\ Cardinality(f[k]) \in 1 .. Cardinality(S)
  /\ \A j, k \in S : Cardinality(f[j]) = Cardinality(f[k]) => j = k
  /\ \A n \in 1 .. Cardinality(S) : \E k \in S : Cardinality(f[k]) = n

(* A finite chain counts its members through.                              *)
LEMMA ChainPlaces ==
  ASSUME NEW S, IsFiniteSet(S), NEW f, Chain(S, f)
  PROVE  Counted(S, f)
<1> DEFINE N == Cardinality(S)
           g == [k \in S |-> Cardinality(f[k])]
<1> USE DEF Chain
<1>1. N \in Nat
  BY FS_CardinalityType
<1>2. ASSUME NEW k \in S
      PROVE  IsFiniteSet(f[k]) /\ Cardinality(f[k]) \in 1 .. N
  <2>1. IsFiniteSet(f[k]) /\ Cardinality(f[k]) <= N
    BY FS_Subset
  <2>2. Cardinality(f[k]) \in Nat /\ Cardinality(f[k]) # 0
    BY <2>1, FS_CardinalityType, FS_EmptySet
  <2> HIDE DEF N
  <2> QED BY <1>1, <2>1, <2>2
<1>3. ASSUME NEW j \in S, NEW k \in S, Cardinality(f[j]) = Cardinality(f[k])
      PROVE  j = k
  <2>1. IsFiniteSet(f[j]) /\ IsFiniteSet(f[k])
    BY <1>2
  <2>2. f[j] = f[k]
    BY <1>3, <2>1, FS_Subset
  <2> QED BY <2>2
<1>4. IsFiniteSet(1 .. N) /\ Cardinality(1 .. N) = N
  BY <1>1, FS_Interval
<1>5. g \in Injection(S, 1 .. N)
  BY <1>2, <1>3 DEF Injection, IsInjective
<1> HIDE DEF g
<1>6. g \in Surjection(S, 1 .. N)
  BY <1>4, <1>5, FS_Injection
<1>7. \A n \in 1 .. N : \E k \in S : g[k] = n
  BY <1>6 DEF Surjection
<1> QED BY <1>2, <1>3, <1>7 DEF g, Counted

(* Nth counts the numbers in a finite set through, in their order.         *)
LEMMA NthFacts ==
  ASSUME NEW S, S \subseteq Int, IsFiniteSet(S)
  PROVE  /\ \A n \in 1 .. Cardinality(S) : Nth(S, n) \in S
         /\ \A m, n \in 1 .. Cardinality(S) : m < n => Nth(S, m) < Nth(S, n)
         /\ \A i \in S : \E n \in 1 .. Cardinality(S) : Nth(S, n) = i
<1> DEFINE f == [i \in S |-> {j \in S : j <= i}]
<1>0. \A i \in S : i \in Int
  OBVIOUS
<1>1. f \in [S -> SUBSET S] /\ \A i, j \in S : j \in f[i] <=> j <= i
  OBVIOUS
<1>3. \A i \in S : {j \in S : j <= i} = f[i]
  OBVIOUS
<1> HIDE DEF f
<1>a. ASSUME NEW j \in S, NEW k \in S, j <= k PROVE f[j] \subseteq f[k]
  <2> SUFFICES ASSUME NEW i \in S, i \in f[j] PROVE i \in f[k]
    BY <1>1
  <2>1. i <= j
    BY <1>1
  <2>2. i <= k
    BY <1>0, <1>a, <2>1
  <2> QED BY <1>1, <2>2
<1>b. \A j, k \in S : f[j] \subseteq f[k] \/ f[k] \subseteq f[j]
  <2>1. \A j, k \in S : j <= k \/ k <= j
    BY <1>0
  <2> QED BY <1>a, <2>1
<1>c. \A k \in S : k \in f[k]
  BY <1>0, <1>1
<1>2. ASSUME NEW j \in S, NEW k \in S, f[j] = f[k] PROVE j = k
  <2>1. j <= k /\ k <= j
    BY <1>1, <1>2, <1>c
  <2> QED BY <1>0, <2>1
<1>4. /\ \A k \in S : IsFiniteSet(f[k]) /\ Cardinality(f[k]) \in 1 .. Cardinality(S)
      /\ \A j, k \in S : Cardinality(f[j]) = Cardinality(f[k]) => j = k
      /\ \A n \in 1 .. Cardinality(S) : \E k \in S : Cardinality(f[k]) = n
  <2>1. \A j, k \in S : f[j] = f[k] => j = k
    BY <1>2
  <2>2. Chain(S, f)
    BY <1>1, <1>b, <1>c, <2>1 DEF Chain
  <2>3. Counted(S, f)
    BY <2>2, ChainPlaces
  <2> QED BY <2>3 DEF Counted
<1>5. ASSUME NEW n \in 1 .. Cardinality(S)
      PROVE  Nth(S, n) \in S /\ Cardinality(f[Nth(S, n)]) = n
  <2>1. \E i \in S : Cardinality({j \in S : j <= i}) = n
    BY <1>3, <1>4
  <2>2. Nth(S, n) \in S /\ Cardinality({j \in S : j <= Nth(S, n)}) = n
    BY <2>1 DEF Nth
  <2> QED BY <1>3, <2>2
<1>6. ASSUME NEW m \in 1 .. Cardinality(S), NEW n \in 1 .. Cardinality(S), m < n
      PROVE  Nth(S, m) < Nth(S, n)
  <2>1. Nth(S, m) \in S /\ Nth(S, n) \in S
    BY <1>5
  <2>2. ASSUME Nth(S, n) <= Nth(S, m) PROVE FALSE
    <3>1. f[Nth(S, n)] \subseteq f[Nth(S, m)]
      BY <1>a, <2>1, <2>2
    <3>2. Cardinality(f[Nth(S, n)]) <= Cardinality(f[Nth(S, m)])
      BY <1>4, <2>1, <3>1, FS_Subset
    <3> QED BY <1>5, <1>6, <3>2
  <2>3. Nth(S, m) \in Int /\ Nth(S, n) \in Int
    BY <1>0, <2>1
  <2> QED BY <2>2, <2>3
<1>7. ASSUME NEW i \in S PROVE \E n \in 1 .. Cardinality(S) : Nth(S, n) = i
  <2>1. PICK n \in 1 .. Cardinality(S) : n = Cardinality(f[i])
    BY <1>4
  <2>2. Nth(S, n) \in S /\ Cardinality(f[Nth(S, n)]) = Cardinality(f[i])
    BY <1>5, <2>1
  <2> QED BY <1>4, <2>2
<1> QED BY <1>5, <1>6, <1>7

(* q is s without the elements in K: e maps the positions in q to those in *)
(* s, in the same order.                                                   *)
Shrinks(q, s, K, e) ==
  /\ e \in [1 .. Len(q) -> 1 .. Len(s)]
  /\ \A n \in 1 .. Len(q) : q[n] = s[e[n]] /\ s[e[n]] \notin K
  /\ \A m, n \in 1 .. Len(q) : m < n => e[m] < e[n]
  /\ \A i \in 1 .. Len(s) : s[i] \notin K => \E n \in 1 .. Len(q) : e[n] = i

(* Removing elements from a list leaves the others, in their order.        *)
LEMMA WithoutFacts ==
  ASSUME NEW T, NEW s \in Seq(T), NEW K
  PROVE  /\ Without(s, K) \in Seq(T)
         /\ \E e : Shrinks(Without(s, K), s, K, e)
<1> DEFINE left == {i \in DOMAIN s : s[i] \notin K}
           N == Cardinality(left)
           e == [n \in 1 .. N |-> Nth(left, n)]
<1>1. DOMAIN s = 1 .. Len(s) /\ Len(s) \in Nat
  OBVIOUS
<1>2. left \subseteq Int /\ left \subseteq 1 .. Len(s) /\ IsFiniteSet(left)
  <2>1. left \subseteq 1 .. Len(s) /\ left \subseteq Int
    BY <1>1
  <2>2. IsFiniteSet(1 .. Len(s))
    BY <1>1, FS_Interval
  <2> HIDE DEF left
  <2> QED BY <2>1, <2>2, FS_Subset
<1>3. N \in Nat
  BY <1>2, FS_CardinalityType
<1>4. Without(s, K) = [n \in 1 .. N |-> s[Nth(left, n)]]
  BY DEF Without
<1>5. \A i \in left : s[i] \notin K /\ s[i] \in T
  BY <1>1
<1>6. \A i \in 1 .. Len(s) : s[i] \notin K => i \in left
  BY <1>1
<1> HIDE DEF left
<1>7. /\ \A n \in 1 .. N : Nth(left, n) \in left
      /\ \A m, n \in 1 .. N : m < n => Nth(left, m) < Nth(left, n)
      /\ \A i \in left : \E n \in 1 .. N : Nth(left, n) = i
  BY <1>2, NthFacts
<1> HIDE DEF N
<1>8. Without(s, K) \in Seq(T) /\ Len(Without(s, K)) = N
  BY <1>3, <1>4, <1>5, <1>7
<1>9. e \in [1 .. N -> 1 .. Len(s)]
  BY <1>2, <1>7
<1>10. /\ \A n \in 1 .. N : Without(s, K)[n] = s[e[n]] /\ s[e[n]] \notin K
       /\ \A m, n \in 1 .. N : m < n => e[m] < e[n]
       /\ \A i \in 1 .. Len(s) : s[i] \notin K => \E n \in 1 .. N : e[n] = i
  BY <1>4, <1>5, <1>6, <1>7
<1> HIDE DEF e
<1>11. Len(Without(s, K)) = N
  BY <1>8
<1>12. Shrinks(Without(s, K), s, K, e)
  BY <1>9, <1>10, <1>11 DEF Shrinks
<1> QED BY <1>8, <1>12
=============================================================================
