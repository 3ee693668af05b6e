--------------------------- MODULE LruCacheProofs ---------------------------
(***************************************************************************)
(* What holds of the LRU cache for all keys, data, sizes and limits: the   *)
(* list and the hash table hold the same keys, within the limit; used_mem  *)
(* is the memory of the entries; the list is in the order of use, and what *)
(* is evicted was used longest ago.                                        *)
(***************************************************************************)
EXTENDS LruCache, OrderLemmas

Distinct(s) == \A m, n \in DOMAIN s : s[m] = s[n] => m = n

(* In r the key j comes after k; UsedBefore is this of recent.             *)
After(r, j, k) == \E m, n \in DOMAIN r : m > n /\ r[m] = j /\ r[n] = k

(* The list and the hash table have the same keys, no more than allowed.   *)
KeyInv ==
  /\ Distinct(list)
  /\ Range(list) = DOMAIN hash
  /\ Len(list) <= MaxKeyNum

(* The counter is exact while the cache is in use.                         *)
MemInv == alive => IsFiniteSet(Bytes(hash)) /\ used_mem = Cardinality(Bytes(hash))

CacheInv == TypeOK /\ KeyInv /\ MemInv

(* The keys of s are in the order of r, which has each of its keys once.   *)
Ordered(s, r) ==
  /\ Distinct(r)
  /\ Range(s) \subseteq Range(r)
  /\ \A m, n \in DOMAIN s : m < n => After(r, s[n], s[m])

(* The list is in the order of use, and the history knows all its keys.    *)
OrderInv == Ordered(list, recent)

-----------------------------------------------------------------------------
(* The list operations.                                                    *)

(* A list without repetitions is as long as it has keys.                   *)
LEMMA DistinctLength ==
  ASSUME NEW s \in Seq(Keys), Distinct(s)
  PROVE  IsFiniteSet(Range(s)) /\ Cardinality(Range(s)) = Len(s)
<1>1. PICK n \in Nat : n = Len(s) /\ DOMAIN s = 1 .. n
  OBVIOUS
<1>2. IsFiniteSet(1 .. n) /\ Cardinality(1 .. n) = n
  BY FS_Interval
<1>3. s \in Bijection(1 .. n, Range(s))
  <2>1. s \in [1 .. n -> Range(s)]
    BY <1>1 DEF Range
  <2>2. s \in Injection(1 .. n, Range(s))
    BY <1>1, <2>1 DEF Injection, IsInjective, Distinct
  <2>3. s \in Surjection(1 .. n, Range(s))
    BY <1>1, <2>1 DEF Surjection, Range
  <2> QED BY <2>2, <2>3 DEF Bijection
<1>4. ExistsBijection(1 .. n, Range(s))
  BY <1>3 DEF ExistsBijection
<1> QED BY <1>1, <1>2, <1>4, FS_Bijection

(* r is s without the key k, in the same order.                            *)
Unlinked(r, s, k) ==
  /\ r \in Seq(Keys)
  /\ Distinct(s) => Distinct(r)
  /\ Range(r) = Range(s) \ {k}
  /\ \A m, n \in DOMAIN r : m < n =>
       \E i, j \in DOMAIN s : i < j /\ s[i] = r[m] /\ s[j] = r[n]
  /\ \A a, b : a # k /\ b # k /\ After(s, a, b) => After(r, a, b)

(* Unlinking a node takes its key out of the list and nothing else.        *)
LEMMA UnlinkFacts ==
  ASSUME NEW s \in Seq(Keys), NEW k
  PROVE  Unlinked(Without(s, {k}), s, k)
<1>1. PICK r : r = Without(s, {k})
  OBVIOUS
<1>2. r \in Seq(Keys)
  BY <1>1, WithoutFacts
<1>3. PICK e : Shrinks(r, s, {k}, e)
  BY <1>1, WithoutFacts
<1>4. DOMAIN r = 1 .. Len(r) /\ DOMAIN s = 1 .. Len(s) /\ Len(r) \in Nat /\ Len(s) \in Nat
  BY <1>2
<1>5. \A n \in DOMAIN r : e[n] \in DOMAIN s /\ e[n] \in Int /\ r[n] = s[e[n]] /\ r[n] # k
  BY <1>3, <1>4 DEF Shrinks
<1>6. \A i \in DOMAIN s : s[i] # k => \E n \in DOMAIN r : e[n] = i
  BY <1>3, <1>4 DEF Shrinks
<1>7. \A m, n \in DOMAIN r : m < n => e[m] < e[n]
  BY <1>3, <1>4 DEF Shrinks
<1>8. \A m, n \in DOMAIN r : m \in Int /\ n \in Int
  BY <1>4
<1>9. ASSUME Distinct(s) PROVE Distinct(r)
  <2>1. ASSUME NEW m \in DOMAIN r, NEW n \in DOMAIN r, r[m] = r[n] PROVE m = n
    <3>1. e[m] = e[n]
      BY <1>5, <1>9, <2>1 DEF Distinct
    <3>2. ~(m < n) /\ ~(n < m)
      BY <1>5, <1>7, <3>1
    <3> QED BY <1>8, <3>2
  <2> QED BY <2>1 DEF Distinct
<1>10. Range(r) = Range(s) \ {k}
  BY <1>5, <1>6 DEF Range
<1>11. \A m, n \in DOMAIN r : m < n =>
         \E i, j \in DOMAIN s : i < j /\ s[i] = r[m] /\ s[j] = r[n]
  BY <1>5, <1>7
<1>12. ASSUME NEW a, NEW b, a # k, b # k, After(s, a, b) PROVE After(r, a, b)
  <2>1. PICK i, j \in DOMAIN s : i > j /\ s[i] = a /\ s[j] = b
    BY <1>12 DEF After
  <2>2. PICK m \in DOMAIN r : e[m] = i
    BY <1>6, <1>12, <2>1
  <2>3. PICK n \in DOMAIN r : e[n] = j
    BY <1>6, <1>12, <2>1
  <2>4. m > n
    <3>1. i \in Int /\ j \in Int /\ m \in Int /\ n \in Int
      BY <1>4, <1>8, <2>1
    <3>2. ~(m < n) /\ m # n
      BY <1>7, <2>1, <2>2, <2>3, <3>1
    <3> QED BY <3>1, <3>2
  <2> QED BY <1>5, <2>1, <2>2, <2>3, <2>4 DEF After
<1>13. Unlinked(r, s, k)
  BY <1>2, <1>9, <1>10, <1>11, <1>12 DEF Unlinked
<1> QED BY <1>1, <1>13

(* q is r with the key k in front.                                         *)
Linked(q, r, k) ==
  /\ q \in Seq(Keys)
  /\ k \notin Range(r) /\ Distinct(r) => Distinct(q)
  /\ Range(q) = Range(r) \cup {k}
  /\ \A m, n \in DOMAIN q : m < n =>
       \/ q[m] = k /\ q[n] \in Range(r)
       \/ \E i, j \in DOMAIN r : i < j /\ r[i] = q[m] /\ r[j] = q[n]
  /\ \A a, b : After(r, a, b) => After(q, a, b)
  /\ \A a \in Range(r) : After(q, a, k)

(* Linking a node at the head.                                             *)
LEMMA LinkFacts ==
  ASSUME NEW r \in Seq(Keys), NEW k \in Keys
  PROVE  Linked(<<k>> \o r, r, k)
<1>1. PICK q : q = <<k>> \o r
  OBVIOUS
<1>2. /\ q \in Seq(Keys) /\ Len(q) = Len(r) + 1 /\ Len(r) \in Nat
      /\ DOMAIN q = 1 .. Len(r) + 1 /\ DOMAIN r = 1 .. Len(r)
      /\ q[1] = k /\ \A i \in 1 .. Len(r) : q[i + 1] = r[i]
  BY <1>1
<1>3. \A i \in DOMAIN q : i \in Int /\ (i = 1 \/ (i - 1 \in DOMAIN r /\ q[i] = r[i - 1]))
  <2>1. ASSUME NEW i \in DOMAIN q, i # 1 PROVE i - 1 \in DOMAIN r /\ q[i] = r[i - 1]
    <3>1. i - 1 \in 1 .. Len(r) /\ (i - 1) + 1 = i
      BY <1>2, <2>1
    <3> QED BY <1>2, <3>1
  <2> QED BY <1>2, <2>1
<1>4. 1 \in DOMAIN q /\ \A i \in DOMAIN r : i \in Int /\ 1 < i + 1 /\ i + 1 \in DOMAIN q /\ q[i + 1] = r[i]
  BY <1>2
<1>5. ASSUME k \notin Range(r), Distinct(r) PROVE Distinct(q)
  <2>1. ASSUME NEW m \in DOMAIN q, NEW n \in DOMAIN q, q[m] = q[n] PROVE m = n
    <3>1. \A i \in DOMAIN q : i # 1 => q[i] # k
      BY <1>3, <1>5 DEF Range
    <3>2. CASE m = 1 \/ n = 1
      BY <1>2, <2>1, <3>1, <3>2
    <3>3. CASE m # 1 /\ n # 1
      <4>1. m - 1 = n - 1
        BY <1>3, <1>5, <2>1, <3>3 DEF Distinct
      <4> QED BY <1>3, <4>1
    <3> QED BY <3>2, <3>3
  <2> QED BY <2>1 DEF Distinct
<1>6. Range(q) = Range(r) \cup {k}
  <2>1. ASSUME NEW x \in Range(q) PROVE x \in Range(r) \cup {k}
    <3>1. PICK i \in DOMAIN q : x = q[i]
      BY <2>1 DEF Range
    <3> QED BY <1>2, <1>3, <3>1 DEF Range
  <2>2. ASSUME NEW x \in Range(r) PROVE x \in Range(q)
    <3>1. PICK i \in DOMAIN r : x = r[i]
      BY <2>2 DEF Range
    <3> QED BY <1>4, <3>1 DEF Range
  <2>3. k \in Range(q)
    BY <1>2, <1>4 DEF Range
  <2> QED BY <2>1, <2>2, <2>3
<1>7. ASSUME NEW m \in DOMAIN q, NEW n \in DOMAIN q, m < n
      PROVE  \/ q[m] = k /\ q[n] \in Range(r)
             \/ \E i, j \in DOMAIN r : i < j /\ r[i] = q[m] /\ r[j] = q[n]
  <2>1. m \in Int /\ n \in Int /\ n # 1 /\ n - 1 \in DOMAIN r /\ q[n] = r[n - 1]
    <3>1. m \in Int /\ n \in Int /\ 1 <= m
      BY <1>2
    <3>2. n # 1
      BY <1>7, <3>1
    <3> QED BY <1>3, <3>1, <3>2
  <2>2. CASE m = 1
    BY <1>2, <2>1, <2>2 DEF Range
  <2>3. CASE m # 1
    <3>1. m - 1 \in DOMAIN r /\ q[m] = r[m - 1] /\ m - 1 < n - 1
      BY <1>3, <1>7, <2>1, <2>3
    <3> QED BY <2>1, <3>1
  <2> QED BY <2>2, <2>3
<1>8. ASSUME NEW a, NEW b, After(r, a, b) PROVE After(q, a, b)
  <2>1. PICK i, j \in DOMAIN r : i > j /\ r[i] = a /\ r[j] = b
    BY <1>8 DEF After
  <2>2. i + 1 > j + 1 /\ i + 1 \in DOMAIN q /\ j + 1 \in DOMAIN q /\ q[i + 1] = a /\ q[j + 1] = b
    BY <1>4, <2>1
  <2> QED BY <2>2 DEF After
<1>9. ASSUME NEW a \in Range(r) PROVE After(q, a, k)
  <2>1. PICK i \in DOMAIN r : r[i] = a
    BY <1>9 DEF Range
  <2>2. i + 1 > 1 /\ i + 1 \in DOMAIN q /\ 1 \in DOMAIN q /\ q[i + 1] = a /\ q[1] = k
    BY <1>2, <1>4, <2>1
  <2> QED BY <2>2 DEF After
<1>10. Linked(q, r, k)
  BY <1>2, <1>5, <1>6, <1>7, <1>8, <1>9 DEF Linked
<1> QED BY <1>1, <1>10

-----------------------------------------------------------------------------
(* The memory of the entries.                                              *)

LEMMA WeightType ==
  ASSUME NEW k \in Keys, NEW d \in Data
  PROVE  Weight(k, d) \in Nat
BY LruAssumption DEF Weight

(* An entry of weight w has w bytes.                                       *)
LEMMA EntryBytes ==
  ASSUME NEW k, NEW w \in Nat
  PROVE  /\ IsFiniteSet({k} \X (1 .. w))
         /\ Cardinality({k} \X (1 .. w)) = w
<1>1. IsFiniteSet({k}) /\ Cardinality({k}) = 1
  BY FS_Singleton
<1>2. IsFiniteSet(1 .. w) /\ Cardinality(1 .. w) = w
  BY FS_Interval
<1>3. /\ IsFiniteSet({k} \X (1 .. w))
      /\ Cardinality({k} \X (1 .. w)) = Cardinality({k}) * Cardinality(1 .. w)
  BY <1>1, <1>2, FS_Product
<1> QED BY <1>1, <1>2, <1>3

(* g is h with one more key, k.                                            *)
OneMore(g, h, k) ==
  /\ k \notin DOMAIN h
  /\ DOMAIN g = DOMAIN h \cup {k}
  /\ \A x \in DOMAIN h : g[x] = h[x]

LEMMA BytesSplit ==
  ASSUME NEW g, NEW h, NEW k, OneMore(g, h, k)
  PROVE  /\ Bytes(g) = Bytes(h) \cup ({k} \X (1 .. Weight(k, g[k])))
         /\ Bytes(h) \cap ({k} \X (1 .. Weight(k, g[k]))) = {}
<1> DEFINE E(x, f) == {x} \X (1 .. Weight(x, f[x]))
<1>1. ASSUME NEW f, NEW b PROVE b \in Bytes(f) <=> \E x \in DOMAIN f : b \in E(x, f)
  BY DEF Bytes
<1>2. \A x \in DOMAIN h : E(x, g) = E(x, h)
  BY DEF OneMore
<1>3. \A x, y, f, e, b : b \in E(x, f) /\ b \in E(y, e) => x = y
  OBVIOUS
<1> HIDE DEF E
<1>4. Bytes(g) = Bytes(h) \cup E(k, g)
  BY <1>1, <1>2 DEF OneMore
<1>5. Bytes(h) \cap E(k, g) = {}
  BY <1>1, <1>3 DEF OneMore
<1> QED BY <1>4, <1>5 DEF E

LEMMA BytesAdded ==
  ASSUME NEW g, NEW h, NEW k, OneMore(g, h, k),
         Weight(k, g[k]) \in Nat, IsFiniteSet(Bytes(h))
  PROVE  /\ IsFiniteSet(Bytes(g))
         /\ Cardinality(Bytes(g)) = Cardinality(Bytes(h)) + Weight(k, g[k])
<1>1. PICK B : B = {k} \X (1 .. Weight(k, g[k]))
  OBVIOUS
<1>2. IsFiniteSet(B) /\ Cardinality(B) = Weight(k, g[k])
  BY <1>1, EntryBytes
<1>3. Bytes(g) = Bytes(h) \cup B /\ Bytes(h) \cap B = {}
  BY <1>1, BytesSplit
<1>4. /\ IsFiniteSet(Bytes(h) \cup B)
      /\ Cardinality(Bytes(h) \cup B) =
           Cardinality(Bytes(h)) + Cardinality(B) - Cardinality(Bytes(h) \cap B)
  BY <1>2, FS_Union
<1>5. Cardinality(Bytes(h) \cap B) = 0
  BY <1>3, FS_EmptySet
<1>6. Cardinality(Bytes(h)) \in Nat
  BY FS_CardinalityType
<1> QED BY <1>2, <1>3, <1>4, <1>5, <1>6

LEMMA BytesRemoved ==
  ASSUME NEW g, NEW h, NEW k, OneMore(g, h, k),
         Weight(k, g[k]) \in Nat, IsFiniteSet(Bytes(g))
  PROVE  /\ IsFiniteSet(Bytes(h))
         /\ Cardinality(Bytes(h)) = Cardinality(Bytes(g)) - Weight(k, g[k])
<1>1. Bytes(h) \subseteq Bytes(g)
  BY BytesSplit
<1>2. IsFiniteSet(Bytes(h))
  BY <1>1, FS_Subset
<1>3. Cardinality(Bytes(g)) = Cardinality(Bytes(h)) + Weight(k, g[k])
  BY <1>2, BytesAdded
<1>4. Cardinality(Bytes(h)) \in Nat
  BY <1>2, FS_CardinalityType
<1> QED BY <1>2, <1>3, <1>4

-----------------------------------------------------------------------------
(* The operations on a cache with the table h, the list s and the counter  *)
(* u.                                                                      *)
Sound(h, s, u) ==
  /\ DOMAIN h \subseteq Keys
  /\ \A k \in DOMAIN h : h[k] \in Data
  /\ s \in Seq(Keys)
  /\ Distinct(s)
  /\ Range(s) = DOMAIN h
  /\ Len(s) <= MaxKeyNum
  /\ IsFiniteSet(Bytes(h))
  /\ u = Cardinality(Bytes(h))

(* delete_data.                                                            *)
LEMMA DeleteSound ==
  ASSUME NEW h, NEW s, NEW u, Sound(h, s, u), NEW k \in DOMAIN h
  PROVE  /\ Sound(Restrict(h, DOMAIN h \ {k}), Without(s, {k}), u - Weight(k, h[k]))
         /\ Len(Without(s, {k})) = Len(s) - 1
<1>1. PICK g : g = Restrict(h, DOMAIN h \ {k})
  OBVIOUS
<1>2. PICK r : r = Without(s, {k})
  OBVIOUS
<1>3. /\ DOMAIN g = DOMAIN h \ {k}
      /\ \A x \in DOMAIN g : g[x] = h[x]
  BY <1>1 DEF Restrict
<1>4. OneMore(h, g, k)
  BY <1>3 DEF OneMore
<1>5. Weight(k, h[k]) \in Nat
  BY WeightType DEF Sound
<1>6. /\ IsFiniteSet(Bytes(g))
      /\ Cardinality(Bytes(g)) = u - Weight(k, h[k])
  BY <1>4, <1>5, BytesRemoved DEF Sound
<1>7. s \in Seq(Keys) /\ Distinct(s) /\ Range(s) = DOMAIN h /\ Len(s) <= MaxKeyNum
  BY DEF Sound
<1>8. Unlinked(r, s, k)
  BY <1>2, <1>7, UnlinkFacts
<1>9. r \in Seq(Keys) /\ Distinct(r) /\ Range(r) = DOMAIN g
  BY <1>3, <1>7, <1>8 DEF Unlinked
<1>10. Len(r) = Len(s) - 1
  <2>1. IsFiniteSet(Range(s)) /\ Cardinality(Range(s)) = Len(s) /\ Cardinality(Range(r)) = Len(r)
    BY <1>7, <1>9, DistinctLength
  <2>2. Cardinality(Range(s) \ {k}) = Cardinality(Range(s)) - 1
    BY <1>7, <2>1, FS_RemoveElement
  <2> QED BY <1>3, <1>7, <1>9, <2>1, <2>2
<1>11. Len(r) <= MaxKeyNum
  BY <1>7, <1>9, <1>10, LruAssumption
<1>12. Sound(g, r, u - Weight(k, h[k]))
  BY <1>3, <1>6, <1>9, <1>11 DEF Sound
<1> QED BY <1>1, <1>2, <1>10, <1>12

(* create_data and its insertion.                                          *)
LEMMA InsertSound ==
  ASSUME NEW h, NEW s, NEW u, Sound(h, s, u), Len(s) < MaxKeyNum,
         NEW k \in Keys, k \notin DOMAIN h, NEW d \in Data
  PROVE  Sound([x \in DOMAIN h \cup {k} |-> IF x = k THEN d ELSE h[x]],
               <<k>> \o s, u + Weight(k, d))
<1>1. PICK g : g = [x \in DOMAIN h \cup {k} |-> IF x = k THEN d ELSE h[x]]
  OBVIOUS
<1>2. PICK q : q = <<k>> \o s
  OBVIOUS
<1>3. OneMore(g, h, k) /\ g[k] = d
  BY <1>1 DEF OneMore
<1>4. Weight(k, g[k]) \in Nat
  BY <1>3, WeightType
<1>5. /\ IsFiniteSet(Bytes(g))
      /\ Cardinality(Bytes(g)) = u + Weight(k, d)
  BY <1>3, <1>4, BytesAdded DEF Sound
<1>6. s \in Seq(Keys) /\ Distinct(s) /\ Range(s) = DOMAIN h
  BY DEF Sound
<1>7. Linked(q, s, k)
  BY <1>2, <1>6, LinkFacts
<1>8. q \in Seq(Keys) /\ Distinct(q) /\ Range(q) = DOMAIN g
  BY <1>3, <1>6, <1>7 DEF Linked, OneMore
<1>9. Len(q) <= MaxKeyNum
  BY <1>2, <1>6, LruAssumption
<1>10. DOMAIN g \subseteq Keys /\ \A x \in DOMAIN g : g[x] \in Data
  BY <1>3 DEF Sound, OneMore
<1>11. Sound(g, q, u + Weight(k, d))
  BY <1>5, <1>8, <1>9, <1>10 DEF Sound
<1> QED BY <1>1, <1>2, <1>11

(* move_to_head.                                                           *)
LEMMA MoveSound ==
  ASSUME NEW h, NEW s, NEW u, Sound(h, s, u), NEW k \in DOMAIN h
  PROVE  Sound(h, MoveToHead(s, k), u)
<1>1. PICK r : r = Without(s, {k})
  OBVIOUS
<1>2. PICK q : q = <<k>> \o r
  OBVIOUS
<1>3. /\ s \in Seq(Keys) /\ Distinct(s) /\ Range(s) = DOMAIN h /\ Len(s) <= MaxKeyNum
      /\ k \in Keys
  BY DEF Sound
<1>4. Unlinked(r, s, k)
  BY <1>1, <1>3, UnlinkFacts
<1>5. r \in Seq(Keys) /\ Distinct(r) /\ Range(r) = DOMAIN h \ {k}
  BY <1>3, <1>4 DEF Unlinked
<1>6. Linked(q, r, k)
  BY <1>2, <1>3, <1>5, LinkFacts
<1>7. q \in Seq(Keys) /\ Distinct(q) /\ Range(q) = DOMAIN h
  BY <1>3, <1>5, <1>6 DEF Linked
<1>8. Len(q) = Len(s)
  BY <1>3, <1>7, DistinctLength
<1>9. Sound(h, q, u)
  BY <1>3, <1>7, <1>8 DEF Sound
<1> QED BY <1>1, <1>2, <1>9 DEF MoveToHead

(* update_data: the old data are given back and the new ones charged.      *)
LEMMA UpdateSound ==
  ASSUME NEW h, NEW s, NEW u, Sound(h, s, u), NEW k \in DOMAIN h, NEW d \in Data
  PROVE  Sound([h EXCEPT ![k] = d], s, u + Charge(d, h[k]))
<1>1. PICK f : f = Restrict(h, DOMAIN h \ {k})
  OBVIOUS
<1>2. PICK g : g = [h EXCEPT ![k] = d]
  OBVIOUS
<1>3. OneMore(h, f, k) /\ OneMore(g, f, k) /\ g[k] = d /\ DOMAIN g = DOMAIN h
  BY <1>1, <1>2 DEF OneMore, Restrict
<1>4. k \in Keys /\ h[k] \in Data
  BY DEF Sound
<1>5. Weight(k, h[k]) \in Nat /\ Weight(k, g[k]) \in Nat
  BY <1>3, <1>4, WeightType
<1>6. /\ IsFiniteSet(Bytes(f))
      /\ Cardinality(Bytes(f)) = u - Weight(k, h[k])
  BY <1>3, <1>5, BytesRemoved DEF Sound
<1>7. /\ IsFiniteSet(Bytes(g))
      /\ Cardinality(Bytes(g)) = Cardinality(Bytes(f)) + Weight(k, d)
  BY <1>3, <1>5, <1>6, BytesAdded
<1>8. u \in Nat
  BY FS_CardinalityType DEF Sound
<1>9. Cardinality(Bytes(g)) = u + Charge(d, h[k])
  BY <1>4, <1>6, <1>7, <1>8, LruAssumption DEF Weight, Charge
<1>10. \A x \in DOMAIN g : g[x] \in Data
  BY <1>2, <1>3 DEF Sound
<1>11. Sound(g, s, u + Charge(d, h[k]))
  BY <1>3, <1>7, <1>9, <1>10 DEF Sound
<1> QED BY <1>2, <1>11

(* A full cache is not empty: there is a tail to delete.                   *)
LEMMA VictimIsThere ==
  ASSUME Sound(hash, list, used_mem), IsFull
  PROVE  Victim \in DOMAIN hash /\ Len(list) \in DOMAIN list
<1>1. list \in Seq(Keys) /\ Range(list) = DOMAIN hash
  BY DEF Sound
<1>2. list # <<>>
  <2>1. SUFFICES ASSUME list = <<>> PROVE FALSE
    OBVIOUS
  <2>2. DOMAIN hash = {}
    BY <1>1, <2>1 DEF Range
  <2>3. Bytes(hash) = {}
    BY <2>2 DEF Bytes
  <2>4. used_mem = 0
    BY <2>3, FS_EmptySet DEF Sound
  <2>5. Len(list) = 0
    BY <2>1
  <2> QED BY <2>4, <2>5, LruAssumption DEF IsFull
<1>3. Len(list) \in DOMAIN list
  BY <1>1, <1>2
<1> QED BY <1>1, <1>3 DEF Victim, Range

-----------------------------------------------------------------------------
(* The cache between two calls.                                            *)

LEMMA CacheInit == Init => CacheInv
<1> SUFFICES ASSUME Init PROVE CacheInv
  OBVIOUS
<1>1. DOMAIN hash = {} /\ list = <<>> /\ alive = FALSE /\ used_mem = 0 /\ recent = <<>>
  BY DEF Init, Empty
<1>2. KeyInv
  BY <1>1, LruAssumption DEF KeyInv, Distinct, Range
<1>3. alive \in BOOLEAN /\ MemInv
  BY <1>1, Zenon DEF MemInv
<1>4. TypeOK
  BY <1>1, <1>3 DEF TypeOK
<1> QED BY <1>2, <1>3, <1>4 DEF CacheInv

(* What Sound says is the invariant while the cache is in use.             *)
LEMMA SoundBefore ==
  ASSUME CacheInv, alive
  PROVE  Sound(hash, list, used_mem)
BY DEF CacheInv, TypeOK, KeyInv, MemInv, Sound

LEMMA SoundAfter ==
  ASSUME Sound(hash, list, used_mem)', alive' = TRUE, (recent \in Seq(Keys))'
  PROVE  CacheInv'
<1>1. used_mem' \in Nat
  BY FS_CardinalityType DEF Sound
<1> QED BY <1>1 DEF CacheInv, TypeOK, KeyInv, MemInv, Sound

(* The history keeps its type.                                             *)
LEMMA TouchType ==
  ASSUME recent \in Seq(Keys), NEW k \in Keys, Touch(k)
  PROVE  recent' \in Seq(Keys)
<1>1. Without(recent, {k}) \in Seq(Keys)
  BY WithoutFacts
<1> QED BY <1>1 DEF Touch

(* What delete_tail_data leaves of a full cache.                           *)
LEMMA KeptSound ==
  ASSUME Sound(hash, list, used_mem), NEW kept,
         kept = IF IsFull THEN Deleted(Victim) ELSE Whole
  PROVE  /\ Sound(kept.hash, kept.list, kept.used)
         /\ Len(kept.list) < MaxKeyNum
         /\ DOMAIN kept.hash \subseteq DOMAIN hash
<1>0. Len(list) \in Nat /\ Len(list) <= MaxKeyNum
  BY DEF Sound
<1>1. CASE IsFull
  <2>1. PICK v \in DOMAIN hash : v = Victim
    BY <1>1, VictimIsThere
  <2>2. /\ Sound(Restrict(hash, DOMAIN hash \ {v}), Without(list, {v}), used_mem - Weight(v, hash[v]))
        /\ Len(Without(list, {v})) = Len(list) - 1
    BY DeleteSound
  <2>3. /\ kept.hash = Restrict(hash, DOMAIN hash \ {v})
        /\ kept.list = Without(list, {v})
        /\ kept.used = used_mem - Weight(v, hash[v])
    BY <1>1, <2>1 DEF Deleted
  <2>4. DOMAIN kept.hash \subseteq DOMAIN hash
    BY <2>3 DEF Restrict
  <2> QED BY <1>0, <2>2, <2>3, <2>4, LruAssumption
<1>2. CASE ~IsFull
  <2>1. kept.hash = hash /\ kept.list = list /\ kept.used = used_mem
    BY <1>2 DEF Whole
  <2>2. Len(list) < MaxKeyNum
    BY <1>0, <1>2, LruAssumption DEF IsFull
  <2> QED BY <2>1, <2>2
<1> QED BY <1>1, <1>2

LEMMA CacheStep == CacheInv /\ [Next]_vars => CacheInv'
<1> SUFFICES ASSUME CacheInv, [Next]_vars PROVE CacheInv'
  OBVIOUS
<1>0. recent \in Seq(Keys) /\ (alive => alive = TRUE)
  BY DEF CacheInv, TypeOK
<1>1. CASE NewLruCache
  <2>1. DOMAIN hash' = {} /\ list' = <<>> /\ alive' = TRUE /\ used_mem' = 0 /\ recent' = recent
    BY <1>1 DEF NewLruCache, Empty
  <2>2. Bytes(hash)' = {}
    BY <2>1 DEF Bytes
  <2>3. IsFiniteSet(Bytes(hash)') /\ Cardinality(Bytes(hash)') = 0
    BY <2>2, FS_EmptySet
  <2>4. Sound(hash, list, used_mem)'
    BY <2>1, <2>3, LruAssumption DEF Sound, Distinct, Range
  <2> QED BY <1>0, <2>1, <2>4, SoundAfter
<1>2. CASE DeleteLruCache
  <2>1. DOMAIN hash' = {} /\ list' = <<>> /\ alive' = FALSE /\ UNCHANGED <<used_mem, recent>>
    BY <1>2 DEF DeleteLruCache, Empty
  <2>2. KeyInv'
    BY <2>1, LruAssumption DEF KeyInv, Distinct, Range
  <2>3. alive' \in BOOLEAN /\ MemInv'
    BY <2>1, Zenon DEF MemInv
  <2>4. TypeOK'
    BY <2>1, <2>3 DEF CacheInv, TypeOK
  <2> QED BY <2>2, <2>3, <2>4 DEF CacheInv
<1>3. ASSUME NEW k \in Keys, Get(k) PROVE CacheInv'
  <2>1. Sound(hash, list, used_mem)
    BY <1>3, SoundBefore DEF Get
  <2>2. Sound(hash, MoveToHead(list, k), used_mem)
    BY <1>3, <2>1, MoveSound DEF Get
  <2>3. Sound(hash, list, used_mem)'
    BY <1>3, <2>2 DEF Get
  <2>4. recent' \in Seq(Keys) /\ alive' = TRUE
    BY <1>0, <1>3, TouchType DEF Get
  <2> QED BY <2>3, <2>4, SoundAfter
<1>4. ASSUME NEW k \in Keys, RemoveKey(k) PROVE CacheInv'
  <2>1. Sound(hash, list, used_mem)
    BY <1>4, SoundBefore DEF RemoveKey
  <2>2. Sound(Restrict(hash, DOMAIN hash \ {k}), Without(list, {k}), used_mem - Weight(k, hash[k]))
    BY <1>4, <2>1, DeleteSound DEF RemoveKey
  <2>3. Sound(hash, list, used_mem)'
    BY <1>4, <2>2 DEF RemoveKey, Deleted
  <2>4. recent' \in Seq(Keys) /\ alive' = TRUE
    BY <1>0, <1>4 DEF RemoveKey
  <2> QED BY <2>3, <2>4, SoundAfter
<1>5. ASSUME NEW k \in Keys, NEW d \in Data, Update(k, d) PROVE CacheInv'
  <2>1. Sound(hash, list, used_mem)
    BY <1>5, SoundBefore DEF Update
  <2>2. Sound([hash EXCEPT ![k] = d], list, used_mem + Charge(d, hash[k]))
    BY <1>5, <2>1, UpdateSound DEF Update
  <2>3. k \in DOMAIN [hash EXCEPT ![k] = d]
    BY <1>5 DEF Update
  <2>4. Sound([hash EXCEPT ![k] = d], MoveToHead(list, k), used_mem + Charge(d, hash[k]))
    BY <2>2, <2>3, MoveSound
  <2>5. Sound(hash, list, used_mem)'
    BY <1>5, <2>4 DEF Update
  <2>6. recent' \in Seq(Keys) /\ alive' = TRUE
    BY <1>0, <1>5, TouchType DEF Update
  <2> QED BY <2>5, <2>6, SoundAfter
<1>6. ASSUME NEW k \in Keys, NEW d \in Data, Insert(k, d) PROVE CacheInv'
  <2>1. Sound(hash, list, used_mem)
    BY <1>6, SoundBefore DEF Insert
  <2>2. PICK kept : kept = IF IsFull THEN Deleted(Victim) ELSE Whole
    OBVIOUS
  <2>3. /\ Sound(kept.hash, kept.list, kept.used)
        /\ Len(kept.list) < MaxKeyNum
        /\ k \notin DOMAIN kept.hash
    BY <1>6, <2>1, <2>2, KeptSound DEF Insert
  <2>4. alive' = TRUE
    BY <1>0, <1>6 DEF Insert
  <2>5. CASE /\ hash' = [x \in DOMAIN kept.hash \cup {k} |-> IF x = k THEN d ELSE kept.hash[x]]
             /\ list' = <<k>> \o kept.list
             /\ used_mem' = kept.used + Weight(k, d)
             /\ Touch(k)
    <3>1. Sound([x \in DOMAIN kept.hash \cup {k} |-> IF x = k THEN d ELSE kept.hash[x]],
                <<k>> \o kept.list, kept.used + Weight(k, d))
      BY <2>3, InsertSound
    <3>2. Sound(hash, list, used_mem)'
      BY <2>5, <3>1
    <3>3. recent' \in Seq(Keys)
      BY <1>0, <2>5, TouchType
    <3> QED BY <2>4, <3>2, <3>3, SoundAfter
  <2>6. CASE hash' = kept.hash /\ list' = kept.list /\ used_mem' = kept.used /\ recent' = recent
    <3>1. Sound(hash, list, used_mem)'
      BY <2>3, <2>6
    <3> QED BY <1>0, <2>4, <2>6, <3>1, SoundAfter
  <2> QED BY <1>6, <2>2, <2>5, <2>6 DEF Insert
<1>7. CASE UNCHANGED vars
  BY <1>7 DEF vars, CacheInv, TypeOK, KeyInv, MemInv
<1> QED BY <1>1, <1>2, <1>3, <1>4, <1>5, <1>6, <1>7 DEF Next

(* Types: list and hash hold keys, data and the counter is no less than 0. *)
THEOREM LruTypeCorrect == Spec => []TypeOK
<1>1. CacheInv => TypeOK
  BY DEF CacheInv
<1> QED BY <1>1, CacheInit, CacheStep, PTL DEF Spec

LEMMA CacheAlways == Spec => []CacheInv
BY CacheInit, CacheStep, PTL DEF Spec

(* The list and the hash table always hold the same keys, each once, and   *)
(* never more than max_key_num, whatever was put, removed or failed.       *)
THEOREM LimitCorrect == Spec => []WithinKeyLimit
<1>1. CacheInv => WithinKeyLimit
  <2> SUFFICES ASSUME CacheInv PROVE WithinKeyLimit
    OBVIOUS
  <2>1. list \in Seq(Keys) /\ KeyInv
    BY DEF CacheInv, TypeOK
  <2>2. Cardinality(Range(list)) = Len(list)
    BY <2>1, DistinctLength DEF KeyInv
  <2> QED BY <2>1, <2>2 DEF KeyInv, WithinKeyLimit
<1> QED BY <1>1, CacheAlways, PTL

(* used_mem is the memory of the entries after every operation.            *)
THEOREM MemCorrect == Spec => []UsedMemExact
<1>1. CacheInv => UsedMemExact
  BY DEF CacheInv, MemInv, UsedMemExact
<1> QED BY <1>1, CacheAlways, PTL

-----------------------------------------------------------------------------
(* The order of use.                                                       *)

(* Unlinking a key keeps the order of the others.                          *)
LEMMA UnlinkOrdered ==
  ASSUME NEW s \in Seq(Keys), NEW r, Ordered(s, r), NEW k
  PROVE  Ordered(Without(s, {k}), r)
<1>1. PICK q : q = Without(s, {k})
  OBVIOUS
<1>2. Unlinked(q, s, k)
  BY <1>1, UnlinkFacts
<1>3. ASSUME NEW m \in DOMAIN q, NEW n \in DOMAIN q, m < n PROVE After(r, q[n], q[m])
  <2>1. PICK i, j \in DOMAIN s : i < j /\ s[i] = q[m] /\ s[j] = q[n]
    BY <1>2, <1>3 DEF Unlinked
  <2> QED BY <2>1 DEF Ordered
<1>4. Ordered(q, r)
  BY <1>2, <1>3 DEF Ordered, Unlinked
<1> QED BY <1>1, <1>4

(* A key that is linked at the head and touched at the same time.          *)
LEMMA LinkOrdered ==
  ASSUME NEW s \in Seq(Keys), NEW r \in Seq(Keys), Ordered(s, r),
         NEW k \in Keys, k \notin Range(s)
  PROVE  Ordered(<<k>> \o s, <<k>> \o Without(r, {k}))
<1>1. PICK u : u = Without(r, {k})
  OBVIOUS
<1>2. Unlinked(u, r, k)
  BY <1>1, UnlinkFacts
<1>3. u \in Seq(Keys)
  BY <1>2 DEF Unlinked
<1>4. PICK p : p = <<k>> \o u
  OBVIOUS
<1>5. Linked(p, u, k)
  BY <1>3, <1>4, LinkFacts
<1>6. PICK q : q = <<k>> \o s
  OBVIOUS
<1>7. Linked(q, s, k)
  BY <1>6, LinkFacts
<1>8. Distinct(p)
  <2>1. Distinct(u) /\ k \notin Range(u)
    BY <1>2 DEF Unlinked, Ordered
  <2> QED BY <1>5, <2>1 DEF Linked
<1>9. Range(s) \subseteq Range(u)
  BY <1>2 DEF Unlinked, Ordered
<1>10. Range(q) \subseteq Range(p)
  BY <1>5, <1>7, <1>9 DEF Linked
<1>11. ASSUME NEW m \in DOMAIN q, NEW n \in DOMAIN q, m < n PROVE After(p, q[n], q[m])
  <2>1. \/ q[m] = k /\ q[n] \in Range(s)
        \/ \E i, j \in DOMAIN s : i < j /\ s[i] = q[m] /\ s[j] = q[n]
    BY <1>7, <1>11 DEF Linked
  <2>2. CASE q[m] = k /\ q[n] \in Range(s)
    BY <1>5, <1>9, <2>2 DEF Linked
  <2>3. CASE \E i, j \in DOMAIN s : i < j /\ s[i] = q[m] /\ s[j] = q[n]
    <3>1. PICK i, j \in DOMAIN s : i < j /\ s[i] = q[m] /\ s[j] = q[n]
      BY <2>3
    <3>2. After(r, q[n], q[m])
      BY <3>1 DEF Ordered
    <3>3. q[n] # k /\ q[m] # k
      BY <3>1 DEF Range
    <3>4. After(u, q[n], q[m])
      BY <1>2, <3>2, <3>3 DEF Unlinked
    <3> QED BY <1>5, <3>4 DEF Linked
  <2> QED BY <2>1, <2>2, <2>3
<1>12. Ordered(q, p)
  BY <1>8, <1>10, <1>11 DEF Ordered
<1> QED BY <1>1, <1>4, <1>6, <1>12

(* move_to_head of a key that is used.                                     *)
LEMMA UseOrdered ==
  ASSUME NEW s \in Seq(Keys), NEW r \in Seq(Keys), Ordered(s, r), NEW k \in Keys
  PROVE  Ordered(MoveToHead(s, k), <<k>> \o Without(r, {k}))
<1>1. PICK q : q = Without(s, {k})
  OBVIOUS
<1>2. Unlinked(q, s, k)
  BY <1>1, UnlinkFacts
<1>3. q \in Seq(Keys) /\ k \notin Range(q)
  BY <1>2 DEF Unlinked
<1>4. Ordered(q, r)
  BY <1>1, UnlinkOrdered
<1>5. Ordered(<<k>> \o q, <<k>> \o Without(r, {k}))
  BY <1>3, <1>4, LinkOrdered
<1> QED BY <1>1, <1>5 DEF MoveToHead

LEMMA OrderInit == Init => OrderInv
BY DEF Init, OrderInv, Ordered, Distinct, Range

LEMMA OrderStep == CacheInv /\ OrderInv /\ [Next]_vars => OrderInv'
<1> SUFFICES ASSUME CacheInv, OrderInv, [Next]_vars PROVE OrderInv'
  OBVIOUS
<1>0. list \in Seq(Keys) /\ recent \in Seq(Keys) /\ Ordered(list, recent)
  BY DEF CacheInv, TypeOK, OrderInv
<1>1. CASE NewLruCache \/ DeleteLruCache
  <2>1. list' = <<>> /\ recent' = recent
    BY <1>1 DEF NewLruCache, DeleteLruCache
  <2> QED BY <1>0, <2>1 DEF OrderInv, Ordered, Range
<1>2. ASSUME NEW k \in Keys, list' = MoveToHead(list, k), Touch(k) PROVE OrderInv'
  <2>1. Ordered(MoveToHead(list, k), <<k>> \o Without(recent, {k}))
    BY <1>0, UseOrdered
  <2> QED BY <1>2, <2>1 DEF Touch, OrderInv
<1>3. ASSUME NEW k \in Keys, RemoveKey(k) PROVE OrderInv'
  <2>1. Ordered(Without(list, {k}), recent)
    BY <1>0, UnlinkOrdered
  <2> QED BY <1>3, <2>1 DEF RemoveKey, Deleted, OrderInv
<1>4. ASSUME NEW k \in Keys, NEW d \in Data, Insert(k, d) PROVE OrderInv'
  <2>1. Sound(hash, list, used_mem)
    BY <1>4, SoundBefore DEF Insert
  <2>2. PICK kept : kept = IF IsFull THEN Deleted(Victim) ELSE Whole
    OBVIOUS
  <2>3. kept.list \in Seq(Keys) /\ k \notin Range(kept.list)
    BY <1>4, <2>1, <2>2, KeptSound DEF Insert, Sound
  <2>4. Ordered(kept.list, recent)
    <3>1. CASE IsFull
      <4>1. Ordered(Without(list, {Victim}), recent)
        BY <1>0, UnlinkOrdered
      <4> QED BY <2>2, <3>1, <4>1 DEF Deleted
    <3>2. CASE ~IsFull
      BY <1>0, <2>2, <3>2 DEF Whole
    <3> QED BY <3>1, <3>2
  <2>5. CASE list' = <<k>> \o kept.list /\ Touch(k)
    <3>1. Ordered(<<k>> \o kept.list, <<k>> \o Without(recent, {k}))
      BY <1>0, <2>3, <2>4, LinkOrdered
    <3> QED BY <2>5, <3>1 DEF Touch, OrderInv
  <2>6. CASE list' = kept.list /\ recent' = recent
    BY <2>4, <2>6 DEF OrderInv
  <2> QED BY <1>4, <2>2, <2>5, <2>6 DEF Insert
<1>5. CASE UNCHANGED vars
  BY <1>0, <1>5 DEF vars, OrderInv
<1> QED BY <1>1, <1>2, <1>3, <1>4, <1>5 DEF Next, Get, Update

LEMMA OrderAlways == Spec => [](CacheInv /\ OrderInv)
BY CacheInit, CacheStep, OrderInit, OrderStep, PTL DEF Spec

(* The list is in the order of the last put or get of its keys, whatever   *)
(* was evicted, removed or failed to be inserted in between.               *)
THEOREM OrderCorrect == Spec => []LruOrder
<1>1. OrderInv => LruOrder
  BY DEF OrderInv, Ordered, LruOrder, UsedBefore, After
<1> QED BY <1>1, OrderAlways, PTL

(* A put that pushes a key out takes the one whose last use is longest     *)
(* ago: the tail of the list, which the two invariants make the oldest.    *)
THEOREM EvictionCorrect == Spec => EvictsOldest
<1>1. CacheInv /\ OrderInv /\ [Next]_vars =>
        [\A new \in DOMAIN hash' \ DOMAIN hash, gone \in DOMAIN hash \ DOMAIN hash',
           kept \in DOMAIN hash \cap DOMAIN hash' : UsedBefore(gone, kept)]_vars
  <2> SUFFICES ASSUME CacheInv, OrderInv, Next,
                      NEW new \in DOMAIN hash' \ DOMAIN hash,
                      NEW gone \in DOMAIN hash \ DOMAIN hash',
                      NEW kept \in DOMAIN hash \cap DOMAIN hash'
               PROVE  UsedBefore(gone, kept)
    OBVIOUS
  <2>1. ~NewLruCache /\ ~DeleteLruCache
    BY DEF NewLruCache, DeleteLruCache, Empty
  <2>2. \A k \in Keys : ~Get(k) /\ ~RemoveKey(k)
    BY DEF Get, RemoveKey, Deleted, Restrict
  <2>3. \A k \in Keys, d \in Data : ~Update(k, d)
    BY DEF Update
  <2>4. PICK k \in Keys, d \in Data : Insert(k, d)
    BY <2>1, <2>2, <2>3 DEF Next
  <2>5. Sound(hash, list, used_mem)
    BY <2>4, SoundBefore DEF Insert
  <2>6. IsFull
    BY <2>4 DEF Insert, Whole
  <2>7. PICK v : v = Victim
    OBVIOUS
  <2>8. gone = v
    BY <2>4, <2>6, <2>7 DEF Insert, Deleted, Restrict
  <2>9. Len(list) \in DOMAIN list /\ list[Len(list)] = gone
    BY <2>5, <2>6, <2>7, <2>8, VictimIsThere DEF Victim
  <2>10. PICK m \in DOMAIN list : list[m] = kept
    BY <2>5 DEF Sound, Range
  <2>11. m < Len(list)
    <3>1. m # Len(list) /\ kept # gone
      BY <2>9, <2>10
    <3> QED BY <2>5, <2>10, <3>1 DEF Sound
  <2> QED BY <2>9, <2>10, <2>11 DEF OrderInv, Ordered, After, UsedBefore
<1> QED BY <1>1, OrderAlways, PTL DEF Spec, EvictsOldest
=============================================================================
