------------------------------ MODULE Hdf5Proofs ------------------------------
(***************************************************************************)
(* Proofs about Hdf5Driver, for every number of ranks, variables and       *)
(* records, all maps and every flush frequency.                            *)
(***************************************************************************)
EXTENDS Hdf5Driver, PrefixSums

-----------------------------------------------------------------------------
(* Increasing sequences.                                                   *)

Increasing(s) == \A i, j \in 1 .. Len(s) : i < j => s[i] < s[j]

\* Increasing sequences one behind the other make one.
LEMMA FlattenIncreases ==
  ASSUME NEW s \in Seq(Seq(Nat)),
         \A i \in 1 .. Len(s) : Increasing(s[i]),
         \A i, j \in 1 .. Len(s) : i < j =>
           \A a \in 1 .. Len(s[i]), b \in 1 .. Len(s[j]) : s[i][a] < s[j][b]
  PROVE  /\ FlattenSeq(s) \in Seq(Nat)
         /\ Increasing(FlattenSeq(s))
         /\ ToSet(FlattenSeq(s)) = UNION {ToSet(s[i]) : i \in 1 .. Len(s)}
<1> DEFINE n == Len(s)
<1>1. PICK g : IsConcat(g, s, Nat, n) /\ FlattenSeq(s) = g[n]
  BY FlattenIsConcat
<1>2. /\ n \in Nat /\ \A i \in 1 .. n : s[i] \in Seq(Nat)
      /\ g \in [0 .. n -> Seq(Nat)] /\ g[0] = <<>>
      /\ \A i \in 1 .. n : g[i] = g[i - 1] \o s[i]
  <2>1. n \in Nat /\ \A i \in 1 .. n : s[i] \in Seq(Nat)
    OBVIOUS
  <2> QED
    BY <1>1, <2>1 DEF IsConcat
<1> DEFINE Good(k) == /\ Increasing(g[k])
                      /\ ToSet(g[k]) = UNION {ToSet(s[i]) : i \in 1 .. k}
           D == {k \in Nat : k <= n => Good(k)}
<1>3. 0 \in D
  BY <1>2 DEF Increasing, ToSet
<1>4. ASSUME NEW k \in Nat, k \in D PROVE k + 1 \in D
  <2>1. SUFFICES ASSUME k + 1 <= n PROVE Good(k + 1)
    OBVIOUS
  <2> DEFINE a == g[k]
             b == s[k + 1]
             c == g[k + 1]
  <2>2. a \in Seq(Nat) /\ b \in Seq(Nat) /\ k + 1 \in 1 .. n /\ k <= n /\ Good(k)
    BY <1>2, <1>4, <2>1
  <2>3. c = a \o b
    <3>1. (k + 1) - 1 = k
      OBVIOUS
    <3> QED
      BY <1>2, <2>2, <3>1
  <2>4. /\ Increasing(a) /\ Increasing(b)
        /\ ToSet(a) = UNION {ToSet(s[i]) : i \in 1 .. k}
    BY <2>2
  <2>5. \A x \in 1 .. Len(a), y \in 1 .. Len(b) : a[x] < b[y]
    <3> TAKE x \in 1 .. Len(a), y \in 1 .. Len(b)
    <3>1. a[x] \in ToSet(a)
      BY <2>2 DEF ToSet
    <3>2. PICK i \in 1 .. k : a[x] \in ToSet(s[i])
      BY <2>4, <3>1
    <3>3. i \in 1 .. n /\ i < k + 1 /\ s[i] \in Seq(Nat)
      BY <1>2, <2>1
    <3>4. PICK z \in 1 .. Len(s[i]) : a[x] = s[i][z]
      <4>1. DOMAIN s[i] = 1 .. Len(s[i])
        BY <3>3
      <4> QED
        BY <3>2, <4>1 DEF ToSet
    <3> QED
      BY <2>2, <3>3, <3>4
  <2> HIDE DEF a, b, c
  <2>6. /\ c \in Seq(Nat) /\ Len(c) = Len(a) + Len(b)
        /\ \A i \in 1 .. Len(a) + Len(b) : c[i] = IF i <= Len(a) THEN a[i] ELSE b[i - Len(a)]
        /\ Len(a) \in Nat /\ Len(b) \in Nat
    BY <2>2, <2>3, ConcatProperties, LenProperties
  <2>7. Increasing(c)
    <3> SUFFICES ASSUME NEW i \in 1 .. Len(c), NEW j \in 1 .. Len(c), i < j
                 PROVE  c[i] < c[j]
      BY DEF Increasing
    <3>1. /\ i \in 1 .. Len(a) + Len(b) /\ j \in 1 .. Len(a) + Len(b)
          /\ \A x, y \in 1 .. Len(a) : x < y => a[x] < a[y]
          /\ \A x, y \in 1 .. Len(b) : x < y => b[x] < b[y]
      BY <2>4, <2>6 DEF Increasing
    <3>2. CASE j <= Len(a)
      <4>1. i \in 1 .. Len(a) /\ j \in 1 .. Len(a)
        BY <2>6, <3>2
      <4>2. c[i] = a[i] /\ c[j] = a[j]
        BY <2>6, <3>1, <4>1
      <4> QED
        BY <3>1, <4>1, <4>2
    <3>3. CASE i <= Len(a) /\ ~(j <= Len(a))
      <4>1. i \in 1 .. Len(a) /\ j - Len(a) \in 1 .. Len(b)
        BY <2>6, <3>1, <3>3
      <4>2. c[i] = a[i] /\ c[j] = b[j - Len(a)]
        BY <2>6, <3>1, <3>3
      <4> QED
        BY <2>5, <4>1, <4>2
    <3>4. CASE ~(i <= Len(a))
      <4> DEFINE x == i - Len(a)
                 y == j - Len(a)
      <4>1. x \in 1 .. Len(b) /\ y \in 1 .. Len(b) /\ x < y
        BY <2>6, <3>1, <3>4
      <4>2. c[i] = b[x] /\ c[j] = b[y]
        <5>1. ~(j <= Len(a))
          BY <2>6, <3>1, <3>4
        <5> QED
          BY <2>6, <3>1, <3>4, <5>1
      <4> HIDE DEF x, y
      <4> QED
        BY <3>1, <4>1, <4>2
    <3> QED
      BY <3>2, <3>3, <3>4
  <2>8. ToSet(c) = ToSet(a) \cup ToSet(b)
    <3>1. DOMAIN c = 1 .. Len(c) /\ DOMAIN a = 1 .. Len(a) /\ DOMAIN b = 1 .. Len(b)
      BY <2>2, <2>6
    <3>2. ASSUME NEW x \in ToSet(c) PROVE x \in ToSet(a) \cup ToSet(b)
      <4>1. PICK i \in 1 .. Len(c) : x = c[i]
        BY <3>1, <3>2 DEF ToSet
      <4>2. CASE i <= Len(a)
        <5>1. i \in 1 .. Len(a) /\ c[i] = a[i]
          BY <2>6, <4>1, <4>2
        <5>2. a[i] \in ToSet(a)
          BY <3>1, <5>1 DEF ToSet
        <5> QED
          BY <4>1, <5>1, <5>2
      <4>3. CASE ~(i <= Len(a))
        <5> DEFINE y == i - Len(a)
        <5>1. y \in 1 .. Len(b) /\ c[i] = b[y]
          BY <2>6, <4>1, <4>3
        <5> HIDE DEF y
        <5>2. b[y] \in ToSet(b)
          BY <3>1, <5>1 DEF ToSet
        <5> QED
          BY <4>1, <5>1, <5>2
      <4> QED
        BY <4>2, <4>3
    <3>3. ASSUME NEW x \in ToSet(a) PROVE x \in ToSet(c)
      <4>1. PICK i \in 1 .. Len(a) : x = a[i]
        BY <3>1, <3>3 DEF ToSet
      <4>2. c[i] = a[i] /\ i \in 1 .. Len(c)
        BY <2>6, <4>1
      <4> QED
        BY <3>1, <4>1, <4>2 DEF ToSet
    <3>4. ASSUME NEW x \in ToSet(b) PROVE x \in ToSet(c)
      <4>1. PICK i \in 1 .. Len(b) : x = b[i]
        BY <3>1, <3>4 DEF ToSet
      <4>2. /\ i + Len(a) \in 1 .. Len(c) /\ ~(i + Len(a) <= Len(a))
            /\ (i + Len(a)) - Len(a) = i
        BY <2>6, <4>1
      <4>3. c[i + Len(a)] = b[i]
        BY <2>6, <4>2
      <4> QED
        BY <3>1, <4>1, <4>2, <4>3 DEF ToSet
    <3> QED
      BY <3>2, <3>3, <3>4
  <2>9. (1 .. k + 1) = (1 .. k) \cup {k + 1}
    OBVIOUS
  <2>10. ToSet(c) = UNION {ToSet(s[i]) : i \in 1 .. k + 1}
    BY <2>4, <2>8, <2>9 DEF b
  <2> QED
    BY <2>7, <2>10 DEF c
<1>5. Good(n)
  <2>1. \A k \in Nat : k \in D
    <3> HIDE DEF D
    <3> QED
      BY <1>3, <1>4, SetInduction
  <2>2. n \in D
    BY <1>2, <2>1
  <2> QED
    BY <1>2, <2>2
<1>6. g[n] \in Seq(Nat)
  BY <1>2
<1> QED
  BY <1>1, <1>5, <1>6

\* In an increasing sequence the place of an element is the number of elements
\* up to it.
LEMMA PlaceInIncreasing ==
  ASSUME NEW s \in Seq(Nat), Increasing(s), NEW i \in 1 .. Len(s)
  PROVE  /\ Cardinality({x \in ToSet(s) : x <= s[i]}) = i
         /\ \A j \in 1 .. Len(s) : s[j] = s[i] => j = i
<1>1. s \in [1 .. Len(s) -> Nat] /\ Len(s) \in Nat /\ DOMAIN s = 1 .. Len(s)
  OBVIOUS
<1>2. \A j, k \in 1 .. Len(s) : j < k => s[j] < s[k]
  BY DEF Increasing
<1>3. \A j, k \in 1 .. Len(s) : s[j] = s[k] => j = k
  BY <1>1, <1>2
<1> DEFINE T == {x \in ToSet(s) : x <= s[i]}
           f == [j \in 1 .. i |-> s[j]]
<1>4. f \in Bijection(1 .. i, T)
  <2>1. ASSUME NEW j \in 1 .. i PROVE s[j] \in T
    BY <1>1, <1>2, <2>1 DEF ToSet
  <2>2. f \in [1 .. i -> T]
    BY <2>1
  <2>3. \A j, k \in 1 .. i : f[j] = f[k] => j = k
    BY <1>3
  <2>4. ASSUME NEW x \in T PROVE \E j \in 1 .. i : f[j] = x
    <3>1. PICK j \in 1 .. Len(s) : s[j] = x
      BY <1>1, <2>4 DEF ToSet
    <3>2. j <= i
      BY <1>1, <1>2, <2>4, <3>1
    <3> QED
      BY <3>1, <3>2
  <2> QED
    BY <2>2, <2>3, <2>4 DEF Bijection, Injection, Surjection, IsInjective
<1>5. Cardinality(T) = i
  <2>1. ExistsBijection(1 .. i, T)
    BY <1>4 DEF ExistsBijection
  <2> QED
    BY <2>1, FS_CountingElements
<1> QED
  BY <1>3, <1>5

\* The elements of an increasing sequence are different.
LEMMA IncreasingCounts ==
  ASSUME NEW s \in Seq(Nat), Increasing(s)
  PROVE  Cardinality(ToSet(s)) = Len(s) /\ IsFiniteSet(ToSet(s))
<1>1. s \in [1 .. Len(s) -> Nat] /\ Len(s) \in Nat /\ DOMAIN s = 1 .. Len(s)
  OBVIOUS
<1>2. s \in Bijection(1 .. Len(s), ToSet(s))
  <2>1. \A j, k \in 1 .. Len(s) : s[j] = s[k] => j = k
    BY PlaceInIncreasing
  <2>2. s \in [1 .. Len(s) -> ToSet(s)]
    BY <1>1 DEF ToSet
  <2> QED
    BY <1>1, <2>1, <2>2 DEF Bijection, Injection, Surjection, IsInjective, ToSet
<1>3. ExistsBijection(1 .. Len(s), ToSet(s))
  BY <1>2 DEF ExistsBijection
<1> QED
  BY <1>1, <1>3, FS_CountingElements, FS_NatBijection

-----------------------------------------------------------------------------
(* Requests.                                                               *)

Extents  == [off : Nat, len : Nat \ {0}]
Extents0 == [off : Nat, len : Nat]

\* Requests at different offsets can be sorted, and Sorted() has them all.
LEMMA SortedOrders ==
  ASSUME NEW q \in Seq(Extents),
         \A i, j \in 1 .. Len(q) : i # j => q[i].off # q[j].off
  PROVE  /\ Sorted(q) \in [1 .. Len(q) -> ToSet(q)]
         /\ \A i, j \in 1 .. Len(q) : i < j => Sorted(q)[i].off < Sorted(q)[j].off
         /\ \A x \in ToSet(q) : \E i \in 1 .. Len(q) : Sorted(q)[i] = x
<1> DEFINE n == Len(q)
           T == ToSet(q)
           below(x) == {y \in T : y.off <= x.off}
           rank == [x \in T |-> Cardinality(below(x))]
<1>1. /\ n \in Nat /\ DOMAIN q = 1 .. n /\ T = {q[i] : i \in 1 .. n}
      /\ \A i \in 1 .. n : q[i] \in T /\ q[i].off \in Nat
  <2>1. n \in Nat /\ DOMAIN q = 1 .. n /\ \A i \in 1 .. n : q[i] \in Extents
    OBVIOUS
  <2>2. T = {q[i] : i \in 1 .. n}
    BY <2>1 DEF ToSet
  <2> HIDE DEF n, T
  <2> QED
    BY <2>1, <2>2 DEF Extents
<1>2. \A x, y \in T : x.off = y.off => x = y
  BY <1>1
<1>3. IsFiniteSet(T) /\ Cardinality(T) = n /\ q \in Bijection(1 .. n, T)
  <2>1. q \in Bijection(1 .. n, T)
    <3>1. q \in Seq(Extents)
      OBVIOUS
    <3>2. \A i, j \in 1 .. n : i # j => q[i].off # q[j].off
      OBVIOUS
    <3> HIDE DEF n, T
    <3>3. q \in [1 .. n -> T]
      BY <1>1, <3>1
    <3>4. \A i, j \in 1 .. n : q[i] = q[j] => i = j
      BY <3>2
    <3>5. \A x \in T : \E i \in 1 .. n : q[i] = x
      BY <1>1
    <3> QED
      BY <3>3, <3>4, <3>5 DEF Bijection, Injection, Surjection, IsInjective
  <2>2. ExistsBijection(1 .. n, T)
    BY <2>1 DEF ExistsBijection
  <2> QED
    BY <1>1, <2>1, <2>2, FS_CountingElements, FS_NatBijection
<1>4. \A x \in T : x.off \in Nat
  BY <1>1
<1>5. ASSUME NEW x \in T
      PROVE  IsFiniteSet(below(x)) /\ Cardinality(below(x)) \in 1 .. n
  <2>1. below(x) \in SUBSET T /\ x \in below(x)
    BY <1>4
  <2> HIDE DEF below, T
  <2>2. IsFiniteSet(below(x)) /\ Cardinality(below(x)) <= n
    BY <1>3, <2>1, FS_Subset
  <2>3. Cardinality(below(x)) \in Nat /\ Cardinality(below(x)) # 0
    BY <2>1, <2>2, FS_CardinalityType, FS_EmptySet
  <2> QED
    BY <1>1, <2>2, <2>3
<1>6. ASSUME NEW x \in T, NEW y \in T, x.off < y.off PROVE rank[x] < rank[y]
  <2>1. below(x) \in SUBSET below(y) /\ y \in below(y) /\ y \notin below(x)
    BY <1>4, <1>6
  <2> HIDE DEF below
  <2>2. Cardinality(below(x)) <= Cardinality(below(y)) /\ Cardinality(below(x)) # Cardinality(below(y))
    BY <1>5, <2>1, FS_Subset
  <2>3. Cardinality(below(x)) \in Int /\ Cardinality(below(y)) \in Int
    BY <1>5
  <2> QED
    BY <2>2, <2>3
<1>7. rank \in [T -> 1 .. n]
  BY <1>5
<1> HIDE DEF rank, T
<1>8. rank \in Surjection(T, 1 .. n)
  <2>1. \A x, y \in T : rank[x] = rank[y] => x = y
    <3>1. \A x \in T : rank[x] \in Int
      BY <1>1, <1>7
    <3> QED
      BY <1>2, <1>4, <1>6, <3>1
  <2>2. rank \in Injection(T, 1 .. n)
    BY <1>7, <2>1 DEF Injection, IsInjective
  <2>3. IsFiniteSet(1 .. n) /\ Cardinality(1 .. n) = n
    BY <1>1, FS_Interval
  <2> QED
    BY <1>3, <2>2, <2>3, FS_Injection
<1> DEFINE s == [i \in 1 .. n |-> CHOOSE x \in T : rank[x] = i]
<1>9. \A i \in 1 .. n : s[i] \in T /\ rank[s[i]] = i
  BY <1>8 DEF Surjection
<1>10. s \in [1 .. n -> T] /\ \A i, j \in 1 .. n : i < j => s[i].off < s[j].off
  <2>1. ASSUME NEW i \in 1 .. n, NEW j \in 1 .. n, i < j PROVE s[i].off < s[j].off
    <3>1. /\ s[i] \in T /\ s[j] \in T /\ rank[s[i]] = i /\ rank[s[j]] = j
          /\ s[i].off \in Nat /\ s[j].off \in Nat
      BY <1>4, <1>9
    <3>2. s[i].off # s[j].off
      BY <1>2, <2>1, <3>1
    <3>3. ~(s[j].off < s[i].off)
      BY <1>6, <2>1, <3>1
    <3> HIDE DEF s
    <3> QED
      BY <3>1, <3>2, <3>3
  <2> QED
    BY <1>9, <2>1
<1> HIDE DEF s
<1> DEFINE z == Sorted(q)
<1>11. z \in [1 .. n -> T] /\ \A i, j \in 1 .. n : i < j => z[i].off < z[j].off
  BY <1>1, <1>10 DEF Sorted, T
<1> HIDE DEF z
<1>12. z \in Injection(1 .. n, T)
  <2>1. ASSUME NEW i \in 1 .. n, NEW j \in 1 .. n, z[i] = z[j] PROVE i = j
    <3>1. z[i].off \in Nat /\ z[j].off \in Nat /\ z[i].off = z[j].off
      BY <1>4, <1>11, <2>1
    <3> QED
      BY <1>11, <3>1
  <2> QED
    BY <1>11, <2>1 DEF Injection, IsInjective
<1>13. z \in Surjection(1 .. n, T)
  <2>1. IsFiniteSet(1 .. n) /\ Cardinality(1 .. n) = n
    BY <1>1, FS_Interval
  <2> QED
    BY <1>3, <1>12, <2>1, FS_Injection
<1> QED
  BY <1>11, <1>13 DEF Surjection, z, T

\* The elements of requests that follow each other.
LEMMA ElementsIncrease ==
  ASSUME NEW s \in Seq(Extents0),
         \A i, j \in 1 .. Len(s) : i < j => s[i].off + s[i].len <= s[j].off
  PROVE  /\ Elements(s) \in Seq(Nat) /\ Increasing(Elements(s))
         /\ \A p : p \in ToSet(Elements(s)) <=>
              p \in Nat /\ \E i \in 1 .. Len(s) : s[i].off <= p /\ p < s[i].off + s[i].len
<1> DEFINE n == Len(s)
           e(i) == [j \in 1 .. s[i].len |-> s[i].off + j - 1]
           t == [i \in 1 .. n |-> e(i)]
<1>1. n \in Nat /\ \A i \in 1 .. n : s[i].off \in Nat /\ s[i].len \in Nat
  <2>1. n \in Nat /\ \A i \in 1 .. n : s[i] \in Extents0
    OBVIOUS
  <2> HIDE DEF n
  <2> QED
    BY <2>1 DEF Extents0
<1>2. ASSUME NEW i \in 1 .. n
      PROVE  /\ e(i) \in Seq(Nat) /\ Len(e(i)) = s[i].len /\ Increasing(e(i))
             /\ \A j \in 1 .. s[i].len : e(i)[j] = s[i].off + j - 1
             /\ ToSet(e(i)) = {s[i].off + j - 1 : j \in 1 .. s[i].len}
  <2> DEFINE o == s[i].off
             l == s[i].len
             z == [j \in 1 .. l |-> o + j - 1]
  <2>1. o \in Nat /\ l \in Nat
    BY <1>1, <1>2
  <2> HIDE DEF o, l
  <2>2. z \in [1 .. l -> Nat]
    BY <2>1
  <2>3. z \in Seq(Nat) /\ Len(z) = l
    BY <2>1, <2>2
  <2>4. Increasing(z)
    BY <2>1, <2>3 DEF Increasing
  <2>5. ToSet(z) = {o + j - 1 : j \in 1 .. l}
    BY DEF ToSet
  <2> QED
    BY <2>3, <2>4, <2>5 DEF o, l
<1>3. t \in Seq(Seq(Nat)) /\ Len(t) = n /\ \A i \in 1 .. n : t[i] = e(i)
  <2>1. t \in [1 .. n -> Seq(Nat)]
    BY <1>2
  <2> HIDE DEF n
  <2> QED
    BY <1>1, <2>1
<1>4. ASSUME NEW i \in 1 .. n, NEW j \in 1 .. n, i < j,
             NEW a \in 1 .. Len(t[i]), NEW b \in 1 .. Len(t[j])
      PROVE  t[i][a] < t[j][b]
  <2>1. /\ a \in 1 .. s[i].len /\ b \in 1 .. s[j].len
        /\ t[i][a] = s[i].off + a - 1 /\ t[j][b] = s[j].off + b - 1
    BY <1>2, <1>3, <1>4
  <2> HIDE DEF t
  <2>2. s[i].off + s[i].len <= s[j].off
    BY <1>4
  <2>3. s[i].off \in Nat /\ s[i].len \in Nat /\ s[j].off \in Nat /\ s[j].len \in Nat
    BY <1>1, <1>4
  <2>4. /\ a \in Int /\ b \in Int /\ a <= s[i].len /\ 1 <= b
    BY <2>1, <2>3
  <2> DEFINE o == s[i].off
             l == s[i].len
             m == s[j].off
  <2>5. /\ a <= l /\ 1 <= b /\ o + l <= m /\ o \in Int /\ l \in Int /\ m \in Int
        /\ t[i][a] = o + a - 1 /\ t[j][b] = m + b - 1
    BY <2>1, <2>2, <2>3, <2>4
  <2> HIDE DEF o, l, m
  <2> QED
    BY ONLY <2>4, <2>5
<1>5. Elements(s) = FlattenSeq(t)
  BY DEF Elements
<1>6. \A i \in 1 .. n : Increasing(t[i])
  BY <1>2, <1>3
<1> HIDE DEF t
<1>7. /\ FlattenSeq(t) \in Seq(Nat) /\ Increasing(FlattenSeq(t))
      /\ ToSet(FlattenSeq(t)) = UNION {ToSet(t[i]) : i \in 1 .. n}
  <2>1. \A i, j \in 1 .. Len(t) : i < j =>
          \A a \in 1 .. Len(t[i]), b \in 1 .. Len(t[j]) : t[i][a] < t[j][b]
    BY <1>3, <1>4
  <2> QED
    BY <1>3, <1>6, <2>1, FlattenIncreases
<1>8. ASSUME NEW p, NEW i \in 1 .. n
      PROVE  p \in ToSet(t[i]) <=> p \in Nat /\ s[i].off <= p /\ p < s[i].off + s[i].len
  <2>1. ToSet(t[i]) = {s[i].off + j - 1 : j \in 1 .. s[i].len}
    BY <1>2, <1>3
  <2>2. s[i].off \in Nat /\ s[i].len \in Nat
    BY <1>1
  <2>3. ASSUME p \in Nat, s[i].off <= p, p < s[i].off + s[i].len
        PROVE  \E j \in 1 .. s[i].len : p = s[i].off + j - 1
    <3> DEFINE o == s[i].off
               l == s[i].len
    <3>1. o \in Nat /\ l \in Nat /\ p \in Nat /\ o <= p /\ p < o + l
      BY <2>2, <2>3
    <3> HIDE DEF o, l
    <3>2. p - o + 1 \in 1 .. l /\ p = o + (p - o + 1) - 1
      BY ONLY <3>1
    <3> QED
      BY <3>2 DEF o, l
  <2> QED
    BY <2>1, <2>2, <2>3
<1>9. \A p : p \in ToSet(FlattenSeq(t)) <=> \E i \in 1 .. n : p \in ToSet(t[i])
  BY <1>7
<1> QED
  BY <1>5, <1>7, <1>8, <1>9

\* The elements of a rank's part of a variable: inside the variable, in
\* ascending order, and no other rank's.
LEMMA PartOfRank ==
  ASSUME NEW r \in Rank, NEW v \in Var
  PROVE  /\ Elements(Requests(r, v)) \in Seq(Nat)
         /\ Increasing(Elements(Requests(r, v)))
         /\ ToSet(Elements(Requests(r, v))) \subseteq 0 .. VarLen[v] - 1
         /\ v \in Partitioned =>
              \A p \in ToSet(Elements(Requests(r, v))) : \E i \in DOMAIN Reqs[r][v] :
                Reqs[r][v][i].off <= p /\ p < Reqs[r][v][i].off + Reqs[r][v][i].len
         /\ v \in Partitioned /\ Reqs[r][v] # <<>> => Elements(Requests(r, v)) # <<>>
<1>1. VarLen[v] \in Nat
  BY Hdf5DriverAssumption
<1>2. CASE v \notin Partitioned
  <2> DEFINE s == <<[off |-> 0, len |-> VarLen[v]]>>
  <2>1. s \in Seq(Extents0) /\ Len(s) = 1 /\ s[1].off = 0 /\ s[1].len = VarLen[v]
    BY <1>1 DEF Extents0
  <2>2. Requests(r, v) = s
    BY <1>2 DEF Requests
  <2> HIDE DEF s
  <2>3. \A i, j \in 1 .. Len(s) : i < j => s[i].off + s[i].len <= s[j].off
    BY <2>1
  <2>4. /\ Elements(s) \in Seq(Nat) /\ Increasing(Elements(s))
        /\ \A p : p \in ToSet(Elements(s)) <=>
             p \in Nat /\ \E i \in 1 .. Len(s) : s[i].off <= p /\ p < s[i].off + s[i].len
    BY <2>1, <2>3, ElementsIncrease
  <2> QED
    BY <1>1, <1>2, <2>1, <2>2, <2>4
<1>3. CASE v \in Partitioned
  <2> DEFINE q == Reqs[r][v]
             s == Sorted(q)
  <2>1. /\ q \in Seq(Extents)
        /\ \A i, j \in 1 .. Len(q) :
             i # j => q[i].off + q[i].len <= q[j].off \/ q[j].off + q[j].len <= q[i].off
        /\ \A i \in 1 .. Len(q) : q[i].off + q[i].len <= VarLen[v]
    <3>1. q \in Seq(Extents)
      BY Hdf5DriverAssumption DEF Extents
    <3>2. DOMAIN q = 1 .. Len(q)
      BY <3>1
    <3>3. \A i, j \in DOMAIN q :
            LET a == q[i]
                b == q[j]
            IN  /\ a.off + a.len <= VarLen[v]
                /\ \/ <<r, i>> = <<r, j>>
                   \/ a.off + a.len <= b.off
                   \/ b.off + b.len <= a.off
      BY <1>3, Hdf5DriverAssumption
    <3> HIDE DEF q
    <3> QED
      BY <3>1, <3>2, <3>3
  <2> HIDE DEF q
  <2>2. Len(q) \in Nat /\ \A i \in 1 .. Len(q) : q[i].off \in Nat /\ q[i].len \in Nat \ {0}
    <3>1. Len(q) \in Nat /\ \A i \in 1 .. Len(q) : q[i] \in Extents
      BY <2>1
    <3> QED
      BY <3>1 DEF Extents
  <2>3. \A i, j \in 1 .. Len(q) : i # j => q[i].off # q[j].off
    BY <2>1, <2>2
  <2>4. /\ s \in [1 .. Len(q) -> ToSet(q)]
        /\ \A i, j \in 1 .. Len(q) : i < j => s[i].off < s[j].off
    BY <2>1, <2>3, SortedOrders
  <2>5. ToSet(q) = {q[i] : i \in 1 .. Len(q)} /\ ToSet(q) \subseteq Extents
    <3>1. DOMAIN q = 1 .. Len(q) /\ \A i \in 1 .. Len(q) : q[i] \in Extents
      BY <2>1
    <3> QED
      BY <3>1 DEF ToSet
  <2> HIDE DEF s
  <2>6. s \in Seq(Extents0) /\ Len(s) = Len(q)
    <3>1. s \in [1 .. Len(q) -> Extents0]
      BY <2>4, <2>5 DEF Extents, Extents0
    <3> QED
      BY <2>2, <3>1
  <2>7. ASSUME NEW i \in 1 .. Len(s), NEW j \in 1 .. Len(s), i < j
        PROVE  s[i].off + s[i].len <= s[j].off
    <3>1. PICK a \in 1 .. Len(q) : s[i] = q[a]
      BY <2>4, <2>5, <2>6
    <3>2. PICK b \in 1 .. Len(q) : s[j] = q[b]
      BY <2>4, <2>5, <2>6
    <3>3. q[a].off < q[b].off
      BY <2>4, <2>6, <2>7, <3>1, <3>2
    <3>4. a # b
      BY <2>2, <3>3
    <3>5. q[a].off + q[a].len <= q[b].off \/ q[b].off + q[b].len <= q[a].off
      BY <2>1, <3>4
    <3> QED
      BY <2>2, <3>1, <3>2, <3>3, <3>5
  <2>8. /\ Elements(s) \in Seq(Nat) /\ Increasing(Elements(s))
        /\ \A p : p \in ToSet(Elements(s)) <=>
             p \in Nat /\ \E i \in 1 .. Len(s) : s[i].off <= p /\ p < s[i].off + s[i].len
    BY <2>6, <2>7, ElementsIncrease
  <2>9. ASSUME NEW i \in 1 .. Len(s) PROVE s[i].off + s[i].len <= VarLen[v] /\ s[i].off \in Nat /\ s[i].len \in Nat
    <3>1. PICK a \in 1 .. Len(q) : s[i] = q[a]
      BY <2>4, <2>5, <2>6
    <3> QED
      BY <2>1, <2>2, <3>1
  <2>10. Requests(r, v) = s
    BY <1>3 DEF Requests, s, q
  <2>11. ToSet(Elements(s)) \subseteq 0 .. VarLen[v] - 1
    BY <1>1, <2>8, <2>9
  <2>12. ASSUME NEW p \in ToSet(Elements(s))
         PROVE  \E i \in DOMAIN q : q[i].off <= p /\ p < q[i].off + q[i].len
    <3>1. PICK i \in 1 .. Len(s) : s[i].off <= p /\ p < s[i].off + s[i].len
      BY <2>8, <2>12
    <3>2. PICK a \in 1 .. Len(q) : s[i] = q[a]
      BY <2>4, <2>5, <2>6
    <3>3. DOMAIN q = 1 .. Len(q)
      BY <2>1
    <3> QED
      BY <3>1, <3>2, <3>3
  <2>13. ASSUME q # <<>> PROVE Elements(s) # <<>>
    <3>1. 1 \in 1 .. Len(s)
      <4>1. Len(q) # 0
        BY <2>1, <2>13
      <4> QED
        BY <2>2, <2>6, <4>1
    <3>2. s[1].off \in Nat /\ s[1].len \in Nat \ {0}
      <4>1. PICK a \in 1 .. Len(q) : s[1] = q[a]
        BY <2>4, <2>5, <2>6, <3>1
      <4> QED
        BY <2>2, <4>1
    <3>3. s[1].off \in ToSet(Elements(s))
      BY <2>8, <3>1, <3>2
    <3> QED
      BY <3>3 DEF ToSet
  <2> QED
    BY <2>8, <2>10, <2>11, <2>12, <2>13 DEF q
<1> QED
  BY <1>2, <1>3

\* The parts of two ranks do not meet.
LEMMA PartsDisjoint ==
  ASSUME NEW r \in Rank, NEW q \in Rank, r # q, NEW v \in Var,
         Posts(r, v), Posts(q, v),
         NEW p \in ToSet(Elements(Requests(r, v)))
  PROVE  p \notin ToSet(Elements(Requests(q, v)))
<1>1. v \in Partitioned
  BY DEF Posts
<1>2. SUFFICES ASSUME p \in ToSet(Elements(Requests(q, v))) PROVE FALSE
  OBVIOUS
<1> DEFINE x == Reqs[r][v]
           y == Reqs[q][v]
<1>3. x \in Seq(Extents) /\ y \in Seq(Extents)
  BY Hdf5DriverAssumption DEF Extents
<1>4. \A i \in DOMAIN x, j \in DOMAIN y :
        x[i].off + x[i].len <= y[j].off \/ y[j].off + y[j].len <= x[i].off
  <2> TAKE i \in DOMAIN x, j \in DOMAIN y
  <2>1. LET a == Reqs[r][v][i]
            b == Reqs[q][v][j]
        IN  \/ <<r, i>> = <<q, j>>
            \/ a.off + a.len <= b.off
            \/ b.off + b.len <= a.off
    BY <1>1, Hdf5DriverAssumption
  <2> QED
    BY <2>1
<1>5. PICK i \in DOMAIN x : x[i].off <= p /\ p < x[i].off + x[i].len
  BY <1>1, PartOfRank
<1>6. PICK j \in DOMAIN y : y[j].off <= p /\ p < y[j].off + y[j].len
  BY <1>1, <1>2, PartOfRank
<1> HIDE DEF x, y
<1>7. x[i] \in Extents /\ y[j] \in Extents
  BY <1>3, <1>5, <1>6
<1>8. x[i].off \in Nat /\ x[i].len \in Nat /\ y[j].off \in Nat /\ y[j].len \in Nat /\ p \in Nat
  <2>1. p \in Nat
    BY PartOfRank
  <2> QED
    BY <1>7, <2>1 DEF Extents
<1> QED
  BY <1>4, <1>5, <1>6, <1>8

-----------------------------------------------------------------------------
(* The invariant.                                                          *)

\* The elements of a rank's part of a variable.
Part(r, v) == Elements(Requests(r, v))

\* The types of the variables, and the shape of the file.
Typed ==
  /\ api \in Apis
  /\ calls \in [Rank -> Seq(Call)]
  /\ pc \in [Rank -> PC]
  /\ rec \in [Rank -> Step]
  /\ cur \in [Rank -> 0 .. NVars]
  /\ extent \in [Rank -> Nat]
  /\ queue \in [Rank -> Seq(Request)]
  /\ amount \in [Rank -> Nat]
  /\ \A v \in Var :
       /\ DOMAIN file[v] = 0 .. NRecs
       /\ \A k \in 0 .. NRecs : DOMAIN file[v][k] = 0 .. VarLen[v] - 1

\* Where a rank may be: the datasets have the records of the steps it began,
\* it leaves a step when it has posted all, and it is in the calls of its driver.
PlaceInv(r) ==
  /\ pc[r] # "failed"
  /\ extent[r] = IF pc[r] = "extend" THEN rec[r] ELSE rec[r] + 1
  /\ pc[r] = "extend" => rec[r] >= 0
  /\ pc[r] = "dwrite" => api \in {"hdf5", "netcdf4"}
  /\ pc[r] = "multi" => api = "hdf5_md"
  /\ pc[r] = "fflush" => api = "hdf5_log"
  /\ pc[r] \in {"flush", "multi", "fflush"} => FlushNow(rec[r])
  /\ pc[r] \in {"flush", "multi", "fflush", "sync", "fclose", "done"} =>
       Remaining(r, rec[r], cur[r]) = {}
  /\ pc[r] \in {"sync", "fclose", "done"} => rec[r] = NRecs - 1

\* Rank r has posted its part of record k of v.
Done(r, v, k) ==
  /\ Posts(r, v)
  /\ \/ v \notin RecVar /\ k = 0 /\ (rec[r] >= 0 \/ v <= cur[r])
     \/ /\ v \in RecVar /\ k >= 0
        /\ k < rec[r] \/ (k = rec[r] /\ pc[r] # "extend" /\ v <= cur[r])

\* What is queued was posted, selects what the program wants, and is
\* inside the dataset.
QueueInv(r) ==
  /\ \A e \in ToSet(queue[r]) :
       /\ Done(r, e.var, e.rec) /\ e.inside /\ e.sel = Selected(r, e.var)
  /\ api \in {"hdf5", "netcdf4"} /\ pc[r] # "dwrite" => queue[r] = <<>>
  /\ pc[r] \in {"sync", "fclose", "done"} /\ NRecs > 0 => queue[r] = <<>>

InQueue(r, v, k) == \E e \in ToSet(queue[r]) : e.var = v /\ e.rec = k
InFile(r, v, k)  == \A i \in DOMAIN Part(r, v) : file[v][k][Part(r, v)[i]] = <<r, v, k, i>>

\* What is posted is queued or in the file, and only that is in the file.
KeptInv(r) ==
  \A v \in Var, k \in 0 .. NRecs :
    /\ Done(r, v, k) /\ Selected(r, v) # <<>> => InQueue(r, v, k) \/ InFile(r, v, k)
    /\ \A i \in DOMAIN Part(r, v) :
         file[v][k][Part(r, v)[i]] = <<r, v, k, i>> => Done(r, v, k)

RankInv(r) == PlaceInv(r) /\ QueueInv(r) /\ KeptInv(r)

IInv == Typed /\ \A r \in Rank : RankInv(r)

\* Without -y -1 every step of hdf5_md flushes, so it queues a dataset once.
Distinct(r) ==
  api = "hdf5_md" =>
    /\ \A i, j \in DOMAIN queue[r] : queue[r][i].var = queue[r][j].var => i = j
    /\ \A i \in DOMAIN queue[r] : LET v == queue[r][i].var IN
         IF v \in RecVar THEN rec[r] >= 0 /\ pc[r] # "extend" /\ v <= cur[r]
         ELSE rec[r] = -1 => v <= cur[r]

-----------------------------------------------------------------------------
(* Types, and what a step of a rank leaves alone.                          *)

LEMMA PartType ==
  ASSUME NEW r \in Rank, NEW v \in Var
  PROVE  /\ Part(r, v) \in Seq(Nat) /\ Increasing(Part(r, v))
         /\ ToSet(Part(r, v)) \subseteq 0 .. VarLen[v] - 1
         /\ Selected(r, v) = Part(r, v) \/ Selected(r, v) = <<>>
         /\ Scalar = {} \/ api # "hdf5_md" => Selected(r, v) = Part(r, v)
         /\ Selected(r, v) \in Seq(Nat)
<1>1. /\ Part(r, v) \in Seq(Nat) /\ Increasing(Part(r, v))
      /\ ToSet(Part(r, v)) \subseteq 0 .. VarLen[v] - 1
  BY PartOfRank DEF Part
<1>2. /\ Selected(r, v) = Part(r, v) \/ Selected(r, v) = <<>>
      /\ Scalar = {} \/ api # "hdf5_md" => Selected(r, v) = Part(r, v)
  BY DEF Selected, Part
<1>3. Selected(r, v) \in Seq(Nat)
  <2>1. <<>> \in Seq(Nat)
    OBVIOUS
  <2> QED
    BY <1>1, <1>2, <2>1
<1> QED
  BY <1>1, <1>2, <1>3

LEMMA Others ==
  ASSUME Typed, NEW r \in Rank, RankNext(r), NEW q \in Rank, q # r
  PROVE  /\ calls'[q] = calls[q] /\ pc'[q] = pc[q] /\ rec'[q] = rec[q]
         /\ cur'[q] = cur[q] /\ extent'[q] = extent[q] /\ queue'[q] = queue[q]
         /\ amount'[q] = amount[q]
<1>1. CASE PutVar(r)
  <2>1. calls'[q] = calls[q]
    BY <1>1 DEF PutVar, EntersWrite, Enter, Typed
  <2> QED
    BY <1>1, <2>1 DEF PutVar, Typed
<1>2. CASE Extend(r)
  BY <1>2 DEF Extend, Typed
<1>3. CASE EndStep(r)
  BY <1>3 DEF EndStep, NextStep, Enter, Typed
<1>4. CASE BeginFlush(r)
  BY <1>4 DEF BeginFlush, NextStep, Enter, Typed
<1>5. CASE EndWrite(r)
  BY <1>5 DEF EndWrite, NextStep, Enter, Typed
<1>6. CASE BeginClose(r) \/ EndClose(r)
  BY <1>6 DEF BeginClose, EndClose, Enter, Typed
<1> QED
  BY <1>1, <1>2, <1>3, <1>4, <1>5, <1>6 DEF RankNext

\* The option does not change.
LEMMA SameApi ==
  ASSUME [Next]_vars
  PROVE  api' = api
BY DEF Next, RankNext, Finished, vars, PutVar, Extend, EndStep, BeginFlush,
       EndWrite, BeginClose, EndClose

LEMMA EnterType ==
  ASSUME Typed, NEW r \in Rank, NEW call \in Call, Enter(r, call)
  PROVE  calls' \in [Rank -> Seq(Call)]
BY DEF Typed, Enter

LEMMA NextStepType ==
  ASSUME Typed, NEW r \in Rank, NextStep(r)
  PROVE  calls' \in [Rank -> Seq(Call)] /\ pc' \in [Rank -> PC] /\ rec' \in [Rank -> Step]
<1>1. CASE rec[r] + 1 < NRecs
  <2>1. rec[r] + 1 \in Step
    BY <1>1, CaseAssumption DEF Typed, Step
  <2> QED
    BY <1>1, <2>1, EnterType DEF NextStep, Typed, PC, Call
<1>2. CASE ~(rec[r] + 1 < NRecs)
  BY <1>2, EnterType DEF NextStep, Typed, PC, Call
<1> QED
  BY <1>1, <1>2

LEMMA AppendedSet ==
  ASSUME NEW S, NEW s \in Seq(S), NEW e \in S
  PROVE  ToSet(Append(s, e)) = ToSet(s) \cup {e}
<1>1. /\ Append(s, e) \in Seq(S) /\ Len(Append(s, e)) = Len(s) + 1 /\ Len(s) \in Nat
      /\ Append(s, e)[Len(s) + 1] = e
      /\ \A i \in 1 .. Len(s) : Append(s, e)[i] = s[i]
  OBVIOUS
<1>2. DOMAIN s = 1 .. Len(s) /\ DOMAIN Append(s, e) = (1 .. Len(s)) \cup {Len(s) + 1}
  BY <1>1
<1> QED
  BY <1>1, <1>2 DEF ToSet

\* A put queues what it selects, unless that is nothing.
LEMMA PutFacts ==
  ASSUME Typed, NEW r \in Rank, PutVar(r)
  PROVE  \E v \in Var :
           /\ IsNext(v, r, rec[r], cur[r]) /\ v \in 0 .. NVars
           /\ cur' = [cur EXCEPT ![r] = v]
           /\ queue'[r] = Queued(queue[r],
                [var |-> v, rec |-> RecOf(rec[r]), sel |-> Selected(r, v),
                 inside |-> v \notin RecVar \/ rec[r] < extent[r]])
           /\ queue' \in [Rank -> Seq(Request)]
           /\ \E e \in {[var |-> v, rec |-> RecOf(rec[r]), sel |-> Selected(r, v),
                        inside |-> v \notin RecVar \/ rec[r] < extent[r]]} :
                ToSet(queue'[r]) = ToSet(queue[r]) \cup
                                   {x \in {e} : Selected(r, v) # <<>>}
           /\ amount'[r] = amount[r] + Len(Selected(r, v))
           /\ amount' \in [Rank -> Nat]
           /\ EntersWrite(r, v)
<1>1. PICK v \in Var :
        /\ IsNext(v, r, rec[r], cur[r])
        /\ cur' = [cur EXCEPT ![r] = v]
        /\ queue' = [queue EXCEPT ![r] = Queued(@,
             [var |-> v, rec |-> RecOf(rec[r]), sel |-> Selected(r, v),
              inside |-> v \notin RecVar \/ rec[r] < extent[r]])]
        /\ amount' = [amount EXCEPT ![r] = @ + Len(Selected(r, v))]
        /\ EntersWrite(r, v)
  BY DEF PutVar
<1> DEFINE e == [var |-> v, rec |-> RecOf(rec[r]), sel |-> Selected(r, v),
                 inside |-> v \notin RecVar \/ rec[r] < extent[r]]
<1>2. Selected(r, v) \in Seq(Nat) /\ Len(Selected(r, v)) \in Nat
  <2>1. Selected(r, v) \in Seq(Nat)
    BY PartType
  <2> QED
    BY <2>1, LenProperties
<1>3. RecOf(rec[r]) \in Nat /\ v \in 0 .. NVars
  BY CaseAssumption DEF RecOf, Typed, Step, Var
<1>4. (v \notin RecVar \/ rec[r] < extent[r]) \in BOOLEAN
  OBVIOUS
<1>5. e.sel = <<>> \/ e \in Request
  <2> DEFINE b == v \notin RecVar \/ rec[r] < extent[r]
  <2> HIDE DEF b
  <2>1. Selected(r, v) # <<>> /\ b \in BOOLEAN =>
          [var |-> v, rec |-> RecOf(rec[r]), sel |-> Selected(r, v), inside |-> b] \in Request
    BY <1>2, <1>3 DEF Request
  <2> QED
    BY <1>4, <2>1 DEF b
<1>6. Queued(queue[r], e) \in Seq(Request)
  <2>1. queue[r] \in Seq(Request)
    BY DEF Typed
  <2> HIDE DEF e
  <2> QED
    BY <1>5, <2>1 DEF Queued
<1> HIDE DEF e
<1>7. queue' = [queue EXCEPT ![r] = Queued(@, e)]
  BY <1>1 DEF e
<1>8. queue'[r] = Queued(queue[r], e) /\ queue' \in [Rank -> Seq(Request)]
  BY <1>6, <1>7 DEF Typed
<1>9. amount'[r] = amount[r] + Len(Selected(r, v)) /\ amount' \in [Rank -> Nat]
  BY <1>1, <1>2 DEF Typed
<1>10. ToSet(queue'[r]) = ToSet(queue[r]) \cup {x \in {e} : Selected(r, v) # <<>>}
  <2>1. queue[r] \in Seq(Request) /\ e.sel = Selected(r, v)
    BY DEF Typed, e
  <2>2. CASE Selected(r, v) = <<>>
    BY <1>8, <2>1, <2>2 DEF Queued
  <2>3. CASE Selected(r, v) # <<>>
    <3>1. e \in Request /\ queue'[r] = Append(queue[r], e)
      BY <1>5, <1>8, <2>1, <2>3 DEF Queued, e
    <3> QED
      BY <2>1, <2>3, <3>1, AppendedSet
  <2> QED
    BY <2>2, <2>3
<1> QED
  BY <1>1, <1>3, <1>8, <1>9, <1>10 DEF e

Shaped(f) == \A v \in Var :
  /\ DOMAIN f[v] = 0 .. NRecs
  /\ \A k \in 0 .. NRecs : DOMAIN f[v][k] = 0 .. VarLen[v] - 1

LEMMA WritesKeepShape ==
  ASSUME Shaped(file), NEW k, NEW r, NEW q
  PROVE  Shaped(CellWritten(k)) /\ Shaped(Written(r, q))
<1>1. Shaped(CellWritten(k))
  BY DEF Shaped, CellWritten
<1>2. Shaped(Written(r, q))
  BY DEF Shaped, Written
<1> QED
  BY <1>1, <1>2

LEMMA NextTyped == Typed /\ [Next]_vars => Typed'
<1> SUFFICES ASSUME Typed, [Next]_vars PROVE Typed'
  OBVIOUS
<1> USE DEF Shaped
<1>1. CASE UNCHANGED vars
  BY <1>1 DEF Typed, vars
<1>2. ASSUME NEW r \in Rank, RankNext(r) PROVE Typed'
  <2>1. CASE PutVar(r)
    <3>1. calls' \in [Rank -> Seq(Call)]
      BY <2>1, EnterType DEF PutVar, EntersWrite, Typed, Call
    <3>2. /\ cur' \in [Rank -> 0 .. NVars] /\ queue' \in [Rank -> Seq(Request)]
          /\ amount' \in [Rank -> Nat]
      BY <2>1, PutFacts DEF Typed
    <3>3. pc' \in [Rank -> PC]
      BY <2>1 DEF PutVar, Typed, PC
    <3> QED
      BY <2>1, <3>1, <3>2, <3>3 DEF PutVar, Typed
  <2>2. CASE Extend(r)
    <3>1. Shaped(file) /\ (file' = file \/ file' = CellWritten(rec[r]))
      BY <2>2 DEF Extend, Typed
    <3>2. Shaped(file')
      BY <3>1, WritesKeepShape
    <3>3. extent' \in [Rank -> Nat] /\ pc' \in [Rank -> PC] /\ cur' \in [Rank -> 0 .. NVars]
      BY <2>2, CaseAssumption DEF Extend, Extended, Typed, PC, Step
    <3> QED
      BY <2>2, <3>2, <3>3 DEF Extend, Typed
  <2>3. CASE EndStep(r)
    <3>1. CASE FlushNow(rec[r])
      BY <2>3, <3>1, EnterType DEF EndStep, Typed, PC, Call
    <3>2. CASE ~FlushNow(rec[r])
      BY <2>3, <3>2, NextStepType DEF EndStep, Typed
    <3> QED
      BY <3>1, <3>2
  <2>4. CASE BeginFlush(r)
    <3>1. CASE NextStep(r)
      BY <2>4, <3>1, NextStepType DEF BeginFlush, Typed
    <3>2. CASE ~NextStep(r)
      BY <2>4, <3>2, EnterType DEF BeginFlush, Typed, PC, Call
    <3> QED
      BY <3>1, <3>2
  <2>5. CASE EndWrite(r)
    <3>1. CASE \E i \in DOMAIN queue[r] : Refused(queue[r][i])
      BY <2>5, <3>1 DEF EndWrite, Typed, PC
    <3>2. CASE ~\E i \in DOMAIN queue[r] : Refused(queue[r][i])
      <4>1. Shaped(file')
        <5>1. Shaped(file) /\ file' = Written(r, queue[r])
          BY <2>5, <3>2 DEF EndWrite, Typed
        <5> QED
          BY <5>1, WritesKeepShape
      <4>2. queue' \in [Rank -> Seq(Request)]
        <5>1. <<>> \in Seq(Request) /\ queue' = [queue EXCEPT ![r] = <<>>]
          BY <2>5, <3>2 DEF EndWrite
        <5> QED
          BY <5>1 DEF Typed
      <4>3. calls' \in [Rank -> Seq(Call)] /\ pc' \in [Rank -> PC] /\ rec' \in [Rank -> Step]
        BY <2>5, <3>2, NextStepType DEF EndWrite, Typed, PC
      <4> QED
        BY <2>5, <4>1, <4>2, <4>3 DEF EndWrite, Typed
    <3> QED
      BY <3>1, <3>2
  <2>6. CASE BeginClose(r)
    BY <2>6, EnterType DEF BeginClose, Typed, PC, Call
  <2>7. CASE EndClose(r)
    BY <2>7 DEF EndClose, Typed, PC
  <2> QED
    BY <1>2, <2>1, <2>2, <2>3, <2>4, <2>5, <2>6, <2>7 DEF RankNext
<1> QED
  BY <1>1, <1>2 DEF Next, Finished

-----------------------------------------------------------------------------
(* Places in the program, and what was posted.                             *)

\* What the invariant says of a rank's place and queue depends on that rank's
\* variables only.
LEMMA Unmoved ==
  ASSUME NEW q \in Rank, PlaceInv(q), QueueInv(q), api' = api,
         pc'[q] = pc[q], rec'[q] = rec[q], cur'[q] = cur[q],
         extent'[q] = extent[q], queue'[q] = queue[q]
  PROVE  /\ PlaceInv(q)' /\ QueueInv(q)'
         /\ \A v \in Var, k \in Nat : Done(q, v, k)' <=> Done(q, v, k)
<1>1. PlaceInv(q)'
  BY DEF PlaceInv, FlushNow, MainFfreq
<1>2. \A v, k : Done(q, v, k)' <=> Done(q, v, k)
  BY DEF Done
<1>3. QueueInv(q)'
  BY <1>2 DEF QueueInv, Selected
<1> QED
  BY <1>1, <1>2, <1>3

\* HDF5 refuses nothing.
LEMMA NotRefused ==
  ASSUME Typed, NEW r \in Rank, QueueInv(r)
  PROVE  ~\E i \in DOMAIN queue[r] : Refused(queue[r][i])
<1> SUFFICES ASSUME NEW i \in DOMAIN queue[r] PROVE ~Refused(queue[r][i])
  OBVIOUS
<1> DEFINE e == queue[r][i]
<1>1. e \in Request /\ e.inside /\ e.sel = Selected(r, e.var)
  <2>1. queue[r] \in Seq(Request) /\ e \in ToSet(queue[r])
    BY DEF Typed, ToSet
  <2> QED
    BY <2>1 DEF QueueInv
<1> HIDE DEF e
<1>2. e.var \in Var
  BY <1>1 DEF Request
<1>3. e.sel \in Seq(Nat) /\ Increasing(e.sel)
  <2>1. <<>> \in Seq(Nat) /\ Increasing(<<>>)
    BY DEF Increasing
  <2> QED
    BY <1>1, <1>2, <2>1, PartType
<1>4. Cardinality(ToSet(e.sel)) = Len(e.sel)
  BY <1>3, IncreasingCounts
<1> QED
  BY <1>1, <1>4 DEF Refused, e

LEMMA NextStepPlace ==
  ASSUME Typed, NEW r \in Rank, PlaceInv(r), NextStep(r),
         pc[r] # "extend", Remaining(r, rec[r], cur[r]) = {},
         api' = api, cur' = cur, extent' = extent
  PROVE  PlaceInv(r)'
<1>1. rec[r] \in Int /\ rec[r] >= -1 /\ rec[r] <= NRecs - 1 /\ NRecs \in Nat
  BY CaseAssumption DEF Typed, Step
<1>2. CASE rec[r] + 1 < NRecs
  <2>1. pc'[r] = "extend" /\ rec'[r] = rec[r] + 1
    BY <1>2 DEF NextStep, Typed
  <2> QED
    BY <1>1, <2>1 DEF PlaceInv
<1>3. CASE ~(rec[r] + 1 < NRecs)
  <2>1. pc'[r] = "sync" /\ rec'[r] = rec[r]
    BY <1>3 DEF NextStep, Typed
  <2> QED
    BY <1>1, <1>3, <2>1 DEF PlaceInv
<1> QED
  BY <1>2, <1>3

LEMMA PlaceKept ==
  ASSUME Typed, NEW r \in Rank, RankNext(r), PlaceInv(r), QueueInv(r), api' = api
  PROVE  PlaceInv(r)'
<1>1. CASE PutVar(r)
  <2>1. pc'[r] = IF api \in {"hdf5", "netcdf4"} THEN "dwrite" ELSE "post"
    BY <1>1 DEF PutVar, Typed
  <2> QED
    BY <1>1, <2>1 DEF PutVar, PlaceInv
<1>2. CASE Extend(r)
  <2>1. pc'[r] = "post" /\ extent'[r] = Extended(extent[r], rec[r]) /\ rec' = rec
    BY <1>2 DEF Extend, Typed
  <2>2. extent[r] = rec[r] /\ rec[r] \in Int
    BY <1>2 DEF Extend, PlaceInv, Typed, Step
  <2> QED
    BY <2>1, <2>2 DEF PlaceInv, Extended
<1>3. CASE EndStep(r)
  <2>1. CASE FlushNow(rec[r])
    <3>1. /\ pc'[r] = "flush" /\ rec' = rec /\ cur' = cur /\ extent' = extent
          /\ pc[r] = "post" /\ Remaining(r, rec[r], cur[r]) = {}
      BY <1>3, <2>1 DEF EndStep, Typed
    <3>2. FlushNow(rec[r])'
      BY <2>1, <3>1 DEF FlushNow, MainFfreq
    <3> QED
      BY <3>1, <3>2 DEF PlaceInv
  <2>2. CASE ~FlushNow(rec[r])
    BY <1>3, <2>2, NextStepPlace DEF EndStep
  <2> QED
    BY <2>1, <2>2
<1>4. CASE BeginFlush(r)
  <2>1. CASE NextStep(r)
    BY <1>4, <2>1, NextStepPlace DEF BeginFlush, PlaceInv
  <2>2. CASE ~NextStep(r)
    <3>1. /\ \/ pc'[r] = "multi" /\ api = "hdf5_md"
             \/ pc'[r] = "fflush" /\ api = "hdf5_log"
          /\ rec' = rec /\ cur' = cur /\ extent' = extent /\ pc[r] = "flush"
      BY <1>4, <2>2 DEF BeginFlush, Typed
    <3>2. FlushNow(rec[r])'
      BY <3>1 DEF FlushNow, MainFfreq, PlaceInv
    <3> QED
      BY <3>1, <3>2 DEF PlaceInv
  <2> QED
    BY <2>1, <2>2
<1>5. CASE EndWrite(r)
  <2>1. ~\E i \in DOMAIN queue[r] : Refused(queue[r][i])
    BY NotRefused
  <2>2. CASE pc[r] = "dwrite"
    <3>1. pc'[r] = "post" /\ rec' = rec /\ cur' = cur /\ extent' = extent
      BY <1>5, <2>1, <2>2 DEF EndWrite, Typed
    <3> QED
      BY <2>2, <3>1 DEF PlaceInv
  <2>3. CASE pc[r] # "dwrite"
    BY <1>5, <2>1, <2>3, NextStepPlace DEF EndWrite, PlaceInv
  <2> QED
    BY <2>2, <2>3
<1>6. CASE BeginClose(r)
  <2>1. pc'[r] = "fclose" /\ pc[r] = "sync" /\ rec' = rec /\ cur' = cur /\ extent' = extent
    BY <1>6 DEF BeginClose, Typed
  <2> QED
    BY <2>1 DEF PlaceInv
<1>7. CASE EndClose(r)
  <2>1. pc'[r] = "done" /\ pc[r] = "fclose" /\ rec' = rec /\ cur' = cur /\ extent' = extent
    BY <1>7 DEF EndClose, Typed
  <2> QED
    BY <2>1 DEF PlaceInv
<1> QED
  BY <1>1, <1>2, <1>3, <1>4, <1>5, <1>6, <1>7 DEF RankNext

\* The end of a step changes nothing of what was posted.
LEMMA StepDone ==
  ASSUME Typed, NEW r \in Rank, NextStep(r), cur' = cur,
         pc[r] # "extend", Remaining(r, rec[r], cur[r]) = {},
         NEW v \in Var, NEW k \in Nat
  PROVE  Done(r, v, k)' <=> Done(r, v, k)
<1>1. rec[r] \in Int /\ rec[r] >= -1 /\ cur[r] \in Int /\ v \in Int
  BY CaseAssumption DEF Typed, Step, Var
<1>2. Posts(r, v) /\ (v \in RecVar <=> rec[r] >= 0) => v <= cur[r]
  BY <1>1 DEF Remaining, StepVars
<1>3. CASE rec[r] + 1 < NRecs
  <2>1. pc'[r] = "extend" /\ rec'[r] = rec[r] + 1
    BY <1>3 DEF NextStep, Typed
  <2> QED
    BY <1>1, <1>2, <2>1 DEF Done
<1>4. CASE ~(rec[r] + 1 < NRecs)
  <2>1. pc'[r] = "sync" /\ rec'[r] = rec[r]
    BY <1>4 DEF NextStep, Typed
  <2> QED
    BY <1>1, <2>1 DEF Done
<1> QED
  BY <1>3, <1>4

\* Only a put posts.
LEMMA OthersDone ==
  ASSUME Typed, NEW r \in Rank, RankNext(r), PlaceInv(r), QueueInv(r), ~PutVar(r),
         NEW v \in Var, NEW k \in Nat
  PROVE  Done(r, v, k)' <=> Done(r, v, k)
<1>1. CASE rec' = rec /\ cur' = cur /\ pc[r] # "extend" /\ pc'[r] # "extend"
  BY <1>1 DEF Done
<1>2. CASE Extend(r)
  <2>1. pc[r] = "extend" /\ pc'[r] = "post" /\ cur'[r] = 0 /\ rec' = rec /\ rec[r] >= 0
    BY <1>2 DEF Extend, PlaceInv, Typed
  <2>2. v \in Int /\ v > 0 /\ rec[r] \in Int
    BY DEF Var, Typed, Step
  <2> QED
    BY <2>1, <2>2 DEF Done
<1>3. CASE EndStep(r)
  <2>1. CASE FlushNow(rec[r])
    <3>1. rec' = rec /\ cur' = cur /\ pc[r] # "extend" /\ pc'[r] # "extend"
      BY <1>3, <2>1 DEF EndStep, Typed
    <3> QED
      BY <1>1, <3>1
  <2>2. CASE ~FlushNow(rec[r])
    BY <1>3, <2>2, StepDone DEF EndStep
  <2> QED
    BY <2>1, <2>2
<1>4. CASE BeginFlush(r)
  <2>1. CASE NextStep(r)
    BY <1>4, <2>1, StepDone DEF BeginFlush, PlaceInv
  <2>2. CASE ~NextStep(r)
    <3>1. rec' = rec /\ cur' = cur /\ pc[r] # "extend" /\ pc'[r] # "extend"
      BY <1>4, <2>2 DEF BeginFlush, Typed
    <3> QED
      BY <1>1, <3>1
  <2> QED
    BY <2>1, <2>2
<1>5. CASE EndWrite(r)
  <2>1. ~\E i \in DOMAIN queue[r] : Refused(queue[r][i])
    BY NotRefused
  <2>2. CASE pc[r] = "dwrite"
    <3>1. rec' = rec /\ cur' = cur /\ pc'[r] = "post"
      BY <1>5, <2>1, <2>2 DEF EndWrite, Typed
    <3> QED
      BY <1>1, <2>2, <3>1
  <2>3. CASE pc[r] # "dwrite"
    BY <1>5, <2>1, <2>3, StepDone DEF EndWrite, PlaceInv
  <2> QED
    BY <2>2, <2>3
<1>6. CASE BeginClose(r) \/ EndClose(r)
  <2>1. rec' = rec /\ cur' = cur /\ pc[r] # "extend" /\ pc'[r] # "extend"
    BY <1>6 DEF BeginClose, EndClose, Typed
  <2> QED
    BY <1>1, <2>1
<1> QED
  BY <1>2, <1>3, <1>4, <1>5, <1>6 DEF RankNext

LEMMA PutDone ==
  ASSUME Typed, NEW r \in Rank, PutVar(r),
         NEW v \in Var, IsNext(v, r, rec[r], cur[r]), cur' = [cur EXCEPT ![r] = v]
  PROVE  /\ ~Done(r, v, RecOf(rec[r])) /\ RecOf(rec[r]) \in Nat
         /\ \A w \in Var, k \in Nat :
              Done(r, w, k)' <=> Done(r, w, k) \/ (w = v /\ k = RecOf(rec[r]))
<1>1. /\ rec[r] \in Int /\ rec[r] >= -1 /\ cur[r] \in Int /\ Var \subseteq Int
      /\ pc[r] = "post" /\ pc'[r] # "extend" /\ rec' = rec /\ cur'[r] = v
  BY CaseAssumption DEF PutVar, Typed, Step, Var
<1>2. /\ v \in Var /\ Posts(r, v) /\ (v \in RecVar <=> rec[r] >= 0) /\ v > cur[r]
      /\ \A w \in Var : Posts(r, w) /\ (w \in RecVar <=> rec[r] >= 0) /\ w > cur[r] => v <= w
  BY DEF IsNext, Remaining, StepVars
<1>3. ~Done(r, v, RecOf(rec[r])) /\ RecOf(rec[r]) \in Nat
  BY <1>1, <1>2 DEF Done, RecOf
<1>4. ASSUME NEW w \in Var, NEW k \in Nat
      PROVE  Done(r, w, k)' <=> Done(r, w, k) \/ (w = v /\ k = RecOf(rec[r]))
  <2>1. CASE rec[r] = -1
    BY <1>1, <1>2, <2>1 DEF Done, RecOf
  <2>2. CASE rec[r] >= 0
    BY <1>1, <1>2, <2>2 DEF Done, RecOf
  <2> QED
    BY <1>1, <2>1, <2>2
<1> QED
  BY <1>3, <1>4

LEMMA QueueTypes ==
  ASSUME Typed, NEW r \in Rank
  PROVE  \A e \in ToSet(queue[r]) : e \in Request /\ e.var \in Var /\ e.rec \in Nat
<1>1. queue[r] \in Seq(Request)
  BY DEF Typed
<1>2. \A e \in ToSet(queue[r]) : e \in Request
  BY <1>1 DEF ToSet
<1> QED
  BY <1>2 DEF Request

LEMMA QueueKept ==
  ASSUME Typed, NEW r \in Rank, RankNext(r), PlaceInv(r), QueueInv(r), api' = api
  PROVE  QueueInv(r)'
<1>1. \A e \in ToSet(queue[r]) : e.var \in Var /\ e.rec \in Nat
  BY QueueTypes
<1>2. \A v \in Var : Selected(r, v)' = Selected(r, v)
  BY DEF Selected
<1>3. ASSUME queue'[r] = <<>> PROVE QueueInv(r)'
  BY <1>3 DEF QueueInv, ToSet
<1>4. ASSUME ~PutVar(r), queue'[r] = queue[r], NEW e \in ToSet(queue'[r])
      PROVE  Done(r, e.var, e.rec)' /\ e.inside /\ e.sel = Selected(r, e.var)'
  <2>1. Done(r, e.var, e.rec) /\ e.inside /\ e.sel = Selected(r, e.var)
    BY <1>4 DEF QueueInv
  <2>2. e.var \in Var /\ e.rec \in Nat
    BY <1>1, <1>4
  <2>3. Done(r, e.var, e.rec)'
    BY <1>4, <2>1, <2>2, OthersDone
  <2> QED
    BY <1>2, <2>1, <2>2, <2>3
<1>5. CASE PutVar(r)
  <2>1. PICK v \in Var :
          /\ IsNext(v, r, rec[r], cur[r]) /\ v \in 0 .. NVars
          /\ cur' = [cur EXCEPT ![r] = v]
          /\ \E e \in {[var |-> v, rec |-> RecOf(rec[r]), sel |-> Selected(r, v),
                        inside |-> v \notin RecVar \/ rec[r] < extent[r]]} :
                ToSet(queue'[r]) = ToSet(queue[r]) \cup
                                   {x \in {e} : Selected(r, v) # <<>>}
    BY <1>5, PutFacts
  <2>2. \A w \in Var, k \in Nat :
          Done(r, w, k)' <=> Done(r, w, k) \/ (w = v /\ k = RecOf(rec[r]))
    BY <1>5, <2>1, PutDone
  <2>3. RecOf(rec[r]) \in Nat
    BY <1>5, <2>1, PutDone
  <2>4. v \notin RecVar \/ rec[r] < extent[r]
    <3>1. pc[r] = "post" /\ extent[r] = rec[r] + 1 /\ rec[r] \in Int
      BY <1>5 DEF PutVar, PlaceInv, Typed, Step
    <3> QED
      BY <3>1
  <2>5. PICK e :
          /\ e.var = v /\ e.rec = RecOf(rec[r]) /\ e.sel = Selected(r, v) /\ e.inside
          /\ ToSet(queue'[r]) \subseteq ToSet(queue[r]) \cup {e}
    <3> DEFINE b == v \notin RecVar \/ rec[r] < extent[r]
               e == [var |-> v, rec |-> RecOf(rec[r]), sel |-> Selected(r, v), inside |-> b]
    <3>1. e.var = v /\ e.rec = RecOf(rec[r]) /\ e.sel = Selected(r, v) /\ e.inside = b
      <4> HIDE DEF b
      <4> QED
        OBVIOUS
    <3>2. ToSet(queue'[r]) \subseteq ToSet(queue[r]) \cup {e}
      BY <2>1
    <3>3. e.inside
      BY <2>4, <3>1
    <3> HIDE DEF e
    <3> QED
      BY <3>1, <3>2, <3>3
  <2>6. ASSUME NEW x \in ToSet(queue'[r])
        PROVE  Done(r, x.var, x.rec)' /\ x.inside /\ x.sel = Selected(r, x.var)'
    <3>1. CASE x = e
      BY <1>2, <2>2, <2>3, <2>5, <3>1
    <3>2. CASE x \in ToSet(queue[r])
      <4>1. /\ Done(r, x.var, x.rec) /\ x.inside /\ x.sel = Selected(r, x.var)
            /\ x.var \in Var /\ x.rec \in Nat
        BY <1>1, <3>2 DEF QueueInv
      <4> QED
        BY <1>2, <2>2, <4>1
    <3> QED
      BY <2>5, <2>6, <3>1, <3>2
  <2>7. pc'[r] = IF api \in {"hdf5", "netcdf4"} THEN "dwrite" ELSE "post"
    BY <1>5 DEF PutVar, Typed
  <2> QED
    BY <2>6, <2>7 DEF QueueInv
<1>6. CASE EndWrite(r)
  <2>1. ~\E i \in DOMAIN queue[r] : Refused(queue[r][i])
    BY NotRefused
  <2>2. queue'[r] = <<>>
    BY <1>6, <2>1 DEF EndWrite, Typed
  <2> QED
    BY <1>3, <2>2
<1>7. CASE EndStep(r)
  <2>1. queue' = queue /\ pc[r] = "post" /\ ~PutVar(r)
    <3>1. Remaining(r, rec[r], cur[r]) = {} /\ queue' = queue /\ pc[r] = "post"
      BY <1>7 DEF EndStep
    <3>2. ~PutVar(r)
      BY <3>1 DEF PutVar, IsNext
    <3> QED
      BY <3>1, <3>2
  <2>2. pc'[r] \in {"sync", "fclose", "done"} => ~(NRecs > 0)
    <3>1. rec[r] \in Step
      BY DEF Typed
    <3>2. CASE FlushNow(rec[r])
      BY <1>7, <3>2 DEF EndStep, Typed
    <3>3. CASE ~FlushNow(rec[r])
      <4>1. NextStep(r)
        BY <1>7, <3>3 DEF EndStep
      <4>2. pc'[r] \in {"extend", "sync"} /\ (pc'[r] = "sync" => rec[r] = NRecs - 1)
        BY <3>1, <4>1, CaseAssumption DEF NextStep, Typed, Step
      <4>3. NRecs > 0 /\ rec[r] = NRecs - 1 => FlushNow(rec[r])
        BY CaseAssumption DEF FlushNow, FlushEvery
      <4> QED
        BY <3>3, <4>2, <4>3
    <3> QED
      BY <3>2, <3>3
  <2> QED
    BY <1>4, <2>1, <2>2 DEF QueueInv
<1>8. CASE BeginFlush(r)
  <2>1. queue' = queue /\ pc[r] = "flush" /\ ~PutVar(r)
    BY <1>8 DEF BeginFlush, PutVar
  <2>2. CASE queue[r] = <<>>
    BY <1>3, <2>1, <2>2
  <2>3. CASE queue[r] # <<>>
    <3>1. ~(api \in {"hdf5", "netcdf4"})
      BY <2>1, <2>3 DEF QueueInv
    <3>2. pc'[r] \in {"multi", "fflush"}
      BY <1>8, <2>3, <3>1 DEF BeginFlush, Typed
    <3> QED
      BY <1>4, <2>1, <3>1, <3>2 DEF QueueInv
  <2> QED
    BY <2>2, <2>3
<1>9. CASE Extend(r) \/ BeginClose(r) \/ EndClose(r)
  <2>1. queue' = queue /\ ~PutVar(r) /\ pc[r] # "dwrite"
    BY <1>9 DEF Extend, BeginClose, EndClose, PutVar
  <2>2. pc'[r] \in {"sync", "fclose", "done"} => pc[r] \in {"sync", "fclose"}
    BY <1>9 DEF Extend, BeginClose, EndClose, Typed
  <2> QED
    BY <1>4, <2>1, <2>2 DEF QueueInv
<1> QED
  BY <1>5, <1>6, <1>7, <1>8, <1>9 DEF RankNext

-----------------------------------------------------------------------------
(* What is written.                                                        *)

\* A set of places in a list has a greatest.
LEMMA MaxOfPlaces ==
  ASSUME NEW n \in Nat, NEW S \in SUBSET (1 .. n), S # {}
  PROVE  Max(S) \in S
<1> DEFINE D == {m \in Nat : \A T \in SUBSET (1 .. m) :
                   T # {} => \E x \in T : \A y \in T : x >= y}
<1>1. 0 \in D
  BY 1 .. 0 = {}
<1>2. ASSUME NEW m \in Nat, m \in D PROVE m + 1 \in D
  <2>1. ASSUME NEW T \in SUBSET (1 .. m + 1), T # {}
        PROVE  \E x \in T : \A y \in T : x >= y
    <3>1. CASE m + 1 \in T
      BY <2>1, <3>1
    <3>2. CASE m + 1 \notin T
      <4>1. T \in SUBSET (1 .. m)
        BY <2>1, <3>2
      <4> QED
        BY <1>2, <2>1, <4>1
    <3> QED
      BY <3>1, <3>2
  <2> QED
    BY <2>1
<1>3. \A m \in Nat : m \in D
  <2> HIDE DEF D
  <2> QED
    BY <1>1, <1>2, SetInduction
<1>4. \E x \in S : \A y \in S : x >= y
  BY <1>3
<1> QED
  BY <1>4 DEF Max

\* The buffer element that goes to the i-th selected element is the i-th.
LEMMA ImageInOrder ==
  ASSUME NEW r, NEW e, e.sel \in Seq(Nat), Increasing(e.sel), NEW i \in 1 .. Len(e.sel)
  PROVE  Image(r, e)[e.sel[i]] = <<r, e.var, e.rec, i>>
<1> DEFINE s == e.sel
<1>1. DOMAIN s = 1 .. Len(s) /\ s[i] \in ToSet(s)
  BY DEF ToSet
<1> HIDE DEF s
<1>2. /\ Cardinality({x \in ToSet(s) : x <= s[i]}) = i
      /\ \A j \in 1 .. Len(s) : s[j] = s[i] => j = i
  BY PlaceInIncreasing DEF s
<1>3. i \in 1 .. Len(s)
  BY DEF s
<1>4. (CHOOSE j \in 1 .. Len(s) : s[j] = s[i]) = i
  BY <1>2, <1>3
<1>5. BufferPlace(e, s[i]) = i
  BY <1>1, <1>2, <1>4 DEF BufferPlace, s
<1>6. Image(r, e)[s[i]] = <<r, e.var, e.rec, BufferPlace(e, s[i])>>
  BY <1>1 DEF Image, s
<1> QED
  BY <1>5, <1>6 DEF s

\* The rank's library call writes its queue, and nothing else.
LEMMA WrittenCells ==
  ASSUME Typed, NEW r \in Rank, QueueInv(r), NEW v \in Var, NEW k \in 0 .. NRecs,
         NEW p \in 0 .. VarLen[v] - 1
  PROVE  /\ InQueue(r, v, k) => \A i \in DOMAIN Selected(r, v) :
              Selected(r, v)[i] = p => Written(r, queue[r])[v][k][p] = <<r, v, k, i>>
         /\ ~(InQueue(r, v, k) /\ p \in ToSet(Selected(r, v))) =>
              Written(r, queue[r])[v][k][p] = file[v][k][p]
<1> DEFINE q == queue[r]
           hit == {i \in DOMAIN q : q[i].var = v /\ q[i].rec = k /\ p \in ToSet(q[i].sel)}
           W == Written(r, q)[v][k][p]
<1>1. p \in DOMAIN file[v][k]
  BY DEF Typed
<1>2. W = IF hit = {} THEN file[v][k][p] ELSE Image(r, q[Max(hit)])[p]
  BY <1>1 DEF Written
<1>3. q \in Seq(Request) /\ DOMAIN q = 1 .. Len(q) /\ Len(q) \in Nat
  BY DEF Typed
<1>4. \A i \in DOMAIN q : q[i] \in ToSet(q)
  BY DEF ToSet
<1>5. \A i \in DOMAIN q : q[i].sel = Selected(r, q[i].var)
  BY <1>4 DEF QueueInv
<1> HIDE DEF q, W
<1>6. ASSUME NEW i \in DOMAIN Selected(r, v), InQueue(r, v, k), Selected(r, v)[i] = p
      PROVE  W = <<r, v, k, i>>
  <2>1. PICK j \in DOMAIN q : q[j].var = v /\ q[j].rec = k
    BY <1>6 DEF InQueue, ToSet, q
  <2>2. p \in ToSet(Selected(r, v))
    BY <1>6 DEF ToSet
  <2>3. j \in hit
    BY <1>5, <2>1, <2>2
  <2>4. Max(hit) \in hit
    <3>1. hit \in SUBSET (1 .. Len(q)) /\ hit # {}
      BY <1>3, <2>3
    <3> HIDE DEF hit
    <3> QED
      BY <1>3, <3>1, MaxOfPlaces
  <2> DEFINE e == q[Max(hit)]
  <2>5. e.var = v /\ e.rec = k /\ e.sel = Selected(r, v)
    BY <1>5, <2>4
  <2>6. W = Image(r, e)[p]
    BY <1>2, <2>3
  <2> HIDE DEF e, hit
  <2>7. Selected(r, v) \in Seq(Nat) /\ Increasing(Selected(r, v))
    <3>1. Increasing(<<>>)
      BY DEF Increasing
    <3> QED
      BY <3>1, PartType
  <2>8. i \in 1 .. Len(e.sel)
    BY <1>6, <2>5, <2>7
  <2> QED
    BY <1>6, <2>5, <2>6, <2>7, <2>8, ImageInOrder
<1>7. ASSUME ~(InQueue(r, v, k) /\ p \in ToSet(Selected(r, v))) PROVE W = file[v][k][p]
  <2>1. ASSUME NEW j \in hit PROVE FALSE
    <3>1. q[j] \in ToSet(q) /\ q[j].var = v /\ q[j].rec = k /\ p \in ToSet(Selected(r, v))
      BY <1>4, <1>5, <2>1
    <3>2. InQueue(r, v, k)
      BY <3>1 DEF InQueue, q
    <3> QED
      BY <1>7, <3>1, <3>2
  <2> QED
    BY <1>2, <2>1
<1> QED
  BY <1>6, <1>7 DEF W, q

\* A successful library call, and only that, writes the rank's queue.
LEMMA EndWriteFacts ==
  ASSUME Typed, NEW r \in Rank, QueueInv(r), EndWrite(r)
  PROVE  /\ file' = Written(r, queue[r])
         /\ queue'[r] = <<>>
BY NotRefused DEF EndWrite, Typed

\* Other steps leave the file alone, but for the cell that extends a dataset.
LEMMA QuietFile ==
  ASSUME Typed, NEW r \in Rank, RankNext(r), ~EndWrite(r)
  PROVE  /\ ToSet(queue[r]) \subseteq ToSet(queue'[r])
         /\ \/ file' = file
            \/ Extend(r) /\ FirstOut(r) /\ file' = CellWritten(rec[r])
<1>1. CASE PutVar(r)
  <2>1. ToSet(queue[r]) \subseteq ToSet(queue'[r])
    BY <1>1, PutFacts
  <2> QED
    BY <1>1, <2>1 DEF PutVar
<1>2. CASE Extend(r)
  BY <1>2 DEF Extend
<1>3. CASE EndStep(r) \/ BeginFlush(r) \/ BeginClose(r) \/ EndClose(r)
  BY <1>3 DEF EndStep, BeginFlush, BeginClose, EndClose
<1> QED
  BY <1>1, <1>2, <1>3 DEF RankNext

\* A cell that extends a dataset is in a record no rank has posted to.
LEMMA ExtendingCell ==
  ASSUME Typed, \A q \in Rank : PlaceInv(q), NEW r \in Rank, Extend(r), FirstOut(r),
         NEW q \in Rank, NEW v \in Var, NEW k \in 0 .. NRecs, NEW p \in 0 .. VarLen[v] - 1
  PROVE  /\ Done(q, v, k) => CellWritten(rec[r])[v][k][p] = file[v][k][p]
         /\ CellWritten(rec[r])[v][k][p] \in {file[v][k][p], Dummy}
<1>1. extent[q] <= rec[r]
  BY DEF FirstOut
<1>2. /\ rec[q] \in Int /\ rec[r] \in Int /\ rec[r] >= 0 /\ k \in Int
      /\ extent[q] = IF pc[q] = "extend" THEN rec[q] ELSE rec[q] + 1
  BY DEF Extend, PlaceInv, Typed, Step
<1>3. v \in RecVar /\ k = rec[r] => ~Done(q, v, k)
  BY <1>1, <1>2 DEF Done
<1>4. DOMAIN file[v] = 0 .. NRecs /\ DOMAIN file[v][k] = 0 .. VarLen[v] - 1
  BY DEF Typed
<1>5. CASE v \in RecVar /\ VarLen[v] > 0 /\ k = rec[r]
  <2>1. CellWritten(rec[r])[v][k] = [file[v][k] EXCEPT ![0] = Dummy]
    BY <1>4, <1>5 DEF CellWritten
  <2> QED
    BY <1>3, <1>4, <1>5, <2>1
<1>6. CASE ~(v \in RecVar /\ VarLen[v] > 0 /\ k = rec[r])
  BY <1>4, <1>6 DEF CellWritten
<1> QED
  BY <1>5, <1>6

LEMMA DummyIsNobodys ==
  \A q, v, k, i : Dummy # <<q, v, k, i>>
<1> SUFFICES ASSUME NEW q, NEW v, NEW k, NEW i, Dummy = <<q, v, k, i>> PROVE FALSE
  OBVIOUS
<1>1. Len(Dummy) = 1 /\ Len(<<q, v, k, i>>) = 4
  BY DEF Dummy
<1> QED
  BY <1>1

\* What the elements of a part are in the file.
LEMMA PartCells ==
  ASSUME NEW q \in Rank, NEW v \in Var, NEW i \in DOMAIN Part(q, v)
  PROVE  /\ Part(q, v)[i] \in 0 .. VarLen[v] - 1 /\ Part(q, v)[i] \in ToSet(Part(q, v))
         /\ \A j \in DOMAIN Part(q, v) : Part(q, v)[j] = Part(q, v)[i] => j = i
<1>1. Part(q, v) \in Seq(Nat) /\ Increasing(Part(q, v))
      /\ ToSet(Part(q, v)) \subseteq 0 .. VarLen[v] - 1
  BY PartType
<1>2. Part(q, v)[i] \in ToSet(Part(q, v))
  BY DEF ToSet
<1>3. DOMAIN Part(q, v) = 1 .. Len(Part(q, v))
  BY <1>1
<1> QED
  BY <1>1, <1>2, <1>3, PlaceInIncreasing

\* An element of a part is in the file if it was, or if the rank writes it now.
LEMMA CellsByQuiet ==
  ASSUME Typed, \A q \in Rank : RankInv(q), NEW r \in Rank, RankNext(r), ~EndWrite(r),
         NEW q \in Rank, NEW v \in Var, NEW k \in 0 .. NRecs, NEW i \in DOMAIN Part(q, v)
  PROVE  file'[v][k][Part(q, v)[i]] = <<q, v, k, i>> <=>
           file[v][k][Part(q, v)[i]] = <<q, v, k, i>>
<1>1. Part(q, v)[i] \in 0 .. VarLen[v] - 1
  BY PartCells
<1>2. file[v][k][Part(q, v)[i]] = <<q, v, k, i>> => Done(q, v, k)
  BY DEF RankInv, KeptInv
<1>3. CASE Extend(r) /\ FirstOut(r) /\ file' = CellWritten(rec[r])
  <2>1. /\ Done(q, v, k) =>
             file'[v][k][Part(q, v)[i]] = file[v][k][Part(q, v)[i]]
        /\ file'[v][k][Part(q, v)[i]] \in {file[v][k][Part(q, v)[i]], Dummy}
    BY <1>1, <1>3, ExtendingCell DEF RankInv
  <2> QED
    BY <1>2, <2>1, DummyIsNobodys
<1> QED
  BY <1>3, QuietFile

LEMMA CellsByWrite ==
  ASSUME Typed, \A q \in Rank : RankInv(q), NEW r \in Rank, EndWrite(r),
         NEW q \in Rank, NEW v \in Var, NEW k \in 0 .. NRecs, NEW i \in DOMAIN Part(q, v)
  PROVE  file'[v][k][Part(q, v)[i]] = <<q, v, k, i>> <=>
           \/ file[v][k][Part(q, v)[i]] = <<q, v, k, i>>
           \/ q = r /\ InQueue(r, v, k) /\ Selected(r, v) # <<>>
<1> DEFINE x == Part(q, v)[i]
<1>1. /\ QueueInv(r) /\ file' = Written(r, queue[r])
      /\ x \in 0 .. VarLen[v] - 1 /\ x \in ToSet(Part(q, v))
      /\ file[v][k][x] = <<q, v, k, i>> => Done(q, v, k)
  <2>1. QueueInv(r)
    BY DEF RankInv
  <2> QED
    BY <2>1, EndWriteFacts, PartCells DEF RankInv, KeptInv
<1>2. Selected(r, v) = Part(r, v) \/ Selected(r, v) = <<>>
  BY PartType
<1>3. ToSet(<<>>) = {}
  BY DEF ToSet
<1>4. i \in DOMAIN Part(q, v) /\ Part(q, v)[i] = x
  OBVIOUS
<1> HIDE DEF x
<1>5. ~(InQueue(r, v, k) /\ x \in ToSet(Selected(r, v))) =>
        file'[v][k][x] = file[v][k][x]
  BY <1>1, WrittenCells
<1>6. CASE q = r
  <2>1. CASE InQueue(r, v, k) /\ Selected(r, v) # <<>>
    <3>1. i \in DOMAIN Selected(r, v) /\ Selected(r, v)[i] = x
      BY <1>2, <1>4, <1>6, <2>1
    <3>2. Written(r, queue[r])[v][k][x] = <<r, v, k, i>>
      BY <1>1, <2>1, <3>1, WrittenCells
    <3> QED
      BY <1>1, <1>6, <2>1, <3>2 DEF x
  <2>2. CASE ~(InQueue(r, v, k) /\ Selected(r, v) # <<>>)
    BY <1>3, <1>5, <1>6, <2>2 DEF x
  <2> QED
    BY <2>1, <2>2
<1>7. CASE q # r
  <2>1. ASSUME Done(q, v, k), InQueue(r, v, k) PROVE x \notin ToSet(Selected(r, v))
    <3>1. Posts(q, v) /\ Posts(r, v)
      BY <1>1, <2>1 DEF Done, InQueue, QueueInv
    <3>2. x \notin ToSet(Part(r, v))
      BY <1>1, <1>7, <3>1, PartsDisjoint DEF Part
    <3> QED
      BY <1>2, <1>3, <3>2
  <2>2. file[v][k][x] = <<q, v, k, i>> => file'[v][k][x] = <<q, v, k, i>>
    BY <1>1, <1>5, <2>1
  <2>3. ASSUME InQueue(r, v, k), x \in ToSet(Selected(r, v))
        PROVE  file'[v][k][x] # <<q, v, k, i>>
    <3>1. PICK j \in DOMAIN Selected(r, v) : Selected(r, v)[j] = x
      BY <2>3 DEF ToSet
    <3>2. file'[v][k][x] = <<r, v, k, j>>
      BY <1>1, <2>3, <3>1, WrittenCells
    <3> QED
      BY <1>7, <3>2
  <2> QED
    BY <1>5, <1>7, <2>2, <2>3 DEF x
<1> QED
  BY <1>6, <1>7

LEMMA KeptByQuiet ==
  ASSUME Typed, \A q \in Rank : RankInv(q), NEW r \in Rank, RankNext(r), ~EndWrite(r),
         api' = api, NEW q \in Rank
  PROVE  KeptInv(q)'
<1> SUFFICES ASSUME NEW v \in Var, NEW k \in 0 .. NRecs
             PROVE  /\ Done(q, v, k)' /\ Selected(q, v)' # <<>> =>
                         InQueue(q, v, k)' \/ InFile(q, v, k)'
                    /\ \A i \in DOMAIN Part(q, v) :
                         file'[v][k][Part(q, v)[i]] = <<q, v, k, i>> => Done(q, v, k)'
  BY DEF KeptInv
<1>1. k \in Nat /\ Selected(q, v)' = Selected(q, v)
  BY CaseAssumption DEF Selected
<1>2. /\ Done(q, v, k) => Done(q, v, k)'
      /\ InQueue(q, v, k) => InQueue(q, v, k)'
      /\ Done(q, v, k)' /\ Selected(q, v) # <<>> => Done(q, v, k) \/ InQueue(q, v, k)'
  <2>1. CASE q # r
    <3>1. /\ pc'[q] = pc[q] /\ rec'[q] = rec[q] /\ cur'[q] = cur[q]
          /\ extent'[q] = extent[q] /\ queue'[q] = queue[q]
      BY <2>1, Others
    <3>2. Done(q, v, k)' <=> Done(q, v, k)
      BY <1>1, <3>1, Unmoved DEF RankInv
    <3> QED
      BY <3>1, <3>2 DEF InQueue
  <2>2. CASE q = r /\ ~PutVar(r)
    <3>1. Done(q, v, k)' <=> Done(q, v, k)
      BY <1>1, <2>2, OthersDone DEF RankInv
    <3> QED
      BY <2>2, <3>1, QuietFile DEF InQueue
  <2>3. CASE q = r /\ PutVar(r)
    <3>1. PICK w \in Var :
            /\ IsNext(w, r, rec[r], cur[r])
            /\ cur' = [cur EXCEPT ![r] = w]
            /\ \E e \in {[var |-> w, rec |-> RecOf(rec[r]), sel |-> Selected(r, w),
                          inside |-> w \notin RecVar \/ rec[r] < extent[r]]} :
                  ToSet(queue'[r]) = ToSet(queue[r]) \cup
                                     {x \in {e} : Selected(r, w) # <<>>}
      BY <2>3, PutFacts
    <3>2. Done(r, v, k)' <=> Done(r, v, k) \/ (v = w /\ k = RecOf(rec[r]))
      BY <1>1, <2>3, <3>1, PutDone
    <3>3. v = w /\ k = RecOf(rec[r]) /\ Selected(r, v) # <<>> => InQueue(r, v, k)'
      BY <3>1 DEF InQueue
    <3>4. InQueue(r, v, k) => InQueue(r, v, k)'
      BY <3>1 DEF InQueue
    <3> QED
      BY <2>3, <3>2, <3>3, <3>4
  <2> QED
    BY <2>1, <2>2, <2>3
<1>3. /\ Done(q, v, k) /\ Selected(q, v) # <<>> => InQueue(q, v, k) \/ InFile(q, v, k)
      /\ \A i \in DOMAIN Part(q, v) :
           file[v][k][Part(q, v)[i]] = <<q, v, k, i>> => Done(q, v, k)
  BY DEF RankInv, KeptInv
<1>4. \A i \in DOMAIN Part(q, v) :
        file'[v][k][Part(q, v)[i]] = <<q, v, k, i>> <=>
          file[v][k][Part(q, v)[i]] = <<q, v, k, i>>
  BY CellsByQuiet
<1>5. InFile(q, v, k) => InFile(q, v, k)'
  BY <1>4 DEF InFile
<1> QED
  BY <1>1, <1>2, <1>3, <1>4, <1>5

LEMMA KeptByWrite ==
  ASSUME Typed, \A q \in Rank : RankInv(q), NEW r \in Rank, RankNext(r), EndWrite(r),
         api' = api, NEW q \in Rank
  PROVE  KeptInv(q)'
<1> SUFFICES ASSUME NEW v \in Var, NEW k \in 0 .. NRecs
             PROVE  /\ Done(q, v, k)' /\ Selected(q, v)' # <<>> =>
                         InQueue(q, v, k)' \/ InFile(q, v, k)'
                    /\ \A i \in DOMAIN Part(q, v) :
                         file'[v][k][Part(q, v)[i]] = <<q, v, k, i>> => Done(q, v, k)'
  BY DEF KeptInv
<1>1. k \in Nat /\ Selected(q, v)' = Selected(q, v)
  BY CaseAssumption DEF Selected
<1>2. /\ Done(q, v, k) /\ Selected(q, v) # <<>> => InQueue(q, v, k) \/ InFile(q, v, k)
      /\ \A i \in DOMAIN Part(q, v) :
           file[v][k][Part(q, v)[i]] = <<q, v, k, i>> => Done(q, v, k)
      /\ InQueue(q, v, k) => Done(q, v, k)
  BY DEF RankInv, KeptInv, InQueue, QueueInv
<1>3. \A i \in DOMAIN Part(q, v) :
        file'[v][k][Part(q, v)[i]] = <<q, v, k, i>> <=>
          \/ file[v][k][Part(q, v)[i]] = <<q, v, k, i>>
          \/ q = r /\ InQueue(r, v, k) /\ Selected(r, v) # <<>>
  BY CellsByWrite
<1>4. /\ Done(q, v, k)' <=> Done(q, v, k)
      /\ InQueue(q, v, k) => q = r \/ InQueue(q, v, k)'
  <2>1. CASE q = r
    <3>1. ~PutVar(r)
      BY DEF PutVar, EndWrite
    <3> QED
      BY <1>1, <2>1, <3>1, OthersDone DEF RankInv
  <2>2. CASE q # r
    <3>1. /\ pc'[q] = pc[q] /\ rec'[q] = rec[q] /\ cur'[q] = cur[q]
          /\ extent'[q] = extent[q] /\ queue'[q] = queue[q]
      BY <2>2, Others
    <3>2. Done(q, v, k)' <=> Done(q, v, k)
      BY <1>1, <3>1, Unmoved DEF RankInv
    <3> QED
      BY <3>1, <3>2 DEF InQueue
  <2> QED
    BY <2>1, <2>2
<1>5. InFile(q, v, k) => InFile(q, v, k)'
  BY <1>3 DEF InFile
<1>6. q = r /\ InQueue(r, v, k) /\ Selected(r, v) # <<>> => InFile(q, v, k)'
  BY <1>3 DEF InFile
<1> QED
  BY <1>1, <1>2, <1>3, <1>4, <1>5, <1>6

-----------------------------------------------------------------------------
(* The invariant holds.                                                    *)

LEMMA InitInv == Init => IInv
<1> SUFFICES ASSUME Init PROVE IInv
  OBVIOUS
<1>1. Typed
  <2>1. -1 \in Step /\ 0 \in 0 .. NVars
    BY CaseAssumption DEF Step
  <2>2. calls \in [Rank -> Seq(Call)] /\ queue \in [Rank -> Seq(Request)]
    BY DEF Init
  <2> QED
    BY <2>1, <2>2 DEF Init, Typed, PC
<1>2. ASSUME NEW r \in Rank PROVE RankInv(r)
  <2>1. /\ pc[r] = "post" /\ rec[r] = -1 /\ cur[r] = 0 /\ extent[r] = 0
        /\ queue[r] = <<>> /\ ToSet(queue[r]) = {}
    BY DEF Init, ToSet
  <2>2. PlaceInv(r) /\ QueueInv(r)
    BY <2>1 DEF PlaceInv, QueueInv
  <2>3. ASSUME NEW v \in Var, NEW k \in 0 .. NRecs PROVE ~Done(r, v, k)
    BY <2>1 DEF Done, Var
  <2>4. ASSUME NEW v \in Var, NEW k \in 0 .. NRecs, NEW i \in DOMAIN Part(r, v)
        PROVE  file[v][k][Part(r, v)[i]] # <<r, v, k, i>>
    <3>1. Part(r, v)[i] \in 0 .. VarLen[v] - 1
      BY <2>4, PartCells
    <3>2. file[v][k][Part(r, v)[i]] = None
      BY <3>1 DEF Init
    <3>3. Len(None) = 0 /\ Len(<<r, v, k, i>>) = 4
      BY DEF None
    <3> QED
      BY <3>2, <3>3
  <2> QED
    BY <2>2, <2>3, <2>4 DEF RankInv, KeptInv
<1> QED
  BY <1>1, <1>2 DEF IInv

LEMMA NextInv == IInv /\ [Next]_vars => IInv'
<1> SUFFICES ASSUME IInv, [Next]_vars PROVE IInv'
  OBVIOUS
<1>1. Typed' /\ api' = api
  BY NextTyped, SameApi DEF IInv
<1>2. ASSUME UNCHANGED vars, NEW q \in Rank PROVE RankInv(q)'
  <2>1. /\ pc' = pc /\ rec' = rec /\ cur' = cur /\ extent' = extent
        /\ queue' = queue /\ file' = file
    BY <1>2 DEF vars
  <2>2. PlaceInv(q)' /\ QueueInv(q)'
    BY <1>1, <2>1, Unmoved DEF IInv, RankInv
  <2>3. KeptInv(q)'
    <3>1. KeptInv(q) /\ \A v : Selected(q, v)' = Selected(q, v)
      BY <1>1 DEF IInv, RankInv, Selected
    <3>2. \A v, k :
            /\ Done(q, v, k)' <=> Done(q, v, k)
            /\ InQueue(q, v, k)' <=> InQueue(q, v, k)
            /\ InFile(q, v, k)' <=> InFile(q, v, k)
      BY <2>1 DEF Done, InQueue, InFile
    <3> QED
      BY <2>1, <3>1, <3>2 DEF KeptInv
  <2> QED
    BY <2>2, <2>3 DEF RankInv
<1>3. ASSUME NEW r \in Rank, RankNext(r), NEW q \in Rank PROVE RankInv(q)'
  <2>1. Typed /\ \A s \in Rank : RankInv(s)
    BY DEF IInv
  <2>2. PlaceInv(q)' /\ QueueInv(q)'
    <3>1. CASE q = r
      BY <1>1, <1>3, <2>1, <3>1, PlaceKept, QueueKept DEF RankInv
    <3>2. CASE q # r
      BY <1>1, <1>3, <2>1, <3>2, Others, Unmoved DEF RankInv
    <3> QED
      BY <3>1, <3>2
  <2>3. KeptInv(q)'
    BY <1>1, <1>3, <2>1, KeptByQuiet, KeptByWrite
  <2> QED
    BY <2>2, <2>3 DEF RankInv
<1> QED
  BY <1>1, <1>2, <1>3 DEF IInv, Next, Finished

THEOREM Invariance == Spec => []IInv
<1>1. Init => IInv
  BY InitInv
<1>2. IInv /\ [Next]_vars => IInv'
  BY NextInv
<1> QED
  BY <1>1, <1>2, PTL DEF Spec

\* Every variable holds a value of its kind; nothing empty is ever queued, and
\* no rank extends the datasets beyond the records there are
\* (expand_rec_size(), post_varn()).
THEOREM TypeCorrect == Spec => []TypeOK
<1>1. IInv => TypeOK
  <2> SUFFICES ASSUME IInv PROVE TypeOK
    OBVIOUS
  <2>1. ASSUME NEW r \in Rank PROVE extent[r] \in 0 .. NRecs
    <3>1. PlaceInv(r) /\ rec[r] \in Step
      BY DEF IInv, RankInv, Typed
    <3> QED
      BY <3>1, CaseAssumption DEF PlaceInv, Step
  <2>2. extent \in [Rank -> 0 .. NRecs]
    BY <2>1 DEF IInv, Typed
  <2> QED
    BY <2>2 DEF IInv, Typed, TypeOK
<1> QED
  BY <1>1, Invariance, PTL

\* HDF5 accepts every request: on every rank the datasets were extended before
\* the records of a time step are selected, and the elements a map selects are
\* as many as the buffer's.
THEOREM RequestsAreAccepted == Spec => []RequestsAccepted
<1>1. IInv => RequestsAccepted
  BY DEF IInv, RankInv, PlaceInv, RequestsAccepted
<1> QED
  BY <1>1, Invariance, PTL

-----------------------------------------------------------------------------
(* The driver implements DeferredStore.                                    *)

LEMMA PostedIs ==
  IInv => \A r \in Rank :
    Posted(r) = {x \in Var \X Nat \X Nat :
                   InQueue(r, x[1], x[2]) /\ x[3] \in ToSet(Selected(r, x[1]))}
<1> SUFFICES ASSUME IInv, NEW r \in Rank
             PROVE  Posted(r) = {x \in Var \X Nat \X Nat :
                      InQueue(r, x[1], x[2]) /\ x[3] \in ToSet(Selected(r, x[1]))}
  OBVIOUS
<1>1. /\ \A e \in ToSet(queue[r]) : e.var \in Var /\ e.rec \in Nat
      /\ \A e \in ToSet(queue[r]) : e.sel = Selected(r, e.var)
  BY QueueTypes DEF IInv, RankInv, QueueInv
<1>2. ASSUME NEW v \in Var PROVE ToSet(Selected(r, v)) \subseteq Nat
  <2>1. Selected(r, v) \in Seq(Nat)
    BY PartType
  <2> QED
    BY <2>1 DEF ToSet
<1>3. ToSet(queue[r]) = {queue[r][i] : i \in DOMAIN queue[r]}
  BY DEF ToSet
<1> DEFINE cells(e) == {<<e.var, e.rec, p>> : p \in ToSet(e.sel)}
<1>4. Posted(r) = UNION {cells(e) : e \in ToSet(queue[r])}
  BY <1>3 DEF Posted
<1>5. ASSUME NEW e \in ToSet(queue[r]), NEW x \in cells(e)
      PROVE  /\ x \in Var \X Nat \X Nat
             /\ InQueue(r, x[1], x[2]) /\ x[3] \in ToSet(Selected(r, x[1]))
  <2>1. PICK p \in ToSet(e.sel) : x = <<e.var, e.rec, p>>
    OBVIOUS
  <2>2. e.var \in Var /\ e.rec \in Nat /\ e.sel = Selected(r, e.var) /\ p \in Nat
    BY <1>1, <1>2, <2>1
  <2> QED
    BY <2>1, <2>2 DEF InQueue
<1>6. ASSUME NEW x \in Var \X Nat \X Nat, InQueue(r, x[1], x[2]),
             x[3] \in ToSet(Selected(r, x[1]))
      PROVE  \E e \in ToSet(queue[r]) : x \in cells(e)
  <2>1. PICK e \in ToSet(queue[r]) : e.var = x[1] /\ e.rec = x[2]
    BY <1>6 DEF InQueue
  <2>2. e.sel = Selected(r, x[1]) /\ x = <<x[1], x[2], x[3]>>
    BY <1>1, <2>1
  <2> QED
    BY <1>6, <2>1, <2>2
<1> HIDE DEF cells
<1> QED
  BY <1>4, <1>5, <1>6

\* Element p of rank r's part of record k of v is in the file.
Holds(r, v, k, p) == \E i \in DOMAIN Part(r, v) :
  Part(r, v)[i] = p /\ file[v][k][Part(r, v)[i]] = <<r, v, k, i>>

\* What is in the file was posted, in a record there is.
LEMMA PostedRecord ==
  ASSUME IInv, NEW r \in Rank, NEW v \in Var, NEW k \in Nat, Done(r, v, k)
  PROVE  /\ k \in 0 .. NRecs /\ Posts(r, v)
         /\ v \in RecVar => k < NRecs
         /\ v \notin RecVar => k = 0
<1>1. rec[r] \in Step /\ NRecs \in Nat
  BY CaseAssumption DEF IInv, Typed
<1> QED
  BY <1>1 DEF Done, Step

StoredCells == \A r \in Rank :
  Stored(r) = {x \in Var \X (0 .. NRecs) \X Nat : Holds(r, x[1], x[2], x[3])}

LEMMA StoredIs == IInv => StoredCells
<1> SUFFICES ASSUME IInv, NEW r \in Rank
             PROVE  Stored(r) = {x \in Var \X (0 .. NRecs) \X Nat :
                                   Holds(r, x[1], x[2], x[3])}
  BY DEF StoredCells
<1> DEFINE cells(v, k) == {<<v, k, w[1]>> :
                             w \in {u \in Wanted(r, v, k) : file[v][k][u[1]] = u[2]}}
<1>1. Stored(r) = UNION {cells(v, k) : v \in Var, k \in 0 .. NRecs}
  BY DEF Stored
<1>2. ASSUME NEW v \in Var, NEW k \in 0 .. NRecs, NEW x \in cells(v, k)
      PROVE  x \in Var \X (0 .. NRecs) \X Nat /\ Holds(r, x[1], x[2], x[3])
  <2>1. PICK w \in Wanted(r, v, k) : file[v][k][w[1]] = w[2] /\ x = <<v, k, w[1]>>
    BY <1>2
  <2>2. PICK i \in DOMAIN Part(r, v) : w = <<Part(r, v)[i], <<r, v, k, i>>>>
    BY <2>1 DEF Wanted, Part
  <2>3. Part(r, v)[i] \in Nat
    BY PartCells
  <2>4. Holds(r, v, k, Part(r, v)[i])
    BY <2>1, <2>2 DEF Holds
  <2> QED
    BY <2>1, <2>2, <2>3, <2>4
<1>3. ASSUME NEW v \in Var, NEW k \in 0 .. NRecs, NEW p \in Nat, Holds(r, v, k, p)
      PROVE  <<v, k, p>> \in cells(v, k)
  <2>1. PICK i \in DOMAIN Part(r, v) :
          Part(r, v)[i] = p /\ file[v][k][p] = <<r, v, k, i>>
    BY <1>3 DEF Holds
  <2>2. Done(r, v, k)
    BY <2>1 DEF IInv, RankInv, KeptInv
  <2>3. <<p, <<r, v, k, i>>>> \in Wanted(r, v, k)
    <3>1. k \in Nat
      BY CaseAssumption
    <3> QED
      BY <2>1, <2>2, <3>1, PostedRecord DEF Wanted, Part
  <2> QED
    BY <2>1, <2>3
<1>4. \A x \in Var \X (0 .. NRecs) \X Nat :
        /\ x = <<x[1], x[2], x[3]>>
        /\ x[1] \in Var /\ x[2] \in 0 .. NRecs /\ x[3] \in Nat
  OBVIOUS
<1> HIDE DEF cells
<1>5. ASSUME NEW x \in Var \X (0 .. NRecs) \X Nat, Holds(r, x[1], x[2], x[3])
      PROVE  \E v \in Var, k \in 0 .. NRecs : x \in cells(v, k)
  BY <1>3, <1>4, <1>5
<1> QED
  BY <1>1, <1>2, <1>5

LEMMA MapsByQuiet ==
  ASSUME IInv, IInv', NEW r \in Rank, RankNext(r), ~EndWrite(r), NEW q \in Rank
  PROVE  Stored(q)' = Stored(q)
<1>1. StoredCells'
  BY StoredIs, PTL
<1>2. ASSUME NEW x \in Var \X (0 .. NRecs) \X Nat
      PROVE  Holds(q, x[1], x[2], x[3])' <=> Holds(q, x[1], x[2], x[3])
  <2>1. x[1] \in Var /\ x[2] \in 0 .. NRecs
    BY <1>2
  <2>2. Typed /\ \A s \in Rank : RankInv(s)
    BY DEF IInv
  <2>3. \A i \in DOMAIN Part(q, x[1]) :
          file'[x[1]][x[2]][Part(q, x[1])[i]] = <<q, x[1], x[2], i>> <=>
            file[x[1]][x[2]][Part(q, x[1])[i]] = <<q, x[1], x[2], i>>
    BY <2>1, <2>2, CellsByQuiet
  <2> QED
    BY <2>3 DEF Holds
<1> QED
  BY <1>1, <1>2, StoredIs DEF StoredCells

LEMMA MapsByWrite ==
  ASSUME IInv, IInv', NEW r \in Rank, RankNext(r), EndWrite(r), NEW q \in Rank
  PROVE  /\ Stored(q)' = IF q = r THEN Stored(q) \cup Posted(q) ELSE Stored(q)
         /\ Posted(q)' = IF q = r THEN {} ELSE Posted(q)
<1>1. StoredCells'
  BY StoredIs, PTL
<1>2. /\ Stored(q) = {x \in Var \X (0 .. NRecs) \X Nat : Holds(q, x[1], x[2], x[3])}
      /\ Posted(q) = {x \in Var \X Nat \X Nat :
                        InQueue(q, x[1], x[2]) /\ x[3] \in ToSet(Selected(q, x[1]))}
  BY StoredIs, PostedIs DEF StoredCells
<1>3. Typed /\ \A s \in Rank : RankInv(s)
  BY DEF IInv
<1>4. ASSUME NEW x \in Var \X (0 .. NRecs) \X Nat
      PROVE  Holds(q, x[1], x[2], x[3])' <=>
               \/ Holds(q, x[1], x[2], x[3])
               \/ /\ q = r /\ InQueue(q, x[1], x[2])
                  /\ x[3] \in ToSet(Selected(q, x[1]))
  <2>1. x[1] \in Var /\ x[2] \in 0 .. NRecs
    BY <1>4
  <2> DEFINE v == x[1]
             k == x[2]
             p == x[3]
  <2>2. v \in Var /\ k \in 0 .. NRecs
    BY <2>1
  <2> HIDE DEF v, k, p
  <2>3. \A i \in DOMAIN Part(q, v) :
          file'[v][k][Part(q, v)[i]] = <<q, v, k, i>> <=>
            \/ file[v][k][Part(q, v)[i]] = <<q, v, k, i>>
            \/ q = r /\ InQueue(r, v, k) /\ Selected(r, v) # <<>>
    BY <1>3, <2>2, CellsByWrite
  <2>4. Selected(q, v) # <<>> => Selected(q, v) = Part(q, v)
    BY <2>2, PartType
  <2>5. p \in ToSet(Selected(q, v)) <=>
          Selected(q, v) # <<>> /\ \E i \in DOMAIN Part(q, v) : Part(q, v)[i] = p
    <3>1. ToSet(<<>>) = {}
      BY DEF ToSet
    <3>2. ToSet(Part(q, v)) = {Part(q, v)[i] : i \in DOMAIN Part(q, v)}
      BY DEF ToSet
    <3> QED
      BY <2>4, <3>1, <3>2
  <2>6. Holds(q, v, k, p)' <=>
          \/ Holds(q, v, k, p)
          \/ q = r /\ InQueue(q, v, k) /\ p \in ToSet(Selected(q, v))
    BY <2>3, <2>5 DEF Holds
  <2> QED
    BY <2>6 DEF v, k, p
<1>5. ASSUME NEW x \in Posted(q) PROVE x \in Var \X (0 .. NRecs) \X Nat
  <2>1. x \in Var \X Nat \X Nat /\ x[1] \in Var /\ InQueue(q, x[1], x[2])
    BY <1>2, <1>5
  <2>2. Done(q, x[1], x[2])
    BY <1>3, <2>1 DEF RankInv, QueueInv, InQueue
  <2>3. x[2] \in 0 .. NRecs
    BY <2>1, <2>2, PostedRecord
  <2> QED
    BY <2>1, <2>3
<1>6. Stored(q)' = IF q = r THEN Stored(q) \cup Posted(q) ELSE Stored(q)
  <2>1. Stored(q)' = {x \in Var \X (0 .. NRecs) \X Nat : Holds(q, x[1], x[2], x[3])'}
    BY <1>1 DEF StoredCells
  <2>2. \A x \in Var \X (0 .. NRecs) \X Nat : x \in Var \X Nat \X Nat
    <3>1. 0 .. NRecs \subseteq Nat
      BY CaseAssumption
    <3> QED
      BY <3>1
  <2>3. \A x : x \in Stored(q)' <=>
          x \in Var \X (0 .. NRecs) \X Nat /\ Holds(q, x[1], x[2], x[3])'
    BY <2>1
  <2>4. \A x : x \in Stored(q) <=>
          x \in Var \X (0 .. NRecs) \X Nat /\ Holds(q, x[1], x[2], x[3])
    BY <1>2
  <2>5. \A x \in Var \X (0 .. NRecs) \X Nat : x \in Posted(q) <=>
          InQueue(q, x[1], x[2]) /\ x[3] \in ToSet(Selected(q, x[1]))
    BY <1>2, <2>2
  <2>6. \A x : x \in Stored(q)' <=>
          x \in Stored(q) \/ (q = r /\ x \in Posted(q))
    BY <1>4, <1>5, <2>3, <2>4, <2>5
  <2> QED
    BY <2>6
<1>7. Posted(q)' = IF q = r THEN {} ELSE Posted(q)
  <2>1. CASE q = r
    <3>1. queue'[q] = <<>>
      BY <1>3, <2>1, EndWriteFacts DEF RankInv
    <3> QED
      BY <2>1, <3>1 DEF Posted
  <2>2. CASE q # r
    <3>1. queue'[q] = queue[q]
      BY <1>3, <2>2, Others
    <3> QED
      BY <2>2, <3>1 DEF Posted
  <2> QED
    BY <2>1, <2>2
<1> QED
  BY <1>6, <1>7

PostedType == \A r \in Rank : Posted(r) \in SUBSET (Var \X Nat \X Nat)

LEMMA PostedTypes == IInv => PostedType
BY PostedIs DEF PostedType

\* A put posts elements that are not in the file.
LEMMA MapsByPut ==
  ASSUME IInv, NEW r \in Rank, RankNext(r), PutVar(r)
  PROVE  /\ Posted(r) \subseteq Posted(r)'
         /\ (Posted(r)' \ Posted(r)) \cap Stored(r) = {}
<1>1. Typed /\ queue[r] \in Seq(Request)
  BY DEF IInv, Typed
<1>2. PICK v \in Var :
        /\ IsNext(v, r, rec[r], cur[r])
        /\ cur' = [cur EXCEPT ![r] = v]
        /\ \E e \in {[var |-> v, rec |-> RecOf(rec[r]), sel |-> Selected(r, v),
                      inside |-> v \notin RecVar \/ rec[r] < extent[r]]} :
              ToSet(queue'[r]) = ToSet(queue[r]) \cup
                                 {x \in {e} : Selected(r, v) # <<>>}
  BY <1>1, PutFacts
<1> DEFINE cells(e) == {<<e.var, e.rec, p>> : p \in ToSet(e.sel)}
<1>3. /\ Posted(r) = UNION {cells(e) : e \in ToSet(queue[r])}
      /\ Posted(r)' = UNION {cells(e) : e \in ToSet(queue'[r])}
  BY DEF Posted, ToSet
<1>4. \A e \in ToSet(queue'[r]) :
        e \in ToSet(queue[r]) \/ (e.var = v /\ e.rec = RecOf(rec[r]))
  BY <1>2
<1>5. ToSet(queue[r]) \subseteq ToSet(queue'[r])
  BY <1>2
<1>6. Posted(r) \subseteq Posted(r)'
  BY <1>3, <1>5
<1>7. ASSUME NEW x \in Posted(r)', x \notin Posted(r)
      PROVE  x[1] = v /\ x[2] = RecOf(rec[r])
  <2>1. PICK e \in ToSet(queue'[r]) : x \in cells(e)
    BY <1>3, <1>7
  <2>2. e \notin ToSet(queue[r])
    BY <1>3, <1>7, <2>1
  <2> QED
    BY <1>4, <2>1, <2>2
<1>8. ASSUME NEW x \in Stored(r) PROVE ~(x[1] = v /\ x[2] = RecOf(rec[r]))
  <2>1. /\ x[1] \in Var /\ x[2] \in 0 .. NRecs
        /\ Holds(r, x[1], x[2], x[3])
    BY <1>8, StoredIs DEF StoredCells
  <2>2. Done(r, x[1], x[2])
    BY <2>1 DEF Holds, IInv, RankInv, KeptInv
  <2>3. ~Done(r, v, RecOf(rec[r]))
    BY <1>1, <1>2, PutDone
  <2> QED
    BY <2>2, <2>3
<1> HIDE DEF cells
<1> QED
  BY <1>6, <1>7, <1>8

\* A rank's step posts elements, stores all it has posted, or neither.
LEMMA StepMaps ==
  ASSUME IInv, IInv', NEW r \in Rank, RankNext(r)
  PROVE  [Store!Next]_(Store!vars)
<1> DEFINE post == [q \in Rank |-> Posted(q)]
           store == [q \in Rank |-> Stored(q)]
           post2 == [q \in Rank |-> Posted(q)']
           store2 == [q \in Rank |-> Stored(q)']
<1>1. SUFFICES \/ post2 = post /\ store2 = store
               \/ /\ post2 \in [Rank -> SUBSET (Var \X Nat \X Nat)]
                  /\ post[r] \subseteq post2[r]
                  /\ (post2[r] \ post[r]) \cap store[r] = {}
                  /\ \A q \in Rank \ {r} : post2[q] = post[q]
                  /\ store2 = store
               \/ /\ post[r] # {}
                  /\ store2 = [store EXCEPT ![r] = @ \cup post[r]]
                  /\ post2 = [post EXCEPT ![r] = {}]
  BY DEF Store!Next, Store!vars, Store!Post, Store!Flush
<1>2. CASE EndWrite(r)
  <2>1. \A q \in Rank :
          /\ Stored(q)' = IF q = r THEN Stored(q) \cup Posted(q) ELSE Stored(q)
          /\ Posted(q)' = IF q = r THEN {} ELSE Posted(q)
    BY <1>2, MapsByWrite
  <2>2. store2 = [store EXCEPT ![r] = @ \cup post[r]] /\ post2 = [post EXCEPT ![r] = {}]
    BY <2>1
  <2>3. CASE post[r] = {}
    <3>1. Posted(r) = {}
      BY <2>3
    <3>2. \A q \in Rank : Stored(q)' = Stored(q) /\ Posted(q)' = Posted(q)
      BY <2>1, <3>1
    <3> QED
      BY <3>2
  <2> QED
    BY <2>2, <2>3
<1>3. CASE ~EndWrite(r)
  <2>1. store2 = store
    BY <1>3, MapsByQuiet
  <2>2. \A q \in Rank \ {r} : Posted(q)' = Posted(q)
    <3> SUFFICES ASSUME NEW q \in Rank \ {r} PROVE Posted(q)' = Posted(q)
      OBVIOUS
    <3>1. queue'[q] = queue[q]
      BY Others DEF IInv
    <3> QED
      BY <3>1 DEF Posted
  <2>3. CASE PutVar(r)
    <3>1. \A q \in Rank : Posted(q)' \in SUBSET (Var \X Nat \X Nat)
      <4>1. PostedType'
        BY PostedTypes, PTL
      <4> QED
        BY <4>1 DEF PostedType
    <3>2. /\ Posted(r) \subseteq Posted(r)'
          /\ (Posted(r)' \ Posted(r)) \cap Stored(r) = {}
      BY <2>3, MapsByPut
    <3> QED
      BY <2>1, <2>2, <3>1, <3>2
  <2>4. CASE ~PutVar(r)
    <3>1. queue' = queue
      BY <1>3, <2>4 DEF RankNext, Extend, EndStep, BeginFlush, BeginClose, EndClose
    <3>2. \A q \in Rank : Posted(q)' = Posted(q)
      BY <3>1 DEF Posted
    <3> QED
      BY <2>1, <3>2
  <2> QED
    BY <2>3, <2>4
<1> QED
  BY <1>2, <1>3

\* The safety part of StoreSpec: a call of the library stores exactly what its
\* rank has put since the last one, nothing stored is lost or put again, and no
\* rank and no cell that extends a dataset overwrites it.
StoreSafe == Store!Init /\ [][Store!Next]_(Store!vars)

THEOREM StoresSafely == Spec => StoreSafe
<1>1. Init => Store!Init
  <2> SUFFICES ASSUME Init PROVE Store!Init
    OBVIOUS
  <2>1. IInv
    BY InitInv
  <2>2. ASSUME NEW r \in Rank PROVE Posted(r) = {}
    BY DEF Init, Posted
  <2>3. ASSUME NEW r \in Rank PROVE Stored(r) = {}
    <3>1. ASSUME NEW x \in Stored(r) PROVE FALSE
      <4>1. /\ x[1] \in Var /\ x[2] \in 0 .. NRecs
            /\ Holds(r, x[1], x[2], x[3])
        BY <2>1, <3>1, StoredIs DEF StoredCells
      <4>2. Done(r, x[1], x[2])
        BY <2>1, <4>1 DEF Holds, IInv, RankInv, KeptInv
      <4>3. rec[r] = -1 /\ cur[r] = 0
        BY DEF Init
      <4> QED
        BY <4>1, <4>2, <4>3 DEF Done, Var
    <3> QED
      BY <3>1
  <2> QED
    BY <2>2, <2>3 DEF Store!Init
<1>2. IInv /\ IInv' /\ [Next]_vars => [Store!Next]_(Store!vars)
  <2> SUFFICES ASSUME IInv, IInv', [Next]_vars PROVE [Store!Next]_(Store!vars)
    OBVIOUS
  <2>1. CASE UNCHANGED vars
    <3>1. queue' = queue /\ file' = file
      BY <2>1 DEF vars
    <3>2. \A r \in Rank : Posted(r)' = Posted(r) /\ Stored(r)' = Stored(r)
      BY <3>1 DEF Posted, Stored
    <3> QED
      BY <3>2 DEF Store!vars
  <2> QED
    BY <2>1, StepMaps DEF Next, Finished
<1> QED
  BY <1>1, <1>2, InitInv, NextInv, PTL DEF Spec, StoreSafe

-----------------------------------------------------------------------------
(* No dataset twice.                                                       *)

\* main() makes hdf5_md flush in every step, unless -y is -1 (its default).
FlushesOften == Ffreq # -1 \/ NRecs <= 1 \/ "hdf5_md" \notin Apis

LEMMA EveryStepFlushes ==
  ASSUME FlushesOften, api \in Apis, api = "hdf5_md", NEW k \in 0 .. NRecs - 1
  PROVE  FlushNow(k)
<1>1. k \in Nat /\ NRecs \in Nat /\ k < NRecs /\ (k + 1) % 1 = 0
  <2>1. k \in Nat /\ NRecs \in Nat /\ k < NRecs
    BY CaseAssumption
  <2>2. \A n \in Nat : n % 1 = 0
    BY Z3
  <2> QED
    BY <2>1, <2>2
<1>2. CASE Ffreq = -1
  <2>1. NRecs = 1 /\ k = 0
    BY <1>1, <1>2 DEF FlushesOften
  <2> QED
    BY <1>1, <2>1 DEF FlushNow, FlushEvery
<1>3. CASE Ffreq # -1
  <2>1. MainFfreq = 1
    BY <1>3, CaseAssumption DEF MainFfreq
  <2>2. Clipped(MainFfreq) = 1
    BY <1>1, <2>1 DEF Clipped
  <2> QED
    BY <1>1, <2>2 DEF FlushNow, FlushEvery
<1> QED
  BY <1>2, <1>3

LEMMA DistinctKept ==
  ASSUME FlushesOften, IInv, NEW r \in Rank, RankNext(r), Distinct(r), api' = api
  PROVE  Distinct(r)'
<1> SUFFICES ASSUME api = "hdf5_md"
             PROVE  /\ \A i, j \in DOMAIN queue'[r] :
                         queue'[r][i].var = queue'[r][j].var => i = j
                    /\ \A i \in DOMAIN queue'[r] :
                         IF queue'[r][i].var \in RecVar
                         THEN rec'[r] >= 0 /\ pc'[r] # "extend" /\ queue'[r][i].var <= cur'[r]
                         ELSE rec'[r] = -1 => queue'[r][i].var <= cur'[r]
  BY DEF Distinct
<1>1. Typed /\ PlaceInv(r) /\ QueueInv(r)
  BY DEF IInv, RankInv
<1>2. /\ \A i, j \in DOMAIN queue[r] : queue[r][i].var = queue[r][j].var => i = j
      /\ \A i \in DOMAIN queue[r] :
           IF queue[r][i].var \in RecVar
           THEN rec[r] >= 0 /\ pc[r] # "extend" /\ queue[r][i].var <= cur[r]
           ELSE rec[r] = -1 => queue[r][i].var <= cur[r]
  BY DEF Distinct
<1>3. /\ rec[r] \in Int /\ rec[r] >= -1
      /\ cur[r] \in Int /\ queue[r] \in Seq(Request)
      /\ \A i \in DOMAIN queue[r] : queue[r][i].var \in Var
  <2>1. \A i \in DOMAIN queue[r] : queue[r][i] \in ToSet(queue[r])
    BY DEF ToSet
  <2>2. \A i \in DOMAIN queue[r] : queue[r][i].var \in Var
    BY <1>1, <2>1, QueueTypes
  <2> QED
    BY <1>1, <2>2, CaseAssumption DEF Typed, Step
<1>4. rec[r] >= 0 => FlushNow(rec[r])
  <2>1. rec[r] >= 0 => rec[r] \in 0 .. NRecs - 1
    BY <1>1, CaseAssumption DEF Typed, Step
  <2> QED
    BY <1>1, <2>1, EveryStepFlushes DEF Typed
<1>5. CASE queue'[r] = <<>>
  BY <1>5
<1>6. CASE queue'[r] = queue[r] /\ rec' = rec /\ cur' = cur /\ pc'[r] # "extend"
  BY <1>2, <1>6
<1>7. CASE PutVar(r)
  <2>1. PICK v \in Var :
          /\ IsNext(v, r, rec[r], cur[r])
          /\ cur' = [cur EXCEPT ![r] = v]
          /\ queue'[r] = Queued(queue[r],
               [var |-> v, rec |-> RecOf(rec[r]), sel |-> Selected(r, v),
                inside |-> v \notin RecVar \/ rec[r] < extent[r]])
    BY <1>1, <1>7, PutFacts
  <2> DEFINE e == [var |-> v, rec |-> RecOf(rec[r]), sel |-> Selected(r, v),
                   inside |-> v \notin RecVar \/ rec[r] < extent[r]]
  <2>2. e.var = v
    OBVIOUS
  <2> HIDE DEF e
  <2>3. queue'[r] = queue[r] \/ queue'[r] = Append(queue[r], e)
    BY <2>1 DEF Queued, e
  <2>4. /\ v > cur[r] /\ v \in Int /\ (v \in RecVar <=> rec[r] >= 0)
        /\ cur'[r] = v /\ rec' = rec /\ pc'[r] # "extend"
    BY <1>1, <1>7, <2>1 DEF IsNext, Remaining, StepVars, Var, Typed, PutVar
  <2>5. \A i \in DOMAIN queue[r] : queue[r][i].var < v
        \/ (queue[r][i].var \notin RecVar /\ v \in RecVar)
    <3> SUFFICES ASSUME NEW i \in DOMAIN queue[r], ~(queue[r][i].var < v)
                 PROVE  queue[r][i].var \notin RecVar /\ v \in RecVar
      OBVIOUS
    <3>1. queue[r][i].var \in Int /\ ~(queue[r][i].var <= cur[r])
      BY <1>3, <2>4 DEF Var
    <3>2. queue[r][i].var \notin RecVar /\ rec[r] # -1
      BY <1>2, <3>1
    <3> QED
      BY <1>3, <2>4, <3>2
  <2>6. \A i \in DOMAIN queue[r] : queue[r][i].var # v
    BY <2>4, <2>5
  <2>7. CASE queue'[r] = queue[r]
    <3>1. ASSUME NEW i \in DOMAIN queue[r]
          PROVE  IF queue[r][i].var \in RecVar
                 THEN rec'[r] >= 0 /\ pc'[r] # "extend" /\ queue[r][i].var <= cur'[r]
                 ELSE rec'[r] = -1 => queue[r][i].var <= cur'[r]
      BY <1>2, <1>3, <2>4 DEF Var
    <3> QED
      BY <1>2, <2>7, <3>1
  <2>8. CASE queue'[r] = Append(queue[r], e)
    <3>1. ASSUME NEW i \in DOMAIN queue'[r]
          PROVE  \/ i \in DOMAIN queue[r] /\ queue'[r][i] = queue[r][i]
                 \/ i = Len(queue[r]) + 1 /\ queue'[r][i] = e
      BY <1>3, <2>8, <3>1
    <3>2. ASSUME NEW i \in DOMAIN queue'[r], NEW j \in DOMAIN queue'[r],
                 queue'[r][i].var = queue'[r][j].var
          PROVE  i = j
      BY <1>2, <2>2, <2>6, <3>1, <3>2
    <3>3. ASSUME NEW i \in DOMAIN queue'[r]
          PROVE  IF queue'[r][i].var \in RecVar
                 THEN rec'[r] >= 0 /\ pc'[r] # "extend" /\ queue'[r][i].var <= cur'[r]
                 ELSE rec'[r] = -1 => queue'[r][i].var <= cur'[r]
      <4>1. CASE queue'[r][i] = e
        BY <2>2, <2>4, <4>1
      <4>2. CASE i \in DOMAIN queue[r] /\ queue'[r][i] = queue[r][i]
        BY <1>2, <1>3, <2>4, <4>2 DEF Var
      <4> QED
        BY <3>1, <4>1, <4>2
    <3> QED
      BY <3>2, <3>3
  <2> QED
    BY <2>3, <2>7, <2>8
<1>8. CASE Extend(r)
  <2>1. queue' = queue /\ rec' = rec /\ pc[r] = "extend" /\ rec[r] >= 0
    BY <1>1, <1>8 DEF Extend, PlaceInv
  <2> QED
    BY <1>2, <1>3, <2>1
<1>9. CASE EndStep(r)
  <2>1. CASE FlushNow(rec[r])
    <3>1. queue' = queue /\ rec' = rec /\ cur' = cur /\ pc'[r] = "flush"
      BY <1>1, <1>9, <2>1 DEF EndStep, Typed
    <3> QED
      BY <1>6, <3>1
  <2>2. CASE ~FlushNow(rec[r])
    <3>1. rec[r] = -1 /\ queue' = queue /\ cur' = cur /\ NextStep(r)
      BY <1>3, <1>4, <1>9, <2>2 DEF EndStep
    <3>2. rec'[r] = 0 \/ rec'[r] = -1
      BY <1>1, <3>1 DEF NextStep, Typed
    <3> QED
      BY <1>2, <3>1, <3>2
  <2> QED
    BY <2>1, <2>2
<1>10. CASE BeginFlush(r)
  <2>1. CASE queue[r] = <<>>
    BY <1>5, <1>10, <2>1 DEF BeginFlush
  <2>2. CASE queue[r] # <<>>
    <3>1. queue' = queue /\ rec' = rec /\ cur' = cur /\ pc'[r] = "multi"
      BY <1>1, <1>10, <2>2 DEF BeginFlush, Typed
    <3> QED
      BY <1>6, <3>1
  <2> QED
    BY <2>1, <2>2
<1>11. CASE EndWrite(r)
  BY <1>1, <1>5, <1>11, EndWriteFacts
<1>12. CASE BeginClose(r) \/ EndClose(r)
  <2>1. queue' = queue /\ rec' = rec /\ cur' = cur /\ pc'[r] # "extend"
    BY <1>1, <1>12 DEF BeginClose, EndClose, Typed
  <2> QED
    BY <1>6, <2>1
<1> QED
  BY <1>7, <1>8, <1>9, <1>10, <1>11, <1>12 DEF RankNext

\* Without -y -1, or with no more than one record, H5Dwrite_multi() never gets a
\* dataset twice: what hdf5_md queues in a step it writes before the next
\* (main(), flush_multidatasets()). With -y -1 it does: see the README.
THEOREM DatasetsOnce ==
  ASSUME FlushesOften
  PROVE  Spec => []NoDatasetTwice
<1> DEFINE DInv == \A r \in Rank : Distinct(r)
<1>1. Init => DInv
  BY DEF Init, Distinct
<1>2. IInv /\ DInv /\ [Next]_vars => DInv'
  <2> SUFFICES ASSUME IInv, DInv, [Next]_vars, NEW q \in Rank PROVE Distinct(q)'
    OBVIOUS
  <2>1. Distinct(q) /\ api' = api
    BY SameApi
  <2>2. CASE UNCHANGED vars
    BY <2>1, <2>2 DEF Distinct, vars
  <2>3. ASSUME NEW r \in Rank, RankNext(r) PROVE Distinct(q)'
    <3>1. CASE q = r
      BY <2>1, <2>3, <3>1, DistinctKept
    <3>2. CASE q # r
      BY <2>1, <2>3, <3>2, Others DEF Distinct, IInv
    <3> QED
      BY <3>1, <3>2
  <2> QED
    BY <2>2, <2>3 DEF Next, Finished
<1>3. IInv /\ DInv => NoDatasetTwice
  BY DEF NoDatasetTwice, Distinct, IInv, RankInv, PlaceInv
<1> QED
  BY <1>1, <1>2, <1>3, InitInv, NextInv, PTL DEF Spec

-----------------------------------------------------------------------------
(* The closed file.                                                        *)

\* The elements the program places, and those a rank has put.
Places(r) == {x \in Var \X (0 .. NRecs) \X AllWanted : x[3] \in Wanted(r, x[1], x[2])}
PutPlaces(r) == {x \in Places(r) : Done(r, x[1], x[2])}

AmountInv(r) == IsFiniteSet(PutPlaces(r)) /\ amount[r] = Cardinality(PutPlaces(r))

\* The elements of one put.
LEMMA PutSize ==
  ASSUME NEW r \in Rank, NEW v \in Var, NEW k \in 0 .. NRecs,
         Posts(r, v), v \in RecVar => k < NRecs, v \notin RecVar => k = 0
  PROVE  LET new == {x \in Places(r) : x[1] = v /\ x[2] = k}
         IN  IsFiniteSet(new) /\ Cardinality(new) = Len(Part(r, v))
<1> DEFINE new == {x \in Places(r) : x[1] = v /\ x[2] = k}
           n == Len(Part(r, v))
           w(i) == <<v, k, <<Part(r, v)[i], <<r, v, k, i>>>>>>
           f == [i \in 1 .. n |-> w(i)]
<1>1. n \in Nat /\ DOMAIN Part(r, v) = 1 .. n
  BY PartType, LenProperties
<1>2. Wanted(r, v, k) = {<<Part(r, v)[i], <<r, v, k, i>>>> : i \in 1 .. n}
  BY <1>1 DEF Wanted, Part
<1> HIDE DEF n
<1>3. ASSUME NEW i \in 1 .. n PROVE w(i) \in new
  <2>1. <<Part(r, v)[i], <<r, v, k, i>>>> \in Wanted(r, v, k)
    BY <1>2
  <2>2. <<Part(r, v)[i], <<r, v, k, i>>>> \in AllWanted
    BY <2>1 DEF AllWanted
  <2>3. w(i) \in Var \X (0 .. NRecs) \X AllWanted
    BY <2>2
  <2> QED
    BY <2>1, <2>3 DEF Places
<1>4. ASSUME NEW x \in new PROVE \E i \in 1 .. n : x = w(i)
  <2>1. /\ x[1] = v /\ x[2] = k /\ x[3] \in Wanted(r, v, k)
        /\ x \in Var \X (0 .. NRecs) \X AllWanted
    BY <1>4 DEF Places
  <2>2. PICK i \in 1 .. n : x[3] = <<Part(r, v)[i], <<r, v, k, i>>>>
    BY <1>2, <2>1
  <2>3. x = <<x[1], x[2], x[3]>>
    BY <2>1
  <2> QED
    BY <2>1, <2>2, <2>3
<1>5. \A i, j \in 1 .. n : w(i) = w(j) => i = j
  OBVIOUS
<1> HIDE DEF w, new
<1>6. f \in Bijection(1 .. n, new)
  BY <1>3, <1>4, <1>5 DEF Bijection, Injection, Surjection, IsInjective
<1>7. ExistsBijection(1 .. n, new)
  <2> HIDE DEF f
  <2> QED
    BY <1>6 DEF ExistsBijection
<1>8. IsFiniteSet(new) /\ Cardinality(new) = n
  BY <1>1, <1>7, FS_CountingElements, FS_NatBijection
<1> QED
  BY <1>8 DEF new, n

LEMMA AmountKept ==
  ASSUME Scalar = {} \/ "hdf5_md" \notin Apis, IInv, NEW r \in Rank, RankNext(r),
         AmountInv(r)
  PROVE  AmountInv(r)'
<1>1. Typed /\ PlaceInv(r) /\ QueueInv(r)
  BY DEF IInv, RankInv
<1>2. \A x \in Places(r) : x[1] \in Var /\ x[2] \in Nat
  BY CaseAssumption DEF Places
<1>3. CASE ~PutVar(r)
  <2>1. amount' = amount
    BY <1>3 DEF RankNext, Extend, EndStep, BeginFlush, EndWrite, BeginClose, EndClose
  <2>2. \A x \in Places(r) : Done(r, x[1], x[2])' <=> Done(r, x[1], x[2])
    BY <1>1, <1>2, <1>3, OthersDone
  <2>3. PutPlaces(r)' = PutPlaces(r)
    BY <2>2 DEF PutPlaces
  <2> QED
    BY <2>1, <2>3 DEF AmountInv
<1>4. CASE PutVar(r)
  <2>1. PICK v \in Var :
          /\ IsNext(v, r, rec[r], cur[r])
          /\ cur' = [cur EXCEPT ![r] = v]
          /\ amount'[r] = amount[r] + Len(Selected(r, v))
    BY <1>1, <1>4, PutFacts
  <2> DEFINE k == RecOf(rec[r])
             new == {x \in Places(r) : x[1] = v /\ x[2] = k}
  <2>2. /\ ~Done(r, v, k) /\ k \in Nat
        /\ \A y \in Var, n \in Nat : Done(r, y, n)' <=> Done(r, y, n) \/ (y = v /\ n = k)
    BY <1>1, <1>4, <2>1, PutDone
  <2>3. /\ k \in 0 .. NRecs /\ Posts(r, v)
        /\ v \in RecVar => k < NRecs
        /\ v \notin RecVar => k = 0
    <3>1. /\ Posts(r, v) /\ (v \in RecVar <=> rec[r] >= 0)
          /\ rec[r] \in Int /\ rec[r] >= -1 /\ (rec[r] < NRecs \/ rec[r] = -1)
          /\ NRecs \in Nat
      BY <1>1, <2>1, CaseAssumption DEF IsNext, Remaining, StepVars, Typed, Step
    <3> QED
      BY <3>1 DEF RecOf
  <2>4. Selected(r, v) = Part(r, v)
    BY <1>1, PartType DEF Typed
  <2> HIDE DEF k
  <2>5. IsFiniteSet(new) /\ Cardinality(new) = Len(Part(r, v))
    BY <2>3, PutSize
  <2>6. PutPlaces(r)' = PutPlaces(r) \cup new /\ PutPlaces(r) \cap new = {}
    BY <1>2, <2>2 DEF PutPlaces
  <2> HIDE DEF new
  <2>7. IsFiniteSet(PutPlaces(r)) /\ amount[r] = Cardinality(PutPlaces(r))
    BY DEF AmountInv
  <2>8. /\ IsFiniteSet(PutPlaces(r) \cup new)
        /\ Cardinality(PutPlaces(r) \cup new) =
             Cardinality(PutPlaces(r)) + Cardinality(new) - Cardinality(PutPlaces(r) \cap new)
    BY <2>5, <2>7, FS_Union
  <2>9. Cardinality(PutPlaces(r) \cap new) = 0
    BY <2>6, FS_EmptySet
  <2>10. Len(Part(r, v)) \in Nat /\ Cardinality(PutPlaces(r)) \in Nat
    BY <2>7, PartType, LenProperties, FS_CardinalityType
  <2> QED
    BY <2>1, <2>4, <2>5, <2>6, <2>8, <2>9, <2>10 DEF AmountInv
<1> QED
  BY <1>3, <1>4

\* A closed file holds everything the ranks put, each element where the map
\* places it, and each rank reports as much as it put: whatever the driver, the
\* maps and the flush frequency. It takes a record (without one nothing flushes
\* the fixed-size variables) and, for hdf5_md, variables with dimensions.
THEOREM FileIsComplete ==
  ASSUME NRecs > 0, Scalar = {} \/ "hdf5_md" \notin Apis
  PROVE  Spec => []FileComplete
<1> DEFINE AInv == \A r \in Rank : AmountInv(r)
<1>1. Init => AInv
  <2> SUFFICES ASSUME Init, NEW r \in Rank PROVE AmountInv(r)
    OBVIOUS
  <2>1. PutPlaces(r) = {}
    BY DEF Init, PutPlaces, Places, Done, Var
  <2>2. amount[r] = 0
    BY DEF Init
  <2> QED
    BY <2>1, <2>2, FS_EmptySet DEF AmountInv
<1>2. IInv /\ AInv /\ [Next]_vars => AInv'
  <2> SUFFICES ASSUME IInv, AInv, [Next]_vars, NEW q \in Rank PROVE AmountInv(q)'
    OBVIOUS
  <2>1. CASE UNCHANGED vars
    <3>1. pc' = pc /\ rec' = rec /\ cur' = cur /\ amount' = amount
      BY <2>1 DEF vars
    <3>2. PutPlaces(q)' = PutPlaces(q)
      BY <3>1 DEF PutPlaces, Done
    <3> QED
      BY <3>1, <3>2 DEF AmountInv
  <2>2. ASSUME NEW r \in Rank, RankNext(r) PROVE AmountInv(q)'
    <3>1. CASE q = r
      BY <2>2, <3>1, AmountKept
    <3>2. CASE q # r
      <4>1. /\ pc'[q] = pc[q] /\ rec'[q] = rec[q] /\ cur'[q] = cur[q]
            /\ amount'[q] = amount[q]
        BY <2>2, <3>2, Others DEF IInv
      <4>2. PutPlaces(q)' = PutPlaces(q)
        BY <4>1 DEF PutPlaces, Done
      <4> QED
        BY <4>1, <4>2 DEF AmountInv
    <3> QED
      BY <3>1, <3>2
  <2> QED
    BY <2>1, <2>2 DEF Next, Finished
<1>3. IInv /\ AInv => FileComplete
  <2> SUFFICES ASSUME IInv, AInv, \A q \in Rank : pc[q] = "done", NEW r \in Rank
               PROVE  /\ \A x \in Places(r) : file[x[1]][x[2]][x[3][1]] = x[3][2]
                      /\ amount[r] = Cardinality(Places(r))
    BY DEF FileComplete, Places
  <2>1. /\ rec[r] = NRecs - 1 /\ Remaining(r, rec[r], cur[r]) = {}
        /\ queue[r] = <<>> /\ pc[r] = "done" /\ cur[r] \in Int
    BY DEF IInv, RankInv, PlaceInv, QueueInv, Typed
  <2>2. ASSUME NEW x \in Places(r)
        PROVE  Done(r, x[1], x[2]) /\ file[x[1]][x[2]][x[3][1]] = x[3][2]
    <3>1. x[1] \in Var /\ x[2] \in 0 .. NRecs /\ x[3] \in Wanted(r, x[1], x[2])
      BY <2>2 DEF Places
    <3> DEFINE v == x[1]
               k == x[2]
    <3> HIDE DEF v, k
    <3>2. /\ Posts(r, v) /\ (v \in RecVar => k < NRecs) /\ (v \notin RecVar => k = 0)
          /\ \E i \in DOMAIN Part(r, v) : x[3] = <<Part(r, v)[i], <<r, v, k, i>>>>
      BY <3>1 DEF Wanted, Part, v, k
    <3>3. v \in Var /\ k \in 0 .. NRecs
      BY <3>1 DEF v, k
    <3>4. NRecs \in Nat /\ Var \subseteq Int
      BY CaseAssumption DEF Var
    <3>5. Done(r, v, k)
      <4>1. CASE v \notin RecVar
        BY <2>1, <3>2, <3>4, <4>1 DEF Done
      <4>2. CASE v \in RecVar
        <5>1. v <= cur[r]
          BY <2>1, <3>2, <3>3, <3>4, <4>2 DEF Remaining, StepVars
        <5>2. k < rec[r] \/ k = rec[r]
          BY <2>1, <3>2, <3>3, <3>4, <4>2
        <5>3. k >= 0
          BY <3>3, <3>4
        <5> QED
          BY <2>1, <3>2, <4>2, <5>1, <5>2, <5>3 DEF Done
      <4> QED
        BY <4>1, <4>2
    <3>6. PICK i \in DOMAIN Part(r, v) : x[3] = <<Part(r, v)[i], <<r, v, k, i>>>>
      BY <3>2
    <3>7. Selected(r, v) = Part(r, v) /\ Part(r, v) # <<>>
      <4>1. Selected(r, v) = Part(r, v)
        BY <3>3, PartType DEF IInv, Typed
      <4>2. DOMAIN <<>> = {}
        OBVIOUS
      <4> QED
        BY <3>6, <4>1, <4>2
    <3>8. ~InQueue(r, v, k)
      BY <2>1 DEF InQueue, ToSet
    <3>9. InFile(r, v, k)
      BY <3>3, <3>5, <3>7, <3>8 DEF IInv, RankInv, KeptInv
    <3>10. file[v][k][x[3][1]] = x[3][2]
      BY <3>6, <3>9 DEF InFile
    <3> QED
      BY <3>5, <3>10 DEF v, k
  <2>3. PutPlaces(r) = Places(r)
    BY <2>2 DEF PutPlaces
  <2> QED
    BY <2>2, <2>3 DEF AmountInv
<1> QED
  BY <1>1, <1>2, <1>3, InitInv, NextInv, PTL DEF Spec

-----------------------------------------------------------------------------
(* The calls match.                                                        *)

\* The calls of a step of driver a: the datasets are extended, hdf5 enters a
\* collective write for every partitioned variable, and a flush is a barrier
\* and the call of the driver's library, if it has one.
Flushes(a, k)  == FlushEvery(Clipped(IF a = "hdf5_md" /\ Ffreq > 1 THEN 1 ELSE Ffreq), k)
Parts(k, c)    == {v \in Partitioned : (v \in RecVar <=> k >= 0) /\ v <= c}
Puts(a, k, c)  == IF a = "hdf5" THEN Cardinality(Parts(k, c)) ELSE 0
Extends(k)     == IF k >= 0 THEN 1 ELSE 0
Flushing(a, k) == IF ~Flushes(a, k) THEN 0 ELSE IF a \in {"hdf5", "netcdf4"} THEN 1 ELSE 2
LibraryCall(a) == IF a = "hdf5_md" THEN "H5Dwrite_multi" ELSE "H5Fflush"

StepLen(a, k)     == Extends(k) + Puts(a, k, NVars) + Flushing(a, k)
StepCall(a, k, j) == IF j <= Extends(k) THEN "H5Dset_extent"
                     ELSE IF j <= Extends(k) + Puts(a, k, NVars) THEN "H5Dwrite"
                     ELSE IF j = Extends(k) + Puts(a, k, NVars) + 1 THEN "barrier"
                     ELSE LibraryCall(a)

\* The calls before a step, and the call at a place of the program.
StepLens(a) == [i \in 1 .. NRecs + 1 |-> StepLen(a, i - 2)]
Start(a, k) == Prefix(StepLens(a), NRecs + 1)[k + 1]

IsCall(a, i, c) ==
  \/ \E k \in Step : \E j \in 1 .. StepLen(a, k) :
       i = Start(a, k) + j /\ c = StepCall(a, k, j)
  \/ i = Start(a, NRecs) + 1 /\ c = "barrier"
  \/ i = Start(a, NRecs) + 2 /\ c = "H5Fclose"

\* How many calls a rank at place x of step k has entered, c the last variable.
NCalls(a, x, k, c) ==
  IF x = "extend" THEN Start(a, k) + 1
  ELSE IF x \in {"post", "dwrite"} THEN Start(a, k) + Extends(k) + Puts(a, k, c)
  ELSE IF x = "flush" THEN Start(a, k) + Extends(k) + Puts(a, k, NVars) + 1
  ELSE IF x \in {"multi", "fflush"} THEN Start(a, k) + Extends(k) + Puts(a, k, NVars) + 2
  ELSE IF x = "sync" THEN Start(a, NRecs) + 1
  ELSE Start(a, NRecs) + 2

Entered(r) == NCalls(api, pc[r], rec[r], cur[r])

CallInv(r) ==
  /\ Len(calls[r]) = Entered(r)
  /\ \A i \in 1 .. Len(calls[r]) : IsCall(api, i, calls[r][i])

\* What hdf5_md has put in a step is queued until it flushes.
NowInv(r) ==
  api = "hdf5_md" /\ rec[r] >= 0 /\ pc[r] \in {"post", "flush"} =>
    \A v \in StepVars(r, rec[r]) :
      v <= cur[r] /\ Selected(r, v) # <<>> => InQueue(r, v, rec[r])

\* Every rank of hdf5_md has a part of a variable of every record: a rank whose
\* queue is empty does not enter H5Dwrite_multi.
AllHaveParts == "hdf5_md" \in Apis =>
  \A r \in Rank : \E v \in Partitioned \cap RecVar : Reqs[r][v] # <<>>

LEMMA PutsType ==
  /\ \A a, k, c : Puts(a, k, c) \in Nat /\ Extends(k) \in {0, 1} /\ Flushing(a, k) \in {0, 1, 2}
  /\ \A a, k : IsFiniteSet(Parts(k, NVars)) /\ Puts(a, k, 0) = 0
<1>1. IsFiniteSet(Partitioned)
  <2>1. IsFiniteSet(Var) /\ Partitioned \in SUBSET Var
    BY CaseAssumption, FS_Interval DEF Var
  <2> QED
    BY <2>1, FS_Subset
<1>2. ASSUME NEW k, NEW c
      PROVE  IsFiniteSet(Parts(k, c)) /\ Cardinality(Parts(k, c)) \in Nat
  <2>1. Parts(k, c) \in SUBSET Partitioned
    BY DEF Parts
  <2> QED
    BY <1>1, <2>1, FS_Subset, FS_CardinalityType
<1>3. ASSUME NEW k PROVE Parts(k, 0) = {}
  <2>1. \A v \in Partitioned : v \in Int /\ v >= 1
    BY CaseAssumption DEF Var
  <2> QED
    BY <2>1 DEF Parts
<1> QED
  BY <1>2, <1>3, FS_EmptySet DEF Puts, Extends, Flushing

LEMMA Starts ==
  ASSUME NEW a
  PROVE  /\ Start(a, -1) = 0
         /\ \A k \in Step : /\ StepLen(a, k) \in Nat
                            /\ Start(a, k + 1) = Start(a, k) + StepLen(a, k)
         /\ \A k \in -1 .. NRecs : Start(a, k) \in Nat
         /\ \A k, m \in -1 .. NRecs : k <= m => Start(a, k) <= Start(a, m)
<1> DEFINE n == NRecs + 1
           g == Prefix(StepLens(a), n)
<1>1. n \in Nat /\ NRecs \in Nat
  BY CaseAssumption
<1>2. \A k : StepLen(a, k) \in Nat
  BY PutsType DEF StepLen
<1>3. StepLens(a) \in [1 .. n -> Nat] /\ \A i \in 1 .. n : StepLens(a)[i] = StepLen(a, i - 2)
  BY <1>2 DEF StepLens
<1> HIDE DEF n
<1>4. IsPrefixSum(g, StepLens(a), n)
  BY <1>1, <1>3, PrefixExists
<1>5. \A i, j \in 0 .. n : i <= j => g[i] <= g[j]
  BY <1>1, <1>3, PrefixGrows
<1> HIDE DEF g
<1>6. \A k : Start(a, k) = g[k + 1]
  BY DEF Start, g, n
<1>7. g \in [0 .. n -> Nat] /\ g[0] = 0 /\ \A i \in 1 .. n : g[i] = g[i - 1] + StepLens(a)[i]
  BY <1>4 DEF IsPrefixSum
<1>8. ASSUME NEW k \in Step PROVE Start(a, k + 1) = Start(a, k) + StepLen(a, k)
  <2>1. k + 2 \in 1 .. n /\ (k + 2) - 2 = k /\ (k + 2) - 1 = k + 1 /\ (k + 1) + 1 = k + 2
    BY <1>1 DEF Step, n
  <2>2. g[k + 2] = g[k + 1] + StepLen(a, k)
    BY <1>3, <1>7, <2>1
  <2> QED
    BY <1>6, <2>1, <2>2
<1>9. ASSUME NEW k \in -1 .. NRecs PROVE k + 1 \in 0 .. n
  BY <1>1 DEF n
<1>10. Start(a, -1) = 0
  <2>1. (-1) + 1 = 0
    OBVIOUS
  <2> QED
    BY <1>6, <1>7, <2>1
<1>11. \A k \in -1 .. NRecs : Start(a, k) \in Nat
  BY <1>6, <1>7, <1>9
<1>12. ASSUME NEW k \in -1 .. NRecs, NEW m \in -1 .. NRecs, k <= m
       PROVE  Start(a, k) <= Start(a, m)
  <2>1. k + 1 <= m + 1
    BY <1>12
  <2> QED
    BY <1>5, <1>6, <1>9, <2>1
<1> QED
  BY <1>2, <1>8, <1>10, <1>11, <1>12

\* The program has one call at a place.
LEMMA OneCall ==
  ASSUME NEW a, NEW i, NEW c, NEW d, IsCall(a, i, c), IsCall(a, i, d)
  PROVE  c = d
<1>1. NRecs \in Nat /\ Step = -1 .. NRecs - 1
  BY CaseAssumption DEF Step
<1>2. ASSUME NEW k \in Step, NEW j \in 1 .. StepLen(a, k), i = Start(a, k) + j
      PROVE  /\ i \in Nat /\ i <= Start(a, NRecs) /\ i > Start(a, k) /\ i <= Start(a, k + 1)
             /\ k + 1 \in -1 .. NRecs /\ k \in -1 .. NRecs
  <2>1. k \in -1 .. NRecs /\ k + 1 \in -1 .. NRecs /\ NRecs \in -1 .. NRecs /\ k + 1 <= NRecs
    BY <1>1
  <2>2. /\ Start(a, k + 1) = Start(a, k) + StepLen(a, k) /\ StepLen(a, k) \in Nat
        /\ Start(a, k + 1) <= Start(a, NRecs)
        /\ Start(a, k) \in Nat /\ Start(a, k + 1) \in Nat /\ Start(a, NRecs) \in Nat
    BY <2>1, Starts
  <2> QED
    BY <1>2, <2>1, <2>2
<1>3. ASSUME NEW k \in Step, NEW j \in 1 .. StepLen(a, k), i = Start(a, k) + j,
             NEW m \in Step, NEW l \in 1 .. StepLen(a, m), i = Start(a, m) + l
      PROVE  k = m /\ j = l
  <2>1. /\ i > Start(a, k) /\ i <= Start(a, k + 1) /\ i > Start(a, m) /\ i <= Start(a, m + 1)
        /\ k \in -1 .. NRecs /\ m \in -1 .. NRecs
        /\ k + 1 \in -1 .. NRecs /\ m + 1 \in -1 .. NRecs
    BY <1>2, <1>3
  <2>2. /\ Start(a, k) \in Nat /\ Start(a, m) \in Nat
        /\ Start(a, k + 1) \in Nat /\ Start(a, m + 1) \in Nat
    BY <2>1, Starts
  <2>3. ~(k + 1 <= m)
    <3>1. k + 1 <= m => Start(a, k + 1) <= Start(a, m)
      BY <2>1, Starts
    <3> QED
      BY <1>3, <2>1, <2>2, <3>1
  <2>4. ~(m + 1 <= k)
    <3>1. m + 1 <= k => Start(a, m + 1) <= Start(a, k)
      BY <2>1, Starts
    <3> QED
      BY <1>3, <2>1, <2>2, <3>1
  <2>5. k = m
    BY <2>1, <2>3, <2>4
  <2> QED
    BY <1>3, <2>2, <2>5
<1>4. Start(a, NRecs) \in Nat
  <2>1. NRecs \in -1 .. NRecs
    BY <1>1
  <2> QED
    BY <2>1, Starts
<1>5. CASE i > Start(a, NRecs)
  <2>1. /\ \/ i = Start(a, NRecs) + 1 /\ c = "barrier"
           \/ i = Start(a, NRecs) + 2 /\ c = "H5Fclose"
        /\ \/ i = Start(a, NRecs) + 1 /\ d = "barrier"
           \/ i = Start(a, NRecs) + 2 /\ d = "H5Fclose"
    BY <1>2, <1>4, <1>5 DEF IsCall
  <2> QED
    BY <1>4, <2>1
<1>6. CASE ~(i > Start(a, NRecs))
  <2>1. ~(i = Start(a, NRecs) + 1) /\ ~(i = Start(a, NRecs) + 2)
    BY <1>4, <1>6
  <2>2. PICK k \in Step : \E j \in 1 .. StepLen(a, k) : i = Start(a, k) + j /\ c = StepCall(a, k, j)
    BY <2>1 DEF IsCall
  <2>3. PICK m \in Step : \E l \in 1 .. StepLen(a, m) : i = Start(a, m) + l /\ d = StepCall(a, m, l)
    BY <2>1 DEF IsCall
  <2>4. PICK j \in 1 .. StepLen(a, k) : i = Start(a, k) + j /\ c = StepCall(a, k, j)
    BY <2>2
  <2>5. PICK l \in 1 .. StepLen(a, m) : i = Start(a, m) + l /\ d = StepCall(a, m, l)
    BY <2>3
  <2> QED
    BY <1>3, <2>4, <2>5
<1> QED
  BY <1>5, <1>6

\* A put of a partitioned variable adds one to the collective writes of hdf5.
LEMMA PartsGrow ==
  ASSUME NEW r \in Rank, NEW k \in Step, NEW c \in 0 .. NVars,
         NEW v \in Var, IsNext(v, r, k, c), NEW a
  PROVE  /\ Puts(a, k, v) = Puts(a, k, c) + (IF a = "hdf5" /\ v \in Partitioned THEN 1 ELSE 0)
         /\ Puts(a, k, v) <= Puts(a, k, NVars)
<1>1. /\ (v \in RecVar <=> k >= 0) /\ v > c
      /\ \A w \in Partitioned : (w \in RecVar <=> k >= 0) /\ w > c => v <= w
      /\ \A w \in Partitioned : w \in Int /\ w <= NVars
      /\ v \in Int /\ c \in Int /\ NVars \in Int /\ v <= NVars
  BY CaseAssumption DEF IsNext, Remaining, StepVars, Posts, Var
<1>2. Parts(k, v) = Parts(k, c) \cup {w \in {v} : w \in Partitioned} /\ v \notin Parts(k, c)
  BY <1>1 DEF Parts
<1>3. /\ IsFiniteSet(Parts(k, NVars)) /\ Parts(k, v) \in SUBSET Parts(k, NVars)
      /\ Parts(k, c) \in SUBSET Parts(k, NVars)
  BY <1>1, PutsType DEF Parts
<1>4. /\ IsFiniteSet(Parts(k, c)) /\ Cardinality(Parts(k, v)) <= Cardinality(Parts(k, NVars))
  BY <1>3, FS_Subset
<1>5. v \notin Partitioned => Parts(k, v) = Parts(k, c)
  BY <1>2
<1>6. v \in Partitioned => Cardinality(Parts(k, v)) = Cardinality(Parts(k, c)) + 1
  <2>1. v \in Partitioned => Parts(k, v) = Parts(k, c) \cup {v}
    BY <1>2
  <2>2. Cardinality(Parts(k, c) \cup {v}) = Cardinality(Parts(k, c)) + 1
    BY <1>2, <1>4, FS_AddElement
  <2> QED
    BY <2>1, <2>2
<1>7. Puts(a, k, c) \in Nat
  BY PutsType
<1> QED
  BY <1>4, <1>5, <1>6, <1>7 DEF Puts

\* A rank that has posted all has entered the writes of the step.
LEMMA PartsAll ==
  ASSUME NEW r \in Rank, NEW k \in Step, NEW c \in 0 .. NVars,
         Remaining(r, k, c) = {}, NEW a
  PROVE  Puts(a, k, c) = Puts(a, k, NVars)
<1>1. /\ \A w \in Partitioned : ~((w \in RecVar <=> k >= 0) /\ w > c)
      /\ \A w \in Partitioned : w \in Int /\ w <= NVars
      /\ c \in Int /\ NVars \in Int
  BY CaseAssumption DEF Remaining, StepVars, Posts, Var
<1>2. Parts(k, c) = Parts(k, NVars)
  BY <1>1 DEF Parts
<1> QED
  BY <1>2 DEF Puts

\* The calls of the program.
LEMMA ProgramCalls ==
  ASSUME NEW a, NEW k \in Step
  PROVE  /\ Start(a, k) \in Nat /\ Start(a, k + 1) \in Nat /\ Start(a, NRecs) \in Nat
         /\ Start(a, k + 1) = Start(a, k) + Extends(k) + Puts(a, k, NVars) + Flushing(a, k)
         /\ k >= 0 => IsCall(a, Start(a, k) + 1, "H5Dset_extent")
         /\ \A n \in 1 .. Puts(a, k, NVars) :
              IsCall(a, Start(a, k) + Extends(k) + n, "H5Dwrite")
         /\ Flushing(a, k) >= 1 =>
              IsCall(a, Start(a, k) + Extends(k) + Puts(a, k, NVars) + 1, "barrier")
         /\ Flushing(a, k) = 2 =>
              IsCall(a, Start(a, k) + Extends(k) + Puts(a, k, NVars) + 2, LibraryCall(a))
<1> DEFINE E == Extends(k)
           P == Puts(a, k, NVars)
           F == Flushing(a, k)
<1>1. /\ E \in {0, 1} /\ P \in Nat /\ F \in {0, 1, 2} /\ StepLen(a, k) = E + P + F
      /\ k >= 0 => E = 1
  BY PutsType DEF StepLen, Extends
<1>2. /\ Start(a, k) \in Nat /\ Start(a, k + 1) \in Nat /\ Start(a, NRecs) \in Nat
      /\ Start(a, k + 1) = Start(a, k) + StepLen(a, k)
  <2>1. k \in -1 .. NRecs /\ k + 1 \in -1 .. NRecs /\ NRecs \in -1 .. NRecs
    BY CaseAssumption DEF Step
  <2> QED
    BY <2>1, Starts
<1>3. \A j \in 1 .. StepLen(a, k) : IsCall(a, Start(a, k) + j, StepCall(a, k, j))
  BY DEF IsCall
<1>4. \A j : StepCall(a, k, j) = IF j <= E THEN "H5Dset_extent"
                                ELSE IF j <= E + P THEN "H5Dwrite"
                                ELSE IF j = E + P + 1 THEN "barrier"
                                ELSE LibraryCall(a)
  BY DEF StepCall
<1> DEFINE s == Start(a, k)
<1> HIDE DEF E, P, F, s
<1>5. k >= 0 => IsCall(a, s + 1, "H5Dset_extent")
  <2> SUFFICES ASSUME k >= 0 PROVE IsCall(a, s + 1, "H5Dset_extent")
    OBVIOUS
  <2>1. 1 \in 1 .. StepLen(a, k) /\ 1 <= E
    BY <1>1
  <2> QED
    BY <1>3, <1>4, <2>1 DEF s
<1>6. ASSUME NEW n \in 1 .. P PROVE IsCall(a, s + E + n, "H5Dwrite")
  <2>1. E + n \in 1 .. StepLen(a, k) /\ ~(E + n <= E) /\ E + n <= E + P
    BY <1>1
  <2>2. IsCall(a, s + (E + n), "H5Dwrite")
    BY <1>3, <1>4, <2>1 DEF s
  <2>3. s + (E + n) = s + E + n
    BY <1>1, <1>2 DEF s
  <2> QED
    BY <2>2, <2>3
<1>7. F >= 1 => IsCall(a, s + E + P + 1, "barrier")
  <2> SUFFICES ASSUME F >= 1 PROVE IsCall(a, s + E + P + 1, "barrier")
    OBVIOUS
  <2>1. /\ E + P + 1 \in 1 .. StepLen(a, k) /\ ~(E + P + 1 <= E) /\ ~(E + P + 1 <= E + P)
    BY <1>1
  <2>2. IsCall(a, s + (E + P + 1), "barrier")
    BY <1>3, <1>4, <2>1 DEF s
  <2>3. s + (E + P + 1) = s + E + P + 1
    BY <1>1, <1>2 DEF s
  <2> QED
    BY <2>2, <2>3
<1>8. F = 2 => IsCall(a, s + E + P + 2, LibraryCall(a))
  <2> SUFFICES ASSUME F = 2 PROVE IsCall(a, s + E + P + 2, LibraryCall(a))
    OBVIOUS
  <2>1. /\ E + P + 2 \in 1 .. StepLen(a, k) /\ ~(E + P + 2 <= E) /\ ~(E + P + 2 <= E + P)
        /\ E + P + 2 # E + P + 1
    BY <1>1
  <2>2. IsCall(a, s + (E + P + 2), LibraryCall(a))
    BY <1>3, <1>4, <2>1 DEF s
  <2>3. s + (E + P + 2) = s + E + P + 2
    BY <1>1, <1>2 DEF s
  <2> QED
    BY <2>2, <2>3
<1>9. s + E + P + F = s + StepLen(a, k)
  BY <1>1, <1>2 DEF s
<1> QED
  BY <1>2, <1>5, <1>6, <1>7, <1>8, <1>9 DEF s, E, P, F

\* A rank enters the program's next call, or none and is where it was.
LEMMA EnterCalls ==
  ASSUME Typed, NEW r \in Rank, CallInv(r), NEW call \in Call, Enter(r, call), api' = api,
         Entered(r)' = Entered(r) + 1, IsCall(api, Entered(r) + 1, call)
  PROVE  CallInv(r)'
<1>1. calls[r] \in Seq(Call) /\ calls'[r] = Append(calls[r], call)
  BY DEF Typed, Enter
<1>2. /\ Len(calls'[r]) = Len(calls[r]) + 1 /\ Len(calls[r]) \in Nat
      /\ calls'[r][Len(calls[r]) + 1] = call
      /\ \A i \in 1 .. Len(calls[r]) : calls'[r][i] = calls[r][i]
  BY <1>1
<1>3. Len(calls[r]) = Entered(r) /\ \A i \in 1 .. Len(calls[r]) : IsCall(api, i, calls[r][i])
  BY DEF CallInv
<1>4. Len(calls'[r]) = Entered(r)'
  BY <1>2, <1>3
<1>5. ASSUME NEW i \in 1 .. Len(calls'[r]) PROVE IsCall(api, i, calls'[r][i])
  <2>1. i \in 1 .. Len(calls[r]) \/ i = Len(calls[r]) + 1
    BY <1>2
  <2> QED
    BY <1>2, <1>3, <2>1
<1>6. \A i \in 1 .. Len(calls'[r]) : IsCall(api', i, calls'[r][i])
  BY <1>5
<1> QED
  BY <1>4, <1>6 DEF CallInv

LEMMA StayCalls ==
  ASSUME NEW r \in Rank, CallInv(r), calls'[r] = calls[r], api' = api,
         Entered(r)' = Entered(r)
  PROVE  CallInv(r)'
<1>1. \A i \in 1 .. Len(calls'[r]) : IsCall(api', i, calls'[r][i])
  BY DEF CallInv
<1> QED
  BY <1>1 DEF CallInv

LEMMA NextStepCalls ==
  ASSUME Typed, NEW r \in Rank, CallInv(r), NextStep(r), api' = api,
         Entered(r) = Start(api, rec[r] + 1)
  PROVE  CallInv(r)'
<1>1. rec[r] \in Step /\ rec[r] \in Int /\ rec[r] >= -1 /\ rec[r] <= NRecs - 1 /\ NRecs \in Nat
  BY CaseAssumption DEF Typed, Step
<1>2. CASE rec[r] + 1 < NRecs
  <2>1. pc'[r] = "extend" /\ rec'[r] = rec[r] + 1 /\ Enter(r, "H5Dset_extent")
    BY <1>2 DEF NextStep, Typed
  <2>2. Entered(r)' = Entered(r) + 1
    BY <2>1 DEF Entered, NCalls
  <2>3. rec[r] + 1 \in Step /\ rec[r] + 1 >= 0
    BY <1>1, <1>2 DEF Step
  <2>4. IsCall(api, Entered(r) + 1, "H5Dset_extent") /\ "H5Dset_extent" \in Call
    BY <2>3, ProgramCalls DEF Call
  <2> QED
    BY <2>1, <2>2, <2>4, EnterCalls
<1>3. CASE ~(rec[r] + 1 < NRecs)
  <2>1. pc'[r] = "sync" /\ Enter(r, "barrier") /\ rec[r] + 1 = NRecs
    BY <1>1, <1>3 DEF NextStep, Typed
  <2>2. Entered(r)' = Entered(r) + 1
    BY <2>1 DEF Entered, NCalls
  <2>3. IsCall(api, Entered(r) + 1, "barrier") /\ "barrier" \in Call
    BY <2>1 DEF IsCall, Call
  <2> QED
    BY <2>1, <2>2, <2>3, EnterCalls
<1> QED
  BY <1>2, <1>3

\* A rank of hdf5_md has something to flush.
LEMMA SomethingQueued ==
  ASSUME AllHaveParts, IInv, NEW r \in Rank, NowInv(r), pc[r] = "flush", api = "hdf5_md"
  PROVE  queue[r] # <<>>
<1>1. /\ Remaining(r, rec[r], cur[r]) = {} /\ FlushNow(rec[r]) /\ api \in Apis
      /\ cur[r] \in Int
  BY DEF IInv, RankInv, PlaceInv, Typed
<1>2. rec[r] >= 0
  BY <1>1 DEF FlushNow, FlushEvery
<1>3. PICK v \in Partitioned \cap RecVar : Reqs[r][v] # <<>>
  BY <1>1 DEF AllHaveParts
<1>4. v \in Var /\ v \in Int /\ v \notin Scalar
  BY CaseAssumption, Hdf5DriverAssumption DEF Var
<1>5. v \in StepVars(r, rec[r]) /\ v <= cur[r]
  BY <1>1, <1>2, <1>4 DEF Remaining, StepVars, Posts
<1>6. Selected(r, v) # <<>>
  <2>1. Selected(r, v) = Part(r, v)
    BY <1>4 DEF Selected, Part
  <2>2. Part(r, v) # <<>>
    BY <1>3, <1>4, PartOfRank DEF Part
  <2> QED
    BY <2>1, <2>2
<1>7. InQueue(r, v, rec[r])
  BY <1>2, <1>5, <1>6 DEF NowInv
<1> QED
  BY <1>7 DEF InQueue, ToSet

LEMMA CallsKept ==
  ASSUME AllHaveParts, IInv, NEW r \in Rank, RankNext(r), CallInv(r), NowInv(r), api' = api
  PROVE  CallInv(r)'
<1> DEFINE k == rec[r]
           S == Start(api, rec[r])
           E == Extends(rec[r])
           P == Puts(api, rec[r], NVars)
<1>1. Typed /\ PlaceInv(r) /\ QueueInv(r)
  BY DEF IInv, RankInv
<1>2. k \in Step /\ cur[r] \in 0 .. NVars /\ rec[r] = k /\ api \in Apis
  BY <1>1 DEF Typed
<1>3. /\ S \in Nat /\ Start(api, k + 1) \in Nat /\ Start(api, NRecs) \in Nat
      /\ Start(api, k + 1) = S + E + P + Flushing(api, k)
      /\ \A n \in 1 .. P : IsCall(api, S + E + n, "H5Dwrite")
      /\ Flushing(api, k) >= 1 => IsCall(api, S + E + P + 1, "barrier")
      /\ Flushing(api, k) = 2 => IsCall(api, S + E + P + 2, LibraryCall(api))
  BY <1>2, ProgramCalls
<1>4. E \in {0, 1} /\ P \in Nat /\ (k >= 0 => E = 1) /\ Puts(api, k, 0) = 0
  BY PutsType DEF Extends
<1>5. Flushing(api, k) = IF ~FlushNow(rec[r]) THEN 0
                         ELSE IF api \in {"hdf5", "netcdf4"} THEN 1 ELSE 2
  BY DEF Flushing, Flushes, FlushNow, MainFfreq
<1>6. Remaining(r, rec[r], cur[r]) = {} => Puts(api, rec[r], cur[r]) = P
  BY <1>2, PartsAll
<1>7. Call = {"barrier", "H5Dset_extent", "H5Dwrite", "H5Dwrite_multi", "H5Fflush", "H5Fclose"}
  BY DEF Call
<1>8. CASE PutVar(r)
  <2>1. PICK v \in Var : /\ IsNext(v, r, rec[r], cur[r])
                         /\ cur' = [cur EXCEPT ![r] = v]
                         /\ EntersWrite(r, v)
    BY <1>1, <1>8, PutFacts
  <2>2. pc[r] = "post" /\ pc'[r] \in {"post", "dwrite"} /\ rec' = rec /\ cur'[r] = v
    BY <1>1, <1>8, <2>1 DEF PutVar, Typed
  <2>3. /\ Puts(api, k, v) = Puts(api, k, cur[r]) + (IF api = "hdf5" /\ v \in Partitioned THEN 1 ELSE 0)
        /\ Puts(api, k, v) <= P /\ Puts(api, k, cur[r]) \in Nat
    BY <1>2, <2>1, PartsGrow, PutsType
  <2>4. Entered(r) = S + E + Puts(api, k, cur[r]) /\ Entered(r)' = S + E + Puts(api, k, v)
    BY <2>2 DEF Entered, NCalls
  <2>5. CASE api = "hdf5" /\ v \in Partitioned
    <3>1. Enter(r, "H5Dwrite")
      BY <2>1, <2>5 DEF EntersWrite
    <3> HIDE DEF k, S, E, P
    <3>2. Entered(r)' = Entered(r) + 1 /\ Entered(r) + 1 = S + E + Puts(api, k, v)
      BY <1>3, <1>4, <2>3, <2>4, <2>5
    <3>3. Puts(api, k, v) \in 1 .. P
      BY <1>4, <2>3, <2>5
    <3> QED
      BY <1>1, <1>3, <1>7, <3>1, <3>2, <3>3, EnterCalls
  <2>6. CASE ~(api = "hdf5" /\ v \in Partitioned)
    <3>1. calls' = calls
      BY <2>1, <2>6 DEF EntersWrite
    <3>2. Entered(r)' = Entered(r)
      BY <2>3, <2>4, <2>6
    <3> QED
      BY <3>1, <3>2, StayCalls
  <2> QED
    BY <2>5, <2>6
<1>9. CASE Extend(r)
  <2>1. /\ pc[r] = "extend" /\ pc'[r] = "post" /\ cur'[r] = 0 /\ rec' = rec /\ calls' = calls
        /\ rec[r] >= 0
    BY <1>1, <1>9 DEF Extend, PlaceInv, Typed
  <2>2. Entered(r)' = S + E + Puts(api, k, 0) /\ Entered(r) = S + 1
    BY <2>1 DEF Entered, NCalls
  <2>3. E = 1 /\ Puts(api, k, 0) = 0 /\ S \in Nat
    BY <1>3, <1>4, <2>1
  <2>4. Entered(r)' = Entered(r)
    BY <2>2, <2>3
  <2> QED
    BY <2>1, <2>4, StayCalls
<1>10. CASE EndStep(r)
  <2>1. pc[r] = "post" /\ Remaining(r, rec[r], cur[r]) = {} /\ cur' = cur
    BY <1>10 DEF EndStep
  <2>2. Entered(r) = S + E + P
    BY <1>6, <2>1 DEF Entered, NCalls
  <2>3. CASE FlushNow(rec[r])
    <3>1. pc'[r] = "flush" /\ Enter(r, "barrier") /\ rec' = rec
      BY <1>1, <1>10, <2>3 DEF EndStep, Typed
    <3>2. Entered(r)' = S + E + P + 1
      BY <3>1 DEF Entered, NCalls
    <3>3. IsCall(api, S + E + P + 1, "barrier")
      BY <1>3, <1>5, <2>3
    <3> QED
      BY <1>1, <1>7, <2>2, <3>1, <3>2, <3>3, EnterCalls
  <2>4. CASE ~FlushNow(rec[r])
    <3>1. NextStep(r)
      BY <1>10, <2>4 DEF EndStep
    <3>2. Entered(r) = Start(api, rec[r] + 1)
      BY <1>3, <1>4, <1>5, <2>2, <2>4
    <3> QED
      BY <1>1, <3>1, <3>2, NextStepCalls
  <2> QED
    BY <2>3, <2>4
<1>11. CASE BeginFlush(r)
  <2>1. pc[r] = "flush" /\ FlushNow(rec[r]) /\ cur' = cur
    BY <1>1, <1>11 DEF BeginFlush, PlaceInv
  <2>2. Entered(r) = S + E + P + 1
    BY <2>1 DEF Entered, NCalls
  <2>3. CASE api \in {"hdf5", "netcdf4"}
    <3>1. NextStep(r)
      BY <1>11, <2>3 DEF BeginFlush
    <3>2. Entered(r) = Start(api, rec[r] + 1)
      BY <1>3, <1>4, <1>5, <2>1, <2>2, <2>3
    <3> QED
      BY <1>1, <3>1, <3>2, NextStepCalls
  <2>4. CASE api \notin {"hdf5", "netcdf4"}
    <3>1. api = "hdf5_md" => queue[r] # <<>>
      BY <2>1, SomethingQueued
    <3>2. pc'[r] \in {"multi", "fflush"} /\ Enter(r, LibraryCall(api)) /\ rec' = rec
      BY <1>1, <1>11, <2>4, <3>1 DEF BeginFlush, LibraryCall, Typed
    <3>3. Entered(r)' = S + E + P + 2
      BY <3>2 DEF Entered, NCalls
    <3>4. IsCall(api, S + E + P + 2, LibraryCall(api)) /\ LibraryCall(api) \in Call
      BY <1>3, <1>5, <1>7, <2>1, <2>4 DEF LibraryCall
    <3>5. S + E + P + 2 = S + E + P + 1 + 1
      BY <1>3, <1>4
    <3> QED
      BY <1>1, <2>2, <3>2, <3>3, <3>4, <3>5, EnterCalls
  <2> QED
    BY <2>3, <2>4
<1>12. CASE EndWrite(r)
  <2>1. ~\E i \in DOMAIN queue[r] : Refused(queue[r][i])
    BY <1>1, NotRefused
  <2>2. CASE pc[r] = "dwrite"
    <3>1. pc'[r] = "post" /\ rec' = rec /\ cur' = cur /\ calls' = calls
      BY <1>1, <1>12, <2>1, <2>2 DEF EndWrite, Typed
    <3>2. Entered(r)' = Entered(r)
      BY <2>2, <3>1 DEF Entered, NCalls
    <3> QED
      BY <3>1, <3>2, StayCalls
  <2>3. CASE pc[r] # "dwrite"
    <3>1. /\ NextStep(r) /\ pc[r] \in {"multi", "fflush"} /\ FlushNow(rec[r])
          /\ api \notin {"hdf5", "netcdf4"}
      BY <1>1, <1>12, <2>1, <2>3 DEF EndWrite, PlaceInv
    <3>2. Entered(r) = S + E + P + 2
      BY <3>1 DEF Entered, NCalls
    <3>3. Entered(r) = Start(api, rec[r] + 1)
      BY <1>3, <1>4, <1>5, <3>1, <3>2
    <3> QED
      BY <1>1, <3>1, <3>3, NextStepCalls
  <2> QED
    BY <2>2, <2>3
<1>13. CASE BeginClose(r)
  <2>1. pc[r] = "sync" /\ pc'[r] = "fclose" /\ Enter(r, "H5Fclose")
    BY <1>1, <1>13 DEF BeginClose, Typed
  <2>2. Entered(r) = Start(api, NRecs) + 1 /\ Entered(r)' = Start(api, NRecs) + 2
    BY <2>1 DEF Entered, NCalls
  <2>3. Entered(r)' = Entered(r) + 1 /\ Entered(r) + 1 = Start(api, NRecs) + 2
    BY <1>3, <2>2
  <2>4. IsCall(api, Start(api, NRecs) + 2, "H5Fclose")
    BY DEF IsCall
  <2> QED
    BY <1>1, <1>7, <2>1, <2>3, <2>4, EnterCalls
<1>14. CASE EndClose(r)
  <2>1. pc[r] = "fclose" /\ pc'[r] = "done" /\ calls' = calls
    BY <1>1, <1>14 DEF EndClose, Typed
  <2>2. Entered(r)' = Entered(r)
    BY <2>1 DEF Entered, NCalls
  <2> QED
    BY <2>1, <2>2, StayCalls
<1> QED
  BY <1>8, <1>9, <1>10, <1>11, <1>12, <1>13, <1>14 DEF RankNext

LEMMA NowKept ==
  ASSUME IInv, NEW r \in Rank, RankNext(r), NowInv(r), api' = api
  PROVE  NowInv(r)'
<1> SUFFICES ASSUME api = "hdf5_md", rec'[r] >= 0, pc'[r] \in {"post", "flush"},
                    NEW v \in StepVars(r, rec'[r]), v <= cur'[r], Selected(r, v) # <<>>
             PROVE  \E e \in ToSet(queue'[r]) : e.var = v /\ e.rec = rec'[r]
  <2>1. \A v \in Var : Selected(r, v)' = Selected(r, v)
    BY DEF Selected
  <2> QED
    BY <2>1 DEF NowInv, InQueue, StepVars
<1>1. Typed /\ PlaceInv(r) /\ QueueInv(r)
  BY DEF IInv, RankInv
<1>2. v \in Var /\ v \in Int /\ v >= 1 /\ cur[r] \in Int
  BY <1>1, CaseAssumption DEF StepVars, Var, Typed
<1>3. CASE PutVar(r)
  <2>1. PICK w \in Var :
          /\ IsNext(w, r, rec[r], cur[r])
          /\ cur' = [cur EXCEPT ![r] = w]
          /\ \E e \in {[var |-> w, rec |-> RecOf(rec[r]), sel |-> Selected(r, w),
                        inside |-> w \notin RecVar \/ rec[r] < extent[r]]} :
               ToSet(queue'[r]) = ToSet(queue[r]) \cup {x \in {e} : Selected(r, w) # <<>>}
    BY <1>1, <1>3, PutFacts
  <2>2. PICK e : /\ e.var = w /\ e.rec = RecOf(rec[r])
                 /\ ToSet(queue'[r]) = ToSet(queue[r]) \cup {x \in {e} : Selected(r, w) # <<>>}
    BY <2>1
  <2>3. pc[r] = "post" /\ rec' = rec /\ cur'[r] = w /\ rec[r] \in Int
    BY <1>1, <1>3, <2>1 DEF PutVar, Typed, Step
  <2>4. CASE v = w
    BY <2>2, <2>3, <2>4 DEF RecOf
  <2>5. CASE v # w
    <3>1. v <= cur[r]
      <4>1. v \in Remaining(r, rec[r], cur[r]) => w <= v
        BY <2>1 DEF IsNext
      <4>2. w \in Int /\ v <= w
        BY <1>2, <2>3, CaseAssumption DEF Var
      <4> QED
        BY <1>2, <2>3, <2>5, <4>1, <4>2 DEF Remaining
    <3>2. InQueue(r, v, rec[r])
      BY <2>3, <3>1 DEF NowInv
    <3> QED
      BY <2>2, <2>3, <3>2 DEF InQueue
  <2> QED
    BY <2>4, <2>5
<1>4. CASE EndStep(r) \/ BeginFlush(r) \/ EndWrite(r)
  <2>1. ~\E i \in DOMAIN queue[r] : Refused(queue[r][i])
    BY <1>1, NotRefused
  <2>2. NextStep(r) => pc'[r] \in {"extend", "sync"}
    BY <1>1 DEF NextStep, Typed
  <2>3. pc[r] \in {"post", "flush"} /\ rec' = rec /\ cur' = cur /\ queue' = queue
    <3>1. CASE EndStep(r)
      BY <2>2, <3>1 DEF EndStep
    <3>2. CASE BeginFlush(r)
      BY <1>1, <2>2, <3>2 DEF BeginFlush, Typed
    <3>3. CASE EndWrite(r)
      BY <1>1, <2>1, <2>2, <3>3 DEF EndWrite, PlaceInv
    <3> QED
      BY <1>4, <3>1, <3>2, <3>3
  <2> QED
    BY <2>3 DEF NowInv, InQueue
<1>5. CASE Extend(r)
  <2>1. cur'[r] = 0
    BY <1>1, <1>5 DEF Extend, Typed
  <2> QED
    BY <1>2, <2>1
<1>6. CASE BeginClose(r) \/ EndClose(r)
  BY <1>1, <1>6 DEF BeginClose, EndClose, Typed
<1> QED
  BY <1>3, <1>4, <1>5, <1>6 DEF RankNext

\* The ranks enter their collective calls in the same order, so that none waits
\* in one for ranks that are in another: with any driver, however long the maps
\* and whichever the flush frequency, provided that with hdf5_md every rank has a
\* part of every record. That is what the driver takes for granted: of ranks with
\* and without a queue only the first enter H5Dwrite_multi.
THEOREM CallsAgree ==
  ASSUME AllHaveParts
  PROVE  Spec => []CallsMatch
<1> DEFINE CInv == \A r \in Rank : CallInv(r) /\ NowInv(r)
<1>1. Init => CInv
  <2> SUFFICES ASSUME Init, NEW r \in Rank PROVE CallInv(r) /\ NowInv(r)
    OBVIOUS
  <2>1. pc[r] = "post" /\ rec[r] = -1 /\ cur[r] = 0 /\ calls[r] = <<>>
    BY DEF Init
  <2>2. Entered(r) = 0
    BY <2>1, Starts, PutsType DEF Entered, NCalls, Extends
  <2> QED
    BY <2>1, <2>2 DEF CallInv, NowInv
<1>2. IInv /\ CInv /\ [Next]_vars => CInv'
  <2> SUFFICES ASSUME IInv, CInv, [Next]_vars, NEW q \in Rank
               PROVE  CallInv(q)' /\ NowInv(q)'
    OBVIOUS
  <2>1. api' = api
    BY SameApi
  <2>2. ASSUME calls'[q] = calls[q], pc'[q] = pc[q], rec'[q] = rec[q], cur'[q] = cur[q],
               queue'[q] = queue[q]
        PROVE  CallInv(q)' /\ NowInv(q)'
    <3>1. Entered(q)' = Entered(q)
      BY <2>1, <2>2 DEF Entered
    <3>2. CallInv(q)'
      BY <2>1, <2>2, <3>1, StayCalls
    <3>3. NowInv(q)'
      BY <2>1, <2>2 DEF NowInv, InQueue, Selected, StepVars
    <3> QED
      BY <3>2, <3>3
  <2>3. CASE UNCHANGED vars
    BY <2>2, <2>3 DEF vars
  <2>4. ASSUME NEW r \in Rank, RankNext(r) PROVE CallInv(q)' /\ NowInv(q)'
    <3>1. CASE q = r
      BY <2>1, <2>4, <3>1, CallsKept, NowKept
    <3>2. CASE q # r
      BY <2>2, <2>4, <3>2, Others DEF IInv
    <3> QED
      BY <3>1, <3>2
  <2> QED
    BY <2>3, <2>4 DEF Next, Finished
<1>3. IInv /\ CInv => CallsMatch
  <2> SUFFICES ASSUME IInv, CInv, NEW q \in Rank, NEW r \in Rank,
                      NEW i \in DOMAIN calls[q] \cap DOMAIN calls[r]
               PROVE  calls[q][i] = calls[r][i]
    BY DEF CallsMatch
  <2>1. i \in 1 .. Len(calls[q]) /\ i \in 1 .. Len(calls[r])
    BY DEF IInv, Typed
  <2>2. IsCall(api, i, calls[q][i]) /\ IsCall(api, i, calls[r][i])
    BY <2>1 DEF CallInv
  <2> QED
    BY <2>2, OneCall
<1> QED
  BY <1>1, <1>2, <1>3, InitInv, NextInv, PTL DEF Spec
=============================================================================
