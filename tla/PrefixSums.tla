------------------------------ MODULE PrefixSums ------------------------------
(***************************************************************************)
(* Sums over the first elements of a list of natural numbers w[1 .. n], as *)
(* the loops over the variables add up lengths: Prefix(w, n)[i] is the sum *)
(* of the first i.  Likewise the concatenation of the first sequences of a *)
(* list, which FlattenSeq() computes.  Also functions defined by recursion, *)
(* numbers of members, and division.  Induction is over sets of natural    *)
(* numbers, so that no lemma takes an operator as a parameter.             *)
(***************************************************************************)
EXTENDS Integers, SequencesExt, SequenceTheorems, FiniteSetTheorems, TLAPS

IsPrefixSum(g, w, n) ==
  /\ g \in [0 .. n -> Nat]
  /\ g[0] = 0
  /\ \A i \in 1 .. n : g[i] = g[i - 1] + w[i]

Prefix(w, n) == CHOOSE g : IsPrefixSum(g, w, n)

\* A set of natural numbers that contains 0 and the successor of each of its
\* elements contains them all.
LEMMA SetInduction ==
  ASSUME NEW S, 0 \in S, \A n \in Nat : n \in S => n + 1 \in S
  PROVE  \A n \in Nat : n \in S
<1> DEFINE R == StrictSubsetOrdering(Nat)
           T == {0 .. n : n \in Nat \ S}
<1>1. SUFFICES ASSUME NEW n \in Nat, n \notin S PROVE FALSE
  OBVIOUS
<1>2. T \subseteq FiniteSubsetsOf(Nat)
  <2>1. \A m \in Nat : IsFiniteSet(0 .. m)
    BY FS_Interval
  <2> QED
    BY <2>1 DEF FiniteSubsetsOf
<1>3. IsWellFoundedOn(R, FiniteSubsetsOf(Nat)) /\ T # {}
  BY <1>1, FS_StrictSubsetOrderingWellFounded
<1> HIDE DEF R
<1>4. PICK X \in T : \A Y \in T : ~(<<Y, X>> \in R)
  BY <1>2, <1>3, WFMin, Zenon
<1>5. PICK m \in Nat \ S : X = 0 .. m
  BY <1>4
<1>6. m - 1 \in Nat \ S
  BY <1>5
<1>7. (0 .. m - 1) \subseteq 0 .. m /\ m \notin 0 .. m - 1 /\ m \in 0 .. m
  BY <1>5, <1>6
<1>8. <<0 .. m - 1, 0 .. m>> \in R
  BY <1>5, <1>6, <1>7 DEF StrictSubsetOrdering, R
<1> QED
  BY <1>4, <1>5, <1>6, <1>8

\* Every list of natural numbers has prefix sums.
LEMMA PrefixExists ==
  ASSUME NEW n \in Nat, NEW w \in [1 .. n -> Nat]
  PROVE  IsPrefixSum(Prefix(w, n), w, n)
<1> DEFINE D == {k \in Nat : k <= n => \E g : IsPrefixSum(g, w, k)}
<1>1. 0 \in D
  <2>1. IsPrefixSum([i \in 0 .. 0 |-> 0], w, 0)
    BY DEF IsPrefixSum
  <2> QED
    BY <2>1
<1>2. ASSUME NEW k \in Nat, k \in D, k + 1 <= n PROVE k + 1 \in D
  <2>1. PICK g : IsPrefixSum(g, w, k)
    BY <1>2
  <2> DEFINE h == [i \in 0 .. k + 1 |-> IF i <= k THEN g[i] ELSE g[k] + w[k + 1]]
  <2>2. g \in [0 .. k -> Nat] /\ w[k + 1] \in Nat
    BY <1>2, <2>1 DEF IsPrefixSum
  <2>3. h \in [0 .. k + 1 -> Nat] /\ h[0] = 0
    BY <2>1, <2>2 DEF IsPrefixSum
  <2>4. ASSUME NEW i \in 1 .. k + 1 PROVE h[i] = h[i - 1] + w[i]
    <3>1. CASE i <= k
      BY <2>1, <3>1 DEF IsPrefixSum
    <3>2. CASE i = k + 1
      BY <3>2
    <3> QED
      BY <3>1, <3>2
  <2>5. IsPrefixSum(h, w, k + 1)
    BY <2>3, <2>4 DEF IsPrefixSum
  <2> QED
    BY <2>5
<1>3. n \in D
  <2>1. \A k \in Nat : k \in D => k + 1 \in D
    BY <1>2
  <2> HIDE DEF D
  <2> QED
    BY <1>1, <2>1, SetInduction
<1> QED
  BY <1>3 DEF Prefix

\* Prefix sums of natural numbers grow ...
LEMMA PrefixGrows ==
  ASSUME NEW n \in Nat, NEW w \in [1 .. n -> Nat],
         NEW i \in 0 .. n, NEW j \in 0 .. n, i <= j
  PROVE  Prefix(w, n)[i] <= Prefix(w, n)[j]
<1> DEFINE g == Prefix(w, n)
           D == {k \in Nat : i + k <= n => g[i] <= g[i + k]}
<1>1. IsPrefixSum(g, w, n)
  BY PrefixExists
<1> HIDE DEF g
<1>2. 0 \in D
  BY <1>1 DEF IsPrefixSum
<1>3. ASSUME NEW k \in Nat, k \in D, i + (k + 1) <= n PROVE k + 1 \in D
  <2>1. g[i + (k + 1)] = g[i + k] + w[i + (k + 1)] /\ w[i + (k + 1)] \in Nat
    BY <1>1, <1>3 DEF IsPrefixSum
  <2>2. g[i] \in Nat /\ g[i + k] \in Nat /\ g[i] <= g[i + k]
    BY <1>1, <1>3 DEF IsPrefixSum
  <2> QED
    BY <2>1, <2>2
<1>4. j - i \in D
  <2>1. \A k \in Nat : k \in D => k + 1 \in D
    BY <1>3
  <2>2. j - i \in Nat
    OBVIOUS
  <2> HIDE DEF D
  <2> QED
    BY <1>2, <2>1, <2>2, SetInduction
<1> QED
  BY <1>4 DEF g

\* ... but not where the numbers are 0.
LEMMA PrefixStays ==
  ASSUME NEW n \in Nat, NEW w \in [1 .. n -> Nat],
         NEW i \in 0 .. n, NEW j \in 0 .. n, i <= j,
         \A k \in i + 1 .. j : w[k] = 0
  PROVE  Prefix(w, n)[i] = Prefix(w, n)[j]
<1> DEFINE g == Prefix(w, n)
           D == {k \in Nat : i + k <= j => g[i] = g[i + k]}
<1>1. IsPrefixSum(g, w, n)
  BY PrefixExists
<1> HIDE DEF g
<1>2. 0 \in D
  BY <1>1 DEF IsPrefixSum
<1>3. ASSUME NEW k \in Nat, k \in D, i + (k + 1) <= j PROVE k + 1 \in D
  <2>1. g[i + (k + 1)] = g[i + k] + w[i + (k + 1)] /\ w[i + (k + 1)] = 0
    BY <1>1, <1>3 DEF IsPrefixSum
  <2>2. g[i] \in Nat /\ g[i + k] \in Nat /\ g[i] = g[i + k]
    BY <1>1, <1>3 DEF IsPrefixSum
  <2> QED
    BY <2>1, <2>2
<1>4. j - i \in D
  <2>1. \A k \in Nat : k \in D => k + 1 \in D
    BY <1>3
  <2>2. j - i \in Nat
    OBVIOUS
  <2> HIDE DEF D
  <2> QED
    BY <1>2, <2>1, <2>2, SetInduction
<1> QED
  BY <1>4 DEF g

\* Greater numbers have greater sums.
LEMMA PrefixDominates ==
  ASSUME NEW n \in Nat, NEW w \in [1 .. n -> Nat], NEW x \in [1 .. n -> Nat],
         \A k \in 1 .. n : w[k] <= x[k],
         NEW i \in 0 .. n
  PROVE  Prefix(w, n)[i] <= Prefix(x, n)[i]
<1> DEFINE g == Prefix(w, n)
           h == Prefix(x, n)
           D == {k \in Nat : k <= n => g[k] <= h[k]}
<1>1. IsPrefixSum(g, w, n) /\ IsPrefixSum(h, x, n)
  BY PrefixExists
<1> HIDE DEF g, h
<1>2. 0 \in D
  BY <1>1 DEF IsPrefixSum
<1>3. ASSUME NEW k \in Nat, k \in D, k + 1 <= n PROVE k + 1 \in D
  <2>1. /\ g[k + 1] = g[k] + w[k + 1] /\ w[k + 1] \in Nat
        /\ h[k + 1] = h[k] + x[k + 1] /\ x[k + 1] \in Nat /\ w[k + 1] <= x[k + 1]
    BY <1>1, <1>3 DEF IsPrefixSum
  <2>2. g[k] \in Nat /\ h[k] \in Nat /\ g[k] <= h[k]
    BY <1>1, <1>3 DEF IsPrefixSum
  <2> QED
    BY <2>1, <2>2
<1>4. i \in D
  <2>1. \A k \in Nat : k \in D => k + 1 \in D
    BY <1>3
  <2>2. i \in Nat
    OBVIOUS
  <2> HIDE DEF D
  <2> QED
    BY <1>2, <2>1, <2>2, SetInduction
<1> QED
  BY <1>4 DEF g, h

\* One number more in one place.
LEMMA PrefixUpdate ==
  ASSUME NEW n \in Nat, NEW w \in [1 .. n -> Nat], NEW x \in [1 .. n -> Nat],
         NEW v \in 1 .. n, NEW d \in Nat, x[v] = w[v] + d,
         \A k \in 1 .. n : k # v => x[k] = w[k]
  PROVE  Prefix(x, n)[n] = Prefix(w, n)[n] + d
<1> DEFINE g == Prefix(w, n)
           h == Prefix(x, n)
           D == {k \in Nat : k <= n => h[k] = g[k] + (IF k < v THEN 0 ELSE d)}
<1>1. IsPrefixSum(g, w, n) /\ IsPrefixSum(h, x, n)
  BY PrefixExists
<1> HIDE DEF g, h
<1>2. 0 \in D
  BY <1>1 DEF IsPrefixSum
<1>3. ASSUME NEW k \in Nat, k \in D, k + 1 <= n PROVE k + 1 \in D
  <2>0. k + 1 \in 1 .. n /\ (k + 1) - 1 = k
    BY <1>3
  <2>1. /\ g[k + 1] = g[k] + w[k + 1] /\ w[k + 1] \in Nat
        /\ h[k + 1] = h[k] + x[k + 1] /\ x[k + 1] \in Nat
    BY <1>1, <2>0 DEF IsPrefixSum
  <2>2. g[k] \in Nat /\ h[k] = g[k] + (IF k < v THEN 0 ELSE d)
    BY <1>1, <1>3 DEF IsPrefixSum
  <2>3. x[k + 1] = w[k + 1] + (IF k + 1 = v THEN d ELSE 0)
    BY <1>3
  <2> QED
    BY <2>1, <2>2, <2>3
<1>4. n \in D
  <2>1. \A k \in Nat : k \in D => k + 1 \in D
    BY <1>3
  <2> HIDE DEF D
  <2> QED
    BY <1>2, <2>1, SetInduction
<1> QED
  BY <1>4 DEF g, h

\* Prefix sums of the same numbers are the same.
LEMMA PrefixUnique ==
  ASSUME NEW n \in Nat, NEW m \in 0 .. n, NEW w, NEW x, NEW g, NEW h,
         IsPrefixSum(g, w, n), IsPrefixSum(h, x, m), \A k \in 1 .. m : x[k] = w[k]
  PROVE  h[m] = g[m]
<1> DEFINE D == {k \in Nat : k <= m => h[k] = g[k]}
<1>1. 0 \in D
  BY DEF IsPrefixSum
<1>2. ASSUME NEW k \in Nat, k \in D, k + 1 <= m PROVE k + 1 \in D
  <2>1. g[k + 1] = g[k] + w[k + 1] /\ h[k + 1] = h[k] + x[k + 1] /\ x[k + 1] = w[k + 1]
    BY <1>2 DEF IsPrefixSum
  <2>2. h[k] = g[k]
    BY <1>2
  <2> QED
    BY <2>1, <2>2
<1>3. m \in D
  <2>1. \A k \in Nat : k \in D => k + 1 \in D
    BY <1>2
  <2>2. m \in Nat
    OBVIOUS
  <2> HIDE DEF D
  <2> QED
    BY <1>1, <2>1, <2>2, SetInduction
<1> QED
  BY <1>3

\* Equal numbers are multiplied.
LEMMA PrefixOfEquals ==
  ASSUME NEW n \in Nat, NEW w, NEW g, IsPrefixSum(g, w, n), NEW c \in Nat,
         \A k \in 1 .. n : w[k] = c,
         NEW i \in 0 .. n
  PROVE  g[i] = i * c
<1> DEFINE D == {k \in Nat : k <= n => g[k] = k * c}
<1>1. 0 \in D
  BY DEF IsPrefixSum
<1>2. ASSUME NEW k \in Nat, k \in D, k + 1 <= n PROVE k + 1 \in D
  <2>0. k + 1 \in 1 .. n /\ (k + 1) - 1 = k
    BY <1>2
  <2>1. g[k + 1] = g[k] + c
    BY <2>0 DEF IsPrefixSum
  <2>2. g[k] = k * c /\ (k + 1) * c = k * c + c
    BY <1>2
  <2> QED
    BY <2>1, <2>2
<1>3. i \in D
  <2>1. \A k \in Nat : k \in D => k + 1 \in D
    BY <1>2
  <2>2. i \in Nat
    OBVIOUS
  <2> HIDE DEF D
  <2> QED
    BY <1>1, <2>1, <2>2, SetInduction
<1> QED
  BY <1>3

\* Where the sums pass a number.
LEMMA PrefixPasses ==
  ASSUME NEW n \in Nat, NEW w, NEW g, IsPrefixSum(g, w, n),
         NEW m \in 1 .. g[n]
  PROVE  \E i \in 1 .. n : g[i - 1] < m /\ m <= g[i]
<1> SUFFICES ASSUME \A i \in 1 .. n : ~(g[i - 1] < m /\ m <= g[i]) PROVE FALSE
  OBVIOUS
<1> DEFINE D == {k \in Nat : k <= n => g[k] < m}
<1>1. g \in [0 .. n -> Nat] /\ g[0] = 0 /\ m \in Int /\ m >= 1 /\ m <= g[n]
  BY DEF IsPrefixSum
<1>2. 0 \in D
  BY <1>1
<1>3. ASSUME NEW k \in Nat, k \in D PROVE k + 1 \in D
  <2>1. SUFFICES ASSUME k + 1 <= n PROVE g[k + 1] < m
    OBVIOUS
  <2>2. g[k] < m /\ k + 1 \in 1 .. n /\ (k + 1) - 1 = k
    BY <1>3, <2>1
  <2>3. ~(g[k] < m /\ m <= g[k + 1])
    BY <2>2
  <2>4. g[k + 1] \in Nat
    BY <1>1, <2>2
  <2> QED
    BY <1>1, <2>2, <2>3, <2>4
<1>4. n \in D
  <2> HIDE DEF D
  <2> QED
    BY <1>2, <1>3, SetInduction
<1>5. g[n] \in Nat
  BY <1>1
<1> QED
  BY <1>1, <1>4, <1>5

-----------------------------------------------------------------------------
(* Functions defined by recursion: F[<<i, x>>] is what step i makes of x.   *)

IsRecursion(f, a, F, A, n) ==
  /\ f \in [0 .. n -> A]
  /\ f[0] = a
  /\ \A i \in 1 .. n : f[i] = F[<<i, f[i - 1]>>]

LEMMA RecursionExists ==
  ASSUME NEW A, NEW a \in A, NEW n \in Nat, NEW F \in [(1 .. n) \X A -> A]
  PROVE  \E f : IsRecursion(f, a, F, A, n)
<1> DEFINE D == {k \in Nat : k <= n => \E f : IsRecursion(f, a, F, A, k)}
<1>1. 0 \in D
  <2>1. IsRecursion([i \in 0 .. 0 |-> a], a, F, A, 0)
    BY DEF IsRecursion
  <2> QED
    BY <2>1
<1>2. ASSUME NEW k \in Nat, k \in D PROVE k + 1 \in D
  <2>1. SUFFICES ASSUME k + 1 <= n PROVE \E f : IsRecursion(f, a, F, A, k + 1)
    OBVIOUS
  <2>2. PICK f : IsRecursion(f, a, F, A, k)
    BY <1>2, <2>1
  <2> DEFINE t == F[<<k + 1, f[k]>>]
             h == [i \in 0 .. k + 1 |-> IF i <= k THEN f[i] ELSE t]
  <2>3. /\ f \in [0 .. k -> A] /\ f[0] = a /\ \A i \in 1 .. k : f[i] = F[<<i, f[i - 1]>>]
    BY <2>2 DEF IsRecursion
  <2>4. t \in A
    <3>1. f[k] \in A /\ k + 1 \in 1 .. n
      BY <2>1, <2>3
    <3>2. <<k + 1, f[k]>> \in (1 .. n) \X A
      BY <3>1
    <3> QED
      BY <3>2
  <2>5. t = F[<<k + 1, f[k]>>]
    OBVIOUS
  <2> HIDE DEF t
  <2>6. h \in [0 .. k + 1 -> A] /\ h[0] = a /\ \A i \in 0 .. k : h[i] = f[i]
    BY <2>3, <2>4
  <2>7. h[k + 1] = t
    OBVIOUS
  <2> HIDE DEF h
  <2>8. ASSUME NEW i \in 1 .. k + 1 PROVE h[i] = F[<<i, h[i - 1]>>]
    <3>1. CASE i <= k
      <4>1. i \in 1 .. k /\ i \in 0 .. k /\ i - 1 \in 0 .. k
        BY <3>1
      <4> QED
        BY <2>3, <2>6, <4>1
    <3>2. CASE ~(i <= k)
      <4>1. i = k + 1 /\ i - 1 = k /\ k \in 0 .. k
        BY <3>2
      <4>2. h[i - 1] = f[k]
        BY <2>6, <4>1
      <4> QED
        BY ONLY <2>5, <2>7, <4>1, <4>2
    <3> QED
      BY <3>1, <3>2
  <2> QED
    BY <2>6, <2>8 DEF IsRecursion
<1>3. \A k \in Nat : k \in D
  <2> HIDE DEF D
  <2> QED
    BY <1>1, <1>2, SetInduction
<1> QED
  BY <1>3

-----------------------------------------------------------------------------
(* The sequences of a list of sequences, one behind the other.             *)

IsConcat(g, s, S, n) ==
  /\ g \in [0 .. n -> Seq(S)]
  /\ g[0] = <<>>
  /\ \A i \in 1 .. n : g[i] = g[i - 1] \o s[i]

\* One more sequence.
LEMMA ConcatStep ==
  ASSUME NEW S, NEW n \in Nat, NEW s, s[n + 1] \in Seq(S), NEW g, IsConcat(g, s, S, n)
  PROVE  \E h : IsConcat(h, s, S, n + 1)
<1> DEFINE t == g[n] \o s[n + 1]
           h == [i \in 0 .. n + 1 |-> IF i <= n THEN g[i] ELSE t]
<1>1. /\ g \in [0 .. n -> Seq(S)] /\ g[0] = <<>>
      /\ \A i \in 1 .. n : g[i] = g[i - 1] \o s[i]
  BY DEF IsConcat
<1>2. t \in Seq(S)
  <2>1. g[n] \in Seq(S)
    BY <1>1
  <2> QED
    BY <2>1, ConcatProperties
<1>3. \A i \in 0 .. n + 1 : h[i] = IF i <= n THEN g[i] ELSE t
  BY DEF h
<1>4. h \in [0 .. n + 1 -> Seq(S)]
  <2> HIDE DEF t
  <2> QED
    BY <1>1, <1>2
<1>5. t = g[n] \o s[n + 1]
  OBVIOUS
<1> HIDE DEF h, t
<1>6. h[0] = <<>> /\ h[n] = g[n] /\ h[n + 1] = t
  BY <1>1, <1>3
<1>7. ASSUME NEW i \in 1 .. n + 1 PROVE h[i] = h[i - 1] \o s[i]
  <2>1. CASE i <= n
    <3>1. i \in 1 .. n /\ h[i] = g[i] /\ h[i - 1] = g[i - 1]
      BY <1>3, <2>1
    <3> QED
      BY <1>1, <3>1
  <2>2. CASE ~(i <= n)
    <3>1. i = n + 1 /\ i - 1 = n
      BY <2>2
    <3> QED
      BY ONLY <1>5, <1>6, <3>1
  <2> QED
    BY <2>1, <2>2
<1> QED
  BY <1>4, <1>6, <1>7 DEF IsConcat

LEMMA ConcatExists ==
  ASSUME NEW S, NEW s \in Seq(Seq(S))
  PROVE  \E g : IsConcat(g, s, S, Len(s))
<1> DEFINE n == Len(s)
           D == {k \in Nat : k <= n => \E g : IsConcat(g, s, S, k)}
<1>1. 0 \in D
  <2>1. IsConcat([i \in 0 .. 0 |-> <<>>], s, S, 0)
    BY DEF IsConcat
  <2> QED
    BY <2>1
<1>2. ASSUME NEW k \in Nat, k \in D PROVE k + 1 \in D
  <2>1. SUFFICES ASSUME k + 1 <= n PROVE \E g : IsConcat(g, s, S, k + 1)
    OBVIOUS
  <2>2. PICK g : IsConcat(g, s, S, k)
    BY <1>2, <2>1
  <2>3. s[k + 1] \in Seq(S)
    BY <2>1
  <2> QED
    BY <2>2, <2>3, ConcatStep
<1>3. n \in Nat
  OBVIOUS
<1>4. \A k \in Nat : k \in D
  <2> HIDE DEF D
  <2> QED
    BY <1>1, <1>2, SetInduction
<1> QED
  BY <1>3, <1>4

\* FlattenSeq() is the last of them.
LEMMA FlattenIsConcat ==
  ASSUME NEW S, NEW s \in Seq(Seq(S))
  PROVE  \E g : IsConcat(g, s, S, Len(s)) /\ FlattenSeq(s) = g[Len(s)]
<1> DEFINE n == Len(s)
<1>1. PICK g : IsConcat(g, s, S, n)
  BY ConcatExists
<1>2. n \in Nat /\ \A i \in 1 .. n : s[i] \in Seq(S)
  OBVIOUS
<1>3. CASE n = 0
  <2>1. FlattenSeq(s) = s /\ s = <<>>
    BY <1>3 DEF FlattenSeq
  <2>2. g[0] = <<>>
    BY <1>1 DEF IsConcat
  <2> QED
    BY <1>1, <1>3, <2>1, <2>2
<1>4. CASE n # 0
  <2> DEFINE F(f) == [i \in 1 .. n |-> IF i = 1 THEN s[i] ELSE f[i - 1] \o s[i]]
             flatten == CHOOSE f : f = F(f)
             f0 == [i \in 1 .. n |-> g[i]]
  <2>1. /\ g[0] = <<>> /\ \A i \in 1 .. n : g[i] = g[i - 1] \o s[i]
    BY <1>1 DEF IsConcat
  <2>2. g[1] = s[1]
    <3>1. 1 \in 1 .. n /\ s[1] \in Seq(S)
      BY <1>2, <1>4
    <3>2. g[1] = g[1 - 1] \o s[1]
      BY <2>1, <3>1, Zenon
    <3>3. g[1 - 1] = g[0]
      OBVIOUS
    <3>4. g[1] = <<>> \o s[1]
      BY ONLY <2>1, <3>2, <3>3
    <3> QED
      BY <3>1, <3>4, ConcatEmptySeq
  <2>3. f0 = F(f0)
    <3>1. ASSUME NEW i \in 1 .. n
          PROVE  g[i] = IF i = 1 THEN s[i] ELSE f0[i - 1] \o s[i]
      <4>1. CASE i = 1
        BY <2>2, <4>1
      <4>2. CASE i # 1
        <5>1. i - 1 \in 1 .. n
          BY <1>2, <4>2
        <5>2. f0[i - 1] = g[i - 1]
          BY <5>1
        <5> HIDE DEF f0
        <5> QED
          BY <2>1, <4>2, <5>2
      <4> QED
        BY <4>1, <4>2
    <3> QED
      BY <3>1
  <2>4. flatten = F(flatten)
    BY <2>3
  <2>5. FlattenSeq(s) = flatten[n]
    BY <1>2, <1>4 DEF FlattenSeq
  <2> HIDE DEF flatten
  <2>6. \A i \in 1 .. n : flatten[i] = IF i = 1 THEN s[i] ELSE flatten[i - 1] \o s[i]
    <3> TAKE i \in 1 .. n
    <3>1. F(flatten)[i] = IF i = 1 THEN s[i] ELSE flatten[i - 1] \o s[i]
      OBVIOUS
    <3> QED
      BY ONLY <2>4, <3>1
  <2> HIDE DEF F
  <2> DEFINE D == {k \in Nat : k + 1 <= n => flatten[k + 1] = g[k + 1]}
  <2>7. 0 \in D
    BY <1>2, <1>4, <2>2, <2>6
  <2>8. ASSUME NEW k \in Nat, k \in D PROVE k + 1 \in D
    <3>1. SUFFICES ASSUME k + 2 <= n PROVE flatten[k + 2] = g[k + 2]
      OBVIOUS
    <3>2. k + 2 \in 1 .. n /\ k + 2 # 1 /\ (k + 2) - 1 = k + 1 /\ k + 1 <= n
      BY <1>2, <3>1
    <3>3. flatten[k + 2] = flatten[k + 1] \o s[k + 2]
      BY <2>6, <3>2
    <3>4. g[k + 2] = g[k + 1] \o s[k + 2]
      BY <2>1, <3>2
    <3>5. flatten[k + 1] = g[k + 1]
      BY <2>8, <3>2
    <3> QED
      BY <3>3, <3>4, <3>5
  <2>9. flatten[n] = g[n]
    <3>1. \A k \in Nat : k \in D
      <4> HIDE DEF D
      <4> QED
        BY <2>7, <2>8, SetInduction
    <3>2. n - 1 \in Nat /\ (n - 1) + 1 = n
      BY <1>2, <1>4
    <3>3. n - 1 \in D
      BY ONLY <3>1, <3>2
    <3> QED
      BY <3>2, <3>3
  <2> QED
    BY <1>1, <2>5, <2>9
<1> QED
  BY <1>3, <1>4

\* The lengths of concatenations are the sums of the lengths ...
LEMMA ConcatLengths ==
  ASSUME NEW S, NEW n \in Nat, NEW s, \A i \in 1 .. n : s[i] \in Seq(S),
         NEW g, IsConcat(g, s, S, n)
  PROVE  IsPrefixSum([i \in 0 .. n |-> Len(g[i])], [i \in 1 .. n |-> Len(s[i])], n)
<1>1. g \in [0 .. n -> Seq(S)] /\ g[0] = <<>> /\ \A i \in 1 .. n : g[i] = g[i - 1] \o s[i]
  BY DEF IsConcat
<1>2. \A i \in 0 .. n : Len(g[i]) \in Nat
  BY <1>1, LenProperties
<1>3. Len(g[0]) = 0
  BY <1>1
<1>4. ASSUME NEW i \in 1 .. n PROVE Len(g[i]) = Len(g[i - 1]) + Len(s[i])
  <2>0. i - 1 \in 0 .. n
    OBVIOUS
  <2>1. g[i - 1] \in Seq(S) /\ s[i] \in Seq(S) /\ g[i] = g[i - 1] \o s[i]
    BY <1>1, <2>0
  <2> QED
    BY <2>1, ConcatProperties
<1> DEFINE h == [i \in 0 .. n |-> Len(g[i])]
           w == [i \in 1 .. n |-> Len(s[i])]
<1>5. /\ h \in [0 .. n -> Nat] /\ \A i \in 0 .. n : h[i] = Len(g[i])
      /\ \A i \in 1 .. n : w[i] = Len(s[i])
  BY <1>2
<1> HIDE DEF h, w
<1>6. h[0] = 0
  BY <1>3, <1>5
<1>7. ASSUME NEW i \in 1 .. n PROVE h[i] = h[i - 1] + w[i]
  <2>1. i - 1 \in 0 .. n /\ i \in 0 .. n
    OBVIOUS
  <2> QED
    BY <1>4, <1>5, <2>1
<1>8. IsPrefixSum(h, w, n)
  BY <1>5, <1>6, <1>7 DEF IsPrefixSum
<1> QED
  BY <1>8 DEF h, w

\* ... and each sequence follows those before it.
IsLaidOut(g, s, n) ==
  \A i \in 1 .. n : \A j \in 1 .. Len(s[i]) :
    /\ Len(g[i - 1]) + j \in 1 .. Len(g[n])
    /\ g[n][Len(g[i - 1]) + j] = s[i][j]

LEMMA ConcatElements ==
  ASSUME NEW S, NEW n \in Nat, NEW s, \A i \in 1 .. n : s[i] \in Seq(S),
         NEW g, IsConcat(g, s, S, n)
  PROVE  IsLaidOut(g, s, n)
<1> SUFFICES ASSUME NEW i \in 1 .. n, NEW j \in 1 .. Len(s[i])
             PROVE  /\ Len(g[i - 1]) + j \in 1 .. Len(g[n])
                    /\ g[n][Len(g[i - 1]) + j] = s[i][j]
  BY DEF IsLaidOut
<1> DEFINE p == Len(g[i - 1]) + j
           D == {k \in Nat : i + k <= n => /\ p \in 1 .. Len(g[i + k])
                                          /\ g[i + k][p] = s[i][j]}
<1>1. g \in [0 .. n -> Seq(S)] /\ \A k \in 1 .. n : g[k] = g[k - 1] \o s[k]
  BY DEF IsConcat
<1>2. /\ g[i - 1] \in Seq(S) /\ s[i] \in Seq(S) /\ g[i] = g[i - 1] \o s[i]
      /\ Len(g[i - 1]) \in Nat /\ Len(s[i]) \in Nat
  <2>1. i - 1 \in 0 .. n
    OBVIOUS
  <2> QED
    BY <1>1, <2>1, LenProperties
<1>3. p \in 1 .. Len(g[i]) /\ g[i][p] = s[i][j]
  <2> DEFINE a == g[i - 1]
             b == s[i]
  <2>1. a \in Seq(S) /\ b \in Seq(S) /\ g[i] = a \o b /\ j \in 1 .. Len(b)
    BY <1>2
  <2>2. p = Len(a) + j
    OBVIOUS
  <2> HIDE DEF a, b, p
  <2>3. Len(a \o b) = Len(a) + Len(b) /\ Len(a) \in Nat /\ Len(b) \in Nat
    BY <2>1, ConcatProperties, LenProperties
  <2>4. p \in Nat /\ p >= 1 /\ p <= Len(a) + Len(b) /\ p > Len(a) /\ p - Len(a) = j
    BY <2>1, <2>2, <2>3
  <2>5. (a \o b)[p] = b[j]
    BY <2>1, <2>3, <2>4, ConcatProperties
  <2> QED
    BY <2>1, <2>3, <2>4, <2>5 DEF b
<1>4. p \in Nat
  BY <1>2
<1> HIDE DEF p
<1>5. 0 \in D
  <2>1. i + 0 = i
    OBVIOUS
  <2> QED
    BY <1>3, <2>1
<1>6. ASSUME NEW k \in Nat, k \in D PROVE k + 1 \in D
  <2>1. SUFFICES ASSUME i + (k + 1) <= n
                 PROVE  p \in 1 .. Len(g[i + (k + 1)]) /\ g[i + (k + 1)][p] = s[i][j]
    OBVIOUS
  <2>2. p \in 1 .. Len(g[i + k]) /\ g[i + k][p] = s[i][j]
    BY <1>6, <2>1
  <2>3. /\ i + k \in 0 .. n /\ i + (k + 1) \in 1 .. n /\ (i + (k + 1)) - 1 = i + k
    BY <2>1
  <2> DEFINE a == g[i + k]
             b == s[i + (k + 1)]
  <2>4. a \in Seq(S) /\ b \in Seq(S) /\ g[i + (k + 1)] = a \o b
    BY <1>1, <2>3
  <2>5. p \in 1 .. Len(a) /\ a[p] = s[i][j]
    BY <2>2
  <2> HIDE DEF a, b
  <2>6. p \in 1 .. Len(a \o b) /\ (a \o b)[p] = a[p]
    BY <1>4, <2>4, <2>5, ConcatProperties, LenProperties
  <2> QED
    BY <2>4, <2>5, <2>6
<1>7. n - i \in D
  <2>1. n - i \in Nat
    OBVIOUS
  <2> HIDE DEF D
  <2> QED
    BY <1>5, <1>6, <2>1, SetInduction
<1>8. i + (n - i) = n
  OBVIOUS
<1> QED
  BY <1>7, <1>8 DEF p
-----------------------------------------------------------------------------
(* How many of the numbers below k are in a set, as for the time steps      *)
(* after which a program flushes.                                          *)

CountBelow(F, k) == Cardinality({j \in 0 .. k - 1 : j \in F})

\* There is one more after a member, none at first, and most at the end.
LEMMA CountBelowProperties ==
  ASSUME NEW F, NEW n \in Nat
  PROVE  /\ \A k \in Int : CountBelow(F, k) \in Nat
         /\ \A k \in Nat : CountBelow(F, k + 1) =
              IF k \in F THEN CountBelow(F, k) + 1 ELSE CountBelow(F, k)
         /\ CountBelow(F, -1) = 0 /\ CountBelow(F, 0) = 0
         /\ \A k \in Int : k <= n => CountBelow(F, k) <= CountBelow(F, n)
<1> DEFINE B(k) == {j \in 0 .. k - 1 : j \in F}
<1>1. \A k \in Int : IsFiniteSet(B(k)) /\ Cardinality(B(k)) \in Nat
  <2> SUFFICES ASSUME NEW k \in Int
               PROVE  IsFiniteSet(B(k)) /\ Cardinality(B(k)) \in Nat
    OBVIOUS
  <2>1. IsFiniteSet(0 .. k - 1)
    BY FS_Interval
  <2>2. B(k) \in SUBSET (0 .. k - 1)
    OBVIOUS
  <2> QED
    BY <2>1, <2>2, FS_Subset, FS_CardinalityType
<1>2. ASSUME NEW k \in Nat
      PROVE  CountBelow(F, k + 1) = IF k \in F THEN CountBelow(F, k) + 1 ELSE CountBelow(F, k)
  <2>1. CASE k \in F
    <3>1. B(k + 1) = B(k) \cup {k} /\ k \notin B(k)
      BY <2>1
    <3>2. IsFiniteSet(B(k))
      BY <1>1
    <3> HIDE DEF B
    <3>3. Cardinality(B(k) \cup {k}) = Cardinality(B(k)) + 1
      BY <3>1, <3>2, FS_AddElement
    <3>4. Cardinality(B(k + 1)) = Cardinality(B(k)) + 1
      BY <3>1, <3>3
    <3> QED
      BY <2>1, <3>4 DEF CountBelow, B
  <2>2. CASE k \notin F
    <3>1. B(k + 1) = B(k)
      BY <2>2
    <3> QED
      BY <2>2, <3>1 DEF CountBelow
  <2> QED
    BY <2>1, <2>2
<1>3. CountBelow(F, -1) = 0 /\ CountBelow(F, 0) = 0
  <2>1. B(-1) = {} /\ B(0) = {}
    OBVIOUS
  <2> QED
    BY <2>1, FS_EmptySet DEF CountBelow
<1>4. ASSUME NEW k \in Int, k <= n PROVE CountBelow(F, k) <= CountBelow(F, n)
  <2>1. B(k) \in SUBSET B(n)
    BY <1>4
  <2> QED
    BY <1>1, <2>1, FS_Subset DEF CountBelow
<1> QED
  BY <1>1, <1>2, <1>3, <1>4 DEF CountBelow
-----------------------------------------------------------------------------
(* Division.                                                               *)

Positive == Nat \ {0}

\* Division with remainder.
LEMMA DivMod ==
  ASSUME NEW n \in Nat, NEW d \in Positive
  PROVE  /\ n \div d \in Nat
         /\ n % d \in 0 .. d - 1
         /\ n % d \in Nat
         /\ n = d * (n \div d) + (n % d)
  BY Z3 DEF Positive

\* Products of natural numbers grow with their factors.
LEMMA TimesMonotone ==
  ASSUME NEW a \in Nat, NEW b \in Nat, NEW d \in Nat, a <= b
  PROVE  /\ d * a \in Nat
         /\ d * b \in Nat
         /\ d * a <= d * b
<1>1. b = a + (b - a) /\ b - a \in Nat
  OBVIOUS
<1>2. d * a \in Nat /\ d * b \in Nat /\ d * (b - a) \in Nat
  BY <1>1
<1>3. d * b = d * a + d * (b - a)
  BY <1>1, Z3
<1> QED
  BY <1>2, <1>3

\* Quotient and remainder are unique.
LEMMA DivUnique ==
  ASSUME NEW n \in Nat, NEW d \in Positive, NEW q \in Nat, NEW r \in 0 .. d - 1,
         n = d * q + r
  PROVE  n \div d = q /\ n % d = r
<1> DEFINE p == n \div d
           s == n % d
<1>1. p \in Nat /\ s \in 0 .. d - 1 /\ n = d * p + s
  BY DivMod
<1> HIDE DEF p, s
<1>2. d \in Nat
  BY DEF Positive
<1>3. ASSUME NEW a \in Nat, NEW b \in Nat, NEW x \in 0 .. d - 1, NEW y \in 0 .. d - 1,
             d * a + x = d * b + y
      PROVE  ~ a < b
  <2>1. SUFFICES ASSUME a + 1 <= b PROVE FALSE
    OBVIOUS
  <2>2. d * (a + 1) \in Nat /\ d * b \in Nat /\ d * (a + 1) <= d * b /\ d * a \in Nat
    BY <1>2, <2>1, TimesMonotone
  <2>3. d * (a + 1) = d * a + d
    BY <1>2, Z3
  <2> QED
    BY <1>2, <1>3, <2>2, <2>3
<1>4. ~ p < q /\ ~ q < p
  BY <1>1, <1>3
<1>5. p = q
  BY <1>1, <1>4
<1>6. d * q \in Nat
  BY <1>2
<1>7. s = r
  BY <1>1, <1>2, <1>5, <1>6
<1> QED
  BY <1>5, <1>7 DEF p, s

\* A quotient by a factor of a bound is below the other factor.
LEMMA DivBelow ==
  ASSUME NEW n \in Nat, NEW d \in Positive, NEW m \in Nat, n < d * m
  PROVE  n \div d \in 0 .. m - 1
<1>1. n \div d \in Nat /\ n % d \in 0 .. d - 1 /\ n = d * (n \div d) + (n % d) /\ d \in Nat
  BY DivMod DEF Positive
<1> DEFINE q == n \div d
<1>2. q \in Nat /\ d * q <= n
  <2>1. d * q \in Nat
    BY <1>1
  <2> QED
    BY <1>1, <2>1
<1> HIDE DEF q
<1>3. SUFFICES ASSUME m <= q PROVE FALSE
  BY <1>2 DEF q
<1>4. d * m \in Nat /\ d * q \in Nat /\ d * m <= d * q
  BY <1>1, <1>2, <1>3, TimesMonotone
<1> QED
  BY <1>2, <1>4

\* Dividing by a product is dividing by its factors in turn: the third
\* coordinate can be taken of the offset or of its remainder.
LEMMA DivTwice ==
  ASSUME NEW n \in Nat, NEW d \in Positive, NEW e \in Positive
  PROVE  /\ d * e \in Positive
         /\ (n % (d * e)) % d = n % d
         /\ (n % (d * e)) \div d \in 0 .. e - 1
         /\ n \div d = (n \div (d * e)) * e + (n % (d * e)) \div d
<1>1. d * e \in Positive /\ d \in Nat /\ e \in Nat
  <2>1. d \in Nat /\ e \in Nat /\ d > 0 /\ e > 0
    BY DEF Positive
  <2>2. d * 1 \in Nat /\ d * e \in Nat /\ d * 1 <= d * e
    BY <2>1, TimesMonotone
  <2> QED
    BY <2>1, <2>2 DEF Positive
<1> DEFINE de == d * e
           x  == n \div de
           m  == n % de
           y  == m \div d
           z  == m % d
<1>2. x \in Nat /\ m \in 0 .. de - 1 /\ n = de * x + m
  BY <1>1, DivMod
<1>3. m \in Nat /\ m < d * e
  BY <1>1, <1>2 DEF Positive
<1>4. y \in Nat /\ z \in 0 .. d - 1 /\ m = d * y + z
  BY <1>3, DivMod
<1>5. y \in 0 .. e - 1
  BY <1>1, <1>3, DivBelow
<1>6. n = d * (e * x + y) + z
  <2> HIDE DEF x, m, y, z
  <2>1. n = (d * e) * x + (d * y + z) /\ z \in Nat
    BY <1>2, <1>4, <1>1
  <2>2. (d * e) * x = d * (e * x) /\ d * (e * x + y) = d * (e * x) + d * y
    BY <1>1, <1>2, <1>4, Z3
  <2>3. (d * e) * x \in Nat /\ d * y \in Nat /\ d * (e * x) \in Nat
    BY <1>1, <1>2, <1>4, <2>2
  <2> QED
    BY <2>1, <2>2, <2>3
<1>7. e * x + y \in Nat
  BY <1>1, <1>2, <1>4
<1>8. n \div d = e * x + y /\ n % d = z
  <2> HIDE DEF x, m, y, z
  <2> QED
    BY <1>4, <1>6, <1>7, DivUnique
<1>9. e * x = x * e
  BY <1>1, <1>2
<1> QED
  BY <1>1, <1>5, <1>8, <1>9
=============================================================================
